SPECIFICATION Spec
CONSTANTS
  rc1 = rc1
  rc2 = rc2
  poll = poll
  worker = worker
  ExtensionNames = {rc1, rc2}
  SeqNumbers = {1, 2}
  Keys <- RacingKeys
  Statuses = {"transitioning", "success"}
  Callers = {poll, worker}
  Poller = poll
  MaxCalls = 3
  Faults = {"read", "write", "put", "crash"}
INVARIANT TerminalKept
PROPERTY HgapNeverForgets
CHECK_DEADLOCK FALSE
