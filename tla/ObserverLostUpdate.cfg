SPECIFICATION FairSpec
CONSTANTS
  rc1 = rc1
  rc2 = rc2
  poll = poll
  worker = worker
  ExtensionNames = {rc1, rc2}
  SeqNumbers = {1, 2}
  Keys <- TwoKeys
  Statuses = {"transitioning", "success"}
  Callers = {poll, worker}
  Poller = poll
  MaxCalls = 2
  Faults = {}
INVARIANT TerminalSaved
CHECK_DEADLOCK FALSE
