SPECIFICATION Spec
CONSTANTS
  rc1 = rc1
  rc2 = rc2
  poll = poll
  worker = worker
  ExtensionNames = {rc1, rc2}
  SeqNumbers = {1, 2}
  Keys <- UpdateKeys
  Statuses = {"empty", "transitioning", "success", "error"}
  Callers = {poll}
  Poller = poll
  MaxCalls = 4
  Faults = {"put", "crash"}
INVARIANTS
  TypeOK
  AggregateComplete
CHECK_DEADLOCK FALSE
