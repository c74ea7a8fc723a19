SPECIFICATION Spec
CONSTANTS
  NumProcs = 3
  Numbers = {0, 1}
  Treated = {0, 1}
  Async = {0}
  Embedded = {0}
  MaxMishaps = 1
  Faults = {"environment", "disk", "status", "pid", "prepare", "group"}
INVARIANTS
  TypeOK
  ScriptOnce
  OneScript
  FailureSeen
  Settled
PROPERTIES
  NewestLast
  KillsOlder
CHECK_DEADLOCK FALSE
