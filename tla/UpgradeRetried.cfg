SPECIFICATION Spec
CONSTANTS
  rc1 = rc1
  rc2 = rc2
  ExtensionNames = {rc1, rc2}
  DottedNames = {rc2}
  PartOf <- Parts
  SeqNumbers = {0, 1}
  Environments <- Moves
  FirstVersionNoRehydration <- V27
  MaxAttempts = 2
  Faults = {"crash", "io", "report", "dummy"}
INVARIANTS
  TypeOK
  NoRerun
PROPERTIES
  RetryRepairs
  StatusReturned
CHECK_DEADLOCK FALSE
