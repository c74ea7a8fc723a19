SPECIFICATION Spec
CONSTANTS
  rc1 = rc1
  rc2 = rc2
  ExtensionNames = {rc1, rc2}
  SeqNumbers = {1, 2}
  Keys <- UpdateKeys
  Lists <- UpdateLists
  Copies = {1, 2}
  MaxConcurrent = 1
  MaxETag = 2
  MaxCrashes = 1
  Faults = {"fetch", "signature", "early", "enable", "hang"}
INVARIANTS
  TypeOK
  CapRespected
  RunsOnce
  OneVerdict
CHECK_DEADLOCK FALSE
