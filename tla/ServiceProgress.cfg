SPECIFICATION FairSpec
CONSTANTS
  rc1 = rc1
  rc2 = rc2
  ExtensionNames = {rc1, rc2}
  SeqNumbers = {1, 2}
  Keys <- MixedKeys
  Lists <- MixedLists
  Copies = {1, 2}
  MaxConcurrent = 1
  MaxETag = 2
  MaxCrashes = 0
  Faults = {"hang"}
PROPERTIES
  RoomAgain
  CaughtUp
  VerdictGiven
CHECK_DEADLOCK FALSE
