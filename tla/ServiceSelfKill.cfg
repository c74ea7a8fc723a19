SPECIFICATION FairSpec
CONSTANTS
  rc1 = rc1
  rc2 = rc2
  ExtensionNames = {rc1, rc2}
  SeqNumbers = {1, 2}
  Keys <- UpdateKeys
  Lists <- UpdateLists
  Copies = {1}
  MaxConcurrent = 2
  MaxETag = 2
  MaxCrashes = 0
  Faults = {}
INVARIANT TurnedAwayWasProcessed
