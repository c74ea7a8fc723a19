SPECIFICATION FairSpec
CONSTANTS
  Versions = {1, 2}
  Settings <- Settings3
  MaxFaults = 2
INVARIANTS
  TypeOK
  EnableLasts
  DisableStops
  UpdateTakesOver
  NothingLeft
PROPERTIES
  UninstallSpares
  UpdateDone
