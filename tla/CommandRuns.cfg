SPECIFICATION FairSpec
CONSTANTS
  Names = {"a", "b", "script.sh"}
  InlineName = "script.sh"
  Items <- MCItems
  MaxArtifacts = 1
  Statuses <- MCStatuses
  BlobSettings <- MCBlobSettings
  MaxOutput <- MCMaxOutput
  MaxLost = 1
  DiskFails = TRUE
INVARIANTS
  TypeOK
  ScriptWhole
  EveryDownloaderTried
  OutputComplete
PROPERTIES
  BlobShipped
  ResultLast
  Returns
CHECK_DEADLOCK FALSE
