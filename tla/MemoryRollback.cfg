SPECIFICATION Spec
CONSTANTS
  Users <- UsersDef
  Satellites <- SatellitesDef
  Holdings <- HoldingsDef
  Cached <- CachedDef
  Uploads <- UploadOffset
  Rounds = 1
  Attempts = 2
  MaxActs = 2
  Faults = {}
  Backlog = 1
INVARIANT RollbackRestores
CHECK_DEADLOCK FALSE
