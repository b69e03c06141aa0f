SPECIFICATION FairSpec
CONSTANTS
  Ids = {a}
  Backend = "postgres"
  FileSnapshot = FALSE
  DiskFaults = FALSE
  MinGuard = 9
  MaxVersion = 2
  MaxCrashes = 0
  TodoIds = {}
  SlowIds = {}
PROPERTIES EventuallyInPostgres EventuallyDeleted OutageReachesFile
