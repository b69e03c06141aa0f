SPECIFICATION Spec
CONSTANTS
  Ids = {a}
  Backend = "file"
  FileSnapshot = FALSE
  DiskFaults = FALSE
  MinGuard = 9
  MaxVersion = 3
  MaxCrashes = 0
  TodoIds = {}
  SlowIds = {}
INVARIANT QuietFileIsCurrent
