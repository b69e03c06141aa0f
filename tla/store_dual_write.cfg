SPECIFICATION Spec
CONSTANTS
  Ids = {a, b}
  Backend = "dual_write"
  FileSnapshot = FALSE
  DiskFaults = TRUE
  MinGuard = 2
  MaxVersion = 2
  MaxCrashes = 1
  TodoIds = {a, b}
  SlowIds = {a, b}
INVARIANTS CoveredOrPersisted TodosCovered TrackedIsPending
PROPERTY NoDangerousShrink
CONSTRAINT OneOrPlain
SYMMETRY IdSymmetry
