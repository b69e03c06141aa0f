SPECIFICATION Spec
CONSTANTS
  Numbers = {n1, n2}
  Backends = {"file", "dual_write", "postgres"}
  Nobody = Nobody
  Lists <- AllNumbers
  MaxSaves = 3
  MaxFaults = 1
  MaxCrashes = 1
INVARIANTS
  PromisesCovered
  OptOutsAreDurable
PROPERTY NoTextAfterStop
CONSTRAINT ThirdOrBoth
SYMMETRY NumberSymmetry
CHECK_DEADLOCK FALSE
