SPECIFICATION Spec
CONSTANTS
  Sids = {m1, m2}
  MaxAttempts = 1
  Parts = 1
  Rest = TRUE
  MaxPosts = 1
  MaxCrashes = 1
SYMMETRY SidSymmetry
INVARIANTS AckedNeverLost
CHECK_DEADLOCK FALSE
