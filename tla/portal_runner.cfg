SPECIFICATION Spec
CONSTANTS
  Computers = {a, b}
  Tasks = {t1, t2}
  Nobody = Nobody
  Manager = Manager
  MaxNames = 1
  Attempts = 2
  Window = 2
  Rows = 3
  Budgets <- PortalBudgets
INVARIANTS
  DraftTwiceHasReason
  RetiredStaysOut
  RetryPromiseKept
CONSTRAINT FirstDraft
SYMMETRY PortalSymmetry
CHECK_DEADLOCK FALSE
