SPECIFICATION WriteSpec
CONSTANTS
  MaxWrites = 4
  MaxDeaths = 1
INVARIANTS
  OneAtATime
  QuietMapIsEmpty
PROPERTY KeepsPromise
CHECK_DEADLOCK FALSE
