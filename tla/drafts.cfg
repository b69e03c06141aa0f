SPECIFICATION FairSpec
CONSTANTS
  MaxTurns = 2
  MaxSends = 2
  MaxRows = 3
  MaxStarts = 4
  MaxRestarts = 1
INVARIANTS
  RecordMatchesCarrier
  NeedsReplyPaired
PROPERTIES
  HoldStandsAlone
  WordsOfStaffStay
  HoldSurfaces
CHECK_DEADLOCK FALSE
