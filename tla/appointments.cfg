SPECIFICATION Spec
CONSTANTS
  Calendars = {ann, bob}
  Times = {ten, noon}
  Workers = {w1, w2}
  None = None
  Lanes <- AllLanes
  Before <- OneOfEachKind
  MaxJobs = 2
  MaxTroubles = 1
INVARIANTS TypeOK NoStrayEvent RecordIsLive
PROPERTY SweepSettles
CHECK_DEADLOCK FALSE
