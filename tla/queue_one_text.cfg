SPECIFICATION FairSpec
CONSTANTS
  Sids = {m1}
  MaxAttempts = 2
  Parts = 2
  Rest = TRUE
  MaxPosts = 2
  MaxCrashes = 1
INVARIANTS  CompletedIsSent ProcessingHasWorker 
  
CHECK_DEADLOCK FALSE
