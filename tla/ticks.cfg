SPECIFICATION FairSpec
CONSTANTS
  Execs = {x1, x2}
  WorkerDriven = FALSE
  RetryLimit = 1
  MaxSends = 2
INVARIANTS FollowUpsAlone LockHasOwner SecondReminderHasReason
PROPERTY DueIsSwept
