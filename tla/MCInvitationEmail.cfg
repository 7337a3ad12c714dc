CONSTANTS
  Invitation = {i1, i2}
  Worker = {w1, w2}
  MaxAttempts = 2
  MaxStalled = 1
  MaxFailures = 3
  Null = Null
SPECIFICATION FairSpec
CHECK_DEADLOCK FALSE
INVARIANTS
  TypeOK
  CompletedMeansDelivered
  DuplicatesExplained
PROPERTY EveryJobSettles
