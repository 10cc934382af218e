CONSTANT MaxStarts = 2
SPECIFICATION FairSpec
PROPERTY FailureIsRestarted
CHECK_DEADLOCK FALSE
