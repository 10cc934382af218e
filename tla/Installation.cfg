CONSTANT MaxStarts = 2
SPECIFICATION InstallationFairSpec
INVARIANTS InstallationTypeOK DatabaseOutlivesThreads QuietWhenStopped RunningIsWhole NeverStuck
PROPERTIES StopAnswered StartAnswered ExitEnds StopTold RemovalEnds ImplementsStoppableThread
CHECK_DEADLOCK FALSE
