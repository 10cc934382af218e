\* Three launches, every failure allowed.
CONSTANTS
    MaxLaunches = 3
    LaunchMayFail = TRUE
    SpawnMayFail = TRUE
SPECIFICATION FairSpec
INVARIANTS NoOrphan AtMostOneTunnel NoHandleLeak NeverStuck
PROPERTIES StopTerminates TunnelRestored ImplementsStoppableThread
\* The owner need not start a stopped tunnel again.
CHECK_DEADLOCK FALSE
