\* One relaunch may fail.
CONSTANTS
    MaxLaunches = 2
    LaunchMayFail = TRUE
    SpawnMayFail = FALSE
SPECIFICATION FairSpec
PROPERTY AlwaysRestored
CHECK_DEADLOCK FALSE
