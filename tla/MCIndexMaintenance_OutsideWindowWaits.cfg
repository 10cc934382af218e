CONSTANTS
    r1 = r1
    v1 = v1
    ReindexTasks = {r1}
    VerifyTasks = {v1}
    NoTask = NoTask
    SpawnMayFail = FALSE
    MaxStarts = 1
SPECIFICATION FairSpec
PROPERTY OutsideWindowWaits
