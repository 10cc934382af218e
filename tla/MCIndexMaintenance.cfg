\* Two tasks of each kind, a restarted worker and a failing thread creation.
CONSTANTS
    r1 = r1
    v1 = v1
    v2 = v2
    ReindexTasks = {r1}
    VerifyTasks = {v1, v2}
    NoTask = NoTask
    SpawnMayFail = TRUE
    MaxStarts = 2
SPECIFICATION FairSpec
INVARIANTS TypeOK TaskConserved NoLostTaskWakeup NeverStuck
PROPERTIES ImplementsRetryQueue ImplementsStoppableThread StopTerminates EventuallySettled
