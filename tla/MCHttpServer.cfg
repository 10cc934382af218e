\* Clients that hang up and send garbage, a start that may fail, a restart.
CONSTANTS
    c1 = c1
    c2 = c2
    c3 = c3
    Clients = {c1, c2, c3}
    NoClient = NoClient
    MayMisbehave = TRUE
    StartMayFail = TRUE
    MaxStarts = 2
SPECIFICATION FairSpec
INVARIANTS QuietAfterStop NeverStuck
PROPERTIES Served StopReturnsOnceMet ImplementsStoppableThread
\* A stopped server that may not be started again, and a server nobody
\* connects to, rest.
CHECK_DEADLOCK FALSE
