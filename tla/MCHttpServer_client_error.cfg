\* Misbehaving clients and starts that succeed.
CONSTANTS
    c1 = c1
    c2 = c2
    c3 = c3
    Clients = {c1, c2}
    NoClient = NoClient
    MayMisbehave = TRUE
    StartMayFail = FALSE
    MaxStarts = 2
SPECIFICATION Spec
INVARIANT ServesWhileRunning
\* A stopped server that may not be started again, and a server nobody
\* connects to, rest.
CHECK_DEADLOCK FALSE
