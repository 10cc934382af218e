\* Well-behaved clients.
CONSTANTS
    c1 = c1
    c2 = c2
    c3 = c3
    Clients = {c1, c2}
    NoClient = NoClient
    MayMisbehave = FALSE
    StartMayFail = FALSE
    MaxStarts = 2
SPECIFICATION FairSpec
PROPERTY StopReturns
\* A stopped server that may not be started again, and a server nobody
\* connects to, rest.
CHECK_DEADLOCK FALSE
