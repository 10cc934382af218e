------------------------------ MODULE MCStartup ------------------------------
EXTENDS Startup

CONSTANTS f1, k1, k2, t1

\* A file that passes validate(), and one with a tunnel and a port that does not.
GoodConfig == [database |-> f1, key |-> k1, port |-> 8787, token |-> t1]
BadConfig == [database |-> f1, key |-> k1, port |-> 1023, token |-> t1]

MCFileConfigs == {GoodConfig, BadConfig}

\* The edges of the two port checks.
MCPortAnswers == {-1, 0, 1, 1023, 65535, 65536}
=============================================================================
