\* One folder, a valid and an invalid configuration in four places.
CONSTANTS
    f1 = f1
    k1 = k1
    k2 = k2
    t1 = t1
    Folders = {f1}
    Keys = {k1, k2}
    BuiltInKey = k2
    Tokens = {t1}
    Empty = Empty
    FileConfigs <- MCFileConfigs
    PortAnswers <- MCPortAnswers
    Absent = Absent
    Broken = Broken
    Denied = Denied
    NoConfig = NoConfig
SPECIFICATION FairSpec
INVARIANTS TypeOK ConfigFromOneSource SetupOnlyWhenAsked NeverStuck
PROPERTY UnattendedEnds
