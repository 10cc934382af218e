\* Three tables of one row: two are searched for a document, one is not.
CONSTANTS
    s1 = s1
    s2 = s2
    d1 = d1
    d2 = d2
    q = q
    NumTables = 3
    NumKnown = 2
    Named = {1}
    Slots = {s1}
    Docnums = {d1, d2, q}
    Quoted = {q}
    NoRow = NoRow
    All = All
    Nothing = Nothing
    NoRequest = NoRequest
    FetchMayFail = TRUE
    MaxForeign = 2
SPECIFICATION Spec
INVARIANTS TypeOK RepeatChangesNothing
PROPERTY ImplementsRecordService
SYMMETRY Symmetry
