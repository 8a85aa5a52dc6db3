SPECIFICATION FairSpec
CONSTANTS
    Issuer = a
    Data = {a, b, c}
    Schemas <- Columns
    Dests = {1, 2}
    Privs = {"plain", "hidden"}
    NoPriv = NoPriv
    NoTable = NoTable
    NoSession = NoSession
    Unknown = Unknown
    Stores <- OneStale
    Modes = {"run", "dry"}
    RetryTimes = 2
    Changes <- Changed
    MaxEvents = 1
INVARIANTS
    TypeOK
    ViewsTaken
PROPERTIES
    QueryEnds
    StaleRowsRepaired
CHECK_DEADLOCK FALSE
