SPECIFICATION FairSpec
CONSTANTS
    r1 = r1
    r2 = r2
    j1 = j1
    s1 = s1
    Jobs = {j1}
    Requests = {r1, r2}
    Stops = {s1}
    NoSession = NoSession
    Workers = 1
CHECK_DEADLOCK FALSE
INVARIANTS TypeOK SessionHasListener RegisteredWatched RemovableAtEnd StrayOnlyAfterTimeout
PROPERTY SessionsEnd
