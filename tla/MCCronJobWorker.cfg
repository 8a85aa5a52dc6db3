SPECIFICATION FairSpec
CONSTANTS
    Instances = {i1, i2}
    Nobody = Nobody
    Ttl = 2
    MaxSkew = 1
    MaxDelay = 1
    Horizon = 8
    MaxFaults = 1
    MaxCrashes = 1
INVARIANTS
    TypeOK
    PunctualLeaderOwns
    TasksOnlyOfLeader
PROPERTIES
    TasksKeepRunning
CHECK_DEADLOCK FALSE
