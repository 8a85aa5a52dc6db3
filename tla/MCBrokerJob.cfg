\* One job, every kind of submission and every failure once.
SPECIFICATION FairSpec
CONSTANTS
    Jobs = {j1}
    NoJob = NoJob
    Modes = {"async", "sync", "dry"}
    Watchers = {w1}
    GcBatch = 1
    MaxEngineCrash = 1
    MaxBrokerCrash = 1
    CanExpire = TRUE
    DbMayFail = TRUE
    ReportMayFail = TRUE
    NetMayFail = TRUE
INVARIANTS TypeOK ResultOnlyWhenOver SettledIsAnswered SecondLookFinds OutputNamesKnown
PROPERTIES NeverReopened ResultWrittenOnce RunningJobsEnd
CHECK_DEADLOCK FALSE
