\* A cancellation races the watcher's round.
SPECIFICATION Spec
CONSTANTS
    Jobs = {j1}
    NoJob = NoJob
    Modes = {"async"}
    Watchers = {w1}
    GcBatch = 1
    MaxEngineCrash = 0
    MaxBrokerCrash = 0
    CanExpire = FALSE
    DbMayFail = FALSE
    ReportMayFail = FALSE
    NetMayFail = FALSE
INVARIANT CanceledIsAnswered
CHECK_DEADLOCK FALSE
