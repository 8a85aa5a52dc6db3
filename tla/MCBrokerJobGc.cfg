\* Two jobs and a GC batch of one: the backlog exceeds the batch.
SPECIFICATION GcSpec
CONSTANTS
    Jobs = {j1, j2}
    NoJob = NoJob
    Modes = {"async"}
    Watchers = {}
    GcBatch = 1
    MaxEngineCrash = 0
    MaxBrokerCrash = 0
    CanExpire = TRUE
    DbMayFail = FALSE
    ReportMayFail = FALSE
    NetMayFail = TRUE
PROPERTIES ExpiredResultsDeleted
CHECK_DEADLOCK FALSE
