SPECIFICATION Spec
CONSTANTS
    Jobs = {1, 2}
    Agents = {a1}
    Ttl <- SnapshotAndTest
    Forever <- MCForever
    StaleTimeout = 5
    RetryDelay = 2
    RequeueMaxAge = 7
    MaxAttempts = 2
    ReportAttempts = 2
    ReportTimeout = 1
    PrintTime = 1
    MaxFaults = 2
    Horizon = 8
INVARIANT TypeOK CompletedMeansPaper SecondPaperExplained RetryCountsAttempts
PROPERTY EverySlipKeepsPromise NoStaleHandover
