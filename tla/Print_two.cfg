\* Two agents on one queue, with the code's three attempts and three reports; a print
\* may outlast the stale timeout.
SPECIFICATION FairSpec
CONSTANTS
    Jobs = {1}
    Agents = {a1, a2}
    Ttl <- OneTest
    Forever <- MCForever
    StaleTimeout = 3
    RetryDelay = 1
    RequeueMaxAge = 5
    MaxAttempts = 3
    ReportAttempts = 3
    ReportTimeout = 1
    PrintTime = 4
    MaxFaults = 2
    Horizon = 6
INVARIANT OnePrinterPerJob
PROPERTY EveryJobSettles
