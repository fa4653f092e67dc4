\* One worker: its branch table from allocation through runs, a timeout
\* retried once (TMOUT_SKIP 3 cut to 1: a retry clears the table as the
\* first attempt does), crashes, and one forkserver restart, composed
\* with has_new and dedup_crash.
CONSTANTS
    w1 = w1
    e1 = e1
    e2 = e2
    x1 = x1
    x2 = x2
    Cells <- MCCells
    Sigs <- MCSigs
    Traces <- MCTraces
    MaxReports = 2
    Workers <- OneWorker
    TMOUT_SKIP = 1
    MaxRestarts = 1
SPECIFICATION TableSpec
INVARIANT TableTypeOK
INVARIANT CoverageRecorded
