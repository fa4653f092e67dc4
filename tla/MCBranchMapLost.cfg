\* Two workers racing between the read and the write lock.
CONSTANTS
    w1 = w1
    w2 = w2
    e1 = e1
    e2 = e2
    x1 = x1
    x2 = x2
    Cells <- MCCells
    Sigs <- MCSigs
    Traces <- MCTraces
    MaxReports = 2
    Workers <- TwoWorkers
SPECIFICATION Spec
INVARIANT CoverageRecorded
