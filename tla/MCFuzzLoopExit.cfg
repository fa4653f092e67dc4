\* A worker finding the queue empty while the other fuzzes the last live condition.
CONSTANTS
    w1 = w1
    w2 = w2
    c1 = c1
    c2 = c2
    c3 = c3
    c4 = c4
    NoCond = NoCond
    Workers <- MCWorkers
    Conds <- MCConds
    Op <- MCOp
    InitConds <- MCInitConds
    BornDone <- MCBornDone
    W = 4
    MaxPriority = 9
SPECIFICATION Spec
CHECK_DEADLOCK FALSE
INVARIANT NoPrematureExit
