\* The default max_priority, u16::MAX (here 2^W - 1 = 15): inc never saturates.
CONSTANTS
    w1 = w1
    w2 = w2
    c1 = c1
    c2 = c2
    c3 = c3
    c4 = c4
    NoCond = NoCond
    Workers <- MCWorkers
    Conds <- MCConds
    Op <- MCOp
    InitConds <- MCInitConds
    BornDone <- MCBornDone
    W = 4
    MaxPriority = 15
SPECIFICATION Spec
CHECK_DEADLOCK FALSE
INVARIANT PriorityClass
