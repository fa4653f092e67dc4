\* Two workers, 4-bit priorities (DONE = 15), max_priority 9: every
\* condition saturates to DONE after at most four write-backs.
CONSTANTS
    w1 = w1
    w2 = w2
    c1 = c1
    c2 = c2
    c3 = c3
    c4 = c4
    NoCond = NoCond
    Workers <- MCWorkers
    Conds <- MCConds
    Op <- MCOp
    InitConds <- MCInitConds
    BornDone <- MCBornDone
    W = 4
    MaxPriority = 9
SPECIFICATION Spec
\* The process exits once every worker has left its loop.
CHECK_DEADLOCK FALSE
INVARIANT TypeOK
INVARIANT ExclusiveOwnership
INVARIANT PriorityClass
PROPERTY NoStarvation
PROPERTY Termination
PROPERTY DepotRefined
