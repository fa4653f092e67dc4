\* One-bit bytes and MAX_INPUT_LEN 4; the budgets 45 and 45 are cut to 1
\* and 1 per run_ratio unit, and the ratio is its smallest, 2 (an edge
\* count below a third of the average).  max_stacking 64 is cut to 2:
\* two stacked steps reach every length from 1 to the cap.  run returns,
\* so its end state has no successor.
CONSTANTS
    ByteBits = 1
    MaxInputLen = 4
    Seeds <- MCSeeds
    Inputs <- MCInputs
    EdgeNums = {1}
    AvgEdgeNums = {4}
    StateTimes = 1
    HandlerMaxTimes = 100
    MAX_SPLICE_TIMES = 1
    MAX_HAVOC_FLIP_TIMES = 1
    HavocStacking = 2
    Interesting <- MCInteresting
    ArithDeltas = {1}
SPECIFICATION Spec
INVARIANT TypeOK
INVARIANT HavocSafe
INVARIANT BudgetSpent
PROPERTY Termination
CHECK_DEADLOCK FALSE
