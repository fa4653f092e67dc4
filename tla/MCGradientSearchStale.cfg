\* First visit of b == 100 from byte 250 with a two-byte variables
\* snapshot whose first byte improves f and whose reverse does not.
CONSTANTS
    Programs = {"eq"}
    CondOf <- MCCondOf
    Arg1 <- MCArg1
    Reach <- MCReach
    Seeds = {250}
    VarSets <- MCVarSetsStale
    StateTimes = 1
    Interesting = 0
    RandomBytes = {3, 150}
    SegSigned = FALSE
    MaxEpoch = 4
    MAX_NUM_MINIMAL_OPTIMA_ROUND = 2
SPECIFICATION Spec
INVARIANT FCurrFresh
CHECK_DEADLOCK FALSE
