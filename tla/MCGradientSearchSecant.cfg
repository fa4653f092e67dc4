\* The plateau program from the lowest byte and the middle, checking that
\* each partial gradient is the secant slope of the probes.
CONSTANTS
    Programs = {"quarter"}
    CondOf <- MCCondOf
    Arg1 <- MCArg1
    Reach <- MCReach
    Seeds = {0, 130}
    VarSets <- MCVarSets
    StateTimes = 1
    Interesting = 0
    RandomBytes = {3, 150}
    SegSigned = FALSE
    MaxEpoch = 4
    MAX_NUM_MINIMAL_OPTIMA_ROUND = 2
SPECIFICATION Spec
INVARIANT GradientSecant
CHECK_DEADLOCK FALSE
