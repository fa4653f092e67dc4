\* The first visit of the linear, guarded, signed and one-point programs
\* from both ends of the byte and the middle, with no snapshot or a
\* one-byte one.  max_epoch and the restart bound are cut from 25 and 8
\* to 4 and 2: every arm of run is taken within them.  run returns, so
\* the end state has no successor.
CONSTANTS
    Programs = {"eq", "ugt", "sle", "ne", "top"}
    CondOf <- MCCondOf
    Arg1 <- MCArg1
    Reach <- MCReach
    Seeds = {0, 7, 130, 255}
    VarSets <- MCVarSets
    StateTimes = 1
    Interesting = 0
    RandomBytes = {3, 150}
    SegSigned = FALSE
    MaxEpoch = 4
    MAX_NUM_MINIMAL_OPTIMA_ROUND = 2
SPECIFICATION Spec
INVARIANT TypeOK
INVARIANT RestartFresh
INVARIANT SolvedExitTaken
INVARIANT OneByteExhaustive
PROPERTY Termination
CHECK_DEADLOCK FALSE
