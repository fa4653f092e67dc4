\* Reproduction: a seed of five bytes, longer than MAX_INPUT_LEN 4.  afl_len
\* skips it, but the first clone of havoc computes max_len - byte_len in
\* u32 and panics (wraps, then slices out of bounds, in a release build).
CONSTANTS
    ByteBits = 1
    MaxInputLen = 4
    Seeds <- MCLongSeeds
    Inputs <- MCInputs
    EdgeNums = {1}
    AvgEdgeNums = {4}
    StateTimes = 1
    HandlerMaxTimes = 100
    MAX_SPLICE_TIMES = 1
    MAX_HAVOC_FLIP_TIMES = 1
    HavocStacking = 2
    Interesting <- MCInteresting
    ArithDeltas = {1}
SPECIFICATION Spec
INVARIANT HavocSafe
CHECK_DEADLOCK FALSE
