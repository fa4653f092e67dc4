CONSTANTS
    Inputs <- MCInputs
    Tags <- MCTagsOdd
    Steps <- MCSteps
    Targets <- MCTargets
    Interesting = {0, 128, 65535}
    ArithDeltas = {1}
    Bits = {0, 15}
    RandomSign = FALSE
    GradVals <- MCGradVals
    MaxOps = 3
SPECIFICATION Spec
INVARIANT SegmentsTile
CHECK_DEADLOCK FALSE
