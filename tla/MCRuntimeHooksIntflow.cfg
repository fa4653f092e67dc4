\* The integer-overflow hook: the signed probes disagree with their objective.
CONSTANTS
    ByteBits = 3
    Sizes <- MCSizes
    Sites <- MCIntflowSites
    Vals <- MCVals
    SResults <- MCSResults
    UResults <- MCUResults
    Labels = {0, 1, 2}
    SignedLabels = {2}
SPECIFICATION Spec
INVARIANT HookObjectiveAgrees
