\* The memory-argument hook: a solved probe without the effect it is for.
CONSTANTS
    ByteBits = 3
    Sizes <- MCSizes
    Sites <- MCMemSites
    Vals <- MCVals
    SResults <- MCSResults
    UResults <- MCUResults
    Labels = {0, 1, 2}
    SignedLabels = {2}
SPECIFICATION Spec
INVARIANT ExploitSolvedMeansTarget
