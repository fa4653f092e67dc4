CONSTANTS
    Inputs <- MCInputs
    Tags <- MCTags
    Steps <- MCSteps
    Targets <- MCTargets
    Interesting = {0, 128, 65535}
    ArithDeltas = {1}
    Bits = {0, 15}
    RandomSign = FALSE
    GradVals <- MCGradVals
    MaxOps = 3
SPECIFICATION Spec
INVARIANTS
    TypeOK
    WriteReadIdentity
    AddRoundTrip
    LsbStep
    ProbesHitPoles
    EndianInferred
PROPERTIES
    MetadataKeepsBytes
    MetadataKeepsLayout
CHECK_DEADLOCK FALSE
