\* Operand sizes 1 and 2: the larger sizes follow the same code with wider
\* constants, beyond TLC's 32-bit integers.
CONSTANTS
    Kinds <- MCKinds
    Preds <- MCPreds
    Sizes <- MCSizes
    Vals <- MCVals
    ByteBits = 8
SPECIFICATION Spec
INVARIANT SolverSolvedMeansTaken
