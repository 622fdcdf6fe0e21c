CONSTANTS
    Chain = "other"
    RestLen = 448
    RestNonZero = 24
    CallGas = 60000
    ValidationGas <- MC_ValidationGas
    InitialOps <- MC_InitialOps
    Signatures <- MC_Signatures
    Blocks <- MC_L1Blocks
    MaxBlocks = 1
    MaxEstimates = 2
SPECIFICATION Spec
INVARIANTS
    FilledEstimateAccepted
CHECK_DEADLOCK FALSE
