CONSTANTS
    MaxCallGas = 16
    Tolerance = 2
    BlockGasLimit = 20

SPECIFICATION Spec
INVARIANTS EstimateWithinTolerance SearchBracketsNeed
PROPERTIES EstimateRefined
