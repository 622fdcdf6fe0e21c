CONSTANTS
    h1 = h1
    h2 = h2
    fo = fo
    vr = vr
    vra = vra
    sar = sar
    NoData = NoData
    Handlers <- MC_Handlers
    Selectors <- MC_Selectors
    FailedOp = fo
    ValidationResult = vr
    Extends <- MC_Extends
SPECIFICATION Spec
INVARIANTS
    NamedAnswersClassified
