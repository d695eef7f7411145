SPECIFICATION Spec
CONSTANTS
    NoCRD = NoCRD
    CRD <- RequiringCRDs
    Legacy = {}
INVARIANTS
    ReapplyClean
