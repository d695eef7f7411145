SPECIFICATION Spec
CONSTANTS
    NoCRD = NoCRD
    CRD <- BranchedCRDs
    Legacy <- BranchedCRDs
INVARIANTS
    TypesKept
