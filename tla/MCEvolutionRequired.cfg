SPECIFICATION Spec
CONSTANTS
    NoCRD = NoCRD
    CRD <- BranchRequiringCRDs
    Legacy <- BranchRequiringCRDs
INVARIANTS
    ObjectsStayValid
