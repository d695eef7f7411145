SPECIFICATION Spec
CONSTANTS
    NoCRD = NoCRD
    CRD <- AllCRDs
    Legacy <- AllCRDs
INVARIANTS
    RatchetOnlyShrinks
    LocationsKept
    FieldsKept
    LoneTypesKept
    ObjectsStayValid
    ConditionsSound
    ReapplyQuiet
    CreateParity
