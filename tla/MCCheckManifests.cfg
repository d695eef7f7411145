SPECIFICATION Spec
CONSTANTS
    KnownComparators <- MCKnown
    Unknown <- MCUnknown
INVARIANTS
    TypeOK
    ZeroMeansChecked
    NothingSwallowed
    DisabledNotRunIfAnyLeft
PROPERTIES
    Terminates
