SPECIFICATION Spec
CONSTANTS
    KnownComparators <- MCKnown
    Unknown <- MCUnknown
INVARIANTS
    DisabledNotRun
