SPECIFICATION Spec
CONSTANTS
    KnownComparators <- TwoKnown
    Unknown <- MCUnknown
    Request = {r1}
    Review <- MCReview
INVARIANTS
    CleanAllowed
