SPECIFICATION MCSpec
CONSTANTS
    KnownComparators <- TwoKnown
    Unknown <- MCUnknown
    Request = {r1, r2}
    Review <- MCReview
INVARIANTS
    TypeOK
    FaultsDenied
    RoundTrip
    ErrorsAreOwn
PROPERTIES
    EveryRequestAnswered
