SPECIFICATION Spec
CONSTANTS
    KnownComparators <- MCKnown
    Unknown <- MCUnknown
    Test <- MCTest
    Listing <- MCListing
INVARIANTS
    SameVerdict
    SameFlags
    SameReport
    TestsAgree
    TestVouches
