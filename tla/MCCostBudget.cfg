SPECIFICATION Spec
CONSTANTS
    MaxUint = 1023
    Limit = 10
    CRDLimit = 20
    Unbounded = Unbounded
    CRDs <- MCCRDs
INVARIANTS
    TypeOK
    CostsSound
    RaisedReported
    PercentHonest
    UnboundedExplained
