SPECIFICATION Spec
CONSTANTS
    Nil = Nil
    root = root
    spec = spec
    size = size
    items = items
    Walker = {w1, w2}
    Cell = {c1, c2, c3}
    Slack = 1
    Node <- MCNode
    Parent <- MCParent
    Rank <- MCRank
SYMMETRY MCSymmetry
INVARIANTS
    TypeOK
    CellsExclusive
    AncestryExact
    PathsOfAncestors
    PredOnce
    FalseMeansAll
PROPERTIES
    ImplementsVisit
    WalkAdvances
