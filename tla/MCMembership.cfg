SPECIFICATION Spec
CONSTANTS
    N = 3
    Seeds <- MCSeeds
    MaxConns = 4
INVARIANTS
    TypeOK
    PairKeepsConnection
PROPERTY
    MeshConverges
CHECK_DEADLOCK FALSE
