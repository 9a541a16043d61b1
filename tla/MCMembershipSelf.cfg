SPECIFICATION Spec
CONSTANTS
    N = 3
    Seeds <- MCSeedsAlias
    MaxConns = 4
INVARIANT
    NoSelfPeer
CHECK_DEADLOCK FALSE
