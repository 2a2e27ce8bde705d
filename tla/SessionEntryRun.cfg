SPECIFICATION Spec
CONSTANTS
    Conns = {c1, c2, c3}
    Limit = 2
    Workers = 1
INVARIANTS
    TypeOK
    CountsMatch
PROPERTY
    HandshakeEnds
CHECK_DEADLOCK FALSE
