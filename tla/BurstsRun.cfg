\* Two bursts, a message and a fan-out on one session; every task may end.
CONSTANTS
    Sessions = {s1}
    Bursts = {b1, b2}
    Senders = {m1}
    Fanouts = {f1}
    MaxChunks = 1
    None = None
SPECIFICATION FairSpec
INVARIANTS TypeOK BurstsAreWhole
PROPERTIES BurstsGiveWay
CHECK_DEADLOCK FALSE
