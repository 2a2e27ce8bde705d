\* Two streams on one conversation, one turn a session.
CONSTANTS
    Turns = {t1, t2}
    Keys = {k1}
    Modes <- BothModes
    Sessions = {m1}
    Locks = {l1, l2}
    TurnBudget = 1
    None = None
SPECIFICATION FairSpec
INVARIANTS TypeOK PoolIsSound LocksAreSound
PROPERTY TurnsComeThrough
