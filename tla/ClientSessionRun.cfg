SPECIFICATION Spec
CONSTANTS
    Sessions = {s1, s2}
    Retries = {r1}
    MaxRestarts = 1
INVARIANTS
    TypeOK
    AccountIsAlone
PROPERTY
    ClientGoesOn
CHECK_DEADLOCK FALSE
