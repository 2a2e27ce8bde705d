SPECIFICATION Spec
CONSTANTS
    Requests = {"r1", "r2", "r3"}
    Clients = {"c1", "c2"}
    Spellings = {"ann", " ann", "x"}
    Stripped <- MCStripped
    Passwords = {"first", "second", "blank"}
    Unacceptable = {"blank"}
    Inputs <- MCInputs
    None = None
    ClientLimit = 1
    GlobalLimit = 2
    Window = 2
    TTLs = {1, 2}
    MaxTime = 2
    MaxRestarts = 1
INVARIANTS
    TypeOK
    AccountsAreSound
    WindowBounds
PROPERTY
    RequestsEnd
CHECK_DEADLOCK FALSE
