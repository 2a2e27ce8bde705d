CONSTANTS
    Calls <- MCCalls
    Composed <- MCComposed
    Asks <- MCAsks
    Workers = 1
    MaxCancels = 2
SPECIFICATION Spec
INVARIANTS
    TypeOK
    AppliedIsReported
    MappingsAgree
PROPERTIES
    ImplementsPromise
    CallsEnd
CHECK_DEADLOCK FALSE
