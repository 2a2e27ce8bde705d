\* Two calls on one session, whose vendor may also answer unasked.
CONSTANTS
    MaxResponses = 2
    MaxSpeech = 2
    MaxStreams = 2
    MaxWire = 2
    Spontaneous = TRUE
SPECIFICATION CallSpec
INVARIANT CallTypeOK
PROPERTY RepliesInOrder
CHECK_DEADLOCK FALSE
