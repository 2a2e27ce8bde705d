\* Two streams on one connection; a closed connection stops.
CONSTANTS
    Streams = {s1, s2}
    MaxQueue = 2
    MaxAudio = 4
    None = None
SPECIFICATION StreamFairSpec
INVARIANTS StreamTypeOK StreamsAreRead
PROPERTIES InputGetsThrough
CHECK_DEADLOCK FALSE
