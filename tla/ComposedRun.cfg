\* Two streams of one session, replies that fill the queues.
CONSTANTS
    Modes = {"continuous", "push_to_talk"}
    LastStream = 2
    MaxFinals = 2
    Replies = {1}
    QueueSize = 1
SPECIFICATION ComposedFairSpec
INVARIANTS ComposedTypeOK SpeechIsSound
PROPERTIES NobodyWaitsForEver
CHECK_DEADLOCK FALSE
