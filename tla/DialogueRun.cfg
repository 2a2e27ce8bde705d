\* Three utterances with up to two tool calls each.
CONSTANTS
    MaxTurns = 3
    MaxRounds = 2
    Kinds = {"confirmation", "recurrence_scope", "missing_field"}
SPECIFICATION Spec
INVARIANTS TypeOK WellPaired DeleteIsAnswered
CHECK_DEADLOCK FALSE
