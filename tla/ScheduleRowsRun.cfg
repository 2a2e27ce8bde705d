\* Two callers and one classifier over one one-time schedule.
CONSTANTS
    Callers = {a, b}
    Workers = {w}
    Once = {o1}
    Series = {}
    Titles = {t1, t2}
    Categories = {work}
    Occurrences <- OneDay
    Replaced <- NoReplaced
    Rules = {}
    MaxRevision = 2
    Ahead = 2
    Patches <- FieldPatches
    Keep = Keep
    NoSession = NoSession
    NoCategory = NoCategory
    s1 = s1
    t2 = t2
    r1 = r1
SPECIFICATION Spec
SYMMETRY MCSymmetry
INVARIANTS TypeOK
PROPERTIES ImplementsLedger VersionsAdvance
