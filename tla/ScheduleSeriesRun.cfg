\* Two callers on a series with a replaced occurrence.
CONSTANTS
    Callers = {a, b}
    Workers = {}
    Once = {r1}
    Series = {s1}
    Titles = {t1}
    Categories = {}
    Occurrences <- ThreeDays
    Replaced <- MCReplaced
    Rules <- MCRules
    MaxRevision = 1
    Ahead = 1
    Patches <- RulePatches
    Keep = Keep
    NoSession = NoSession
    NoCategory = NoCategory
    s1 = s1
    t2 = t2
    r1 = r1
SPECIFICATION FairSpec
INVARIANTS InsertNeverCollides RevisionGuards
PROPERTIES ImplementsLedger CommandsEnd
