CONSTANTS
    GENESIS_HASH = GENESIS_HASH
    Decisions = {"allow", "deny"}
    MaxEntries = 4
    MaxAlterations = 2
    Missing = Missing
    Torn = Torn
SPECIFICATION Spec
\* a process that finds a torn file cannot start
CHECK_DEADLOCK FALSE
INVARIANTS
    UnalteredVerifies
    AlterationIsFound
    SavedIsMemory
