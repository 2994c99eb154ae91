SPECIFICATION PartsSpec
CONSTANTS
    Students = {s1, s2}
    First = s1
    Nobody = Nobody
    Edits = 2
    Loads = {l1, l2}
    Budgets <- MCBudgets
    Requests = {r1, r2, r3, r4}
    Closers = {c1, c2, c3}
    Objects = {o1, o2, o3}
    None = None
INVARIANTS
    SyncTypeOK
    EditsSurvive
    HandoffSavesAll
    NoForeignProjects
    LeasesAreCounted
    NoLostWakeup
    NoIdleEntry
PROPERTIES
    WorkspaceOpens
    CloserPasses
    ImplementsContract
CHECK_DEADLOCK FALSE
