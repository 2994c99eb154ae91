SPECIFICATION SyncSpec
CONSTANTS
    Students = {s1, s2}
    First = s1
    Nobody = Nobody
    Edits = 2
    Loads = {l1, l2}
    Budgets <- MCSignOut
INVARIANT
    SignedOutWorkIsSynced
CHECK_DEADLOCK FALSE
