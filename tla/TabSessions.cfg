SPECIFICATION Spec
CONSTANTS
    Tabs = {t1, t2}
    Students = {s1, s2}
    Nobody = Nobody
    t1 = t1
    t2 = t2
    Starts <- MCStarts
    First = s1
INVARIANT
    SignOutWaitsForTabs
PROPERTY
    NoLateAnswer
    TabsRecover
CHECK_DEADLOCK FALSE
