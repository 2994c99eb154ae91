SPECIFICATION QuotaSpec
CONSTANTS
    First = p
    Second = q
    Third = s
    MaxArrivals = 3
    Projects = {p, q, s}
    Creates = {create, retry}
    Updates = {update}
    Deletes = {delete}
    ReviewCreates = {}
    ReviewEdits = {}
    Purger = Purger
    Sweeps = FALSE
    Seed = Seed
    Sizes = {1, 2}
    MaxSize = 2
    MaxProjects = 2
    MaxBytes = 3
    MaxLost = 1
    MaxAmbiguous = 1
    MaxCrashes = 0
SYMMETRY CreatesAreAlike
CONSTRAINT FewArrive
INVARIANTS
    QuotaIsExact
    QuotaFailsClosed
    LimitsHold
    OneFailureIsRolledBack
CHECK_DEADLOCK FALSE
