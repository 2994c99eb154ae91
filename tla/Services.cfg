SPECIFICATION ServicesSpec
CONSTANTS
    Uploads = {u1, u2, u3}
    Callers = {i1, i2}
    HeavyLimit = 1
    HeavyEach = 1
    NormalLimit = 2
    NormalEach = 1
    RoomCodes = {k1, k2}
    Seats = {s1, s2}
    Streams = {t1, t2}
    FinishAt = 2
    MaxRooms = 2
    MaxPlayers = 2
    MaxStreams = 1
    Deploys = {d1, d2}
    Rollbacks = {back}
    Revisions = {v2}
    First = v1
    MaxTransitions = 3
    MaxFaults = 2
    MaxRestarts = 1
    Browsers = {b1, b2}
    Visits = {w1, w2}
    Passwords = {secret}
    SetupIds = {id}
    Identities = {provider}
    MaxCodes = 2
    MaxVersion = 3
SYMMETRY Alike
INVARIANTS
    SlotsAreAccounted
    RaceIsFair
    StreamsAreCurrent
    OneBrowserAtATime
    CodesAreUsedOnce
PROPERTIES
    ReportsAreTrue
    HeldTombstonesStay
CHECK_DEADLOCK FALSE
