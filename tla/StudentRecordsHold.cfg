SPECIFICATION Spec
CONSTANTS
    ProjectWrites = {}
    ReviewWrites = {review}
    AliasCorrections = {}
    Connects = {}
    AccountChanges = {}
    SignIns = {}
    Deletions = {delete}
    Places = {place}
    Releases = {release}
    Sweeper = Sweeper
    NoOp = NoOp
    Collections = {"reviews"}
    Seed = Seed
    MaxFaults = 1
    MaxCrashes = 1
INVARIANTS
    TypeOK
    HoldSuspendsPurge
PROPERTIES
    HeldRecordsAreFrozen
    KeepsContract
