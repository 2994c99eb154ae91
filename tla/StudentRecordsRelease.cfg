SPECIFICATION Spec
CONSTANTS
    ProjectWrites = {}
    ReviewWrites = {}
    AliasCorrections = {}
    Connects = {}
    AccountChanges = {}
    SignIns = {}
    Deletions = {delete}
    Places = {place, again}
    Releases = {release}
    Sweeper = Sweeper
    NoOp = NoOp
    Collections = {"projects"}
    Seed = Seed
    MaxFaults = 4
    MaxCrashes = 0
INVARIANTS
    ReleaseReclosesWrites
