SPECIFICATION Spec
CONSTANTS
    ProjectWrites = {}
    ReviewWrites = {}
    AliasCorrections = {}
    Connects = {}
    AccountChanges = {}
    SignIns = {}
    Deletions = {delete}
    Places = {}
    Releases = {}
    Sweeper = Sweeper
    NoOp = NoOp
    Collections = {"projects"}
    Seed = Seed
    MaxFaults = 0
    MaxCrashes = 0
PROPERTIES
    CompletionIsFinal
