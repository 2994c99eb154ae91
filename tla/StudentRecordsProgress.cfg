SPECIFICATION FairSpec
CONSTANTS
    ProjectWrites = {}
    ReviewWrites = {}
    AliasCorrections = {alias}
    Connects = {}
    AccountChanges = {}
    SignIns = {}
    Deletions = {}
    Places = {place}
    Releases = {release}
    Sweeper = Sweeper
    NoOp = NoOp
    Collections = {"projects"}
    Seed = Seed
    MaxFaults = 1
    MaxCrashes = 1
PROPERTIES
    EveryRequestEnds
    PendingIsDeleted
    ReceiptIsFinished
