SPECIFICATION Spec
CONSTANTS
    ProjectWrites = {project}
    ReviewWrites = {}
    AliasCorrections = {}
    Connects = {connect}
    AccountChanges = {account}
    SignIns = {signin}
    Deletions = {delete}
    Places = {}
    Releases = {}
    Sweeper = Sweeper
    NoOp = NoOp
    Collections = {"oauth", "projects"}
    Seed = Seed
    MaxFaults = 1
    MaxCrashes = 1
CONSTRAINT OneKindOfWriter
INVARIANTS
    DeletionInvariant
    NoResurrection
    InventoryIsComplete
    CompletedMeansGone
PROPERTIES
    OperationIsStable
    OnlyExpiredAccountsAreSwept
    KeepsContract
