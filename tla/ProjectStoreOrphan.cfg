SPECIFICATION Spec
CONSTANTS
    Projects = {p}
    Creates = {}
    Updates = {}
    Deletes = {delete}
    ReviewCreates = {copy}
    ReviewEdits = {}
    Purger = Purger
    Sweeps = TRUE
    Seed = Seed
    Sizes = {1, 2}
    MaxSize = 2
    MaxProjects = 2
    MaxBytes = 3
    MaxLost = 0
    MaxAmbiguous = 0
    MaxCrashes = 0
INVARIANT
    DeletionTakesTheReview
