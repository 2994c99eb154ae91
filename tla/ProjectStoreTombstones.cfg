SPECIFICATION FairSpec
CONSTANTS
    Projects = {p}
    Creates = {}
    Updates = {}
    Deletes = {delete}
    ReviewCreates = {copy}
    ReviewEdits = {edit}
    Purger = Purger
    Sweeps = TRUE
    Seed = Seed
    Sizes = {1, 2}
    MaxSize = 2
    MaxProjects = 2
    MaxBytes = 3
    MaxLost = 2
    MaxAmbiguous = 0
    MaxCrashes = 1
PROPERTIES
    ReviewsGoFirst
    TombstonesGo
