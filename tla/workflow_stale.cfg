CONSTANTS
    r1 = r1
    r2 = r2
    Runs <- MCOneRun
    MaxEvents = 1
    CleanScratch = FALSE
SPECIFICATION Spec
INVARIANTS
    MergedFromOwnRun
