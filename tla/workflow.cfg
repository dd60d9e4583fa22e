CONSTANTS
    r1 = r1
    r2 = r2
    Runs <- MCTwoRuns
    MaxEvents = 2
    CleanScratch = TRUE
SPECIFICATION Spec
INVARIANTS
    ProgramsFindTheirInputs
    ExitStatusTells
    MergedFromOwnRun
PROPERTIES
    EndedRunsStayAsTheyAre
