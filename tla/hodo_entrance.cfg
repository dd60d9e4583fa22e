CONSTANTS
    IniFiles <- MCIniFiles
    Sine <- MCSine
    Cosine <- MCCosine
    Probed <- MCProbed
    LundFiles <- MCLundFiles
    RunLengths <- MCRunLengths
    MaxRuns = 2

SPECIFICATION MCSpec

INVARIANTS
    EveryEntranceHasAPosition
CHECK_DEADLOCK FALSE
