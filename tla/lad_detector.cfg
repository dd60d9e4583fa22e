CONSTANTS
    IniFiles <- MCIniFiles
    Sine <- MCSine
    Cosine <- MCCosine
    Probed <- MCProbed
    LundFiles <- MCLundFiles
    RunLengths <- MCRunLengths
    MaxRuns = 2

SPECIFICATION MCSpec

INVARIANTS
    PiecesDoNotOverlap
    VolumesNest
    StandsHoldTogether
    HitsNameTheirBar
    GemHitsNameTheirPlane
    DriftGapFacesTheTarget
    ScanMeetsEveryBar
    LundEventsAreTheirRecords

\* The program ends after its runs, or where the LUND file does.
CHECK_DEADLOCK FALSE
