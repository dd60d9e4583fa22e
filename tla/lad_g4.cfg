CONSTANTS
    w1 = w1
    w2 = w2
    Workers <- MCOneWorker
    MaxEvents = 3
    MayMiss = TRUE
SPECIFICATION FairSpec
INVARIANTS
    PrimariesFromOwnEntry
    HodoEntriesHoldOwnHits
    MisalignedGemShows
    BreaksOffAfterTheSample
PROPERTIES
    FilesAreWritten
