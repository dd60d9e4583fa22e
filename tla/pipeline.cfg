CONSTANTS
    MaxEntries = 4
    MaxExact = 4
    NotInteger = NotInteger
    NtupleSize = 3
    nev = 2
    MaxStream = 3
    MaxId = 6
    Specs <- MCSpecs
    Ids = {0, 1}
    MaxLines = 2
    MaxRows = 2
SPECIFICATION MCSpec
INVARIANTS
    MergedRowsAreOneEvent
    MergeFailsForSkippedEvents
    AllAcceptedAreMerged
    RowsAreWhole
    SelectionIsExact
