CONSTANTS
    MaxLines = 2
    MaxGen = 2
SPECIFICATION TransportSpec
INVARIANTS
    StopsAccountForTrials
    RowsReconstructOwnEvent
