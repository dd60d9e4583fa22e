CONSTANTS
    MaxLines = 4
    MaxGen = 3
SPECIFICATION FairSpec
INVARIANTS
    RowsAreCoherent
    OneEventPerAttempt
    NormalisesCompleteSample
PROPERTY Terminates
