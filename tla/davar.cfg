CONSTANTS
    Words <- MCWords
    Lower <- MCLower
    Code <- MCCode
    TABLE_SIZE = 2
    ServerTable <- MCServerTable
    ServerMem <- MCServerMem
    ClientTable <- MCClientTable
    ClientMem <- MCClientMem
    ListPatterns <- MCListPatterns
    ImportPatterns <- MCImportPatterns
    Tests <- MCTests
    Waits = {1}
    Writes <- MCWrites
    MAXHANDLES = 1
    MaxCalls = 2
    MaxEvents = 1
    MaxNames = 2
SPECIFICATION FairSpec
INVARIANTS
    ListsKeepCounts
PROPERTIES
    SnapshotOfOneMoment
    ImportIsComplete
    CallReturns
    QueueDrains
CHECK_DEADLOCK FALSE
