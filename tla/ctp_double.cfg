CONSTANTS
    INT_MAX = 127
    Literals <- MCLiterals
    Files <- MCFiles
    MainFiles <- MCMainFiles
    Events <- MCEvents
    EVENTVAR <- MCEventVar
    HostReg <- MCReg
    HostMem <- MCMem
    Settings <- MCSettings
    Garbage <- MCGarbage
    Holds <- MCHolds
    MAX_LOADS = 3
    MAX_EVENTS = 2
    MAX_SETTINGS = 1
SPECIFICATION MCSpec
INVARIANTS
    DynamicParametersGrow
\* The program makes no more calls.
CHECK_DEADLOCK FALSE
