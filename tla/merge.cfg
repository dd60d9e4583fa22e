CONSTANTS
    Ids <- MCIds
    NotInteger = NotInteger
    MaxRows = 3
SPECIFICATION Spec
INVARIANTS
    RowsMatchEvents
    DiesForAReason
PROPERTIES
    OldOutputKeptUntilIndexed
    ImplementsJoin
