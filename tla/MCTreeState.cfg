SPECIFICATION Spec
CONSTANTS
    d1 = d1
    r1 = r1
    r2 = r2
    r3 = r3
    Values = {d1, r1, r2, r3}
    Kind <- MCKind
    DataSources = {"data"}
    Invalid = {r3}
    Stashes <- MCStashes
    MaxUndo = 1
    MaxSize = 3
INVARIANTS
    TypeOK
    FilesKeepTree
    UndoMenuHasEntry
    MapExact
PROPERTIES
    MoveKeepsFilters
    ImplementsUndoHistory
CHECK_DEADLOCK FALSE
