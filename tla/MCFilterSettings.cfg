SPECIFICATION SettingsSpec
CONSTANTS
    Kinds <- AllKinds
    RangeData <- MCRanges
    MaxEdits = 3
INVARIANTS
    CachesRight
    CopyKeepsSettings
    StateFileKeepsSettings
    MasksMatch
    IndicesInBounds
PROPERTIES
    RefreshKeepsSettings
CHECK_DEADLOCK FALSE
