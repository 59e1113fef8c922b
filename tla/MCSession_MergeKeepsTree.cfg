SPECIFICATION Spec
CONSTANTS
    Branches = {"ions"}
    CameraNames = {"top", "side"}
    StashNames = {"kept"}
    FirstFile <- MCFirstFile
    MaxProcess = 3
    MaxActs = 2
    MaxTicks = 2
PROPERTIES
    MergeKeepsTree
CHECK_DEADLOCK FALSE
