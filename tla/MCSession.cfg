SPECIFICATION Spec
CONSTANTS
    Branches = {"ions"}
    CameraNames = {"top", "side"}
    StashNames = {"kept"}
    FirstFile <- MCFirstFile
    MaxProcess = 3
    MaxActs = 2
    MaxTicks = 2
INVARIANTS
    AutosaveSurvives
    CamerasRight
    FilesReadBack
PROPERTIES
    AskedBeforeLoss
CHECK_DEADLOCK FALSE
