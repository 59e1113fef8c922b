\* Six is more than the real-valued property accepts.
CONSTANTS
    Kind <- MCKind
    Defaults <- MCDefaults
    Frames <- MCFrames
    Values <- MCValues
    MaxValue <- MCMaxValue
    MaxAdds = 2
SPECIFICATION AnimationSpec
CHECK_DEADLOCK FALSE
INVARIANTS
    FramesShowAnimation
    TreeComesBack
    FrameViewShowsFrame
