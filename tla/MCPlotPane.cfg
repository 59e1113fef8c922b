SPECIFICATION Spec
CONSTANTS
    Slots = {"p", "q"}
    Types = {"line", "scatter"}
    Extents <- MCExtents
    Tables <- MCTables
    Xs = {10}
    Ys = {1}
    Shifts = {4}
    Starts <- MCStarts
    MaxPlots = 2
    MaxActs = 2
INVARIANTS
    PaneShowsPlots
    HeldRegionIsItsRange
PROPERTIES
    VisibilityKept
    MovesAreAsShown
CHECK_DEADLOCK FALSE
