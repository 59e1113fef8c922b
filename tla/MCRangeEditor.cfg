SPECIFICATION Spec
CONSTANTS
    Alphabetical <- MCAlphabetical
    Printed <- MCPrinted
    Filters = {"a", "b"}
    Plots <- MCPlots
    Files <- MCFiles
    FirstFiles <- MCFirstFiles
    Masses = {1, 2, 4}
    Names <- MCNames
    Colours = {"red", "green"}
    MaxEdits = 4
INVARIANTS
    RangesSound
    EditsHitWhatIsShown
    OkOnlyWhenConsistent
    WrittenRangesReadBack
CHECK_DEADLOCK FALSE
