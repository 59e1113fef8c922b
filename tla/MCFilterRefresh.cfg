SPECIFICATION Spec
CONSTANTS
    first = first
    second = second
    Trees <- MCTrees
    Settings = {first, second}
    Files <- MCFiles
    MaxSize = 3
    NewKinds = {"clip", "range", "plot", "box"}
INVARIANTS
    CachesRight
    OutputRight
    StartsCoverLeaves
