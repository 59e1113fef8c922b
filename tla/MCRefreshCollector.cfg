SPECIFICATION Spec
CONSTANT Trees <- MCTrees
INVARIANTS
    DeletedAtMostOnce
    StreamsAlive
    LostBeforeSiblingOnly
CHECK_DEADLOCK FALSE
