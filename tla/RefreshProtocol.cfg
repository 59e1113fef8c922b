SPECIFICATION Spec
\* A walk of two filters leaves room for an abort before the first, between
\* them and after the last.
CONSTANT NumFilters = 2
INVARIANTS
    LockFollowsRefresh
    SceneIsCurrent
    OnlyStaleChecksRestart
    OnlyUnlockedRace
PROPERTIES
    RefreshEnds
    UpdatesTakenUp
