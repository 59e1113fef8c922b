SPECIFICATION Spec
CONSTANTS
    Places <- MCPlaces
    Settings <- MCSettings
INVARIANT ClustersAsDefined
CHECK_DEADLOCK FALSE
