CONSTANTS
  PATH_MAX <- MC_PATH_MAX
  Letters  <- MC_Letters

SPECIFICATION Spec

INVARIANT WalkNeverPanics
INVARIANT WalkVisitsAncestors
