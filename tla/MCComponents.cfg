CONSTANTS
  MaxLen    <- MC_MaxLen
  Letters   <- MC_Letters
  MAX_ITEMS <- MC_MAX_ITEMS

SPECIFICATION Spec

INVARIANT TypeOK
INVARIANT ComponentsAreNames
INVARIANT IterRebuildsPath
INVARIANT FileNameIsLastComponent

PROPERTY IterTerminates
