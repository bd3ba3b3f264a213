CONSTANTS
  PATH_MAX <- MC_PATH_MAX
  Letters  <- MC_Letters
  NameBytes <- MC_ForeignNames

SPECIFICATION Spec


INVARIANT DerefIsAscii
