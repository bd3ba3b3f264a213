CONSTANTS
  PATH_MAX <- MC_PATH_MAX
  Letters  <- MC_Letters
  NameBytes <- MC_NameBytes

SPECIFICATION Spec

INVARIANT NoOverrun
INVARIANT TypeOK
INVARIANT DerefIsCStr

PROPERTY ImplementsPathString
