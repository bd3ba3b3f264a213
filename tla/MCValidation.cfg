CONSTANTS
  PATH_MAX <- MC_PATH_MAX
  Letters  <- MC_Letters
  Bytes    <- MC_Bytes

SPECIFICATION Spec

INVARIANT RuntimeCtorsYieldPaths
INVARIANT ConstructorsAgree
INVARIANT SerdeRoundTrip
