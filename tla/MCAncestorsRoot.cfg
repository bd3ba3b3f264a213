CONSTANTS
  MaxLen  <- MC_MaxLen
  Letters <- MC_Letters

SPECIFICATION Spec

INVARIANT AncestorsEndAtRoot
