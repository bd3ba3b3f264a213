CONSTANTS
  MaxLen  <- MC_MaxLen
  Letters <- MC_Letters

SPECIFICATION Spec

INVARIANT CmpAreTotalOrders
INVARIANT CmpDisagreeExactlyOnPrefixes
INVARIANT CmpMatchesReference
