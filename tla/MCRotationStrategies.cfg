CONSTANTS
  NoSchema = NoSchema
  NoKind = NoKind
  MinInterval = 2
  Validity = 5
  Overlap = 1
  MaxCalls = 3
  MaxTime = 5
  Requests <- MCRequests
SPECIFICATION StrategySpec
INVARIANTS
  WellFormed
PROPERTIES
  PromotesVerified
  DoesNoHarm
  OverlapNotTooEarly
CHECK_DEADLOCK FALSE
