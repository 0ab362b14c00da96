\* Two callers of one target, each calling up to twice with one retry.
CONSTANTS
  Callers = {c1, c2}
  Services <- MCServices
  Environments <- MCEnvironments
  MaxRetries = 1
  MaxCalls = 2
  MaxStates = 2
  NoState = NoState
SPECIFICATION FairSpec
INVARIANTS
  WellFormed
  OneDriverPerState
  TriesAccounted
PROPERTIES
  OnlyDriverMovesState
  RefinesSlot
  CallsReturn
\* Callers need not call again, and their calls are bounded: the system may stop.
CHECK_DEADLOCK FALSE
