\* A caller starts, stops and closes two monitors of one service, one after the other.
CONSTANTS
  Callers = {c1}
  Services <- MCServices
  Environments <- MCEnvironments
  FailureThreshold = 2
  MaxMonitors = 2
  NoMonitor = NoMonitor
SPECIFICATION FairSpec
INVARIANTS
  EntriesAreLive
  RollbackNeedsStreak

  
\* Nobody has to start a monitor again, and starts are bounded: it may stop.
CHECK_DEADLOCK FALSE
