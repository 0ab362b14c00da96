\* Two owners start, stop and start the manager again.
CONSTANTS
  Senders = {s1, s2}
  Owners = {o1, o2}
  Providers = {}
  Kind <- MCKind
  AutoResolve = FALSE
  MaxAttempts = 1
  MaxProviders = 0
  Types = {"failed"}
  Supported <- MCSupported
  QueueSize = 1
  MaxEvents = 1
  MaxStarts = 2
  NoEvent = NoEvent
SPECIFICATION FairSpec
INVARIANTS
  NothingLost
PROPERTIES
  StopEventuallyReturns
  RefinesQueue
\* Nobody has to call the manager again, and its callers are bounded: it may stop.
CHECK_DEADLOCK FALSE
