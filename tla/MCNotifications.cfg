\* One owner, as in cmd/dsops/commands/rotation_rollback.go: Start, later Stop.
CONSTANTS
  Senders = {s1}
  Owners = {o1}
  Providers = {"email", "slack", "pagerduty", "webhook"}
  Kind <- MCKind
  AutoResolve = FALSE
  MaxAttempts = 2
  MaxProviders = 2
  Types = {"failed", "completed"}
  Supported <- MCSupported
  QueueSize = 2
  MaxEvents = 2
  MaxStarts = 1
  NoEvent = NoEvent
SPECIFICATION FairSpec
CONSTRAINT MCPairs
INVARIANTS
  DeliveredInOrder
PROPERTIES
  StopDrains
  QueuedIsDispatched
\* Nobody has to call the manager again, and its callers are bounded: it may stop.
CHECK_DEADLOCK FALSE
