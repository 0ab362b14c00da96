\* One sender, a worker without providers, a queue of two.
CONSTANTS
  Senders = {s1}
  Owners = {o1}
  Providers = {}
  Kind <- MCKind
  AutoResolve = FALSE
  MaxAttempts = 1
  MaxProviders = 0
  Types = {"failed"}
  Supported <- MCSupported
  QueueSize = 2
  MaxEvents = 3
  MaxStarts = 1
  NoEvent = NoEvent
SPECIFICATION Spec
PROPERTY NewestIsQueued
CHECK_DEADLOCK FALSE
