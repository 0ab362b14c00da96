SPECIFICATION Spec
CHECK_DEADLOCK FALSE
CONSTANTS
  Callers = {c1, c2}
  NoCaller = none
  TTLs = {2, 3}
  AkeylessTTL = 3
  DefaultTTL = 1
  FixedTTL = 3
  Buffer = 2
  MaxTime = 3
  MaxLogins = 3
  MaxVersions = 2
  Instances <- MCInstances
PROPERTY
  RefusalsHaveACause
INVARIANTS
  SessionsAreKept
  AnswersWhatIsMeant
  FoundIsDescribed
SYMMETRY Alike
