\* Two requests of one service, a rollback command, a death.
CONSTANTS
  Requests = {r1, r2}
  Commands = {c1}
  Secrets = {k1}
  Services = {"password"}
  Versioned = {r1, r2}
  Concurrency = 2
  HistoryLimit = 1
  MaxBatches = 1
  MaxDeaths = 1
  MaxSecond = 1
  SecretOf <- MCSecretOf
  ServiceOf <- MCServiceOf
  Absent = Absent
  Torn = Torn
  Nobody = Nobody
SPECIFICATION Spec
SYMMETRY Symmetry
INVARIANTS
  WellFormed
  SemaphoreHolds
  CountsAreTrue
PROPERTY RestartsOnlyAfterTear
\* No batch and no command need come after the last.
CHECK_DEADLOCK FALSE
