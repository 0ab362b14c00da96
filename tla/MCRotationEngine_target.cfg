\* One rotation, three rollbacks.
CONSTANTS
  Requests = {r1}
  Commands = {c1, c2, c3}
  Secrets = {k1}
  Services = {"password"}
  Versioned = {}
  Concurrency = 2
  HistoryLimit = 1
  MaxBatches = 1
  MaxDeaths = 0
  MaxSecond = 1
  SecretOf <- MCSecretOf
  ServiceOf <- MCServiceOf
  Absent = Absent
  Torn = Torn
  Nobody = Nobody
SPECIFICATION Spec
INVARIANT TargetWasSuccess
CHECK_DEADLOCK FALSE
