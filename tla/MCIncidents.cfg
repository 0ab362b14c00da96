SPECIFICATION Spec
\* No invocation need follow the last.
CHECK_DEADLOCK FALSE
CONSTANTS
  Invocations = {p1, p2, p3}
  MaxTime = 1
INVARIANTS
  NoneIsHidden
  SerialUpdatesKept
  LogAgrees
SYMMETRY Alike
