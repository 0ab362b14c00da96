CONSTANTS
  NoPolicy = NoPolicy
  NoReference = NoReference
  NoEnv = NoEnv
  MaxConcurrent = 2
  Calls <- MCCalls
SPECIFICATION Spec
INVARIANTS
  EveryVariableAnswered
  PlanForetells
  ForbiddenOnlyUnchecked
  ReferencesRoundTrip
  NothingHalfDone
PROPERTY
  CommandEnds
