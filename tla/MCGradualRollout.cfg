CONSTANTS
  NoName = NoName
  Setups <- MCSetups
SPECIFICATION Spec
INVARIANTS
  PlanIsSound
  ExecutionIsSound
PROPERTY RefinesRollout
