SPECIFICATION Spec
CONSTANTS
  a = a  b = b  c = c
  Unit <- MCUnit
  Graphs <- MCGraphs
INVARIANTS ShadowsPayload IterationsAlike CarriedForward
PROPERTY WalkReturns
CHECK_DEADLOCK FALSE
