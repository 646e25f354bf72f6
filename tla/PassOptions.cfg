SPECIFICATION Spec
CONSTANTS
  NumFunctions = 2
  Setups <- MCSetups
INVARIANTS
  NeverRejected
  OwnVariableInEffect
  SelectionKept
  QueryNotForgotten
CHECK_DEADLOCK FALSE
