SPECIFICATION Spec
CONSTANTS
  x = x  y = y  add = add  call = call
  Value <- MCValue
  Operation <- MCOperation
  Commutative <- MCCommutative
  Inputs <- MCInputs
INVARIANT EmptySourcesRemark
CHECK_DEADLOCK FALSE
