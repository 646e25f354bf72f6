SPECIFICATION Spec
CONSTANTS
  x = x  y = y  add = add  call = call
  Value <- MCValue
  Operation <- MCOperation
  Commutative <- MCCommutative
  Inputs <- MCInputs
INVARIANTS Verdict RemarkMatchesVerdict
CHECK_DEADLOCK FALSE
