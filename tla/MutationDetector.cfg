SPECIFICATION Spec
CONSTANTS
  t = t  p = p  q = q  r = r
  Inst <- MCInst
  Programs <- MCPrograms
INVARIANTS SliceComplete FailsOnUnhandled
CHECK_DEADLOCK FALSE
