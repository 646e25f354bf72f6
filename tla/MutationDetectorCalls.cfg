SPECIFICATION Spec
CONSTANTS
  t = t  p = p  q = q  r = r
  Inst <- MCInst
  Programs <- MCPrograms
INVARIANT NoSideEffectsCall
CHECK_DEADLOCK FALSE
