CONSTANTS
  MAXINDEXRK = 0
  LFIELDS_PER_FLUSH = 2
  NPARAMS = 1
  Inputs <- MCInputs
  Languages <- MCLanguages
SPECIFICATION Spec
INVARIANTS
  AssertionsHold
  CodeMeansSource
  CapturedAreClosed
  RegistersReserved
CHECK_DEADLOCK FALSE
