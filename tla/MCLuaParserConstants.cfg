CONSTANTS
  MAXINDEXRK = 255
  LFIELDS_PER_FLUSH = 2
  NPARAMS = 1
  Inputs <- MCInputs
  Languages <- MCConditions
SPECIFICATION Spec
INVARIANT ListsExit
CHECK_DEADLOCK FALSE
