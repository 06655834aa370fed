CONSTANTS
  x = x
  y = y
  Val = {x}
  STACKSIZE = 3
  MAXVARS = 2
  MAXFRAMES = 3
  MAXUPVALS = 2
SPECIFICATION Spec
INVARIANTS
  OpenAreInScope
  PointsToVariable
