CONSTANTS
  x = x
  y = y
  Val = {x, y}
  STACKSIZE = 3
  MAXVARS = 1
  MAXFRAMES = 2
  MAXUPVALS = 1
SPECIFICATION Spec
INVARIANT ClosedKeepsValue
