CONSTANTS
  a = a
  b = b
  Name = {a, b}
  Hidden = Hidden
  Arg = Arg
  LUAI_MAXVARS = 5
  LUAI_MAXUPVALUES = 2
  MAXDECLS = 3
  MAXDEPTH = 3
  MAXBLOCKS = 1
  MAXPARAMS = 1
CHECK_DEADLOCK FALSE
SYMMETRY NameSymmetry
SPECIFICATION Spec
INVARIANTS
  NameMeansInnermost
  UpvaluesKeepMeaning
  BlocksCloseCaptured
  WithinLimits
