CONSTANTS
  t1 = t1
  t2 = t2
  fn = fn
  bool = bool
  function = function
  boolean = boolean
  nil = nil
  Nil = Nil
  NoTable = NoTable
  Tables = {t1, t2}
  Functions = {fn}
  Operands = {t1, t2, bool}
  Types = {function, boolean, nil}
  TypeOf <- MCTypeOf
  Keys <- FastEvents
  Fields <- MCFields
  Stored <- MCStored
  MAXTAGLOOP = 3
  MAXFIELDS = 2
  MAXMETATABLES = 2
SYMMETRY Symmetry
SPECIFICATION Spec
PROPERTIES
  FlagsStayTrue
  ImplementsMetatables
