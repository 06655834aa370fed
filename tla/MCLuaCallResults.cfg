CONSTANTS
  fixed = fixed
  vararg = vararg
  go = go
  Nil = Nil
  Message = Message
  CFn = {go}
  Val = {}
  LuaFn = {fixed, vararg}
  VarArg = {vararg}
  NumParams <- MCNumParams
  MaxStack <- MCMaxStack
  LUA_MINSTACK = 1
  EXTRA_STACK = 1
  BASIC_CI_SIZE = 2
  LUAI_MAXCCALLS = 2
  MAXVALUES = 2
SPECIFICATION Spec
VIEW LiveState
INVARIANT ResultsDelivered
