CONSTANTS
  fixed = fixed
  vararg = vararg
  go = go
  Nil = Nil
  Message = Message
  CFn = {go}
  Val = {}
  LuaFn = {fixed, vararg}
  VarArg = {vararg}
  NumParams <- MCNumParams
  MaxStack <- MCMaxStack
  LUA_MINSTACK = 2
  EXTRA_STACK = 1
  BASIC_CI_SIZE = 3
  LUAI_MAXCCALLS = 1
  MAXVALUES = 2
SPECIFICATION Spec
INVARIANTS
  FramesNested
  HandlersNested
  CallsCounted
  HostRunsFrames
  DepthBounded
PROPERTIES
  PCallRestores
  StepsAreSeparate
VIEW LiveState
