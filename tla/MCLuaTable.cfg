CONSTANTS
  a = a
  b = b
  Nil = Nil
  v1 = v1
  v2 = v2
  IntKeys = {1, 2, 4, 5}
  OtherKeys = {a, b}
  Val = {v1}
  Hash <- MCHash
  Pow2Hashed = {a, b}
  MAXBITS = 3
  MAX_INT = 20
  InitArray = {0, 2}
  InitHash = {0, 3}
SPECIFICATION Spec
INVARIANTS
  TypeOK
  FreeBeforeLastFree
  OnePredecessor
  Acyclic
  KeysReachable
  OneSlotPerKey
  RoomForPending
  LengthIsBoundary
PROPERTIES
  ImplementsMap
