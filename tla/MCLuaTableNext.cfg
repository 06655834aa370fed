CONSTANTS
  a = a
  b = b
  Nil = Nil
  v1 = v1
  IntKeys = {1, 3}
  OtherKeys = {a, b}
  Val = {v1}
  Hash <- MCHash
  Pow2Hashed = {a, b}
  MAXBITS = 4
  InitArray = {0, 2}
  InitHash = {0, 3}
SPECIFICATION TSpec
PROPERTIES
  NoKeyTwice
  NoKeyMissed
  TraversalEnds
