CONSTANTS
  LUAL_BUFFERSIZE = 2
  Reserved <- MCReserved
  Chunks <- MCChunks
SPECIFICATION Spec
INVARIANTS
  StreamDelivers
  TokensMeanText
  NotReadPastEnd
  LexingEnds
CHECK_DEADLOCK FALSE
