SPECIFICATION ValuesSpec
CONSTANTS
  MaxDigit = 3
  Boundary = 1
  Node = {1, 2, 3}
  MaxLen = 2
  None = None
  Empty = Empty
  Parts = {"siblings", "vectors", "codecs"}
  Payloads = {"text"}
  x = x
  y = y
  Vector = {x, y}
  Replica = {1, 2}
  MaxSeen <- Counters
  A = A
  B = B
  C = C
  Peer = {A, B, C}
  Backing <- Stores
  Local <- Entries
  Control <- Messages
  MaxSafe = 3
  MaxBatch = 2
INVARIANTS
  VectorsAnswerForSets
  SiblingsAreSorted
  
PROPERTIES
  ImplementsSets
  PlacementIsDirectlyAfter
CHECK_DEADLOCK FALSE
