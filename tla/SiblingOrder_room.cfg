CONSTANTS
  MaxDigit = 3
  Boundary = 1
  Node = {1, 2, 3}
  None = None
  MaxLen = 2
SPECIFICATION Spec
INVARIANT
  NeighboursHaveRoom
