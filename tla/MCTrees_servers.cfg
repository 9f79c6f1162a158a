CONSTANTS
  n1 = n1
  n2 = n2
  n3 = n3
  None = None
  ROOT = ROOT
  TRASH = TRASH
  Node = {n1, n2, n3}
  Replica = {1, 2}
  Payload = {"x"}
  Stored <- OneNode
  Intent <- AllCalls
  MaxOps = 3
  MaxCounter = 3
  Parts = {"servers"}
SPECIFICATION TreesSpec
INVARIANT
  TablesMatchLog
