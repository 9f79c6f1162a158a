CONSTANTS
  A = A
  R = R
  B = B
  root = root
  n1 = n1
  n2 = n2
  n3 = n3
  ROOT = ROOT
  TRASH = TRASH
  Missing = Missing
  Null = Null
  Parts = {"peers"}
  ExpA = {0}
  T1 = T1
  T2 = T2
  m1 = m1
  m2 = m2
  i1 = i1
  i2 = i2
  v1 = v1
  c1 = c1
  b2 = b2
  Nodes = {n1, n2, n3}
  Peers = {A, R, B}
  Issuers = {root}
  Links <- Routes
  Tokens <- Issued
  LocalTokens <- Held
  Records <- Revocations
  LocalRecords <- Configured
  Ops <- Writes
  LocalOps <- Written
  Chains <- Certified
  Filters <- Asked
  RequireProofRef = FALSE
  MaxTime = 1
  MaxRestarts = 1
  MaxSessions = 1
  ScopeNodes = {n1, n2}
  RootCaps <- Grants
  Caps <- Delegable
  Windows <- Terms
  MaxDelegationTime = 2
  MaxChain = 1
SPECIFICATION Spec
INVARIANT
  CachedMaterialIsBestEffort
CHECK_DEADLOCK FALSE
