SPECIFICATION Spec
CONSTANTS
  coordinator = coordinator
  child = child
  reborn = reborn
  Proc = {coordinator, child, reborn}
  Resource = {port}
  Nonce = {n1, n2, n3}
  PidOf <- MCPidOf
  TokenOf <- MCTokenOf
  NoRecord = NoRecord
  NoProc = NoProc
  NoNonce = NoNonce
INVARIANT HandlesAreCurrent
PROPERTIES LiveOwnerKeepsLease UnresolvedHandoffHolds RegistrySpec GateIsLeft
CHECK_DEADLOCK FALSE
