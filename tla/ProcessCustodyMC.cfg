SPECIFICATION Spec
CONSTANTS
  server = server
  other = other
  reborn = reborn
  upload = upload
  session = session
  otherUpload = otherUpload
  rebornSession = rebornSession
  Proc = {server, other, reborn}
  Custody = {upload, session, otherUpload, rebornSession}
  Resource = {port, probe}
  Nonce = {n1, n2, n3}
  PidOf <- MCPidOf
  HostOf <- MCHostOf
  NoRecord = NoRecord
  None = None
INVARIANTS ExclusiveUse UseIsRecorded
PROPERTIES OwnerChangesWhenIdle DeathFreesTheRest
CHECK_DEADLOCK FALSE
