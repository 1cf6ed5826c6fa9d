SPECIFICATION Spec
CONSTANTS
  capture = capture
  resume = resume
  other = other
  again = again
  left = left
  right = right
  Call = {capture, resume, other, again}
  Port = {left, right}
  PortOf <- MCPortOf
  Capacity = 2
  Nobody = Nobody
INVARIANTS ChildHasLease LeaseHasKeeper
PROPERTIES UploadedOnce NoUploadOnceClosed
CHECK_DEADLOCK FALSE
