SPECIFICATION Spec
CONSTANTS
  upload = upload
  monitor = monitor
  alice = alice
  port = port
  usb = usb
  Session = {upload, monitor}
  Uploads = {upload}
  Owner = {alice}
  OwnerOf <- MCOwnerOf
  Resource = {port, usb}
  Needs <- MCNeeds
  Capacity = 2
INVARIANTS LeaseOutlivesUse NoOrphanMark ForgottenIsFinished LeasesKeptForCause
PROPERTIES StoppedAdmitsNothing
CHECK_DEADLOCK FALSE
