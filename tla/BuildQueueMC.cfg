SPECIFICATION FairSpec
CONSTANTS
  compile = compile
  flash = flash
  rebuild = rebuild
  session = session
  dashboard = dashboard
  install = install
  alice = alice
  sketch = sketch
  other = other
  Nobody = Nobody
  Job = {compile, flash, session, install}
  Project = {sketch, other}
  Session = {alice}
  ProjectOf <- MixedProject
  Locking <- MixedLocking
  SessionOf <- MCSessionOf
  Background = {session}
  Uploads = {compile}
  Monitored = {other}
  Resets = {sketch}
  Restarts = 1
INVARIANTS LockedBuildsExclude NoLeakedLock
PROPERTY LockComesBack
CHECK_DEADLOCK FALSE
