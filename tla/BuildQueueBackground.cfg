SPECIFICATION Spec
CONSTANTS
  compile = compile
  flash = flash
  rebuild = rebuild
  session = session
  dashboard = dashboard
  install = install
  alice = alice
  sketch = sketch
  other = other
  Nobody = Nobody
  Job = {compile, flash, rebuild}
  Project = {sketch, other}
  Session = {alice}
  ProjectOf <- OneProject
  Locking <- AllImplicit
  SessionOf <- MCSessionOf
  Background = {compile, flash, rebuild}
  Uploads = {}
  Monitored = {}
  Resets = {}
  Restarts = 0
INVARIANT OneCompilation
CHECK_DEADLOCK FALSE
