SPECIFICATION Spec
CONSTANTS
  watch = watch
  flash = flash
  burn = burn
  look = look
  halt = halt
  server = server
  cli = cli
  console = console
  Op = {watch, flash, burn, halt}
  Process = {server, cli, console}
  ProcOf <- MCProcOf
  Kind <- MCKind
  Nobody = Nobody
  Dead = Dead
INVARIANTS OneUser UseIsVisible
PROPERTY ClaimIsKept
CHECK_DEADLOCK FALSE
