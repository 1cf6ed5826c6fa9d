SPECIFICATION Spec
CONSTANTS
  watch = watch
  flash = flash
  burn = burn
  look = look
  halt = halt
  server = server
  cli = cli
  console = console
  Op = {watch, look, halt}
  Process = {server, cli, console}
  ProcOf <- MCProcOf
  Kind <- MCKind
  Nobody = Nobody
  Dead = Dead
PROPERTY ClaimIsKept
CHECK_DEADLOCK FALSE
