SPECIFICATION Spec
CONSTANTS
  Caller = {agent, server}
  Agents = {agent, server}
  Operators = {server}
  Sleepers = {agent}
  Approval = {grant}
  Scope = {flash, erase}
  MaxFlashes = 1
  Ages = TRUE
  Nobody = Nobody
  Dead = Dead
SYMMETRY Digests
INVARIANTS OneGrant BudgetHolds
PROPERTIES DecisionsAreFinal RequestsAreKept
CHECK_DEADLOCK FALSE
