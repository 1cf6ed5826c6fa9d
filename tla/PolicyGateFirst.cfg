SPECIFICATION Spec
CONSTANTS
  Caller = {agent, server}
  Agents = {agent, server}
  Operators = {}
  Sleepers = {}
  Approval = {grant}
  Scope = {flash}
  MaxFlashes = 1
  Ages = FALSE
  Nobody = Nobody
  Dead = Dead
INVARIANT BudgetAlwaysHolds
CHECK_DEADLOCK FALSE
