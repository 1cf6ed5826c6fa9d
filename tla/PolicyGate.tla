----------------------------- MODULE PolicyGate -----------------------------
(***************************************************************************)
(* evaluatePolicy (src/src/core/policy/evaluate-policy.ts) for a scheduled *)
(* hardware write: where the policy wants an approval it consumes the      *)
(* grant the caller names, then it reserves a slot of the write budget,    *)
(* and only then allows the write.  Operators decide on requests, and      *)
(* health checks and the dashboard rewrite the budget, at any time.        *)
(***************************************************************************)
EXTENDS ApprovalStore, WriteBudget

CONSTANTS
  Agents,    \* the callers that evaluate and check health, unattended
  Operators  \* the callers that act for a person

ASSUME GateAssumption == Agents \cup Operators = Caller

VARIABLE gate  \* gate[p]: what the evaluation that p is in waits for

vars == <<records, consumption, expired, holder, mutation, used, overtaken,
          state, locker, job, spent, lapsed, gate>>

TypeOK ==
  /\ ApprovalTypeOK /\ BudgetTypeOK
  /\ gate \in [Caller -> {"idle", "consuming", "asking", "reserving",
                          "allowed"}]

Init ==
  /\ ApprovalInit /\ BudgetInit
  /\ gate = [p \in Caller |-> "idle"]

Resting(p) == gate[p] = "idle" /\ At(p, "idle") /\ In(p, "idle")

To(p, g) == gate' = [gate EXCEPT ![p] = g]

-----------------------------------------------------------------------------
(* An evaluation that names an approval; a busy store makes it throw.      *)
Evaluate(p, a, s) ==
  /\ Resting(p)
  /\ LockStore(p, "consume", a, s)
  /\ To(p, "consuming")
  /\ UNCHANGED budgetVars

(* One that names none, where the policy wants an approval: it is created. *)
Ask(p, a, s) ==
  /\ Resting(p) \/ gate[p] = "asking"
  /\ LockStore(p, "create", a, s)
  /\ To(p, "idle")
  /\ UNCHANGED budgetVars

(* One that the policy allows without an approval.                         *)
EvaluateAllowed(p) ==
  /\ Resting(p)
  /\ Begin(p, "reserve")
  /\ To(p, "reserving")
  /\ UNCHANGED approvalVars

(* An operator's decision, in the dashboard or on the command line.        *)
Decide(p, op, a) ==
  /\ Resting(p)
  /\ LockStore(p, op, a, Nobody)
  /\ UNCHANGED <<budgetVars, gate>>

(* A scheduled health check, or the dashboard's reset of the automation.   *)
RunBudget(p, run) ==
  /\ Resting(p)
  /\ Begin(p, run)
  /\ UNCHANGED <<approvalVars, gate>>

-----------------------------------------------------------------------------
Decided(p) ==
  /\ gate[p] = "idle" /\ At(p, "unlocking")
  /\ Answer(p)
  /\ UNCHANGED <<budgetVars, gate>>

(* The grant is consumed, and a slot is asked for.                         *)
Consumed(p) ==
  /\ gate[p] = "consuming" /\ At(p, "unlocking") /\ mutation[p].granted
  /\ Answer(p) /\ Begin(p, "reserve")
  /\ To(p, "reserving")

(* No such grant: a new request is made, unless the call threw.            *)
NotConsumed(p) ==
  /\ gate[p] = "consuming" /\ At(p, "unlocking") /\ ~mutation[p].granted
  /\ Answer(p)
  /\ gate' \in {[gate EXCEPT ![p] = "asking"], [gate EXCEPT ![p] = "idle"]}
  /\ UNCHANGED budgetVars

(* The request cannot be created: the store is busy or unwritable.         *)
AskInVain(p) ==
  /\ gate[p] = "asking"
  /\ To(p, "idle")
  /\ UNCHANGED <<approvalVars, budgetVars>>

Reserved(p) ==
  /\ In(p, "granted")
  /\ Finish(p)
  /\ To(p, "allowed")
  /\ UNCHANGED approvalVars

(* A denied reservation denies the write; the grant stays consumed.        *)
Refused(p) ==
  /\ In(p, "refused")
  /\ Finish(p)
  /\ To(p, "idle")
  /\ UNCHANGED approvalVars

WriteHardware(p) ==
  /\ gate[p] = "allowed"
  /\ To(p, "idle")
  /\ UNCHANGED <<approvalVars, budgetVars>>

Crash(p) ==
  /\ ~Resting(p)
  /\ CrashStore(p) /\ CrashJob(p)
  /\ To(p, "idle")

InStore(p) == StoreStep(p) /\ UNCHANGED <<budgetVars, gate>>

InBudget(p) == BudgetStep(p) /\ UNCHANGED <<approvalVars, gate>>

Time ==
  \/ \E a \in Approval : Expire(a) /\ UNCHANGED <<budgetVars, gate>>
  \/ Age /\ UNCHANGED <<approvalVars, gate>>

Next ==
  \/ \E p \in Agents :
       \/ \E a \in Approval, s \in Scope : Evaluate(p, a, s) \/ Ask(p, a, s)
       \/ EvaluateAllowed(p) \/ RunBudget(p, "monitor")
  \/ \E p \in Operators :
       \/ \E a \in Approval : Decide(p, "approve", a) \/ Decide(p, "deny", a)
       \/ RunBudget(p, "clear")
  \/ \E p \in Caller :
       \/ Decided(p) \/ Consumed(p) \/ NotConsumed(p) \/ AskInVain(p)
       \/ Reserved(p) \/ Refused(p) \/ WriteHardware(p)
       \/ InStore(p) \/ InBudget(p) \/ Crash(p)
  \/ Time

Spec == Init /\ [][Next]_vars
=============================================================================
