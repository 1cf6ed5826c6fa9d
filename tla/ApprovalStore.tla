--------------------------- MODULE ApprovalStore ---------------------------
(***************************************************************************)
(* The persistent approvals of src/src/core/policy/approvals.ts: one JSON  *)
(* file that every server and command line of the machine rewrites as a    *)
(* whole under a lock of the proper-lockfile library, and one claim file   *)
(* per grant, created exclusively before a use of the grant is answered.   *)
(* A caller is one call at a time of some process.                         *)
(***************************************************************************)
EXTENDS LockFile

CONSTANTS
  Approval,
  Scope,    \* the digests of operation, arguments, policy and actor
  Sleepers  \* the callers whose machine may sleep while they hold the lock

ASSUME ApprovalAssumption == Nobody \notin Scope /\ Sleepers \subseteq Caller

VARIABLES
  records,      \* the file
  consumption,  \* the approvals that have a claim file
  expired,      \* the approvals whose lifetime is over
  holder,       \* who made the lock: a caller, one that Died, Nobody
  mutation,     \* mutation[p]: the call of mutate() that p is in
  used,         \* the approvals whose grant a call has been answered with
  overtaken     \* a caller that was only slow has lost its lock to another

approvalVars ==
  <<records, consumption, expired, holder, mutation, used, overtaken>>

Statuses == {"none", "pending", "approved", "denied", "consumed"}
Records == [Approval -> [status : Statuses, scope : Scope \cup {Nobody}]]
Operations == {"create", "approve", "deny", "consume"}
Steps == {"locked", "claiming", "saving", "unlocking"}

(* seen is what p read and will write back, granted what it will answer.   *)
Mutations ==
  [step : Steps, op : Operations, approval : Approval,
   scope : Scope \cup {Nobody}, seen : Records, granted : BOOLEAN]

Idle == [step |-> "idle"]

ApprovalTypeOK ==
  /\ records \in Records
  /\ consumption \subseteq Approval
  /\ expired \subseteq Approval
  /\ holder \in Holders
  /\ mutation \in [Caller -> Mutations \cup {Idle}]
  /\ used \subseteq Approval
  /\ overtaken \in BOOLEAN

ApprovalInit ==
  /\ records = [a \in Approval |-> [status |-> "none", scope |-> Nobody]]
  /\ consumption = {}
  /\ expired = {}
  /\ holder = Nobody
  /\ mutation = [p \in Caller |-> Idle]
  /\ used = {}
  /\ overtaken = FALSE

(* currentState: a claim outranks the record, and so does the clock.       *)
State(a, recs) ==
  IF recs[a].status = "none" THEN "none"
  ELSE IF a \in consumption THEN "consumed"
  ELSE IF recs[a].status \in {"pending", "approved"} /\ a \in expired
  THEN "expired"
  ELSE recs[a].status

At(p, step) == mutation[p].step = step

Becomes(a, status) == [records EXCEPT ![a].status = status]

(* p goes on to step with what it has seen.                                *)
Carry(p, step, seen) ==
  mutation' = [mutation EXCEPT ![p] =
                 [@ EXCEPT !.step = step, !.seen = seen]]

Advance(p, step, granted) ==
  mutation' = [mutation EXCEPT ![p] =
                 [@ EXCEPT !.step = step, !.granted = granted]]

-----------------------------------------------------------------------------
(* createApprovalRequest gives the request a random id, that nothing has.  *)
IsNew(a) ==
  /\ records[a].status = "none"
  /\ a \notin consumption /\ a \notin expired
  /\ \A p \in Caller : ~At(p, "idle") => mutation[p].approval # a

(* Wrong: the store is read and written without a lock. *)
LockStoreShared(p, op, a, s) ==
  /\ At(p, "idle")
  /\ op = "create" => IsNew(a)
  /\ holder' = p
  /\ mutation' = [mutation EXCEPT ![p] =
       [step |-> "locked", op |-> op, approval |-> a, scope |-> s,
        seen |-> records, granted |-> FALSE]]
  /\ UNCHANGED <<records, consumption, expired, used, overtaken>>

(* lockSync: a made lock refuses the call, unless it looks stale.  So does *)
(* that of a live caller whose machine slept for the 120 seconds.          *)
LockStore(p, op, a, s) ==
  /\ At(p, "idle")
  /\ op = "create" => IsNew(a)
  /\ Available(holder) \/ holder \in Sleepers
  /\ holder' = p
  /\ overtaken' = (overtaken \/ ~Available(holder))
  /\ mutation' = [mutation EXCEPT ![p] =
       [step |-> "locked", op |-> op, approval |-> a, scope |-> s,
        seen |-> records, granted |-> FALSE]]
  /\ UNCHANGED <<records, consumption, expired, used>>

(* Wrong: an approval is given whatever the request has become. *)
TransitionAnyway(p, status) ==
  Carry(p, "saving", Becomes(mutation[p].approval, status))

Create(p) ==
  Carry(p, "saving", [records EXCEPT ![mutation[p].approval] =
          [status |-> "pending", scope |-> mutation[p].scope]])

(* transition: a pending request goes either way, an approved one may      *)
(* still be denied; what it already is it stays, all else is refused.      *)
Transition(p, status) ==
  LET a == mutation[p].approval
      current == State(a, records) IN
  \/ /\ current = "pending" \/ (status = "denied" /\ current = "approved")
     /\ Carry(p, "saving", Becomes(a, status))
  \/ /\ current \in {"none", status}
     /\ Carry(p, "saving", records)
  \/ /\ current \notin {"none", "pending", status}
     /\ ~(status = "denied" /\ current = "approved")
     /\ Carry(p, "unlocking", records)

(* consumeApproval: only a live grant of this very scope goes on to claim. *)
Matches(p) ==
  LET a == mutation[p].approval IN
  /\ State(a, records) = "approved"
  /\ records[a].scope = mutation[p].scope

ReadStore(p) ==
  /\ At(p, "locked")
  /\ CASE mutation[p].op = "create" -> Create(p)
       [] mutation[p].op = "approve" -> Transition(p, "approved")
       [] mutation[p].op = "deny" -> Transition(p, "denied")
       [] mutation[p].op = "consume" ->
            Carry(p, IF Matches(p) THEN "claiming" ELSE "saving", records)
  /\ UNCHANGED <<records, consumption, expired, holder, used, overtaken>>

(* Wrong: the claim is written over one that is there. *)
ClaimOver(p) ==
  /\ At(p, "claiming")
  /\ consumption' = consumption \cup {mutation[p].approval}
  /\ mutation' = [mutation EXCEPT ![p] =
       [@ EXCEPT !.step = "saving", !.granted = TRUE]]
  /\ UNCHANGED <<records, expired, holder, used, overtaken>>

(* The exclusive creation of the claim file; EEXIST answers "no grant".    *)
Claim(p) ==
  LET a == mutation[p].approval IN
  /\ At(p, "claiming")
  /\ consumption' = consumption \cup {a}
  /\ IF a \in consumption
     THEN Advance(p, "saving", FALSE)
     ELSE mutation' = [mutation EXCEPT ![p] =
            [@ EXCEPT !.step = "saving", !.granted = TRUE,
                      !.seen[a].status = "consumed"]]
  /\ UNCHANGED <<records, expired, holder, used, overtaken>>

(* The claim file cannot be made, or is made and not written: it stays,    *)
(* and the call throws.                                                    *)
ClaimFails(p) ==
  /\ At(p, "claiming")
  /\ consumption' \in {consumption, consumption \cup {mutation[p].approval}}
  /\ Advance(p, "unlocking", FALSE)
  /\ UNCHANGED <<records, expired, holder, used, overtaken>>

(* writeApprovals: the whole file is renamed into place.                   *)
Save(p) ==
  /\ At(p, "saving")
  /\ records' = mutation[p].seen
  /\ Advance(p, "unlocking", mutation[p].granted)
  /\ UNCHANGED <<consumption, expired, holder, used, overtaken>>

SaveFails(p) ==
  /\ At(p, "saving")
  /\ Advance(p, "unlocking", FALSE)
  /\ UNCHANGED <<records, consumption, expired, holder, used, overtaken>>

(* The lock is removed, whoever's it has become, and the call answers.     *)
Answer(p) ==
  /\ At(p, "unlocking")
  /\ holder' = Nobody
  /\ mutation' = [mutation EXCEPT ![p] = Idle]
  /\ used' = IF mutation[p].granted
             THEN used \cup {mutation[p].approval} ELSE used
  /\ UNCHANGED <<records, consumption, expired, overtaken>>

(* The caller's process dies and leaves its lock, which soon looks stale.  *)
CrashStore(p) ==
  /\ mutation' = [mutation EXCEPT ![p] = Idle]
  /\ holder' = AfterDeath(holder, p)
  /\ UNCHANGED <<records, consumption, expired, used, overtaken>>

(* The clock reaches expiresAt.                                            *)
Expire(a) ==
  /\ records[a].status \in {"pending", "approved"}
  /\ expired' = expired \cup {a}
  /\ UNCHANGED <<records, consumption, holder, mutation, used, overtaken>>

StoreStep(p) ==
  \/ ReadStore(p) \/ Claim(p) \/ ClaimFails(p)
  \/ Save(p) \/ SaveFails(p)

-----------------------------------------------------------------------------
(* A call that will be answered with the grant of a.                       *)
WillUse(p, a) == ~At(p, "idle") /\ mutation[p].granted /\ mutation[p].approval = a

(* A grant is used once, and for the scope it was approved for, whatever   *)
(* crashes, fails to save or loses its lock on the way: no call is on its  *)
(* way to a grant that another call has been or will be answered with (the *)
(* O_EXCL claim in consumeApproval).                                       *)
OneGrant ==
  \A a \in Approval, p \in Caller :
    WillUse(p, a) => /\ a \notin used
                     /\ mutation[p].scope = mutation[p].seen[a].scope
                     /\ \A q \in Caller \ {p} : ~WillUse(q, a)

(* A denial and a use are final, for a reader at any moment: a request the *)
(* operator has denied is never approved, expired or used later, and one   *)
(* that reads as consumed never reads otherwise (transition, currentState),*)
(* unless a slow caller was taken for a dead one.                          *)
DecisionsAreFinal ==
  [][\A a \in Approval :
       ~overtaken /\ State(a, records) \in {"denied", "consumed"} =>
         State(a, records)' = State(a, records)]_approvalVars

(* A request that was created stays in the file: no caller writes back a   *)
(* copy that it read before another's write (mutate), unless a slow one    *)
(* was taken for dead.                                                     *)
RequestsAreKept ==
  [][\A a \in Approval : ~overtaken /\ records[a].status # "none" =>
       records'[a].status # "none"]_approvalVars
=============================================================================
