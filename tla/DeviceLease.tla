----------------------------- MODULE DeviceLease -----------------------------
(***************************************************************************)
(* The device-lease store of src/src/core/devices/device-lease.ts.         *)
(*                                                                         *)
(* Every call is a synchronous sequence of system calls made by one of     *)
(* several operating-system processes: create the gate directory, read the *)
(* lease file and inspect a process, replace or remove the file, remove    *)
(* the gate.  A process may die between any two of them.  The gate is not  *)
(* stolen by age, so a gate whose holder died stays until an operator      *)
(* removes it.                                                             *)
(***************************************************************************)
CONSTANTS
  Proc, Resource, Nonce, PidOf, NoRecord,
  TokenOf,   \* the start token the operating system reports for an incarnation
  NoProc,    \* nobody
  NoNonce    \* the nonce of a call that has no handle

Record == [owner: Proc, nonce: Nonce, pending: BOOLEAN]

ASSUME LeaseAssumption ==
  /\ NoRecord \notin Record
  /\ NoProc \notin Proc
  /\ NoNonce \notin Nonce

VARIABLES
  life, rec, held, receipts, tickets, issued,  \* as in LeaseRegistry
  gate,   \* gate[r]: the process that created the gate of r, or NoProc
  pc,     \* pc[p]: where p is inside a call of the store
  call,   \* call[p]: the call p is making
  seen    \* seen[p]: the record p read under the gate

memory == <<held, receipts, tickets>>
storeVars == <<life, rec, held, receipts, tickets, issued>>
control == <<gate, pc, call, seen>>
vars == <<life, rec, held, receipts, tickets, issued, gate, pc, call, seen>>

Kinds == {"status", "acquire", "begin", "cancel", "transfer", "finish",
          "adopt", "release"}
Call == [kind: Kinds, res: Resource, nonce: Nonce \cup {NoNonce},
         target: Proc \cup {NoProc}]
NoCall == [kind |-> "none", res |-> NoRecord, nonce |-> NoNonce, target |-> NoProc]

TypeOK ==
  /\ life \in [Proc -> {"unborn", "running", "dead"}]
  /\ rec \in [Resource -> Record \cup {NoRecord}]
  /\ held \in [Proc -> SUBSET (Resource \X Nonce)]
  /\ receipts \in [Proc -> SUBSET (Resource \X Nonce \X Proc)]
  /\ tickets \in [Proc -> SUBSET (Resource \X Nonce)]
  /\ issued \in SUBSET Nonce
  /\ gate \in [Resource -> Proc \cup {NoProc}]
  /\ pc \in [Proc -> {"idle", "gated", "checked", "leaving"}]
  /\ call \in [Proc -> Call \cup {NoCall}]
  /\ seen \in [Proc -> Record \cup {NoRecord}]

Init ==
  /\ life = [p \in Proc |-> "unborn"]
  /\ rec = [r \in Resource |-> NoRecord]
  /\ held = [p \in Proc |-> {}]
  /\ receipts = [p \in Proc |-> {}]
  /\ tickets = [p \in Proc |-> {}]
  /\ issued = {}
  /\ gate = [r \in Resource |-> NoProc]
  /\ pc = [p \in Proc |-> "idle"]
  /\ call = [p \in Proc |-> NoCall]
  /\ seen = [p \in Proc |-> NoRecord]

Running(p) == life[p] = "running"

-----------------------------------------------------------------------------
(* Process identity *)

(* An identity on disk is a process id and a start token: a later process  *)
(* is the same one only if both agree.                                     *)
SameIdentity(p, q) == PidOf[p] = PidOf[q] /\ TokenOf[p] = TokenOf[q]

(* What comparing the recorded identity of q with the process now running  *)
(* under its id can say.  An inspection can always fail to find out.       *)
Observed(q) ==
  {"unknown"} \cup
    IF \E s \in Proc : Running(s) /\ PidOf[s] = PidOf[q]
    THEN { IF SameIdentity(s, q) THEN "alive" ELSE "stale" :
             s \in { t \in Proc : Running(t) /\ PidOf[t] = PidOf[q] } }
    ELSE {"stale"}

-----------------------------------------------------------------------------
(* The calls a process may make: only with a handle, receipt or ticket in  *)
(* its own memory.  The identity of a transfer target was read from a      *)
(* process that ran.                                                       *)
HandleCalls(p) ==
  { c \in [kind: {"begin", "cancel", "release"}, res: Resource, nonce: Nonce,
           target: {NoProc}] : <<c.res, c.nonce>> \in held[p] }
  \cup
  { c \in [kind: {"transfer"}, res: Resource, nonce: Nonce, target: Proc] :
      /\ <<c.res, c.nonce>> \in held[p]
      /\ life[c.target] # "unborn"
      /\ PidOf[c.target] # PidOf[p] }

TransferCalls(p) ==
  { c \in [kind: {"finish"}, res: Resource, nonce: Nonce, target: Proc] :
      <<c.res, c.nonce, c.target>> \in receipts[p] }
  \cup
  { c \in [kind: {"adopt"}, res: Resource, nonce: Nonce, target: {NoProc}] :
      <<c.res, c.nonce>> \in tickets[p] }

Calls(p) ==
  [kind: {"acquire", "status"}, res: Resource, nonce: {NoNonce}, target: {NoProc}]
  \cup HandleCalls(p) \cup TransferCalls(p)

-----------------------------------------------------------------------------
(* What the body of each call requires of the record it reads. *)

Current(p) == rec[call[p].res]

(* The persisted record carries this nonce and the identity of q. *)
PersistedOwner(p, q) ==
  /\ Current(p) # NoRecord
  /\ Current(p).nonce = call[p].nonce
  /\ SameIdentity(Current(p).owner, q)

(* Wrong: an unresolved handoff does not protect the record. *)
AcquireAdmittedDespiteHandoff(p) ==
  /\ call[p].kind = "acquire"
  /\ \/ Current(p) = NoRecord
     \/ Current(p) # NoRecord /\ "stale" \in Observed(Current(p).owner)

(* Wrong: an owner that cannot be inspected counts as gone. *)
AcquireAdmittedWhenUnknown(p) ==
  /\ call[p].kind = "acquire"
  /\ \/ Current(p) = NoRecord
     \/ /\ Current(p) # NoRecord
        /\ ~Current(p).pending
        /\ Observed(Current(p).owner) # {"alive"}

AcquireAdmitted(p) ==
  /\ call[p].kind = "acquire"
  /\ \/ Current(p) = NoRecord
     \/ /\ Current(p) # NoRecord
        /\ ~Current(p).pending
        /\ "stale" \in Observed(Current(p).owner)

BeginAdmitted(p) ==
  /\ call[p].kind = "begin"
  /\ PersistedOwner(p, p)
  /\ ~Current(p).pending

CancelAdmitted(p) ==
  /\ call[p].kind = "cancel"
  /\ PersistedOwner(p, p)

TransferAdmitted(p) ==
  /\ call[p].kind = "transfer"
  /\ PersistedOwner(p, p)
  /\ "alive" \in Observed(call[p].target)

(* Wrong: the receipt is retired without waiting for the child's exit. *)
FinishAdmittedEarly(p) ==
  /\ call[p].kind = "finish"
  /\ PersistedOwner(p, call[p].target)
  /\ ~Current(p).pending

FinishAdmitted(p) ==
  /\ call[p].kind = "finish"
  /\ PersistedOwner(p, call[p].target)
  /\ ~Current(p).pending
  /\ "stale" \in Observed(Current(p).owner)

AdoptAdmitted(p) ==
  /\ call[p].kind = "adopt"
  /\ PersistedOwner(p, p)

ReleaseAdmitted(p) ==
  /\ call[p].kind = "release"
  /\ PersistedOwner(p, p)
  /\ ~Current(p).pending

Admitted(p) ==
  \/ AcquireAdmitted(p) \/ BeginAdmitted(p) \/ CancelAdmitted(p)
  \/ TransferAdmitted(p) \/ FinishAdmitted(p) \/ AdoptAdmitted(p)
  \/ ReleaseAdmitted(p)

(* A check that depends on an inspection can always fail as "unknown". *)
Refusable(p) ==
  \/ ~Admitted(p)
  \/ call[p].kind \in {"transfer", "finish"}
  \/ call[p].kind = "acquire" /\ Current(p) # NoRecord

-----------------------------------------------------------------------------
(* The steps of a call. *)

(* mkdir of the gate.  A caller that finds the gate there gives up and     *)
(* changes nothing.                                                        *)
Enter(p) ==
  /\ Running(p)
  /\ pc[p] = "idle"
  /\ \E c \in Calls(p) :
       /\ gate[c.res] = NoProc
       /\ gate' = [gate EXCEPT ![c.res] = p]
       /\ call' = [call EXCEPT ![p] = c]
  /\ pc' = [pc EXCEPT ![p] = "gated"]
  /\ UNCHANGED <<storeVars, seen>>

Check(p) ==
  /\ Running(p)
  /\ pc[p] = "gated"
  /\ Admitted(p)
  /\ pc' = [pc EXCEPT ![p] = "checked"]
  /\ seen' = [seen EXCEPT ![p] = Current(p)]
  /\ UNCHANGED <<storeVars, gate, call>>

(* Wrong: the exception skips the removal of the gate. *)
RefuseKeepingGate(p) ==
  /\ Running(p)
  /\ pc[p] = "gated"
  /\ Refusable(p)
  /\ pc' = [pc EXCEPT ![p] = "idle"]
  /\ call' = [call EXCEPT ![p] = NoCall]
  /\ UNCHANGED <<storeVars, gate, seen>>

(* The body throws: the record is left alone and the gate is removed. *)
Refuse(p) ==
  /\ Running(p)
  /\ pc[p] = "gated"
  /\ Refusable(p)
  /\ pc' = [pc EXCEPT ![p] = "leaving"]
  /\ UNCHANGED <<storeVars, gate, call, seen>>

(* The temporary file cannot be written or renamed, or the unlink fails. *)
WriteFails(p) ==
  /\ Running(p)
  /\ pc[p] = "checked"
  /\ pc' = [pc EXCEPT ![p] = "leaving"]
  /\ UNCHANGED <<storeVars, gate, call, seen>>

Writes(p, kind) ==
  /\ Running(p)
  /\ pc[p] = "checked"
  /\ call[p].kind = kind
  /\ pc' = [pc EXCEPT ![p] = "leaving"]
  /\ UNCHANGED <<life, gate, call, seen>>

(* The rename that publishes a record, or the unlink that removes one. *)
Publish(p, record) == rec' = [rec EXCEPT ![call[p].res] = record]

WriteAcquire(p) ==
  /\ Writes(p, "acquire")
  /\ \E n \in Nonce \ issued :
       /\ Publish(p, [owner |-> p, nonce |-> n, pending |-> FALSE])
       /\ held' = [held EXCEPT ![p] = @ \cup {<<call[p].res, n>>}]
       /\ issued' = issued \cup {n}
  /\ UNCHANGED <<receipts, tickets>>

WriteBegin(p) ==
  /\ Writes(p, "begin")
  /\ Publish(p, [seen[p] EXCEPT !.pending = TRUE])
  /\ UNCHANGED <<memory, issued>>

WriteCancel(p) ==
  /\ Writes(p, "cancel")
  /\ Publish(p, [seen[p] EXCEPT !.pending = FALSE])
  /\ UNCHANGED <<memory, issued>>

(* Wrong: the parent keeps its handle after the transfer. *)
WriteTransferKeepingHandle(p) ==
  LET r == call[p].res
      c == call[p].target
  IN  /\ Writes(p, "transfer")
      /\ \E m \in Nonce \ issued :
           /\ Publish(p, [owner |-> c, nonce |-> m, pending |-> FALSE])
           /\ receipts' = [receipts EXCEPT ![p] = @ \cup {<<r, m, c>>}]
           /\ tickets' = IF Running(c)
                         THEN [tickets EXCEPT ![c] = @ \cup {<<r, m>>}]
                         ELSE tickets
           /\ issued' = issued \cup {m}
      /\ UNCHANGED held

(* The handle is dropped; the ticket reaches the target if it still runs. *)
WriteTransfer(p) ==
  LET r == call[p].res
      c == call[p].target
  IN  /\ Writes(p, "transfer")
      /\ \E m \in Nonce \ issued :
           /\ Publish(p, [owner |-> c, nonce |-> m, pending |-> FALSE])
           /\ held' = [held EXCEPT ![p] = @ \ {<<r, call[p].nonce>>}]
           /\ receipts' = [receipts EXCEPT ![p] = @ \cup {<<r, m, c>>}]
           /\ tickets' = IF Running(c)
                         THEN [tickets EXCEPT ![c] = @ \cup {<<r, m>>}]
                         ELSE tickets
           /\ issued' = issued \cup {m}

WriteFinish(p) ==
  /\ Writes(p, "finish")
  /\ Publish(p, NoRecord)
  /\ receipts' = [receipts EXCEPT
                    ![p] = @ \ {<<call[p].res, call[p].nonce, call[p].target>>}]
  /\ UNCHANGED <<held, tickets, issued>>

WriteAdopt(p) ==
  /\ Writes(p, "adopt")
  /\ \E m \in Nonce \ issued :
       /\ Publish(p, [seen[p] EXCEPT !.nonce = m])
       /\ held' = [held EXCEPT ![p] = @ \cup {<<call[p].res, m>>}]
       /\ issued' = issued \cup {m}
  /\ UNCHANGED <<receipts, tickets>>

WriteRelease(p) ==
  /\ Writes(p, "release")
  /\ Publish(p, NoRecord)
  /\ held' = [held EXCEPT ![p] = @ \ {<<call[p].res, call[p].nonce>>}]
  /\ UNCHANGED <<receipts, tickets, issued>>

Write(p) ==
  \/ WriteAcquire(p) \/ WriteBegin(p) \/ WriteCancel(p) \/ WriteTransfer(p)
  \/ WriteFinish(p) \/ WriteAdopt(p) \/ WriteRelease(p)

(* rmdir of the gate; the call returns or its exception propagates. *)
Leave(p) ==
  /\ Running(p)
  /\ pc[p] = "leaving"
  /\ gate' = [gate EXCEPT ![call[p].res] = NoProc]
  /\ pc' = [pc EXCEPT ![p] = "idle"]
  /\ call' = [call EXCEPT ![p] = NoCall]
  /\ seen' = [seen EXCEPT ![p] = NoRecord]
  /\ UNCHANGED storeVars

-----------------------------------------------------------------------------
(* The environment: processes and the operator. *)

Start(p) ==
  /\ life[p] = "unborn"
  /\ \A q \in Proc : PidOf[q] = PidOf[p] => ~Running(q)
  /\ life' = [life EXCEPT ![p] = "running"]
  /\ UNCHANGED <<rec, memory, issued, control>>

(* An exit or a crash, at any point of a call.  Files and gates stay. *)
End(p) ==
  /\ Running(p)
  /\ life' = [life EXCEPT ![p] = "dead"]
  /\ held' = [held EXCEPT ![p] = {}]
  /\ receipts' = [receipts EXCEPT ![p] = {}]
  /\ tickets' = [tickets EXCEPT ![p] = {}]
  /\ pc' = [pc EXCEPT ![p] = "idle"]
  /\ call' = [call EXCEPT ![p] = NoCall]
  /\ seen' = [seen EXCEPT ![p] = NoRecord]
  /\ UNCHANGED <<rec, issued, gate>>

(* The operator removes a gate once no update is in flight. *)
RepairGate(r) ==
  /\ gate[r] # NoProc
  /\ life[gate[r]] = "dead"
  /\ gate' = [gate EXCEPT ![r] = NoProc]
  /\ UNCHANGED <<storeVars, pc, call, seen>>

InCall(p) == Check(p) \/ Refuse(p) \/ WriteFails(p) \/ Write(p) \/ Leave(p)

Next ==
  \/ \E p \in Proc : Start(p) \/ End(p) \/ Enter(p) \/ InCall(p)
  \/ \E r \in Resource : RepairGate(r)

(* A call is synchronous: a process that stays alive finishes it. *)
Fairness == \A p \in Proc : WF_vars(InCall(p))

Spec == Init /\ [][Next]_vars /\ Fairness

-----------------------------------------------------------------------------
(* Properties *)

(* The store implements the registry: each rename or unlink is one atomic  *)
(* step of LeaseRegistry and everything else changes nothing it can see.   *)
Registry == INSTANCE LeaseRegistry
RegistrySpec == Registry!RegistrySpec

(* A handle in the memory of a running process always matches the owner    *)
(* and the nonce on disk, whatever crashed, was reclaimed, transferred or  *)
(* replayed meanwhile; so no two processes can act on one resource.        *)
HandlesAreCurrent ==
  \A p \in Proc, r \in Resource, n \in Nonce :
    <<r, n>> \in held[p] =>
      /\ Running(p)
      /\ rec[r] # NoRecord
      /\ rec[r].owner = p
      /\ rec[r].nonce = n

(* What a call read under the gate is still on disk when it writes.        *)
ReadIsFresh ==
  \A p \in Proc : pc[p] = "checked" => seen[p] = Current(p)

(* A lease whose owner is running is changed or removed only by a call of  *)
(* that owner: nobody reclaims, finishes or releases it under its feet.    *)
LiveOwnerKeepsLease ==
  [][\A r \in Resource :
       (rec[r] # NoRecord /\ rec'[r] # rec[r]) =>
         (Running(rec[r].owner) =>
            /\ pc[rec[r].owner] = "checked"
            /\ pc'[rec[r].owner] = "leaving"
            /\ call[rec[r].owner].res = r)]_vars

(* A handoff left unresolved by a dead coordinator blocks the resource for *)
(* good: its child may still use the hardware.                             *)
UnresolvedHandoffHolds ==
  [][\A r \in Resource :
       (rec[r] # NoRecord /\ rec[r].pending /\ ~Running(rec[r].owner)) =>
         rec'[r] = rec[r]]_vars

(* A process that stays alive always removes the gate it created, whatever *)
(* its call found or failed at: no exception path keeps others out.        *)
GateIsLeft ==
  \A p \in Proc, r \in Resource :
    (gate[r] = p) ~> (gate[r] # p \/ ~Running(p))
=============================================================================
