-------------------------- MODULE DeviceLeaseProofs --------------------------
(***************************************************************************)
(* What the lease store guarantees for every set of processes, resources   *)
(* and nonces, and for every reuse of process ids.                         *)
(***************************************************************************)
EXTENDS DeviceLease, TLAPS

-----------------------------------------------------------------------------
(* The inductive invariant *)

(* The operating system runs one process at a time under an id.            *)
UniquePids ==
  \A p, q \in Proc : Running(p) /\ Running(q) /\ PidOf[p] = PidOf[q] => p = q

(* A call in progress owns the gate of its resource.                       *)
GateOwnedBy(p) ==
  pc[p] # "idle" => /\ Running(p)
                    /\ call[p] \in Call
                    /\ gate[call[p].res] = p

GateOwned == \A p \in Proc : GateOwnedBy(p)

(* A call was made with a handle, receipt or ticket in p's memory.         *)
Authorized(p, c) ==
  /\ c.kind \in {"begin", "cancel", "release", "transfer"} =>
       <<c.res, c.nonce>> \in held[p]
  /\ c.kind = "transfer" => /\ c.target \in Proc
                            /\ life[c.target] # "unborn"
                            /\ PidOf[c.target] # PidOf[p]
  /\ c.kind = "finish" => <<c.res, c.nonce, c.target>> \in receipts[p]
  /\ c.kind = "adopt" => <<c.res, c.nonce>> \in tickets[p]

CallAuthorized ==
  \A p \in Proc : pc[p] \in {"gated", "checked"} => Authorized(p, call[p])

(* What the check of call c found in the record of its resource.           *)
Found(c, record) ==
  /\ c.kind # "status"
  /\ (c.kind = "acquire" /\ record # NoRecord) =>
       ~record.pending /\ life[record.owner] = "dead"
  /\ c.kind # "acquire" => record # NoRecord /\ record.nonce = c.nonce
  /\ c.kind \in {"begin", "release", "finish"} => ~record.pending
  /\ c.kind = "finish" => life[record.owner] = "dead"

(* It is still true when the call writes.                                  *)
CheckHolds ==
  \A p \in Proc : pc[p] = "checked" =>
    /\ seen[p] = Current(p)
    /\ Found(call[p], Current(p))

(* The nonces in a file and in any memory were drawn. *)
NoncesIssued ==
  /\ \A r \in Resource : rec[r] # NoRecord =>
       rec[r].nonce \in issued /\ life[rec[r].owner] # "unborn"
  /\ \A p \in Proc, r \in Resource, n \in Nonce :
       <<r, n>> \in held[p] \cup tickets[p] => n \in issued
  /\ \A p \in Proc, r \in Resource, n \in Nonce, c \in Proc :
       <<r, n, c>> \in receipts[p] => n \in issued

(* A nonce sent out with a transfer is no handle, and while the file still *)
(* records it the lease belongs to the target and no handoff is pending.   *)
TransferNonces ==
  \A c \in Proc, r \in Resource, n \in Nonce :
    (<<r, n>> \in tickets[c] \/ \E p \in Proc : <<r, n, c>> \in receipts[p]) =>
      /\ \A q \in Proc : <<r, n>> \notin held[q]
      /\ (rec[r] # NoRecord /\ rec[r].nonce = n) =>
           rec[r].owner = c /\ ~rec[r].pending

IInv ==
  /\ TypeOK
  /\ UniquePids
  /\ GateOwned
  /\ CallAuthorized
  /\ CheckHolds
  /\ NoncesIssued
  /\ TransferNonces
  /\ HandlesAreCurrent

-----------------------------------------------------------------------------
(* Observations *)

(* A recorded owner that an inspection finds stale has ended.              *)
LEMMA StaleIsDead ==
  ASSUME TypeOK, UniquePids, NEW q \in Proc, life[q] # "unborn",
         "stale" \in Observed(q)
  PROVE  life[q] = "dead"
<1>1. CASE Running(q)
  <2>1. \A s \in Proc : Running(s) /\ PidOf[s] = PidOf[q] => s = q
    BY <1>1 DEF UniquePids
  <2>2. SameIdentity(q, q)
    BY DEF SameIdentity
  <2> QED
    BY <1>1, <2>1, <2>2 DEF Observed
<1>2. CASE ~Running(q)
  BY <1>2 DEF TypeOK, Running
<1> QED
  BY <1>1, <1>2

(* A call that a process may make is well formed and authorized.           *)
LEMMA CallShape ==
  ASSUME NEW p \in Proc, NEW c \in Calls(p), TypeOK
  PROVE  c \in Call /\ Authorized(p, c)
  BY DEF Calls, HandleCalls, TransferCalls, Call, Kinds, TypeOK, Authorized

-----------------------------------------------------------------------------
(* Type correctness *)

LEMMA TypeInit == Init => TypeOK
  BY DEF Init, TypeOK

LEMMA TypeStep ==
  ASSUME TypeOK, GateOwned, CallAuthorized, CheckHolds, [Next]_vars
  PROVE  TypeOK'
<1> USE DEF TypeOK
<1>1. ASSUME NEW p \in Proc, Start(p) PROVE TypeOK'
  BY <1>1 DEF Start, memory, control
<1>2. ASSUME NEW p \in Proc, End(p) PROVE TypeOK'
  BY <1>2 DEF End
<1>3. ASSUME NEW p \in Proc, Enter(p) PROVE TypeOK'
  <2>1. PICK c \in Calls(p) : /\ gate' = [gate EXCEPT ![c.res] = p]
                              /\ call' = [call EXCEPT ![p] = c]
    BY <1>3 DEF Enter
  <2>2. c \in Call
    BY CallShape
  <2> QED
    BY <1>3, <2>1, <2>2 DEF Enter, storeVars, Call
<1>4. ASSUME NEW p \in Proc, Check(p) PROVE TypeOK'
  BY <1>4 DEF Check, storeVars, Current, GateOwned, GateOwnedBy, Call
<1>5. ASSUME NEW p \in Proc, Refuse(p) \/ WriteFails(p) PROVE TypeOK'
  BY <1>5 DEF Refuse, WriteFails, storeVars
<1>6. ASSUME NEW p \in Proc, Write(p) PROVE TypeOK'
  <2>1. /\ pc[p] = "checked"
        /\ call[p] \in Call
        /\ pc' = [pc EXCEPT ![p] = "leaving"]
        /\ UNCHANGED <<life, gate, call, seen>>
    BY <1>6 DEF Write, WriteAcquire, WriteBegin, WriteCancel, WriteTransfer,
                WriteFinish, WriteAdopt, WriteRelease, Writes, GateOwned, GateOwnedBy
  <2>2. CASE WriteAcquire(p)
    BY <2>1, <2>2 DEF WriteAcquire, Publish, Record, Call
  <2>3. CASE WriteBegin(p) \/ WriteCancel(p)
    <3>1. seen[p] \in Record
      BY <2>1, <2>3 DEF WriteBegin, WriteCancel, Writes, CheckHolds, Found, Current, Call
    <3>2. PICK b \in BOOLEAN : rec' = [rec EXCEPT ![call[p].res] =
                                          [seen[p] EXCEPT !.pending = b]]
      BY <2>3 DEF WriteBegin, WriteCancel, Publish
    <3>3. [seen[p] EXCEPT !.pending = b] \in Record
      BY <3>1 DEF Record
    <3>4. rec' \in [Resource -> Record \cup {NoRecord}]
      BY <3>2, <3>3
    <3> QED
      BY <2>1, <2>3, <3>4 DEF WriteBegin, WriteCancel, memory
  <2>4. CASE WriteTransfer(p)
    <3>1. call[p].target \in Proc /\ call[p].res \in Resource
      BY <2>1, <2>4 DEF WriteTransfer, Writes, CallAuthorized, Authorized, Call
    <3> QED
      BY <2>1, <2>4, <3>1 DEF WriteTransfer, Publish, Record
  <2>5. CASE WriteAdopt(p)
    <3>1. seen[p] \in Record
      BY <2>1, <2>5 DEF WriteAdopt, Writes, CheckHolds, Found, Current, Call
    <3> QED
      BY <2>1, <2>5, <3>1 DEF WriteAdopt, Publish, Record, Call
  <2>6. CASE WriteFinish(p) \/ WriteRelease(p)
    BY <2>1, <2>6 DEF WriteFinish, WriteRelease, Publish, Call
  <2> QED
    BY <1>6, <2>2, <2>3, <2>4, <2>5, <2>6 DEF Write
<1>7. ASSUME NEW p \in Proc, Leave(p) PROVE TypeOK'
  BY <1>7 DEF Leave, storeVars, GateOwned, GateOwnedBy, Call
<1>8. ASSUME NEW r \in Resource, RepairGate(r) PROVE TypeOK'
  BY <1>8 DEF RepairGate, storeVars
<1>9. CASE UNCHANGED vars
  BY <1>9 DEF vars
<1> QED
  BY <1>1, <1>2, <1>3, <1>4, <1>5, <1>6, <1>7, <1>8, <1>9 DEF Next, InCall

-----------------------------------------------------------------------------
(* What each step leaves alone *)

(* A process that has started stays started, one that ended stays ended.   *)
LEMMA LifeStep ==
  ASSUME TypeOK, [Next]_vars, NEW p \in Proc
  PROVE  /\ life[p] # "unborn" => life'[p] # "unborn"
         /\ life[p] = "dead" => life'[p] = "dead"
<1>1. CASE UNCHANGED life
  BY <1>1
<1>2. ASSUME NEW q \in Proc, Start(q) \/ End(q)
      PROVE  /\ life[p] # "unborn" => life'[p] # "unborn"
             /\ life[p] = "dead" => life'[p] = "dead"
  BY <1>2 DEF Start, End, Running, TypeOK
<1> QED
  BY <1>1, <1>2 DEF Next, InCall, Enter, Check, Refuse, WriteFails, Write,
     WriteAcquire, WriteBegin, WriteCancel, WriteTransfer, WriteFinish,
     WriteAdopt, WriteRelease, Writes, Leave, RepairGate, storeVars, vars

(* A write touches one record, and only of the resource whose gate it has. *)
LEMMA WriteFrame ==
  ASSUME TypeOK, GateOwned, NEW p \in Proc, Write(p)
  PROVE  /\ Running(p)
         /\ pc[p] = "checked"
         /\ call[p] \in Call
         /\ gate[call[p].res] = p
         /\ pc' = [pc EXCEPT ![p] = "leaving"]
         /\ UNCHANGED <<life, gate, call, seen>>
         /\ \A r \in Resource : r # call[p].res => rec'[r] = rec[r]
         /\ issued \subseteq issued'
  BY ZenonT(60) DEF Write, WriteAcquire, WriteBegin, WriteCancel, WriteTransfer, WriteFinish,
         WriteAdopt, WriteRelease, Writes, Publish, GateOwned, GateOwnedBy, TypeOK, memory

(* Whose record a checked call is about to change.                         *)
LEMMA CheckedOwner ==
  ASSUME IInv, NEW p \in Proc, pc[p] = "checked"
  PROVE  /\ call[p] \in Call
         /\ seen[p] = rec[call[p].res]
         /\ call[p].kind = "acquire" =>
              (rec[call[p].res] # NoRecord =>
                 /\ ~rec[call[p].res].pending
                 /\ life[rec[call[p].res].owner] = "dead")
         /\ call[p].kind # "acquire" =>
              /\ rec[call[p].res] \in Record
              /\ rec[call[p].res].nonce = call[p].nonce
         /\ call[p].kind \in {"begin", "cancel", "release", "transfer", "adopt"} =>
              rec[call[p].res].owner = p
         /\ call[p].kind \in {"begin", "release", "finish", "adopt"} =>
              ~rec[call[p].res].pending
         /\ call[p].kind = "finish" =>
              /\ rec[call[p].res].owner = call[p].target
              /\ life[call[p].target] = "dead"
<1>1. /\ call[p] \in Call
      /\ call[p].res \in Resource
      /\ rec[call[p].res] \in Record \cup {NoRecord}
  BY DEF IInv, GateOwned, GateOwnedBy, Call, TypeOK
<1>2. call[p].kind \in {"begin", "cancel", "release", "transfer"} =>
        rec[call[p].res].owner = p
  <2> SUFFICES ASSUME call[p].kind \in {"begin", "cancel", "release", "transfer"}
               PROVE  rec[call[p].res].owner = p
    OBVIOUS
  <2>1. <<call[p].res, call[p].nonce>> \in held[p]
    BY DEF IInv, CallAuthorized, Authorized
  <2>2. call[p].nonce \in Nonce
    BY <2>1 DEF IInv, TypeOK
  <2> QED
    BY <1>1, <2>1, <2>2 DEF IInv, HandlesAreCurrent
<1>3. call[p].kind \in {"adopt", "finish"} =>
        /\ ~rec[call[p].res].pending
        /\ call[p].kind = "adopt" => rec[call[p].res].owner = p
        /\ call[p].kind = "finish" => rec[call[p].res].owner = call[p].target
  <2>1. CASE call[p].kind = "adopt"
    <3>1. <<call[p].res, call[p].nonce>> \in tickets[p]
      BY <2>1 DEF IInv, CallAuthorized, Authorized
    <3>2. call[p].nonce \in Nonce
      BY <3>1 DEF IInv, TypeOK
    <3> QED
      BY ZenonT(60), <1>1, <2>1, <3>1, <3>2 DEF IInv, TransferNonces, CheckHolds, Found, Current
  <2>2. CASE call[p].kind = "finish"
    <3>1. <<call[p].res, call[p].nonce, call[p].target>> \in receipts[p]
      BY <2>2 DEF IInv, CallAuthorized, Authorized
    <3>2. call[p].nonce \in Nonce /\ call[p].target \in Proc
      BY <3>1 DEF IInv, TypeOK
    <3> QED
      BY <1>1, <2>2, <3>1, <3>2 DEF IInv, TransferNonces, CheckHolds, Found, Current
  <2> QED
    BY <2>1, <2>2
<1>4. /\ seen[p] = rec[call[p].res]
      /\ call[p].kind = "acquire" =>
           (rec[call[p].res] # NoRecord =>
              /\ ~rec[call[p].res].pending
              /\ life[rec[call[p].res].owner] = "dead")
      /\ call[p].kind # "acquire" =>
           /\ rec[call[p].res] \in Record
           /\ rec[call[p].res].nonce = call[p].nonce
      /\ call[p].kind \in {"begin", "release", "finish"} => ~rec[call[p].res].pending
      /\ call[p].kind = "finish" => life[rec[call[p].res].owner] = "dead"
  BY <1>1 DEF IInv, CheckHolds, Found, Current
<1> QED
  BY <1>1, <1>2, <1>3, <1>4

-----------------------------------------------------------------------------
(* Every conjunct of the invariant is preserved *)

LEMMA UniquePidsStep ==
  ASSUME TypeOK, UniquePids, [Next]_vars
  PROVE  UniquePids'
<1>1. CASE UNCHANGED life
  BY <1>1 DEF UniquePids, Running
<1>2. ASSUME NEW q \in Proc, Start(q) \/ End(q) PROVE UniquePids'
  BY <1>2 DEF Start, End, Running, TypeOK, UniquePids
<1> QED
  BY <1>1, <1>2 DEF Next, InCall, Enter, Check, Refuse, WriteFails, Write,
     WriteAcquire, WriteBegin, WriteCancel, WriteTransfer, WriteFinish,
     WriteAdopt, WriteRelease, Writes, Leave, RepairGate, storeVars, vars

LEMMA GateOwnedStep ==
  ASSUME TypeOK, GateOwned, [Next]_vars
  PROVE  GateOwned'
<1> SUFFICES ASSUME NEW q \in Proc PROVE GateOwnedBy(q)'
  BY DEF GateOwned
<1>0. GateOwnedBy(q)
  BY DEF GateOwned
<1> USE DEF GateOwnedBy, Running
<1>1. ASSUME NEW p \in Proc, Start(p) PROVE GateOwnedBy(q)'
  BY <1>0, <1>1 DEF Start, control, TypeOK
<1>2. ASSUME NEW p \in Proc, End(p) PROVE GateOwnedBy(q)'
  BY <1>0, <1>2 DEF End, TypeOK
<1>3. ASSUME NEW p \in Proc, Enter(p) PROVE GateOwnedBy(q)'
  <2>1. PICK c \in Calls(p) : /\ gate[c.res] = NoProc
                              /\ gate' = [gate EXCEPT ![c.res] = p]
                              /\ call' = [call EXCEPT ![p] = c]
    BY <1>3 DEF Enter
  <2>2. c \in Call /\ c.res \in Resource
    BY CallShape DEF Call
  <2>3. CASE q = p
    BY <1>3, <2>1, <2>2, <2>3 DEF Enter, storeVars, TypeOK
  <2>4. CASE q # p
    <3>1. pc[q] # "idle" => call[q].res # c.res
      BY <1>0, <2>1, LeaseAssumption
    <3> QED
      BY <1>0, <1>3, <2>1, <2>2, <2>4, <3>1 DEF Enter, storeVars, TypeOK, Call
  <2> QED
    BY <2>3, <2>4
<1>4. ASSUME NEW p \in Proc, Check(p) \/ Refuse(p) \/ WriteFails(p)
      PROVE  GateOwnedBy(q)'
  BY <1>0, <1>4 DEF Check, Refuse, WriteFails, storeVars, TypeOK
<1>5. ASSUME NEW p \in Proc, Write(p) PROVE GateOwnedBy(q)'
  BY <1>0, <1>5, WriteFrame DEF TypeOK
<1>6. ASSUME NEW p \in Proc, Leave(p) PROVE GateOwnedBy(q)'
  <2>1. GateOwnedBy(p)
    BY DEF GateOwned
  <2>2. CASE q = p
    BY <1>6, <2>2 DEF Leave, TypeOK
  <2>3. CASE q # p
    BY <1>0, <1>6, <2>1, <2>3 DEF Leave, storeVars, TypeOK, Call
  <2> QED
    BY <2>2, <2>3
<1>7. ASSUME NEW r \in Resource, RepairGate(r) PROVE GateOwnedBy(q)'
  BY <1>0, <1>7 DEF RepairGate, storeVars, Call, TypeOK
<1>8. CASE UNCHANGED vars
  BY <1>0, <1>8 DEF vars
<1> QED
  BY <1>1, <1>2, <1>3, <1>4, <1>5, <1>6, <1>7, <1>8 DEF Next, InCall

LEMMA CallAuthorizedStep ==
  ASSUME TypeOK, GateOwned, CallAuthorized, [Next]_vars
  PROVE  CallAuthorized'
<1> SUFFICES ASSUME NEW q \in Proc, pc'[q] \in {"gated", "checked"}
             PROVE  Authorized(q, call[q])'
  BY DEF CallAuthorized
<1>0. pc[q] \in {"gated", "checked"} => Authorized(q, call[q])
  BY DEF CallAuthorized
<1> USE DEF Authorized
<1>1. ASSUME NEW p \in Proc, Start(p) PROVE Authorized(q, call[q])'
  BY <1>0, <1>1 DEF Start, control, memory, TypeOK
<1>2. ASSUME NEW p \in Proc, End(p) PROVE Authorized(q, call[q])'
  BY <1>0, <1>2 DEF End, TypeOK
<1>3. ASSUME NEW p \in Proc, Enter(p) PROVE Authorized(q, call[q])'
  <2>1. PICK c \in Calls(p) : call' = [call EXCEPT ![p] = c]
    BY <1>3 DEF Enter
  <2>2. Authorized(p, c)
    BY CallShape
  <2>3. CASE q = p
    BY <1>3, <2>1, <2>2, <2>3 DEF Enter, storeVars, TypeOK
  <2>4. CASE q # p
    BY <1>0, <1>3, <2>1, <2>4 DEF Enter, storeVars, TypeOK
  <2> QED
    BY <2>3, <2>4
<1>4. ASSUME NEW p \in Proc, Check(p) \/ Refuse(p) \/ WriteFails(p)
      PROVE  Authorized(q, call[q])'
  BY <1>0, <1>4 DEF Check, Refuse, WriteFails, storeVars, TypeOK
<1>5. ASSUME NEW p \in Proc, Write(p) PROVE Authorized(q, call[q])'
  <2>1. /\ call' = call
        /\ life' = life
        /\ pc' = [pc EXCEPT ![p] = "leaving"]
    BY <1>5, WriteFrame
  <2>2. q # p
    BY <2>1 DEF TypeOK
  <2>3. /\ held'[q] = held[q]
        /\ receipts'[q] = receipts[q]
        /\ tickets[q] \subseteq tickets'[q]
    <3>1. CASE WriteTransfer(p)
      BY <2>2, <3>1 DEF WriteTransfer, TypeOK
    <3>2. CASE WriteAcquire(p) \/ WriteAdopt(p)
      BY <2>2, <3>2 DEF WriteAcquire, WriteAdopt, TypeOK
    <3>3. CASE \/ WriteBegin(p) \/ WriteCancel(p) \/ WriteFinish(p)
               \/ WriteRelease(p)
      BY <2>2, <3>3 DEF WriteBegin, WriteCancel, WriteFinish, WriteRelease, memory,
                        TypeOK
    <3> QED
      BY <1>5, <3>1, <3>2, <3>3 DEF Write
  <2> QED
    BY <1>0, <2>1, <2>2, <2>3 DEF TypeOK
<1>6. ASSUME NEW p \in Proc, Leave(p) PROVE Authorized(q, call[q])'
  BY <1>0, <1>6 DEF Leave, storeVars, TypeOK
<1>7. ASSUME NEW r \in Resource, RepairGate(r) PROVE Authorized(q, call[q])'
  BY <1>0, <1>7 DEF RepairGate, storeVars
<1>8. CASE UNCHANGED vars
  BY <1>0, <1>8 DEF vars
<1> QED
  BY <1>1, <1>2, <1>3, <1>4, <1>5, <1>6, <1>7, <1>8 DEF Next, InCall

(* A check that passes has found what Found says.                          *)
LEMMA AdmittedFound ==
  ASSUME IInv, NEW p \in Proc, pc[p] = "gated", Admitted(p)
  PROVE  Found(call[p], Current(p))
<1>1. call[p].res \in Resource /\ Current(p) \in Record \cup {NoRecord}
  BY DEF IInv, GateOwned, GateOwnedBy, Call, TypeOK, Current
<1>2. ASSUME Current(p) # NoRecord, "stale" \in Observed(Current(p).owner)
      PROVE  life[Current(p).owner] = "dead"
  <2>1. Current(p).owner \in Proc /\ life[Current(p).owner] # "unborn"
    BY <1>1, <1>2 DEF IInv, NoncesIssued, Current, Record
  <2> QED
    BY <1>2, <2>1, StaleIsDead DEF IInv
<1>3. CASE AcquireAdmitted(p)
  BY <1>2, <1>3 DEF AcquireAdmitted, Found
<1>4. CASE FinishAdmitted(p)
  BY <1>2, <1>4 DEF FinishAdmitted, PersistedOwner, Found
<1>5. CASE \/ BeginAdmitted(p) \/ CancelAdmitted(p) \/ TransferAdmitted(p)
           \/ AdoptAdmitted(p) \/ ReleaseAdmitted(p)
  BY <1>5 DEF BeginAdmitted, CancelAdmitted, TransferAdmitted, AdoptAdmitted,
              ReleaseAdmitted, PersistedOwner, Found
<1> QED
  BY <1>3, <1>4, <1>5 DEF Admitted

LEMMA CheckHoldsStep ==
  ASSUME IInv, [Next]_vars
  PROVE  CheckHolds'
<1> SUFFICES ASSUME NEW q \in Proc, pc'[q] = "checked"
             PROVE  seen'[q] = Current(q)' /\ Found(call[q], Current(q))'
  BY DEF CheckHolds
<1>0. /\ TypeOK
      /\ pc[q] = "checked" =>
            /\ seen[q] = Current(q)
            /\ Found(call[q], Current(q))
            /\ call[q] \in Call
            /\ Current(q) \in Record \cup {NoRecord}
  BY DEF IInv, CheckHolds, GateOwned, GateOwnedBy, TypeOK, Call, Current
<1>1. ASSUME pc[q] = "checked", seen'[q] = seen[q], call'[q] = call[q],
             rec'[call[q].res] = rec[call[q].res]
      PROVE  seen'[q] = Current(q)' /\ Found(call[q], Current(q))'
  <2>1. \A r \in Proc : life[r] = "dead" => life'[r] = "dead"
    BY <1>0, LifeStep
  <2> QED
    BY <1>0, <1>1, <2>1 DEF Found, Current, Record
<1>2. ASSUME NEW p \in Proc, Check(p)
      PROVE  seen'[q] = Current(q)' /\ Found(call[q], Current(q))'
  <2>1. CASE q = p
    <3>1. Found(call[p], Current(p))
      BY <1>2, AdmittedFound DEF Check
    <3> QED
      BY <1>0, <1>2, <2>1, <3>1 DEF Check, storeVars, Found, Current, TypeOK
  <2>2. CASE q # p
    BY <1>0, <1>1, <1>2, <2>2 DEF Check, storeVars, TypeOK
  <2> QED
    BY <2>1, <2>2
<1>3. ASSUME NEW p \in Proc, Write(p)
      PROVE  seen'[q] = Current(q)' /\ Found(call[q], Current(q))'
  <2>1. /\ gate[call[p].res] = p
        /\ pc' = [pc EXCEPT ![p] = "leaving"]
        /\ seen' = seen /\ call' = call
        /\ \A r \in Resource : r # call[p].res => rec'[r] = rec[r]
    BY <1>0, <1>3, WriteFrame DEF IInv
  <2>2. q # p /\ pc[q] = "checked"
    BY <1>0, <2>1 DEF TypeOK
  <2>3. gate[call[q].res] = q /\ call[q].res \in Resource
    BY <2>2 DEF IInv, GateOwned, GateOwnedBy, Call
  <2> QED
    BY <1>1, <2>1, <2>2, <2>3
<1>4. ASSUME NEW p \in Proc, \/ Start(p) \/ End(p) \/ Enter(p) \/ Refuse(p)
                            \/ WriteFails(p) \/ Leave(p)
      PROVE  pc[q] = "checked" /\ seen'[q] = seen[q] /\ call'[q] = call[q] /\ rec' = rec
  BY <1>0, <1>4 DEF Start, End, Enter, Refuse, WriteFails, Leave, storeVars, control,
                    TypeOK
<1>5. ASSUME NEW r \in Resource, RepairGate(r)
      PROVE  pc' = pc /\ seen' = seen /\ call' = call /\ rec' = rec
  BY <1>5 DEF RepairGate, storeVars
<1>6. CASE UNCHANGED vars
  BY <1>1, <1>6 DEF vars
<1> QED
  BY <1>1, <1>2, <1>3, <1>4, <1>5, <1>6 DEF Next, InCall

(* Outside the writes no file changes, no nonce is drawn and no memory     *)
(* grows.                                                                  *)
LEMMA QuietStep ==
  ASSUME TypeOK, [Next]_vars, \A p \in Proc : ~Write(p)
  PROVE  /\ rec' = rec
         /\ issued' = issued
         /\ \A q \in Proc : /\ held'[q] \subseteq held[q]
                            /\ receipts'[q] \subseteq receipts[q]
                            /\ tickets'[q] \subseteq tickets[q]
         /\ \A q \in Proc : Running(q) /\ ~Running(q)' => held'[q] = {}
<1>1. ASSUME NEW p \in Proc, Start(p)
      PROVE  /\ UNCHANGED <<rec, memory, issued>>
             /\ \A q \in Proc : Running(q) => Running(q)'
  BY <1>1 DEF Start, Running, TypeOK
<1>2. ASSUME NEW p \in Proc, End(p)
      PROVE  /\ UNCHANGED <<rec, issued>>
             /\ held'[p] = {} /\ receipts'[p] = {} /\ tickets'[p] = {}
             /\ \A q \in Proc \ {p} : /\ life'[q] = life[q]
                                     /\ held'[q] = held[q]
                                     /\ receipts'[q] = receipts[q]
                                     /\ tickets'[q] = tickets[q]
  BY <1>2 DEF End, TypeOK
<1>3. ASSUME NEW p \in Proc, \/ Enter(p) \/ Check(p) \/ Refuse(p)
                            \/ WriteFails(p) \/ Leave(p)
      PROVE  UNCHANGED storeVars
  BY <1>3 DEF Enter, Check, Refuse, WriteFails, Leave
<1>4. ASSUME NEW r \in Resource, RepairGate(r) PROVE UNCHANGED storeVars
  BY <1>4 DEF RepairGate
<1>5. CASE UNCHANGED vars
  BY <1>5 DEF vars, Running
<1> QED
  BY <1>1, <1>2, <1>3, <1>4, <1>5 DEF Next, InCall, storeVars, memory, Running

LEMMA NoncesIssuedStep ==
  ASSUME IInv, [Next]_vars
  PROVE  NoncesIssued'
<1>0. /\ TypeOK /\ NoncesIssued
      /\ \A p \in Proc : life[p] # "unborn" => life'[p] # "unborn"
  BY LifeStep DEF IInv
<1>1. CASE \A p \in Proc : ~Write(p)
  BY <1>0, <1>1, QuietStep DEF NoncesIssued, TypeOK, Record
<1>2. ASSUME NEW p \in Proc, Write(p) PROVE NoncesIssued'
  <2>1. /\ life' = life
        /\ call[p].res \in Resource
        /\ Running(p)
        /\ pc[p] = "checked"
        /\ seen[p] = rec[call[p].res]
        /\ \A r \in Resource : r # call[p].res => rec'[r] = rec[r]
    BY <1>2, WriteFrame, CheckedOwner DEF IInv, Call
  <2>2. ASSUME issued \subseteq issued',
               rec'[call[p].res] # NoRecord =>
                 /\ rec'[call[p].res].nonce \in issued'
                 /\ life[rec'[call[p].res].owner] # "unborn",
               \A q \in Proc, r \in Resource, n \in Nonce :
                 <<r, n>> \in held'[q] \cup tickets'[q] =>
                   <<r, n>> \in held[q] \cup tickets[q] \/ n \in issued',
               \A q \in Proc, r \in Resource, n \in Nonce, c \in Proc :
                 <<r, n, c>> \in receipts'[q] =>
                   <<r, n, c>> \in receipts[q] \/ n \in issued'
        PROVE  NoncesIssued'
    BY <1>0, <2>1, <2>2 DEF NoncesIssued
  <2>3. CASE WriteBegin(p) \/ WriteCancel(p)
    <3>1. PICK b \in BOOLEAN :
            rec' = [rec EXCEPT ![call[p].res] = [seen[p] EXCEPT !.pending = b]]
      BY <2>3 DEF WriteBegin, WriteCancel, Publish
    <3>2. rec[call[p].res] \in Record
      BY <2>1, <2>3, CheckedOwner DEF WriteBegin, WriteCancel, Writes
    <3>3. /\ rec'[call[p].res].nonce = rec[call[p].res].nonce
          /\ rec'[call[p].res].owner = rec[call[p].res].owner
      BY <1>0, <2>1, <3>1, <3>2 DEF TypeOK, Record
    <3> QED
      BY <1>0, <2>1, <2>2, <2>3, <3>2, <3>3, LeaseAssumption
         DEF WriteBegin, WriteCancel, memory, NoncesIssued
  <2>4. CASE WriteAcquire(p)
    <3>1. PICK n \in Nonce :
            /\ rec' = [rec EXCEPT ![call[p].res] =
                                  [owner |-> p, nonce |-> n, pending |-> FALSE]]
            /\ held' = [held EXCEPT ![p] = @ \cup {<<call[p].res, n>>}]
            /\ issued' = issued \cup {n}
      BY <2>4 DEF WriteAcquire, Publish
    <3>2. life[p] # "unborn"
      BY <2>1 DEF Running
    <3>3. rec'[call[p].res] = [owner |-> p, nonce |-> n, pending |-> FALSE]
      BY <1>0, <2>1, <3>1 DEF TypeOK
    <3>4. \A q \in Proc, r \in Resource, m \in Nonce :
            <<r, m>> \in held'[q] => <<r, m>> \in held[q] \/ m = n
      BY <1>0, <3>1 DEF TypeOK
    <3> QED
      BY <2>2, <2>4, <3>1, <3>2, <3>3, <3>4 DEF WriteAcquire
  <2>5. CASE WriteTransfer(p)
    <3>1. call[p].target \in Proc /\ life[call[p].target] # "unborn"
      BY <2>1, <2>5 DEF WriteTransfer, Writes, IInv, CallAuthorized, Authorized
    <3>2. PICK m \in Nonce :
            /\ rec' = [rec EXCEPT ![call[p].res] =
                          [owner |-> call[p].target, nonce |-> m, pending |-> FALSE]]
            /\ held' = [held EXCEPT ![p] = @ \ {<<call[p].res, call[p].nonce>>}]
            /\ receipts' = [receipts EXCEPT
                              ![p] = @ \cup {<<call[p].res, m, call[p].target>>}]
            /\ tickets' = IF Running(call[p].target)
                          THEN [tickets EXCEPT
                                  ![call[p].target] = @ \cup {<<call[p].res, m>>}]
                          ELSE tickets
            /\ issued' = issued \cup {m}
      BY <2>5 DEF WriteTransfer, Publish
    <3>3. \A q \in Proc, r \in Resource, n \in Nonce :
            <<r, n>> \in held'[q] \cup tickets'[q] =>
              <<r, n>> \in held[q] \cup tickets[q] \/ n = m
      BY <1>0, <3>1, <3>2 DEF TypeOK
    <3>4. \A q \in Proc, r \in Resource, n \in Nonce, c \in Proc :
            <<r, n, c>> \in receipts'[q] => <<r, n, c>> \in receipts[q] \/ n = m
      BY <1>0, <3>1, <3>2 DEF TypeOK
    <3>5. rec'[call[p].res] =
            [owner |-> call[p].target, nonce |-> m, pending |-> FALSE]
      BY <1>0, <2>1, <3>2 DEF TypeOK
    <3> QED
      BY <2>2, <3>1, <3>2, <3>3, <3>4, <3>5
  <2>6. CASE WriteAdopt(p)
    <3>1. PICK m \in Nonce :
            /\ rec' = [rec EXCEPT ![call[p].res] = [seen[p] EXCEPT !.nonce = m]]
            /\ held' = [held EXCEPT ![p] = @ \cup {<<call[p].res, m>>}]
            /\ issued' = issued \cup {m}
      BY <2>6 DEF WriteAdopt, Publish
    <3>2. rec[call[p].res] \in Record
      BY <2>1, <2>6, CheckedOwner DEF WriteAdopt, Writes
    <3>3. /\ rec'[call[p].res].nonce = m
          /\ rec'[call[p].res].owner = rec[call[p].res].owner
      BY <1>0, <2>1, <3>1, <3>2 DEF TypeOK, Record
    <3>4. life[rec[call[p].res].owner] # "unborn"
      BY <1>0, <2>1, <3>2, LeaseAssumption DEF NoncesIssued
    <3>5. \A q \in Proc, r \in Resource, n \in Nonce :
            <<r, n>> \in held'[q] => <<r, n>> \in held[q] \/ n = m
      BY <1>0, <3>1 DEF TypeOK
    <3> QED
      BY <2>2, <2>6, <3>1, <3>3, <3>4, <3>5 DEF WriteAdopt
  <2>7. CASE WriteFinish(p) \/ WriteRelease(p)
    <3>1. rec'[call[p].res] = NoRecord /\ issued' = issued
      BY <1>0, <2>1, <2>7 DEF WriteFinish, WriteRelease, Publish, TypeOK
    <3>2. /\ tickets' = tickets
          /\ \A q \in Proc : /\ held'[q] \subseteq held[q]
                             /\ receipts'[q] \subseteq receipts[q]
      BY <1>0, <2>7 DEF WriteFinish, WriteRelease, TypeOK
    <3> QED
      BY <2>2, <3>1, <3>2
  <2> QED
    BY <1>2, <2>3, <2>4, <2>5, <2>6, <2>7 DEF Write
<1> QED
  BY <1>1, <1>2

(* No other process has the record p is about to change in its memory.     *)
LEMMA HandleOfChecked ==
  ASSUME IInv, NEW p \in Proc, pc[p] = "checked",
         NEW q \in Proc, NEW n \in Nonce, <<call[p].res, n>> \in held[q]
  PROVE  /\ call[p].kind \in {"begin", "cancel", "release", "transfer"}
         /\ q = p
         /\ n = call[p].nonce
<1>1. call[p] \in Call /\ call[p].res \in Resource
  BY CheckedOwner DEF Call
<1>2. /\ Running(q)
      /\ rec[call[p].res] # NoRecord
      /\ rec[call[p].res].owner = q
      /\ rec[call[p].res].nonce = n
  BY <1>1 DEF IInv, HandlesAreCurrent
<1>3. call[p].kind # "acquire"
  BY <1>2, CheckedOwner DEF Running
<1>4. call[p].nonce = n
  BY <1>2, <1>3, CheckedOwner
<1>5. call[p].kind # "finish"
  BY <1>2, CheckedOwner DEF Running
<1>6. call[p].kind # "adopt"
  <2> SUFFICES ASSUME call[p].kind = "adopt" PROVE FALSE
    OBVIOUS
  <2>1. <<call[p].res, n>> \in tickets[p]
    BY <1>4 DEF IInv, CallAuthorized, Authorized
  <2> QED
    BY ZenonT(60), <1>1, <2>1 DEF IInv, TransferNonces
<1>7. call[p].kind # "status"
  BY DEF IInv, CheckHolds, Found
<1>8. call[p].kind \in {"begin", "cancel", "release", "transfer"}
  BY <1>1, <1>3, <1>5, <1>6, <1>7 DEF Call, Kinds
<1> QED
  BY <1>2, <1>4, <1>8, CheckedOwner

LEMMA HandlesStep ==
  ASSUME IInv, [Next]_vars
  PROVE  HandlesAreCurrent'
<1>0. TypeOK /\ HandlesAreCurrent
  BY DEF IInv
<1>1. CASE \A p \in Proc : ~Write(p)
  <2>1. /\ rec' = rec
        /\ \A q \in Proc : held'[q] \subseteq held[q]
        /\ \A q \in Proc : Running(q) /\ ~Running(q)' => held'[q] = {}
    BY <1>0, <1>1, QuietStep
  <2> QED
    BY <1>0, <2>1 DEF HandlesAreCurrent
<1>2. ASSUME NEW p \in Proc, Write(p) PROVE HandlesAreCurrent'
  <2>1. /\ life' = life
        /\ call[p].res \in Resource
        /\ Running(p)
        /\ pc[p] = "checked"
        /\ seen[p] = rec[call[p].res]
        /\ \A r \in Resource : r # call[p].res => rec'[r] = rec[r]
    BY <1>2, WriteFrame, CheckedOwner DEF IInv, Call
  <2>2. ASSUME \A q \in Proc, r \in Resource, n \in Nonce :
                 r # call[p].res /\ <<r, n>> \in held'[q] => <<r, n>> \in held[q],
               \A q \in Proc, n \in Nonce :
                 <<call[p].res, n>> \in held'[q] =>
                   /\ q = p
                   /\ rec'[call[p].res] # NoRecord
                   /\ rec'[call[p].res].owner = p
                   /\ rec'[call[p].res].nonce = n
        PROVE  HandlesAreCurrent'
    BY <1>0, <2>1, <2>2 DEF HandlesAreCurrent, Running
  <2>3. CASE WriteBegin(p) \/ WriteCancel(p)
    <3>1. PICK b \in BOOLEAN :
            rec' = [rec EXCEPT ![call[p].res] = [seen[p] EXCEPT !.pending = b]]
      BY <2>3 DEF WriteBegin, WriteCancel, Publish
    <3>2. rec[call[p].res] \in Record
      BY <2>1, <2>3, CheckedOwner DEF WriteBegin, WriteCancel, Writes
    <3>3. /\ rec'[call[p].res] \in Record
          /\ rec'[call[p].res].nonce = rec[call[p].res].nonce
          /\ rec'[call[p].res].owner = rec[call[p].res].owner
      BY <1>0, <2>1, <3>1, <3>2 DEF TypeOK, Record
    <3>4. held' = held
      BY <2>3 DEF WriteBegin, WriteCancel, memory
    <3>5. \A q \in Proc, n \in Nonce : <<call[p].res, n>> \in held[q] =>
            q = p /\ rec[call[p].res].owner = p /\ rec[call[p].res].nonce = n
      BY <1>0, <2>1, HandleOfChecked DEF HandlesAreCurrent
    <3> QED
      BY <2>1, <2>2, <3>3, <3>4, <3>5, LeaseAssumption
  <2>4. CASE WriteAcquire(p)
    <3>1. PICK n \in Nonce :
            /\ rec' = [rec EXCEPT ![call[p].res] =
                                  [owner |-> p, nonce |-> n, pending |-> FALSE]]
            /\ held' = [held EXCEPT ![p] = @ \cup {<<call[p].res, n>>}]
            /\ call[p].kind = "acquire"
      BY <2>4 DEF WriteAcquire, Publish, Writes
    <3>2. rec'[call[p].res] = [owner |-> p, nonce |-> n, pending |-> FALSE]
      BY <1>0, <2>1, <3>1 DEF TypeOK
    <3>3. [owner |-> p, nonce |-> n, pending |-> FALSE] \in Record
      BY DEF Record
    <3>4. rec'[call[p].res] # NoRecord
      BY <3>2, <3>3, LeaseAssumption
    <3>5. \A q \in Proc, m \in Nonce : <<call[p].res, m>> \notin held[q]
      BY <2>1, <3>1, HandleOfChecked
    <3>6. \A q \in Proc, r \in Resource, m \in Nonce :
            <<r, m>> \in held'[q] =>
              <<r, m>> \in held[q] \/ (q = p /\ r = call[p].res /\ m = n)
      BY <1>0, <3>1 DEF TypeOK
    <3> QED
      BY <2>1, <2>2, <3>2, <3>4, <3>5, <3>6
  <2>5. CASE WriteAdopt(p)
    <3>1. PICK m \in Nonce :
            /\ rec' = [rec EXCEPT ![call[p].res] = [seen[p] EXCEPT !.nonce = m]]
            /\ held' = [held EXCEPT ![p] = @ \cup {<<call[p].res, m>>}]
            /\ call[p].kind = "adopt"
      BY <2>5 DEF WriteAdopt, Publish, Writes
    <3>2. rec[call[p].res] \in Record /\ rec[call[p].res].owner = p
      BY <2>1, <3>1, CheckedOwner
    <3>3. /\ rec'[call[p].res] \in Record
          /\ rec'[call[p].res].nonce = m
          /\ rec'[call[p].res].owner = p
      BY <1>0, <2>1, <3>1, <3>2 DEF TypeOK, Record
    <3>4. \A q \in Proc, n \in Nonce : <<call[p].res, n>> \notin held[q]
      BY <2>1, <3>1, HandleOfChecked
    <3>5. \A q \in Proc, r \in Resource, n \in Nonce :
            <<r, n>> \in held'[q] =>
              <<r, n>> \in held[q] \/ (q = p /\ r = call[p].res /\ n = m)
      BY <1>0, <3>1 DEF TypeOK
    <3> QED
      BY <2>1, <2>2, <3>3, <3>4, <3>5, LeaseAssumption
  <2>6. CASE WriteTransfer(p) \/ WriteRelease(p)
    <3>1. held' = [held EXCEPT ![p] = @ \ {<<call[p].res, call[p].nonce>>}]
      BY <2>6 DEF WriteTransfer, WriteRelease
    <3>2. \A q \in Proc, n \in Nonce : <<call[p].res, n>> \in held[q] =>
            q = p /\ n = call[p].nonce
      BY <2>1, HandleOfChecked
    <3>3. \A q \in Proc, n \in Nonce : <<call[p].res, n>> \notin held'[q]
      BY <1>0, <3>1, <3>2 DEF TypeOK
    <3>4. \A q \in Proc : held'[q] \subseteq held[q]
      BY <1>0, <3>1 DEF TypeOK
    <3> QED
      BY <2>2, <3>3, <3>4
  <2>7. CASE WriteFinish(p)
    <3>1. held' = held /\ call[p].kind = "finish"
      BY <2>7 DEF WriteFinish, Writes
    <3>2. \A q \in Proc, n \in Nonce : <<call[p].res, n>> \notin held[q]
      BY <2>1, <3>1, HandleOfChecked
    <3> QED
      BY <2>2, <3>1, <3>2
  <2> QED
    BY <1>2, <2>3, <2>4, <2>5, <2>6, <2>7 DEF Write
<1> QED
  BY <1>1, <1>2

LEMMA TransferNoncesStep ==
  ASSUME IInv, [Next]_vars
  PROVE  TransferNonces'
<1>0. TypeOK /\ TransferNonces /\ NoncesIssued
  BY DEF IInv
<1>1. CASE \A p \in Proc : ~Write(p)
  <2>1. /\ rec' = rec
        /\ \A q \in Proc : /\ held'[q] \subseteq held[q]
                           /\ receipts'[q] \subseteq receipts[q]
                           /\ tickets'[q] \subseteq tickets[q]
    BY <1>0, <1>1, QuietStep
  <2> SUFFICES ASSUME NEW c \in Proc, NEW r \in Resource, NEW n \in Nonce,
                      \/ <<r, n>> \in tickets'[c]
                      \/ \E q \in Proc : <<r, n, c>> \in receipts'[q]
               PROVE  /\ \A q \in Proc : <<r, n>> \notin held'[q]
                      /\ (rec'[r] # NoRecord /\ rec'[r].nonce = n) =>
                           rec'[r].owner = c /\ ~rec'[r].pending
    BY DEF TransferNonces
  <2>2. <<r, n>> \in tickets[c] \/ \E q \in Proc : <<r, n, c>> \in receipts[q]
    BY <2>1
  <2>3. /\ \A q \in Proc : <<r, n>> \notin held[q]
        /\ (rec[r] # NoRecord /\ rec[r].nonce = n) => rec[r].owner = c /\ ~rec[r].pending
    BY <1>0, <2>2 DEF TransferNonces
  <2> QED
    BY <2>1, <2>3
<1>2. ASSUME NEW p \in Proc, Write(p) PROVE TransferNonces'
  <2>1. /\ call[p].res \in Resource
        /\ pc[p] = "checked"
        /\ seen[p] = rec[call[p].res]
        /\ \A r \in Resource : r # call[p].res => rec'[r] = rec[r]
    BY <1>2, WriteFrame, CheckedOwner DEF IInv, Call
  <2> DEFINE Sent(c, r, n) ==
               <<r, n>> \in tickets[c] \/ \E q \in Proc : <<r, n, c>> \in receipts[q]
  <2>2. \A c \in Proc, r \in Resource, n \in Nonce : Sent(c, r, n) => n \in issued
    BY <1>0 DEF NoncesIssued
  (* A write that sends nothing, and at most adds a handle with a fresh nonce. *)
  <2>3. ASSUME \A c \in Proc, r \in Resource, n \in Nonce :
                 Sent(c, r, n)' => Sent(c, r, n),
               \A q \in Proc, r \in Resource, n \in Nonce :
                 <<r, n>> \in held'[q] => <<r, n>> \in held[q] \/ n \notin issued,
               rec'[call[p].res] = NoRecord \/ rec'[call[p].res].nonce \notin issued
        PROVE  TransferNonces'
    <3> HIDE DEF Sent
    <3> SUFFICES ASSUME NEW c \in Proc, NEW r \in Resource, NEW n \in Nonce,
                        Sent(c, r, n)'
                 PROVE  /\ \A q \in Proc : <<r, n>> \notin held'[q]
                        /\ (rec'[r] # NoRecord /\ rec'[r].nonce = n) =>
                             rec'[r].owner = c /\ ~rec'[r].pending
      BY DEF TransferNonces, Sent
    <3>1. Sent(c, r, n) /\ n \in issued
      BY <2>2, <2>3
    <3>2. /\ \A q \in Proc : <<r, n>> \notin held[q]
          /\ (rec[r] # NoRecord /\ rec[r].nonce = n) =>
               rec[r].owner = c /\ ~rec[r].pending
      BY <1>0, <3>1 DEF TransferNonces, Sent
    <3> QED
      BY <2>1, <2>3, <3>1, <3>2
  <2>4. CASE WriteBegin(p) \/ WriteCancel(p)
    <3>1. PICK b \in BOOLEAN :
            rec' = [rec EXCEPT ![call[p].res] = [seen[p] EXCEPT !.pending = b]]
      BY <2>4 DEF WriteBegin, WriteCancel, Publish
    <3>2. /\ rec[call[p].res] \in Record
          /\ call[p].kind \in {"begin", "cancel"}
          /\ rec[call[p].res].nonce = call[p].nonce
      BY <2>1, <2>4, CheckedOwner DEF WriteBegin, WriteCancel, Writes
    <3>3. rec'[call[p].res].nonce = call[p].nonce
      BY <1>0, <2>1, <3>1, <3>2 DEF TypeOK, Record
    <3>4. <<call[p].res, call[p].nonce>> \in held[p]
      BY <2>1, <3>2 DEF IInv, CallAuthorized, Authorized
    <3>5. UNCHANGED memory
      BY <2>4 DEF WriteBegin, WriteCancel
    <3> SUFFICES ASSUME NEW c \in Proc, NEW r \in Resource, NEW n \in Nonce,
                        Sent(c, r, n)
                 PROVE  /\ \A q \in Proc : <<r, n>> \notin held[q]
                        /\ (rec'[r] # NoRecord /\ rec'[r].nonce = n) =>
                             rec'[r].owner = c /\ ~rec'[r].pending
      BY ZenonT(60), <3>5 DEF TransferNonces, memory
    <3>6. /\ \A q \in Proc : <<r, n>> \notin held[q]
          /\ (rec[r] # NoRecord /\ rec[r].nonce = n) =>
               rec[r].owner = c /\ ~rec[r].pending
      BY <1>0 DEF TransferNonces
    <3> HIDE DEF Sent
    <3> QED
      BY <2>1, <3>3, <3>4, <3>6
  <2>5. CASE WriteAcquire(p)
    <3>1. PICK n \in Nonce \ issued :
            /\ rec' = [rec EXCEPT ![call[p].res] =
                                  [owner |-> p, nonce |-> n, pending |-> FALSE]]
            /\ held' = [held EXCEPT ![p] = @ \cup {<<call[p].res, n>>}]
      BY <2>5 DEF WriteAcquire, Publish
    <3>2. rec'[call[p].res].nonce = n
      BY <1>0, <2>1, <3>1 DEF TypeOK
    <3>3. \A q \in Proc, r \in Resource, m \in Nonce :
            <<r, m>> \in held'[q] => <<r, m>> \in held[q] \/ m = n
      BY <1>0, <3>1 DEF TypeOK
    <3> QED
      BY <2>3, <2>5, <3>2, <3>3 DEF WriteAcquire
  <2>6. CASE WriteAdopt(p)
    <3>1. PICK m \in Nonce \ issued :
            /\ rec' = [rec EXCEPT ![call[p].res] = [seen[p] EXCEPT !.nonce = m]]
            /\ held' = [held EXCEPT ![p] = @ \cup {<<call[p].res, m>>}]
      BY <2>6 DEF WriteAdopt, Publish
    <3>2. rec[call[p].res] \in Record
      BY <2>1, <2>6, CheckedOwner DEF WriteAdopt, Writes
    <3>3. rec'[call[p].res].nonce = m
      BY <1>0, <2>1, <3>1, <3>2 DEF TypeOK, Record
    <3>4. \A q \in Proc, r \in Resource, n \in Nonce :
            <<r, n>> \in held'[q] => <<r, n>> \in held[q] \/ n = m
      BY <1>0, <3>1 DEF TypeOK
    <3> QED
      BY <2>3, <2>6, <3>3, <3>4 DEF WriteAdopt
  <2>7. CASE WriteFinish(p) \/ WriteRelease(p)
    <3>1. rec'[call[p].res] = NoRecord
      BY <1>0, <2>1, <2>7 DEF WriteFinish, WriteRelease, Publish, TypeOK
    <3>2. /\ tickets' = tickets
          /\ \A q \in Proc : /\ held'[q] \subseteq held[q]
                             /\ receipts'[q] \subseteq receipts[q]
      BY <1>0, <2>7 DEF WriteFinish, WriteRelease, TypeOK
    <3>3. \A c \in Proc, r \in Resource, n \in Nonce : Sent(c, r, n)' => Sent(c, r, n)
      BY <3>2
    <3> HIDE DEF Sent
    <3> QED
      BY <2>3, <3>1, <3>2, <3>3
  <2>8. CASE WriteTransfer(p)
    <3> DEFINE t == call[p].target
    <3>1. PICK m \in Nonce \ issued :
            /\ rec' = [rec EXCEPT ![call[p].res] =
                                  [owner |-> t, nonce |-> m, pending |-> FALSE]]
            /\ held' = [held EXCEPT ![p] = @ \ {<<call[p].res, call[p].nonce>>}]
            /\ receipts' = [receipts EXCEPT ![p] = @ \cup {<<call[p].res, m, t>>}]
            /\ tickets' = IF Running(t)
                          THEN [tickets EXCEPT ![t] = @ \cup {<<call[p].res, m>>}]
                          ELSE tickets
      BY <2>8 DEF WriteTransfer, Publish
    <3>2. t \in Proc
      BY <2>1, <2>8 DEF WriteTransfer, Writes, IInv, CallAuthorized, Authorized
    <3>3. rec'[call[p].res] = [owner |-> t, nonce |-> m, pending |-> FALSE]
      BY <1>0, <2>1, <3>1 DEF TypeOK
    <3>4. \A q \in Proc : held'[q] \subseteq held[q]
      BY <1>0, <3>1 DEF TypeOK
    <3>5. \A q \in Proc, r \in Resource : <<r, m>> \notin held[q]
      BY <1>0, <3>1 DEF NoncesIssued
    <3>6. \A c \in Proc, r \in Resource, n \in Nonce :
            Sent(c, r, n)' => Sent(c, r, n) \/ (c = t /\ r = call[p].res /\ n = m)
      <4>1. \A c \in Proc, r \in Resource, n \in Nonce : <<r, n>> \in tickets'[c] =>
              <<r, n>> \in tickets[c] \/ (c = t /\ r = call[p].res /\ n = m)
        BY <1>0, <3>1, <3>2 DEF TypeOK
      <4>2. \A q \in Proc, c \in Proc, r \in Resource, n \in Nonce :
              <<r, n, c>> \in receipts'[q] =>
                <<r, n, c>> \in receipts[q] \/ (c = t /\ r = call[p].res /\ n = m)
        BY <1>0, <3>1 DEF TypeOK
      <4> QED
        BY <4>1, <4>2
    <3> SUFFICES ASSUME NEW c \in Proc, NEW r \in Resource, NEW n \in Nonce,
                        Sent(c, r, n)'
                 PROVE  /\ \A q \in Proc : <<r, n>> \notin held'[q]
                        /\ (rec'[r] # NoRecord /\ rec'[r].nonce = n) =>
                             rec'[r].owner = c /\ ~rec'[r].pending
      BY DEF TransferNonces
    <3> HIDE DEF t
    <3>7. CASE c = t /\ r = call[p].res /\ n = m
      BY <3>3, <3>4, <3>5, <3>7
    <3>8. CASE Sent(c, r, n)
      <4>1. n \in issued
        BY <2>2, <3>8
      <4>2. /\ \A q \in Proc : <<r, n>> \notin held[q]
            /\ (rec[r] # NoRecord /\ rec[r].nonce = n) =>
                 rec[r].owner = c /\ ~rec[r].pending
        BY <1>0, <3>8 DEF TransferNonces
      <4> QED
        BY <2>1, <3>1, <3>3, <3>4, <4>1, <4>2
    <3> QED
      BY <3>6, <3>7, <3>8
  <2> QED
    BY <1>2, <2>4, <2>5, <2>6, <2>7, <2>8 DEF Write
<1> QED
  BY <1>1, <1>2

-----------------------------------------------------------------------------
(* Theorems *)

(* The invariant: holds at the start and is preserved by every step.       *)
THEOREM Invariance == Spec => []IInv
<1>1. Init => IInv
  <2> SUFFICES ASSUME Init PROVE IInv
    OBVIOUS
  <2>1. TypeOK
    BY TypeInit
  <2> QED
    BY <2>1 DEF Init, IInv, UniquePids, Running, GateOwned, GateOwnedBy, CallAuthorized,
                CheckHolds, NoncesIssued, TransferNonces, HandlesAreCurrent
<1>2. IInv /\ [Next]_vars => IInv'
  <2> SUFFICES ASSUME IInv, [Next]_vars PROVE IInv'
    OBVIOUS
  <2>1. TypeOK'
    BY TypeStep DEF IInv
  <2>2. UniquePids' /\ GateOwned' /\ CallAuthorized'
    BY UniquePidsStep, GateOwnedStep, CallAuthorizedStep DEF IInv
  <2>3. CheckHolds' /\ NoncesIssued' /\ TransferNonces' /\ HandlesAreCurrent'
    BY CheckHoldsStep, NoncesIssuedStep, TransferNoncesStep, HandlesStep
  <2> QED
    BY <2>1, <2>2, <2>3 DEF IInv
<1> QED
  BY <1>1, <1>2, PTL DEF Spec

(* Every variable keeps its type.                                          *)
THEOREM TypeCorrect == Spec => []TypeOK
<1>1. IInv => TypeOK
  BY DEF IInv
<1> QED
  BY <1>1, Invariance, PTL

(* A handle in a running process is the lease on disk, so two processes    *)
(* never act on one resource (createHandle, requirePersistedOwner).        *)
THEOREM HandlesCorrect == Spec => []HandlesAreCurrent
<1>1. IInv => HandlesAreCurrent
  BY DEF IInv
<1> QED
  BY <1>1, Invariance, PTL

(* Nothing read under the gate of withGate changes before it is acted on.  *)
THEOREM FreshReads == Spec => []ReadIsFresh
<1>1. IInv => ReadIsFresh
  BY DEF IInv, CheckHolds, ReadIsFresh
<1> QED
  BY <1>1, Invariance, PTL

(* What a write may do to the record of another, for both action           *)
(* properties.                                                             *)
LEMMA RecordChange ==
  ASSUME IInv, [Next]_vars, NEW r \in Resource, rec[r] # NoRecord, rec'[r] # rec[r]
  PROVE  /\ Running(rec[r].owner) =>
              /\ pc[rec[r].owner] = "checked"
              /\ pc'[rec[r].owner] = "leaving"
              /\ call[rec[r].owner].res = r
         /\ rec[r].pending => Running(rec[r].owner)
<1>1. PICK p \in Proc : Write(p)
  BY QuietStep DEF IInv
<1>2. /\ Running(p)
      /\ pc[p] = "checked"
      /\ pc' = [pc EXCEPT ![p] = "leaving"]
      /\ call[p] \in Call
      /\ call[p].res = r
  BY <1>1, WriteFrame DEF IInv
<1>3. pc'[p] = "leaving"
  BY <1>2 DEF IInv, TypeOK
<1>4. call[p].kind \in Kinds \ {"status"}
  BY <1>2 DEF Call, IInv, CheckHolds, Found
<1>5. CASE call[p].kind \in {"acquire", "finish"}
  BY <1>2, <1>5, CheckedOwner DEF Running
<1>6. CASE call[p].kind \in {"begin", "cancel", "release", "transfer", "adopt"}
  BY <1>2, <1>3, <1>6, CheckedOwner
<1> QED
  BY <1>4, <1>5, <1>6 DEF Kinds

(* No call of another process takes a lease from an owner that runs.       *)
THEOREM LiveOwner == Spec => LiveOwnerKeepsLease
<1>1. IInv /\ [Next]_vars =>
        [\A r \in Resource :
           (rec[r] # NoRecord /\ rec'[r] # rec[r]) =>
             (Running(rec[r].owner) =>
                /\ pc[rec[r].owner] = "checked"
                /\ pc'[rec[r].owner] = "leaving"
                /\ call[rec[r].owner].res = r)]_vars
  BY RecordChange
<1> QED
  BY <1>1, Invariance, PTL DEF Spec, LiveOwnerKeepsLease

(* A handoff whose coordinator died is never resolved by another process.  *)
THEOREM Unresolved == Spec => UnresolvedHandoffHolds
<1>1. IInv /\ [Next]_vars =>
        [\A r \in Resource :
           (rec[r] # NoRecord /\ rec[r].pending /\ ~Running(rec[r].owner)) =>
             rec'[r] = rec[r]]_vars
  BY RecordChange
<1> QED
  BY <1>1, Invariance, PTL DEF Spec, UnresolvedHandoffHolds

-----------------------------------------------------------------------------
(* The store implements the registry *)

(* A record written back with one field changed, field by field.           *)
LEMMA RecordUpdate ==
  ASSUME NEW record \in Record
  PROVE  /\ \A b \in BOOLEAN : [record EXCEPT !.pending = b] =
              [owner |-> record.owner, nonce |-> record.nonce, pending |-> b]
         /\ \A m \in Nonce : [record EXCEPT !.nonce = m] =
              [owner |-> record.owner, nonce |-> m, pending |-> record.pending]
<1> PICK o \in Proc, n \in Nonce, c \in BOOLEAN :
       record = [owner |-> o, nonce |-> n, pending |-> c]
  BY DEF Record
<1> QED
  OBVIOUS

(* The write of each call is the registry's atomic step for that call.     *)
LEMMA WriteRefines ==
  ASSUME IInv, NEW p \in Proc, Write(p)
  PROVE  Registry!RegistryNext
<1> DEFINE r == call[p].res
           n == call[p].nonce
<1>0. TypeOK
  BY DEF IInv
<1>1. /\ Running(p)
      /\ pc[p] = "checked"
      /\ life' = life
      /\ r \in Resource
      /\ seen[p] = rec[r]
  BY WriteFrame, CheckedOwner DEF IInv, Call
<1>2. call[p].kind \in {"begin", "cancel", "release", "transfer"} =>
        n \in Nonce /\ Registry!Owns(p, r, n)
  <2> SUFFICES ASSUME call[p].kind \in {"begin", "cancel", "release", "transfer"}
               PROVE  n \in Nonce /\ Registry!Owns(p, r, n)
    OBVIOUS
  <2>1. <<r, n>> \in held[p]
    BY <1>1 DEF IInv, CallAuthorized, Authorized
  <2>2. n \in Nonce
    BY <1>0, <2>1 DEF TypeOK
  <2> QED
    BY <1>1, <2>1, <2>2 DEF IInv, HandlesAreCurrent, Registry!Owns, Registry!Running,
                            Running
<1>3. CASE WriteAcquire(p)
  <2>1. call[p].kind = "acquire"
    BY <1>3 DEF WriteAcquire, Writes
  <2>2. Registry!Reclaimable(r)
    BY <1>1, <2>1, CheckedOwner DEF Registry!Reclaimable
  <2>3. Registry!Acquire(p, r)
    BY <1>1, <1>3, <2>2 DEF WriteAcquire, Publish, Registry!Acquire, Registry!Running,
                            Running
  <2> QED
    BY <1>1, <2>3 DEF Registry!RegistryNext
<1>4. CASE WriteBegin(p)
  <2>1. /\ call[p].kind = "begin"
        /\ rec' = [rec EXCEPT ![r] = [seen[p] EXCEPT !.pending = TRUE]]
        /\ UNCHANGED <<held, receipts, tickets, issued>>
    BY <1>4 DEF WriteBegin, Writes, Publish, memory
  <2>2. /\ rec[r] \in Record /\ rec[r].owner = p /\ rec[r].nonce = n
        /\ ~rec[r].pending
    BY <1>1, <2>1, CheckedOwner
  <2>3. [seen[p] EXCEPT !.pending = TRUE] = [owner |-> p, nonce |-> n, pending |-> TRUE]
    BY <1>1, <2>2, RecordUpdate
  <2>4. Registry!BeginHandoff(p, r, n)
    BY <1>1, <1>2, <2>1, <2>2, <2>3 DEF Registry!BeginHandoff, Registry!memory
  <2> QED
    BY <1>1, <1>2, <2>1, <2>4 DEF Registry!RegistryNext
<1>5. CASE WriteCancel(p)
  <2>1. /\ call[p].kind = "cancel"
        /\ rec' = [rec EXCEPT ![r] = [seen[p] EXCEPT !.pending = FALSE]]
        /\ UNCHANGED <<held, receipts, tickets, issued>>
    BY <1>5 DEF WriteCancel, Writes, Publish, memory
  <2>2. rec[r] \in Record /\ rec[r].owner = p /\ rec[r].nonce = n
    BY <1>1, <2>1, CheckedOwner
  <2>3. [seen[p] EXCEPT !.pending = FALSE] = [owner |-> p, nonce |-> n, pending |-> FALSE]
    BY <1>1, <2>2, RecordUpdate
  <2>4. Registry!CancelHandoff(p, r, n)
    BY <1>1, <1>2, <2>1, <2>3 DEF Registry!CancelHandoff, Registry!memory
  <2> QED
    BY <1>1, <1>2, <2>1, <2>4 DEF Registry!RegistryNext
<1>6. CASE WriteTransfer(p)
  <2> DEFINE c == call[p].target
  <2>1. call[p].kind = "transfer"
    BY <1>6 DEF WriteTransfer, Writes
  <2>2. c \in Proc /\ life[c] # "unborn" /\ PidOf[c] # PidOf[p]
    BY <1>1, <2>1 DEF IInv, CallAuthorized, Authorized
  <2>3. Registry!Transfer(p, r, n, c)
    BY <1>1, <1>2, <1>6, <2>1, <2>2 DEF WriteTransfer, Publish, Registry!Transfer,
                                        Registry!Running, Running
  <2> QED
    BY <1>1, <1>2, <2>1, <2>2, <2>3 DEF Registry!RegistryNext
<1>7. CASE WriteFinish(p)
  <2> DEFINE c == call[p].target
  <2>1. call[p].kind = "finish"
    BY <1>7 DEF WriteFinish, Writes
  <2>2. <<r, n, c>> \in receipts[p]
    BY <1>1, <2>1 DEF IInv, CallAuthorized, Authorized
  <2>3. n \in Nonce /\ c \in Proc
    BY <1>0, <2>2 DEF TypeOK
  <2>4. /\ rec[r] \in Record /\ rec[r].owner = c /\ rec[r].nonce = n
        /\ ~rec[r].pending /\ life[c] = "dead"
    BY <1>1, <2>1, CheckedOwner
  <2>5. rec[r] = [owner |-> c, nonce |-> n, pending |-> FALSE]
    BY <2>4 DEF Record
  <2>6. Registry!FinishTransfer(p, r, n, c)
    BY <1>1, <1>7, <2>2, <2>4, <2>5 DEF WriteFinish, Publish, Registry!FinishTransfer,
                                        Registry!Running, Running
  <2> QED
    BY <1>1, <2>3, <2>6 DEF Registry!RegistryNext
<1>8. CASE WriteAdopt(p)
  <2>1. call[p].kind = "adopt"
    BY <1>8 DEF WriteAdopt, Writes
  <2>2. <<r, n>> \in tickets[p]
    BY <1>1, <2>1 DEF IInv, CallAuthorized, Authorized
  <2>3. n \in Nonce
    BY <1>0, <2>2 DEF TypeOK
  <2>4. /\ rec[r] \in Record /\ rec[r].owner = p /\ rec[r].nonce = n
        /\ ~rec[r].pending
    BY <1>1, <2>1, CheckedOwner
  <2>5. rec[r] = [owner |-> p, nonce |-> n, pending |-> FALSE]
    BY <2>4 DEF Record
  <2>6. \A m \in Nonce : [seen[p] EXCEPT !.nonce = m] =
                           [owner |-> p, nonce |-> m, pending |-> FALSE]
    <3>1. \A m \in Nonce : [rec[r] EXCEPT !.nonce = m] =
                            [owner |-> rec[r].owner, nonce |-> m, pending |-> rec[r].pending]
      BY <2>4, RecordUpdate
    <3>2. rec[r].owner = p /\ rec[r].pending = FALSE
      BY <2>5
    <3> QED
      BY <1>1, <3>1, <3>2
  <2>7. Registry!Adopt(p, r, n)
    BY <1>1, <1>8, <2>2, <2>5, <2>6 DEF WriteAdopt, Publish, Registry!Adopt,
                                        Registry!Running, Running
  <2> QED
    BY <1>1, <2>3, <2>7 DEF Registry!RegistryNext
<1>9. CASE WriteRelease(p)
  <2>1. call[p].kind = "release"
    BY <1>9 DEF WriteRelease, Writes
  <2>2. ~rec[r].pending
    BY <1>1, <2>1, CheckedOwner
  <2>3. Registry!Release(p, r, n)
    BY <1>1, <1>2, <1>9, <2>1, <2>2 DEF WriteRelease, Publish, Registry!Release
  <2> QED
    BY <1>1, <1>2, <2>1, <2>3 DEF Registry!RegistryNext
<1> QED
  BY <1>3, <1>4, <1>5, <1>6, <1>7, <1>8, <1>9 DEF Write

(* Each execution of the store is one of LeaseRegistry: the write of a     *)
(* call is its atomic step and all the rest of withGate is invisible.      *)
THEOREM Refinement == Spec => RegistrySpec
<1>1. Init => Registry!RegistryInit
  BY DEF Init, Registry!RegistryInit
<1>2. IInv /\ [Next]_vars => [Registry!RegistryNext]_(Registry!regVars)
  <2> SUFFICES ASSUME IInv, [Next]_vars
               PROVE  Registry!RegistryNext \/ UNCHANGED Registry!regVars
    OBVIOUS
  <2>1. ASSUME NEW p \in Proc, Start(p) PROVE Registry!Start(p)
    BY <2>1 DEF Start, Registry!Start, Registry!Running, Running, memory
  <2>2. ASSUME NEW p \in Proc, End(p) PROVE Registry!End(p)
    BY <2>2 DEF End, Registry!End, Registry!Running, Running
  <2>3. ASSUME NEW p \in Proc, \/ Enter(p) \/ Check(p) \/ Refuse(p)
                              \/ WriteFails(p) \/ Leave(p)
        PROVE  UNCHANGED Registry!regVars
    BY <2>3 DEF Enter, Check, Refuse, WriteFails, Leave, storeVars, Registry!regVars
  <2>4. ASSUME NEW r \in Resource, RepairGate(r) PROVE UNCHANGED Registry!regVars
    BY <2>4 DEF RepairGate, storeVars, Registry!regVars
  <2>5. CASE UNCHANGED vars
    BY <2>5 DEF vars, Registry!regVars
  <2> QED
    BY <2>1, <2>2, <2>3, <2>4, <2>5, WriteRefines DEF Next, InCall, Registry!RegistryNext
<1> QED
  BY <1>1, <1>2, Invariance, PTL DEF Spec, RegistrySpec, Registry!RegistrySpec
=============================================================================
