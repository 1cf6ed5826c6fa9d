---------------------------- MODULE LeaseRegistry ----------------------------
(***************************************************************************)
(* What the device-lease store promises, one atomic step per call.         *)
(*                                                                         *)
(* A lease is a capability: the record on disk names its owner and a nonce *)
(* and the owner's memory holds the same nonce.  A record outlives the     *)
(* process that wrote it; memory does not.  DeviceLease.tla is the store   *)
(* as src/src/core/devices/device-lease.ts builds it from a directory gate *)
(* and a rename, and implements this module; the custody modules are built *)
(* on this one.                                                            *)
(*                                                                         *)
(* A member of Proc is one incarnation of an operating-system process: it  *)
(* starts once and ends once.  Two members with the same PidOf are a       *)
(* process and a later one that was given its process id again.            *)
(***************************************************************************)
CONSTANTS
  Proc,      \* process incarnations
  Resource,  \* physical resources: a serial endpoint, a probe, a network board
  Nonce,     \* random nonces; each is drawn at most once
  PidOf,     \* the process id of each incarnation
  NoRecord   \* the absence of a lease file

Record == [owner: Proc, nonce: Nonce, pending: BOOLEAN]

ASSUME RegistryAssumption == NoRecord \notin Record

VARIABLES
  life,      \* life[p]: "unborn", "running" or "dead"
  rec,       \* rec[r]: the lease file of resource r
  held,      \* held[p]: the handles in p's memory, pairs <<r, nonce>>
  receipts,  \* receipts[p]: transfers p made, triples <<r, nonce, target>>
  tickets,   \* tickets[p]: transfer tickets p was sent, pairs <<r, nonce>>
  issued     \* the nonces drawn so far

memory == <<held, receipts, tickets>>
regVars == <<life, rec, held, receipts, tickets, issued>>

LeaseTypeOK ==
  /\ life \in [Proc -> {"unborn", "running", "dead"}]
  /\ rec \in [Resource -> Record \cup {NoRecord}]
  /\ held \in [Proc -> SUBSET (Resource \X Nonce)]
  /\ receipts \in [Proc -> SUBSET (Resource \X Nonce \X Proc)]
  /\ tickets \in [Proc -> SUBSET (Resource \X Nonce)]
  /\ issued \in SUBSET Nonce

RegistryInit ==
  /\ life = [p \in Proc |-> "unborn"]
  /\ rec = [r \in Resource |-> NoRecord]
  /\ held = [p \in Proc |-> {}]
  /\ receipts = [p \in Proc |-> {}]
  /\ tickets = [p \in Proc |-> {}]
  /\ issued = {}

Running(p) == life[p] = "running"

(* p holds the handle of the lease that the file of r records. *)
Owns(p, r, n) ==
  /\ Running(p)
  /\ <<r, n>> \in held[p]
  /\ rec[r] # NoRecord
  /\ rec[r].owner = p
  /\ rec[r].nonce = n

(* A free resource, or one whose owner is gone and left no child behind. *)
Reclaimable(r) ==
  \/ rec[r] = NoRecord
  \/ /\ rec[r] # NoRecord
     /\ ~rec[r].pending
     /\ life[rec[r].owner] = "dead"

-----------------------------------------------------------------------------
(* The operating system never runs two processes under one id. *)
Start(p) ==
  /\ life[p] = "unborn"
  /\ \A q \in Proc : PidOf[q] = PidOf[p] => ~Running(q)
  /\ life' = [life EXCEPT ![p] = "running"]
  /\ UNCHANGED <<rec, held, receipts, tickets, issued>>

(* An exit or a crash: the memory goes, the files stay. *)
End(p) ==
  /\ Running(p)
  /\ life' = [life EXCEPT ![p] = "dead"]
  /\ held' = [held EXCEPT ![p] = {}]
  /\ receipts' = [receipts EXCEPT ![p] = {}]
  /\ tickets' = [tickets EXCEPT ![p] = {}]
  /\ UNCHANGED <<rec, issued>>

Acquire(p, r) ==
  /\ Running(p)
  /\ Reclaimable(r)
  /\ \E n \in Nonce \ issued :
       /\ rec' = [rec EXCEPT ![r] = [owner |-> p, nonce |-> n, pending |-> FALSE]]
       /\ held' = [held EXCEPT ![p] = @ \cup {<<r, n>>}]
       /\ issued' = issued \cup {n}
  /\ UNCHANGED <<life, receipts, tickets>>

BeginHandoff(p, r, n) ==
  /\ Owns(p, r, n)
  /\ ~rec[r].pending
  /\ rec' = [rec EXCEPT ![r] = [owner |-> p, nonce |-> n, pending |-> TRUE]]
  /\ UNCHANGED <<life, memory, issued>>

CancelHandoff(p, r, n) ==
  /\ Owns(p, r, n)
  /\ rec' = [rec EXCEPT ![r] = [owner |-> p, nonce |-> n, pending |-> FALSE]]
  /\ UNCHANGED <<life, memory, issued>>

(* The new owner was seen alive; it may have died since. *)
Transfer(p, r, n, c) ==
  /\ Owns(p, r, n)
  /\ life[c] # "unborn"
  /\ PidOf[c] # PidOf[p]
  /\ \E m \in Nonce \ issued :
       /\ rec' = [rec EXCEPT ![r] = [owner |-> c, nonce |-> m, pending |-> FALSE]]
       /\ held' = [held EXCEPT ![p] = @ \ {<<r, n>>}]
       /\ receipts' = [receipts EXCEPT ![p] = @ \cup {<<r, m, c>>}]
       /\ tickets' = IF Running(c)
                     THEN [tickets EXCEPT ![c] = @ \cup {<<r, m>>}]
                     ELSE tickets
       /\ issued' = issued \cup {m}
  /\ UNCHANGED life

FinishTransfer(p, r, n, c) ==
  /\ Running(p)
  /\ <<r, n, c>> \in receipts[p]
  /\ rec[r] = [owner |-> c, nonce |-> n, pending |-> FALSE]
  /\ life[c] = "dead"
  /\ rec' = [rec EXCEPT ![r] = NoRecord]
  /\ receipts' = [receipts EXCEPT ![p] = @ \ {<<r, n, c>>}]
  /\ UNCHANGED <<life, held, tickets, issued>>

Adopt(c, r, n) ==
  /\ Running(c)
  /\ <<r, n>> \in tickets[c]
  /\ rec[r] = [owner |-> c, nonce |-> n, pending |-> FALSE]
  /\ \E m \in Nonce \ issued :
       /\ rec' = [rec EXCEPT ![r] = [owner |-> c, nonce |-> m, pending |-> FALSE]]
       /\ held' = [held EXCEPT ![c] = @ \cup {<<r, m>>}]
       /\ issued' = issued \cup {m}
  /\ UNCHANGED <<life, receipts, tickets>>

Release(p, r, n) ==
  /\ Owns(p, r, n)
  /\ ~rec[r].pending
  /\ rec' = [rec EXCEPT ![r] = NoRecord]
  /\ held' = [held EXCEPT ![p] = @ \ {<<r, n>>}]
  /\ UNCHANGED <<life, receipts, tickets, issued>>

RegistryNext ==
  \E p \in Proc :
    \/ Start(p)
    \/ End(p)
    \/ \E r \in Resource :
         \/ Acquire(p, r)
         \/ \E n \in Nonce :
              \/ BeginHandoff(p, r, n)
              \/ CancelHandoff(p, r, n)
              \/ Adopt(p, r, n)
              \/ Release(p, r, n)
              \/ \E c \in Proc : Transfer(p, r, n, c) \/ FinishTransfer(p, r, n, c)

RegistrySpec == RegistryInit /\ [][RegistryNext]_regVars

-----------------------------------------------------------------------------
(* Every handle in a running process is the handle the file records, so at *)
(* most one process at a time can act on a resource under this store.      *)
HandlesAreCurrent ==
  \A p \in Proc, r \in Resource, n \in Nonce :
    <<r, n>> \in held[p] => Owns(p, r, n)
=============================================================================
