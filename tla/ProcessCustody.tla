--------------------------- MODULE ProcessCustody ---------------------------
(***************************************************************************)
(* Who may touch a device: direct serial sessions, which open a port in    *)
(* the server's own process, and children that the server launches under a *)
(* custody (src/src/core/devices/process-device-custody.ts).               *)
(*                                                                         *)
(* A launcher persists a pending handoff before it creates a child and     *)
(* clears it only once the child is known to be gone.  A child outlives    *)
(* the server that launched it.  One server holds many custodies.          *)
(***************************************************************************)
EXTENDS LeaseRegistry

CONSTANTS
  Custody,  \* the objects that hold a lease: child custodies, direct sessions
  HostOf,   \* the process in whose memory a custody lives
  None      \* no lease, no child

ASSUME CustodyAssumption ==
  /\ HostOf \in [Custody -> Proc]
  /\ None \notin Resource
  /\ None \notin Resource \X Nonce

VARIABLES
  stage,   \* stage[c]: how far custody c has come
  lease,   \* lease[c]: its lease handle, a pair <<resource, nonce>>
  child    \* child[c]: the resource a live child of c uses, or None

custodyVars == <<stage, lease, child>>
vars == <<life, rec, held, receipts, tickets, issued, stage, lease, child>>

Stages == {"none",
           "held", "prepared", "spawned", "releasing",  \* a child's custody
           "reserved", "open"}                          \* a direct session

TypeOK ==
  /\ LeaseTypeOK
  /\ stage \in [Custody -> Stages]
  /\ lease \in [Custody -> (Resource \X Nonce) \cup {None}]
  /\ child \in [Custody -> Resource \cup {None}]

Init ==
  /\ RegistryInit
  /\ stage = [c \in Custody |-> "none"]
  /\ lease = [c \in Custody |-> None]
  /\ child = [c \in Custody |-> None]

Goto(c, s) == stage' = [stage EXCEPT ![c] = s]

-----------------------------------------------------------------------------
(* Processes *)

StartServer(p) ==
  /\ Start(p)
  /\ UNCHANGED custodyVars

(* The server exits or crashes: its ports close, its children live on.     *)
EndServer(p) ==
  /\ End(p)
  /\ stage' = [c \in Custody |-> IF HostOf[c] = p THEN "none" ELSE stage[c]]
  /\ lease' = [c \in Custody |-> IF HostOf[c] = p THEN None ELSE lease[c]]
  /\ UNCHANGED child

ChildExits(c) ==
  /\ child[c] # None
  /\ child' = [child EXCEPT ![c] = None]
  /\ UNCHANGED <<regVars, stage, lease>>

-----------------------------------------------------------------------------
(* Launching a child under custody *)

Take(c, r, s) ==
  /\ stage[c] = "none"
  /\ child[c] = None
  /\ Acquire(HostOf[c], r)
  /\ Goto(c, s)
  /\ lease' = [lease EXCEPT ![c] = <<r, rec'[r].nonce>>]
  /\ UNCHANGED child

AcquireCustody(c, r) == Take(c, r, "held")

(* Wrong: the handoff is not persisted before the child is created. *)
PrepareSpawnInMemory(c) ==
  /\ stage[c] = "held"
  /\ Goto(c, "prepared")
  /\ UNCHANGED <<regVars, lease, child>>

(* A changed endpoint or a busy gate refuses, which changes nothing.       *)
PrepareSpawn(c) ==
  /\ stage[c] = "held"
  /\ BeginHandoff(HostOf[c], lease[c][1], lease[c][2])
  /\ Goto(c, "prepared")
  /\ UNCHANGED <<lease, child>>

Spawn(c) ==
  /\ stage[c] = "prepared"
  /\ child[c] = None
  /\ Goto(c, "spawned")
  /\ child' = [child EXCEPT ![c] = lease[c][1]]
  /\ UNCHANGED <<regVars, lease>>

(* Wrong: a child that was asked to stop counts as stopped. *)
ConfirmExitEarly(c) ==
  /\ stage[c] = "spawned"
  /\ Goto(c, "prepared")
  /\ UNCHANGED <<regVars, lease, child>>

(* The launcher has proof that the child is gone.  It may then launch      *)
(* another without giving the device up in between.                        *)
ConfirmExit(c) ==
  /\ stage[c] = "spawned"
  /\ child[c] = None
  /\ Goto(c, "prepared")
  /\ UNCHANGED <<regVars, lease, child>>

(* Wrong: the release is attempted without cancelling the handoff first. *)
CancelSkipped(c) ==
  /\ stage[c] \in {"held", "prepared", "releasing"}
  /\ Goto(c, "releasing")
  /\ UNCHANGED <<regVars, lease, child>>

(* releaseAfterExit calls the store twice.  Either call may be refused:    *)
(* some callers try again, from the first, and others never do.            *)
CancelCustody(c) ==
  /\ stage[c] \in {"held", "prepared", "releasing"}
  /\ CancelHandoff(HostOf[c], lease[c][1], lease[c][2])
  /\ Goto(c, "releasing")
  /\ UNCHANGED <<lease, child>>

ReleaseCustody(c) ==
  /\ stage[c] = "releasing"
  /\ Release(HostOf[c], lease[c][1], lease[c][2])
  /\ Goto(c, "none")
  /\ lease' = [lease EXCEPT ![c] = None]
  /\ UNCHANGED child

-----------------------------------------------------------------------------
(* Direct serial sessions *)

Reserve(c, r) == Take(c, r, "reserved")

OpenPort(c) ==
  /\ stage[c] = "reserved"
  /\ Goto(c, "open")
  /\ UNCHANGED <<regVars, lease, child>>

(* The transport has confirmed that its handle is closed.                  *)
ClosePort(c) ==
  /\ stage[c] = "open"
  /\ Goto(c, "reserved")
  /\ UNCHANGED <<regVars, lease, child>>

(* Wrong: the lease is released while the port may still be open. *)
ReleasePortEarly(c) ==
  /\ stage[c] \in {"reserved", "open"}
  /\ Release(HostOf[c], lease[c][1], lease[c][2])
  /\ UNCHANGED custodyVars

ReleasePort(c) ==
  /\ stage[c] = "reserved"
  /\ Release(HostOf[c], lease[c][1], lease[c][2])
  /\ Goto(c, "none")
  /\ lease' = [lease EXCEPT ![c] = None]
  /\ UNCHANGED child

-----------------------------------------------------------------------------
Step(c) ==
  \/ PrepareSpawn(c) \/ Spawn(c) \/ ConfirmExit(c) \/ CancelCustody(c)
  \/ ReleaseCustody(c) \/ OpenPort(c) \/ ClosePort(c) \/ ReleasePort(c)
  \/ \E r \in Resource : AcquireCustody(c, r) \/ Reserve(c, r)

Next ==
  \/ \E p \in Proc : StartServer(p) \/ EndServer(p)
  \/ \E c \in Custody : ChildExits(c) \/ Step(c)

Spec == Init /\ [][Next]_vars

-----------------------------------------------------------------------------
(* Properties *)

Uses(c, r) ==
  \/ stage[c] = "open" /\ lease[c][1] = r
  \/ child[c] = r

(* No two ports or children are ever on one device, through crashes,       *)
(* orphaned children, half-done cleanups and reused process ids.           *)
ExclusiveUse ==
  \A c, d \in Custody, r \in Resource : Uses(c, r) /\ Uses(d, r) => c = d

(* While a device is in use the store says so: the record names the user's *)
(* server, and a child's record is marked so that no crash can free it.    *)
UseIsRecorded ==
  \A c \in Custody, r \in Resource :
    Uses(c, r) => /\ rec[r] # NoRecord
                  /\ rec[r].owner = HostOf[c]
                  /\ child[c] = r => rec[r].pending

(* A device passes to another owner only from one that does not use it.    *)
OwnerChangesWhenIdle ==
  [][\A r \in Resource :
       (rec[r] # NoRecord /\ (rec'[r] = NoRecord \/ rec'[r].owner # rec[r].owner)) =>
         \A c \in Custody : HostOf[c] = rec[r].owner => ~Uses(c, r)]_vars

(* What a server leaves when it dies: a device is free for whoever comes   *)
(* next, unless one of its custodies had prepared a handoff there and not  *)
(* yet cancelled it.  A cleanup that got half way, and whose caller never  *)
(* came back, does not block its device for longer than the server lives.  *)
DeathFreesTheRest ==
  [][\A p \in Proc, r \in Resource :
       Running(p) /\ ~Running(p)' /\ rec[r] # NoRecord /\ rec[r].owner = p =>
         \/ Reclaimable(r)'
         \/ \E c \in Custody : /\ HostOf[c] = p /\ lease[c] = <<r, rec[r].nonce>>
                              /\ stage[c] \in {"prepared", "spawned"}]_vars
=============================================================================
