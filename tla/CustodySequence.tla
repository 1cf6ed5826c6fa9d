-------------------------- MODULE CustodySequence --------------------------
(***************************************************************************)
(* One device custody lent to the children of one upload, one after the    *)
(* other: ProcessCustodySequence                                           *)
(* (core/devices/process-custody-sequence.ts).  Each call has a sequence   *)
(* of its own over the lease of its port; the lease is taken when the call *)
(* begins and given back by finish() only, never between two children.     *)
(***************************************************************************)
CONSTANTS Call,     \* calls of executeManifestUpload
          Port,
          PortOf,   \* the port a call uploads to
          Nobody

ASSUME PortOfAssumption == PortOf \in [Call -> Port]
ASSUME NobodyAssumption == Nobody \notin Call

VARIABLES lease,    \* who holds the lease of a port
          phase,    \* the child phase that is out, if any
          handed,   \* the handoff of the lease has begun
          spoiled,  \* a preparation has failed
          sequence  \* open, sealed by the first finish(), or released

sequenceVars == <<lease, phase, handed, spoiled, sequence>>

SequenceTypeOK ==
  /\ lease \in [Port -> Call \cup {Nobody}]
  /\ phase \in [Call -> {"none", "created", "preparing", "prepared"}]
  /\ handed \in [Call -> BOOLEAN]
  /\ spoiled \in [Call -> BOOLEAN]
  /\ sequence \in [Call -> {"none", "open", "sealed", "released"}]

SequenceInit ==
  /\ lease = [p \in Port |-> Nobody]
  /\ phase = [c \in Call |-> "none"]
  /\ handed = [c \in Call |-> FALSE]
  /\ spoiled = [c \in Call |-> FALSE]
  /\ sequence = [c \in Call |-> "none"]

Holds(c) == lease[PortOf[c]] = c

\* acquireProcessDeviceCustody and the sequence over it.
OpenSequence(c) ==
  /\ sequence[c] = "none"
  /\ lease[PortOf[c]] = Nobody
  /\ lease' = [lease EXCEPT ![PortOf[c]] = c]
  /\ sequence' = [sequence EXCEPT ![c] = "open"]
  /\ UNCHANGED <<phase, handed, spoiled>>

\* Exactly one child phase is out at a time, and none after a failed preparation.
NextPhase(c) ==
  /\ sequence[c] = "open"
  /\ phase[c] = "none"
  /\ ~spoiled[c]
  /\ phase' = [phase EXCEPT ![c] = "created"]
  /\ UNCHANGED <<lease, handed, spoiled, sequence>>

BeginPrepare(c) ==
  /\ sequence[c] = "open"
  /\ phase[c] = "created"
  /\ phase' = [phase EXCEPT ![c] = "preparing"]
  /\ UNCHANGED <<lease, handed, spoiled, sequence>>

\* The device is revalidated, the first phase also begins the handoff; either may be refused,
\* and a preparation that finds the sequence sealed is.
PrepareEnds(c) ==
  /\ phase[c] = "preparing"
  /\ \/ /\ sequence[c] = "open"
        /\ phase' = [phase EXCEPT ![c] = "prepared"]
        /\ handed' = [handed EXCEPT ![c] = TRUE]
        /\ UNCHANGED spoiled
     \/ /\ phase' = [phase EXCEPT ![c] = "created"]
        /\ spoiled' = [spoiled EXCEPT ![c] = TRUE]
        /\ UNCHANGED handed
  /\ UNCHANGED <<lease, sequence>>

\* releaseAfterExit of the phase: the child is known to be gone, or was never started.
ReleasePhase(c) ==
  /\ phase[c] # "preparing"
  /\ phase' = [phase EXCEPT ![c] = "none"]
  /\ UNCHANGED <<lease, handed, spoiled, sequence>>

-----------------------------------------------------------------------------
(* finish(), with the phase p that is out when it is called.               *)

Finishable(p) == p \in {"none", "created"}

\* The lease is given back; done before, nothing happens.
Finished(c, p) ==
  /\ sequence[c] # "released" => Finishable(p)
  /\ phase' = [phase EXCEPT ![c] = IF p = "created" THEN "none" ELSE p]
  /\ sequence' = [sequence EXCEPT ![c] = "released"]
  /\ lease' = IF sequence[c] = "released" THEN lease ELSE [lease EXCEPT ![PortOf[c]] = Nobody]
  /\ UNCHANGED <<handed, spoiled>>

\* A phase is still out, or the store cannot release the lease now: only the seal is left.
FinishFails(c, p) ==
  /\ sequence[c] # "released"
  /\ phase' = [phase EXCEPT ![c] = IF p = "created" THEN "none" ELSE p]
  /\ sequence' = [sequence EXCEPT ![c] = "sealed"]
  /\ UNCHANGED <<lease, handed, spoiled>>

=============================================================================
