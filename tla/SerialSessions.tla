---------------------------- MODULE SerialSessions ----------------------------
(***************************************************************************)
(* The SerialSessionManager of one server                                  *)
(* (src/src/core/serial/session-manager.ts).  A session authorizes,        *)
(* acquires the leases of its device, lets an upload use the device first  *)
(* (beforeOpen), opens a transport, and may lend its device to a power     *)
(* operation (holdForPower).  Each await is a place where a stop, a        *)
(* disconnect, a closed port or another session can come in between.       *)
(*                                                                         *)
(* A transport is what SerialPromise says it is.  The store may refuse any *)
(* single call: another process owns the device or has its gate.           *)
(***************************************************************************)
EXTENDS FiniteSets, Naturals

CONSTANTS
  Session,    \* the sessions ever asked for
  Uploads,    \* those started with a beforeOpen hook
  Owner, OwnerOf,
  Resource,
  Needs,      \* Needs[s]: the resources session s leases
  Capacity    \* 8 in the code

ASSUME SessionAssumption ==
  /\ IsFiniteSet(Session)
  /\ Uploads \subseteq Session
  /\ OwnerOf \in [Session -> Owner]
  /\ Needs \in [Session -> (SUBSET Resource) \ {{}}]
  /\ Capacity \in Nat

VARIABLES
  pc,         \* where start() is, or what became of the session
  doomed,     \* discovery began before the owner's last stopAll
  stopping,   \* stopRequested
  away,       \* disconnectedOwners
  wire,       \* the session's transport, as in SerialPromise, or "none"
  confirmedClosed, \* no port of the session is or will be open
  leases,     \* the leases the session holds
  refused,    \* cleanupError: the store refused the last release of a lease
  mark,       \* the resources whose record has a pending handoff
  hook,       \* the custody that beforeOpen was given
  external,   \* externalProcessPending
  hold,       \* the power hold; "spent" as for a custody: it starts no
              \* process any more, and its release is due
  child       \* the external process that uses the device

flow == <<pc, doomed, stopping, away>>
device == <<wire, confirmedClosed, leases, refused, mark>>
lent == <<hook, external, hold, child>>
vars == <<flow, device, lent>>

Promise == INSTANCE SerialPromise WITH wire <- wire

StartSteps == {"authorizing", "checking", "hook", "making", "rechecking",
               "opening", "confirming", "closing"}

TypeOK ==
  /\ pc \in [Session -> StartSteps \cup {"none", "discovering", "running",
                                         "over", "gone"}]
  /\ doomed \in [Session -> BOOLEAN]
  /\ stopping \in [Session -> BOOLEAN]
  /\ away \subseteq Owner
  /\ wire \in [Session -> Promise!Wires \cup {"none"}]
  /\ confirmedClosed \in [Session -> BOOLEAN]
  /\ leases \in [Session -> SUBSET Resource]
  /\ refused \in [Session -> BOOLEAN]
  /\ mark \subseteq Resource
  /\ hook \in [Session -> {"none", "ready", "checking", "spent", "marked",
                           "released"}]
  /\ external \in [Session -> BOOLEAN]
  /\ hold \in [Session -> {"none", "held", "checking", "spent", "marked"}]
  /\ child \in [Session -> {"none", "upload", "power"}]

Init ==
  /\ pc = [s \in Session |-> "none"]
  /\ doomed = [s \in Session |-> FALSE]
  /\ stopping = [s \in Session |-> FALSE]
  /\ away = {}
  /\ wire = [s \in Session |-> "none"]
  /\ confirmedClosed = [s \in Session |-> FALSE]
  /\ leases = [s \in Session |-> {}]
  /\ refused = [s \in Session |-> FALSE]
  /\ mark = {}
  /\ hook = [s \in Session |-> "none"]
  /\ external = [s \in Session |-> FALSE]
  /\ hold = [s \in Session |-> "none"]
  /\ child = [s \in Session |-> "none"]

-----------------------------------------------------------------------------
(* Helpers *)

Goto(s, step) == pc' = [pc EXCEPT ![s] = step]

Starting(s) == pc[s] \in StartSteps
Exists(s) == pc[s] \notin {"none", "discovering", "gone"}
Active(s) == OwnerOf[s] \notin away

CleanupPending(s) == Starting(s) \/ leases[s] # {}

Counted == {s \in Session : pc[s] = "discovering" \/ CleanupPending(s)}

Load == Cardinality(Counted)

HasRoom == Load < Capacity

Taken(s) == UNION {leases[t] : t \in Session \ {s}}

(* The leases left after every one of them was tried.  The store refuses   *)
(* those whose handoff is pending, and may refuse any other.               *)
Leftovers(s) == {left \in SUBSET leases[s] : leases[s] \cap mark' \subseteq left}

(* releaseLease, with the marks, the closure, the hold and the external    *)
(* process of s as they are after this step.                               *)
ReleaseLease(s) ==
  IF confirmedClosed'[s] /\ hold'[s] = "none" /\ ~external'[s]
  THEN \E left \in Leftovers(s) :
         /\ leases' = [leases EXCEPT ![s] = left]
         /\ refused' = [refused EXCEPT ![s] = left # {}]
  ELSE UNCHANGED <<leases, refused>>

-----------------------------------------------------------------------------
(* Admission *)

BeginDiscovery(s) ==
  /\ pc[s] = "none"
  /\ Active(s)
  /\ HasRoom
  /\ Goto(s, "discovering")
  /\ UNCHANGED <<doomed, stopping, away, device, lent>>

(* Wrong: a stop that came during the discovery is not noticed. *)
DiscoveredRegardless(s) ==
  /\ pc[s] = "discovering"
  /\ Goto(s, "authorizing")
  /\ UNCHANGED <<doomed, stopping, away, device, lent>>

(* The reservation passes to start() in the same turn. *)
Discovered(s) ==
  /\ pc[s] = "discovering"
  /\ Active(s)
  /\ ~doomed[s]
  /\ Goto(s, "authorizing")
  /\ UNCHANGED <<doomed, stopping, away, device, lent>>

DiscoveryFails(s) ==
  /\ pc[s] = "discovering"
  /\ Goto(s, "gone")
  /\ UNCHANGED <<doomed, stopping, away, device, lent>>

StartDirect(s) ==
  /\ pc[s] = "none"
  /\ Active(s)
  /\ HasRoom
  /\ Goto(s, "authorizing")
  /\ UNCHANGED <<doomed, stopping, away, device, lent>>

-----------------------------------------------------------------------------
(* start(), one action for each stretch between two awaits *)

(* The step after an await goes on only if no stop came in meanwhile. *)
Resume(s, from, to) ==
  /\ pc[s] = from
  /\ ~stopping[s]
  /\ Goto(s, to)

Authorized(s) ==
  /\ Resume(s, "authorizing", "checking")
  /\ UNCHANGED <<doomed, stopping, away, device, lent>>

(* The endpoint is as it was: every lease is acquired in this turn. *)
Acquired(s) ==
  /\ Resume(s, "checking", IF s \in Uploads THEN "hook" ELSE "making")
  /\ Needs[s] \cap Taken(s) = {}
  /\ leases' = [leases EXCEPT ![s] = Needs[s]]
  /\ hook' = [hook EXCEPT ![s] = IF s \in Uploads THEN "ready" ELSE "none"]
  /\ UNCHANGED <<doomed, stopping, away, wire, confirmedClosed, refused, mark, external, hold, child>>

(* One lease is refused; those acquired before it are released, unless     *)
(* that is refused in turn.                                                *)
AcquiredInPart(s) ==
  /\ Resume(s, "checking", "over")
  /\ \E left \in SUBSET (Needs[s] \ Taken(s)) :
       /\ left # Needs[s]
       /\ leases' = [leases EXCEPT ![s] = left]
       /\ refused' = [refused EXCEPT ![s] = left # {}]
  /\ confirmedClosed' = [confirmedClosed EXCEPT ![s] = TRUE]
  /\ UNCHANGED <<doomed, stopping, away, wire, mark, lent>>

Made(s) ==
  /\ pc[s] = "making"
  /\ Goto(s, "rechecking")
  /\ wire' = [wire EXCEPT ![s] = "made"]
  /\ UNCHANGED <<doomed, stopping, away, confirmedClosed, leases, refused, mark, lent>>

(* Wrong: what happened during the second endpoint check is ignored. *)
OpensRegardless(s) ==
  /\ pc[s] = "rechecking"
  /\ Goto(s, "opening")
  /\ wire' = [wire EXCEPT ![s] = "opening"]
  /\ UNCHANGED <<doomed, stopping, away, confirmedClosed, leases, refused, mark, lent>>

Opens(s) ==
  /\ Resume(s, "rechecking", "opening")
  /\ wire[s] = "made"
  /\ wire' = [wire EXCEPT ![s] = "opening"]
  /\ UNCHANGED <<doomed, stopping, away, confirmedClosed, leases, refused, mark, lent>>

Opened(s) ==
  /\ wire[s] = "open"
  /\ Resume(s, "opening", "confirming")
  /\ UNCHANGED <<doomed, stopping, away, device, lent>>

Started(s) ==
  /\ Resume(s, "confirming", "running")
  /\ UNCHANGED <<doomed, stopping, away, device, lent>>

(* What close() makes of a transport that is not closed yet. *)
Closing(w) == IF w \in {"made", "opening", "open"} THEN "ended" ELSE w

(* An await is rejected, a guard throws, or a stop is noticed: with no     *)
(* transport nothing was opened, otherwise the transport is closed.        *)
Fails(s) ==
  \/ /\ pc[s] \in {"authorizing", "checking", "hook", "making"}
     /\ Goto(s, "over")
     /\ confirmedClosed' = [confirmedClosed EXCEPT ![s] = TRUE]
     /\ UNCHANGED <<doomed, stopping, away, wire, mark, lent>>
     /\ ReleaseLease(s)
  \/ /\ pc[s] \in {"rechecking", "opening", "confirming"}
     /\ Goto(s, "closing")
     /\ wire' = [wire EXCEPT ![s] = Closing(@)]
     /\ UNCHANGED <<doomed, stopping, away, confirmedClosed, leases, refused, mark, lent>>

(* The close that a failed start asked for is answered, perhaps with       *)
(* "unconfirmed".                                                          *)
CloseAnswered(s) ==
  /\ pc[s] = "closing"
  /\ Goto(s, "over")
  /\ UNCHANGED <<doomed, stopping, away, device, lent>>

-----------------------------------------------------------------------------
(* The transport's own moves *)

(* Wrong: the leases are released when the transport ends, not when its    *)
(* port is known to be closed.                                             *)
WireMovesReleasing(s) ==
  /\ wire[s] \notin {"none", "made"}
  /\ \E w \in {"open", "ended"} :
       /\ <<wire[s], w>> \in Promise!Moves
       /\ wire' = [wire EXCEPT ![s] = w]
       /\ leases' = IF w = "ended" THEN [leases EXCEPT ![s] = {}] ELSE leases
  /\ UNCHANGED <<flow, confirmedClosed, refused, mark, lent>>

WireMoves(s) ==
  /\ wire[s] \notin {"none", "made"}
  /\ \E w \in {"open", "ended"} :
       /\ <<wire[s], w>> \in Promise!Moves
       /\ wire' = [wire EXCEPT ![s] = w]
  /\ UNCHANGED <<flow, confirmedClosed, leases, refused, mark, lent>>

WireCloses(s) ==
  /\ wire[s] \notin {"none", "made"}
  /\ <<wire[s], "closed">> \in Promise!Moves
  /\ wire' = [wire EXCEPT ![s] = "closed"]
  /\ confirmedClosed' = [confirmedClosed EXCEPT ![s] = TRUE]
  /\ UNCHANGED <<flow, mark, lent>>
  /\ ReleaseLease(s)

-----------------------------------------------------------------------------
(* stop, stopAll, disconnectOwner, forget *)

StopThese(S) ==
  /\ stopping' = [s \in Session |-> stopping[s] \/ (s \in S /\ Exists(s))]
  /\ wire' = [s \in Session |-> IF s \in S THEN Closing(wire[s]) ELSE wire[s]]

Stop(s) ==
  /\ Exists(s)
  /\ StopThese({s})
  /\ UNCHANGED <<pc, doomed, away, confirmedClosed, leases, refused, mark, lent>>

(* A release is repeated by a further stop(), or by the owner of a hold    *)
(* that is told its cleanup is still pending.                              *)
ReleaseAgain(s) ==
  /\ Exists(s)
  /\ leases[s] # {}
  /\ UNCHANGED <<flow, wire, confirmedClosed, mark, lent>>
  /\ ReleaseLease(s)

StopAll(o) ==
  /\ StopThese({s \in Session : OwnerOf[s] = o})
  /\ doomed' = [s \in Session |->
                 doomed[s] \/ (OwnerOf[s] = o /\ pc[s] = "discovering")]
  /\ UNCHANGED <<pc, confirmedClosed, leases, refused, mark, lent>>

DisconnectOwner(o) ==
  /\ StopAll(o)
  /\ away' = away \cup {o}

StopOwner(o) ==
  /\ StopAll(o)
  /\ UNCHANGED away

(* Wrong: a session is forgotten as soon as its start has returned. *)
ForgetEarly(s) ==
  /\ pc[s] \in {"running", "over"}
  /\ Goto(s, "gone")
  /\ UNCHANGED <<doomed, stopping, away, device, lent>>

(* By forget(), or by prune() ten minutes later. *)
Forget(s) ==
  /\ pc[s] \in {"running", "over"}
  /\ ~CleanupPending(s)
  /\ Goto(s, "gone")
  /\ UNCHANGED <<doomed, stopping, away, device, lent>>

-----------------------------------------------------------------------------
(* Handoff marks *)

(* beginHandoff on one lease after the other: all of them, or those before *)
(* the one that is refused.                                                *)
MarkAll(s) == mark' = mark \cup leases[s]
MarkSome(s) == \E part \in SUBSET leases[s] : part # leases[s] /\ mark' = mark \cup part

UnmarkAll(s) == mark' = mark \ leases[s]
UnmarkSome(s) == \E part \in SUBSET leases[s] : part # leases[s] /\ mark' = mark \ part

-----------------------------------------------------------------------------
(* The custody of an upload that runs before the port is opened *)

HookActive(s) == pc[s] = "hook"

HookPrepares(s) ==
  /\ HookActive(s)
  /\ hook[s] = "ready"
  /\ hook' = [hook EXCEPT ![s] = "checking"]
  /\ UNCHANGED <<flow, device, external, hold, child>>

(* Wrong: the external process is noted only when every mark succeeded. *)
HookPreparedLate(s) ==
  /\ hook[s] = "checking"
  /\ HookActive(s) /\ ~stopping[s]
  /\ \/ /\ MarkAll(s)
        /\ hook' = [hook EXCEPT ![s] = "marked"]
        /\ external' = [external EXCEPT ![s] = TRUE]
     \/ /\ MarkSome(s)
        /\ hook' = [hook EXCEPT ![s] = "spent"]
        /\ UNCHANGED external
  /\ UNCHANGED <<flow, wire, confirmedClosed, leases, refused, hold, child>>

HookPrepared(s) ==
  /\ hook[s] = "checking"
  /\ HookActive(s) /\ ~stopping[s]
  /\ external' = [external EXCEPT ![s] = TRUE]
  /\ \/ MarkAll(s) /\ hook' = [hook EXCEPT ![s] = "marked"]
     \/ MarkSome(s) /\ hook' = [hook EXCEPT ![s] = "spent"]
  /\ UNCHANGED <<flow, wire, confirmedClosed, leases, refused, hold, child>>

HookRefused(s) ==
  /\ hook[s] = "checking"
  /\ hook' = [hook EXCEPT ![s] = "spent"]
  /\ UNCHANGED <<flow, device, external, hold, child>>

HookSpawns(s) ==
  /\ HookActive(s)
  /\ hook[s] = "marked"
  /\ child[s] = "none"
  /\ child' = [child EXCEPT ![s] = "upload"]
  /\ UNCHANGED <<flow, device, hook, external, hold>>

ChildExits(s) ==
  /\ child[s] # "none"
  /\ child' = [child EXCEPT ![s] = "none"]
  /\ UNCHANGED <<flow, device, hook, external, hold>>

(* Wrong: the session still believes in the process after its release. *)
HookReleasesInVain(s) ==
  /\ hook[s] \in {"ready", "spent", "marked"}
  /\ child[s] = "none"
  /\ IF external[s] THEN UnmarkAll(s) ELSE UNCHANGED mark
  /\ hook' = [hook EXCEPT ![s] = "released"]
  /\ UNCHANGED <<flow, wire, confirmedClosed, external, hold, child>>
  /\ ReleaseLease(s)

(* releaseAfterExit, called with proof that no child runs, also long after *)
(* the hook failed.                                                        *)
HookReleases(s) ==
  /\ hook[s] \in {"ready", "spent", "marked"}
  /\ child[s] = "none"
  /\ IF external[s] THEN UnmarkAll(s) ELSE UNCHANGED mark
  /\ external' = [external EXCEPT ![s] = FALSE]
  /\ hook' = [hook EXCEPT ![s] = "released"]
  /\ UNCHANGED <<flow, wire, confirmedClosed, hold, child>>
  /\ ReleaseLease(s)

(* The store refuses to cancel one of the handoffs.  The launcher starts   *)
(* nothing more and tries again.                                           *)
HookReleaseFails(s) ==
  /\ hook[s] \in {"spent", "marked"}
  /\ child[s] = "none"
  /\ external[s]
  /\ UnmarkSome(s)
  /\ hook' = [hook EXCEPT ![s] = "spent"]
  /\ UNCHANGED <<flow, wire, confirmedClosed, leases, refused, external, hold, child>>

HookReturns(s) ==
  /\ ~external[s]
  /\ hook[s] # "checking"
  /\ Resume(s, "hook", "making")
  /\ UNCHANGED <<doomed, stopping, away, device, lent>>

-----------------------------------------------------------------------------
(* The power hold of an open session *)

HoldGuard(s) == ~stopping[s] /\ Active(s) /\ wire[s] = "open"

Holds(s) ==
  /\ pc[s] = "running"
  /\ HoldGuard(s)
  /\ leases[s] # {}
  /\ hold[s] = "none"
  /\ hold' = [hold EXCEPT ![s] = "held"]
  /\ UNCHANGED <<flow, device, hook, external, child>>

HoldPrepares(s) ==
  /\ hold[s] = "held"
  /\ hold' = [hold EXCEPT ![s] = IF HoldGuard(s) THEN "checking" ELSE "spent"]
  /\ UNCHANGED <<flow, device, hook, external, child>>

HoldPrepared(s) ==
  /\ hold[s] = "checking"
  /\ HoldGuard(s)
  /\ \/ MarkAll(s) /\ hold' = [hold EXCEPT ![s] = "marked"]
     \/ MarkSome(s) /\ hold' = [hold EXCEPT ![s] = "spent"]
  /\ UNCHANGED <<flow, wire, confirmedClosed, leases, refused, hook, external, child>>

HoldRefused(s) ==
  /\ hold[s] = "checking"
  /\ hold' = [hold EXCEPT ![s] = "spent"]
  /\ UNCHANGED <<flow, device, hook, external, child>>

(* The meter's process, one for each hold. *)
HoldSpawns(s) ==
  /\ hold[s] = "marked"
  /\ child[s] = "none"
  /\ child' = [child EXCEPT ![s] = "power"]
  /\ hold' = [hold EXCEPT ![s] = "spent"]
  /\ UNCHANGED <<flow, device, hook, external>>

HoldReleases(s) ==
  /\ hold[s] \in {"held", "spent", "marked"}
  /\ child[s] = "none"
  /\ UnmarkAll(s)
  /\ hold' = [hold EXCEPT ![s] = "none"]
  /\ UNCHANGED <<flow, wire, confirmedClosed, hook, external, child>>
  /\ ReleaseLease(s)

HoldReleaseFails(s) ==
  /\ hold[s] \in {"spent", "marked"}
  /\ child[s] = "none"
  /\ UnmarkSome(s)
  /\ hold' = [hold EXCEPT ![s] = "spent"]
  /\ UNCHANGED <<flow, wire, confirmedClosed, leases, refused, hook, external, child>>

-----------------------------------------------------------------------------
Step(s) ==
  \/ BeginDiscovery(s) \/ Discovered(s) \/ DiscoveryFails(s) \/ StartDirect(s)
  \/ Authorized(s) \/ Acquired(s) \/ AcquiredInPart(s) \/ Made(s) \/ Opens(s)
  \/ Opened(s) \/ Started(s) \/ Fails(s) \/ CloseAnswered(s)
  \/ WireMoves(s) \/ WireCloses(s) \/ Stop(s) \/ ReleaseAgain(s) \/ Forget(s)
  \/ HookPrepares(s) \/ HookPrepared(s) \/ HookRefused(s) \/ HookSpawns(s)
  \/ ChildExits(s) \/ HookReleases(s) \/ HookReleaseFails(s) \/ HookReturns(s)
  \/ Holds(s) \/ HoldPrepares(s) \/ HoldPrepared(s) \/ HoldRefused(s)
  \/ HoldSpawns(s) \/ HoldReleases(s) \/ HoldReleaseFails(s)

Next ==
  \/ \E s \in Session : Step(s)
  \/ \E o \in Owner : StopOwner(o) \/ DisconnectOwner(o)

Spec == Init /\ [][Next]_vars

-----------------------------------------------------------------------------
(* Properties *)

(* Discoveries, starts and sessions that still hold a lease are never more *)
(* than the capacity, however they overlap.                                *)
CapacityHeld == Load <= Capacity

InUse(s) == wire[s] \in {"opening", "open", "ended"} \/ child[s] # "none"

(* Every lease of a device is held while its port may be open or an        *)
(* external process may use it, and a process's use is marked in the store *)
(* so that it survives a crash of the server.                              *)
LeaseOutlivesUse ==
  \A s \in Session :
    /\ InUse(s) => leases[s] = Needs[s]
    /\ child[s] # "none" => leases[s] \subseteq mark

(* No handoff mark is orphaned: whoever is to clear it still remembers.    *)
NoOrphanMark ==
  \A r \in mark :
    \E s \in Session : /\ r \in leases[s]
                       /\ external[s] \/ hold[s] \in {"marked", "spent"}

(* Once a session was stopped, or its owner went away, no port is opened   *)
(* for it and no further process is admitted to its device.                *)
StoppedAdmitsNothing ==
  [][\A s \in Session :
       stopping[s] \/ OwnerOf[s] \in away =>
         /\ wire'[s] = "opening" => wire[s] = "opening"
         /\ hook'[s] = "marked" => hook[s] = "marked"
         /\ hold'[s] = "marked" => hold[s] = "marked"]_vars

(* What is forgotten holds nothing and uses nothing.                       *)
ForgottenIsFinished ==
  \A s \in Session :
    pc[s] = "gone" => leases[s] = {} /\ ~InUse(s) /\ ~external[s] /\ hold[s] = "none"

(* A session keeps a lease only for a cause: its start goes on, its port   *)
(* may be open, a custody or a hold still has the device, or the store     *)
(* refused the release, which cleanupError says and a further stop()       *)
(* repeats.  Closure, upload and meter end in any order, and whichever is  *)
(* last gives the leases back.                                             *)
LeasesKeptForCause ==
  \A s \in Session :
    leases[s] # {} => \/ Starting(s) \/ InUse(s)
                      \/ hook[s] \in {"marked", "spent"} \/ hold[s] # "none"
                      \/ refused[s]
=============================================================================
