---------------------------- MODULE DebugClients ----------------------------
(***************************************************************************)
(* The debuggers of one client connection: DebugClientSessions             *)
(* (core/debug/debug-client-sessions.ts) over the launches of DebugLaunch. *)
(* A start reserves capacity and an id before anything is launched, a      *)
(* launch that ends uncertainly is kept as a session that can only be      *)
(* cleaned up, stops of one session share one cleanup, and close() waits   *)
(* for launches and stops before it stops what is left.                    *)
(***************************************************************************)
EXTENDS DebugLaunch

CONSTANTS Request,    \* identities of start requests: same arguments, same identity
          Capacity,   \* sessions and starts, and ids reserved, of one connection: 8 in the code
          Nobody

ASSUME CapacityAssumption == Capacity \in Nat
ASSUME NobodyAssumption == Nobody \notin Launch

VARIABLES request,    \* the identity of each launch's request
          id,         \* the session id of each launch
          sessions,   \* the launch kept under each session id
          reserved,   \* the id a request that awaits approval will be launched under
          stopping,   \* what is in progress for each session id
          awaited,    \* the session ids close() is waiting for
          closing     \* how far close() is, with its report

clientVars == <<request, id, sessions, reserved, stopping, awaited, closing>>
vars == <<launchVars, clientVars>>

Known == {i \in Launch : sessions[i] # Nobody}
Starting == {l \in Launch : phase[l] \in Launching \cup {"ending"}}
Closed == closing # "open"

TypeOK ==
  /\ LaunchTypeOK
  /\ request \in [Launch -> Request]
  /\ id \in [Launch -> Launch]
  /\ sessions \in [Launch -> Launch \cup {Nobody}]
  /\ reserved \in [Request -> Launch \cup {Nobody}]
  /\ stopping \in [Launch -> {"none", "command", "cleanup"}]
  /\ awaited \subseteq Launch
  /\ closing \in {"open", "starting", "stopping", "stops", "clean", "pending"}

Init ==
  /\ LaunchInit
  /\ request \in [Launch -> Request]
  /\ id = [l \in Launch |-> l]
  /\ sessions = [i \in Launch |-> Nobody]
  /\ reserved = [r \in Request |-> Nobody]
  /\ stopping = [i \in Launch |-> "none"]
  /\ awaited = {}
  /\ closing = "open"

-----------------------------------------------------------------------------
(* Starting a debugger.                                                    *)

\* Wrong: an identical start may be running.
StartIdentical(l) ==
  LET r == request[l] IN
  /\ phase[l] = "idle"
  /\ ~Closed
  /\ Cardinality(Known) + Cardinality(Starting) < Capacity
  /\ phase' = [phase EXCEPT ![l] = "preflight"]
  /\ id' = [id EXCEPT ![l] = IF reserved[r] = Nobody THEN l ELSE reserved[r]]
  /\ UNCHANGED <<gdb, backend, custody, owner, cleanup, releasing, request, sessions, reserved,
                 stopping, awaited, closing>>

\* A start is admitted: the client is there, has room, and no identical start is running.
\* The id is the one its request was refused under before, or a fresh one.
Start(l) ==
  LET r == request[l] IN
  /\ phase[l] = "idle"
  /\ ~Closed
  /\ Cardinality(Known) + Cardinality(Starting) < Capacity
  /\ reserved[r] = Nobody => Cardinality({q \in Request : reserved[q] # Nobody}) < Capacity
  /\ \A m \in Starting : request[m] # r
  /\ phase' = [phase EXCEPT ![l] = "preflight"]
  /\ id' = [id EXCEPT ![l] = IF reserved[r] = Nobody THEN l ELSE reserved[r]]
  /\ UNCHANGED <<gdb, backend, custody, owner, cleanup, releasing, request, sessions, reserved,
                 stopping, awaited, closing>>

\* A reservation that nobody came back for expires.
ReservationExpires(r) ==
  /\ reserved[r] # Nobody
  /\ reserved' = [reserved EXCEPT ![r] = Nobody]
  /\ UNCHANGED <<launchVars, request, id, sessions, stopping, awaited, closing>>

\* The failed start of l returns its error.  One that only lacked an approval keeps its id
\* for the next attempt, unless the client has disconnected.
KeepsId(l) ==
  \E keep \in {Nobody} \cup IF Closed THEN {} ELSE {id[l]} :
    reserved' = [reserved EXCEPT ![request[l]] = keep]

DropsId(l) == reserved' = [reserved EXCEPT ![request[l]] = Nobody]

\* The launch is refused before it owned anything.
LaunchRefused(l) ==
  /\ phase[l] = "preflight"
  /\ phase' = [phase EXCEPT ![l] = "done"]
  /\ KeepsId(l)
  /\ UNCHANGED <<gdb, backend, custody, owner, cleanup, releasing, request, id, sessions, stopping,
                 awaited, closing>>

\* With the owner of a launch goes what it knew: groups that have ended, leases given back.
Forget(l) ==
  /\ gdb' = [gdb EXCEPT ![l] = IF @ = "gone" THEN "none" ELSE @]
  /\ backend' = [backend EXCEPT ![l] = IF @ = "gone" THEN "none" ELSE @]
  /\ custody' = [custody EXCEPT ![l] = IF @ = "released" THEN "none" ELSE @]
  /\ owner' = [owner EXCEPT ![l] = "none"]
  /\ releasing' = [releasing EXCEPT ![l] = FALSE]

\* The launch has failed.  Cleaned up, it leaves nothing; otherwise its owner becomes a
\* session, for cleanup retries.
LaunchFails(l) ==
  /\ phase[l] = "undoing"
  /\ cleanup[l] \in {"done", "failed"}
  /\ phase' = [phase EXCEPT ![l] = "done"]
  /\ cleanup' = [cleanup EXCEPT ![l] = "none"]
  /\ IF cleanup[l] = "failed"
       THEN /\ DropsId(l)
            /\ sessions' = [sessions EXCEPT ![id[l]] = l]
            /\ UNCHANGED <<gdb, backend, custody, owner, releasing>>
       ELSE KeepsId(l) /\ Forget(l) /\ UNCHANGED sessions
  /\ UNCHANGED <<request, id, stopping, awaited, closing>>

\* The debugger is configured and becomes a session; when the client has disconnected
\* meanwhile the call stops it at once and reports that afterwards.
LaunchSucceeds(l) ==
  /\ phase[l] = "configuring"
  /\ gdb[l] = "running"
  /\ sessions' = [sessions EXCEPT ![id[l]] = l]
  /\ DropsId(l)
  /\ IF Closed
       THEN /\ phase' = [phase EXCEPT ![l] = "ending"]
            /\ stopping' = [stopping EXCEPT ![id[l]] = "cleanup"]
            /\ CleanUp({l}, {})
       ELSE /\ phase' = [phase EXCEPT ![l] = "done"]
            /\ UNCHANGED <<gdb, backend, custody, cleanup, releasing, stopping>>
  /\ UNCHANGED <<owner, request, id, awaited, closing>>

-----------------------------------------------------------------------------
(* Stopping a debugger.                                                    *)

\* stop(id): a cleanup in progress is joined, otherwise one begins.
Stop(i, refused) ==
  /\ i \in Known
  /\ stopping[i] = "none"
  /\ stopping' = [stopping EXCEPT ![i] = "cleanup"]
  /\ CleanUp({sessions[i]}, refused)
  /\ UNCHANGED <<phase, owner, request, id, sessions, reserved, awaited, closing>>

\* detachAndStop and resetRunAndStop first have the debugger acknowledge a command.
CommandAndStop(i) ==
  /\ i \in Known
  /\ ~Closed
  /\ stopping[i] = "none"
  /\ stopping' = [stopping EXCEPT ![i] = "command"]
  /\ UNCHANGED <<launchVars, request, id, sessions, reserved, awaited, closing>>

Acknowledged(i) ==
  /\ stopping[i] = "command"
  /\ gdb[sessions[i]] = "running"
  /\ stopping' = [stopping EXCEPT ![i] = "cleanup"]
  /\ CleanUp({sessions[i]}, {})
  /\ UNCHANGED <<phase, owner, request, id, sessions, reserved, awaited, closing>>

\* It is refused, times out, or the client has closed before it was sent: the session stays.
Unacknowledged(i) ==
  /\ stopping[i] = "command"
  /\ stopping' = [stopping EXCEPT ![i] = "none"]
  /\ awaited' = awaited \ {i}
  /\ UNCHANGED <<launchVars, request, id, sessions, reserved, closing>>

\* The cleanup of a session ends.  The session is forgotten when the leases are released and
\* its retained files removed; otherwise it stays, and can be stopped again.
StopEnds(i) ==
  LET l == sessions[i] IN
  /\ stopping[i] = "cleanup"
  /\ cleanup[l] \in {"done", "failed"}
  /\ stopping' = [stopping EXCEPT ![i] = "none"]
  /\ cleanup' = [cleanup EXCEPT ![l] = "none"]
  /\ awaited' = awaited \ {i}
  /\ phase' = [phase EXCEPT ![l] = "done"]
  /\ \/ /\ cleanup[l] = "done"
        /\ sessions' = [sessions EXCEPT ![i] = Nobody]
        /\ Forget(l)
     \/ UNCHANGED <<sessions, gdb, backend, custody, owner, releasing>>
  /\ UNCHANGED <<request, id, reserved, closing>>

-----------------------------------------------------------------------------
(* The client disconnects.                                                 *)

\* close() refuses new work from here on; it is called again when cleanup was left pending.
Close ==
  /\ closing \in {"open", "clean", "pending"}
  /\ closing' = "starting"
  /\ reserved' = [r \in Request |-> Nobody]
  /\ UNCHANGED <<launchVars, request, id, sessions, stopping, awaited>>

\* Wrong: close() does not wait for the starts.
StartsIgnored ==
  /\ closing = "starting"
  /\ closing' = "stopping"
  /\ awaited' = {i \in Launch : stopping[i] # "none"}
  /\ UNCHANGED <<launchVars, request, id, sessions, reserved, stopping>>

\* Every launch has settled: the stops in progress now are awaited next.
StartsSettled ==
  /\ closing = "starting"
  /\ \A l \in Launch : phase[l] \notin Launching
  /\ closing' = "stopping"
  /\ awaited' = {i \in Launch : stopping[i] # "none"}
  /\ UNCHANGED <<launchVars, request, id, sessions, reserved, stopping>>

\* They have settled: every session that is left is stopped.
StopsSettled(refused) ==
  /\ closing = "stopping"
  /\ awaited = {}
  /\ closing' = "stops"
  /\ awaited' = Known
  /\ stopping' = [i \in Launch |-> IF i \in Known /\ stopping[i] = "none" THEN "cleanup" ELSE stopping[i]]
  /\ CleanUp({sessions[i] : i \in {j \in Known : stopping[j] = "none"}}, refused)
  /\ UNCHANGED <<phase, owner, request, id, sessions, reserved>>

\* The report tells whether some session is still there.
CloseReports ==
  /\ closing = "stops"
  /\ awaited = {}
  /\ closing' = IF Known = {} THEN "clean" ELSE "pending"
  /\ UNCHANGED <<launchVars, request, id, sessions, reserved, stopping, awaited>>

-----------------------------------------------------------------------------
(* The steps, by who takes them.                                           *)

LaunchProceeds(l) ==
  \/ Preflighted(l)
  \/ Reserved(l)
  \/ Ready(l)
  \/ Resolved(l)
  \/ LaunchBreaks(l)
  \/ \E refused \in SUBSET {l} : Undo(l, refused)

LaunchStep(l) ==
  \/ LaunchProceeds(l) /\ UNCHANGED clientVars
  \/ LaunchRefused(l)
  \/ LaunchFails(l)
  \/ LaunchSucceeds(l)

CleanupStep(l) ==
  /\ \/ GdbOutlastsCleanup(l)
     \/ ReleaseEnds(l)
  /\ UNCHANGED clientVars

GroupStep(l) ==
  /\ \/ GdbEnds(l)
     \/ GdbFails(l)
     \/ BackendEnds(l)
  /\ UNCHANGED clientVars

StopStep(i) ==
  \/ Acknowledged(i)
  \/ Unacknowledged(i)
  \/ StopEnds(i)

CloseStep ==
  \/ StartsSettled
  \/ \E refused \in SUBSET {sessions[i] : i \in Known} : StopsSettled(refused)
  \/ CloseReports

Next ==
  \/ \E l \in Launch : Start(l) \/ LaunchStep(l) \/ CleanupStep(l) \/ GroupStep(l)
  \/ \E r \in Request : ReservationExpires(r)
  \/ \E i \in Launch : \/ CommandAndStop(i)
                       \/ StopStep(i)
                       \/ \E refused \in SUBSET {sessions[i]} : Stop(i, refused)
  \/ Close
  \/ CloseStep

Spec == Init /\ [][Next]_vars

\* Deadlines bound every launch, timers every cleanup, every command and every release; the
\* groups themselves promise nothing.
FairSpec ==
  /\ Spec
  /\ \A l \in Launch : WF_vars(LaunchStep(l) \/ CleanupStep(l))
  /\ \A i \in Launch : WF_vars(StopStep(i))
  /\ WF_vars(CloseStep)

-----------------------------------------------------------------------------
(* Properties.                                                             *)

\* The device is not handed to anybody else while a process of the debugger may use it: a
\* launch whose leases were released has no group that is alive or ended unproven
\* (releaseIfConfirmed and cleanupBackend with every way a launch can fail, from any phase).
LeasesOutliveGroups ==
  \A l \in Launch : custody[l] = "released" => Ended(gdb[l]) /\ Ended(backend[l])

\* No debugger is lost: a launch that has a group or leases left is either still being
\* started or the session some id stands for, so that a stop or a close can reach it.
Reachable ==
  \A l \in Launch :
    custody[l] = "held" \/ ~Ended(gdb[l]) \/ ~Ended(backend[l])
      => l \in Starting \/ sessions[id[l]] = l

\* A close that reports nothing pending has left nothing behind, and nothing comes after it:
\* no launch is under way, no group is there and no lease is held, whatever was starting or
\* stopping when the client went away.
CleanCloseIsClean ==
  closing = "clean" =>
    \A l \in Launch : /\ l \notin Starting
                      /\ Ended(gdb[l]) /\ Ended(backend[l])
                      /\ custody[l] # "held"

\* A close returns, although launches, commands and cleanups are under way and no group has
\* to end: time and again there is none in progress.
CloseReturns == []<>(closing \in {"open", "clean", "pending"})

\* A stop that fails has at least told the debug server to end: "A GDB failure already retains
\* an owner that knows how to clean both processes" (debug-backend-session.ts:226).  Said only
\* of a launch that has no GDB whose end has to be awaited first.
FailedStopHasAsked ==
  [][\A i \in Known :
       LET l == sessions[i] IN
       /\ stopping[i] = "cleanup"
       /\ stopping'[i] = "none"
       /\ sessions'[i] = l
       /\ gdb[l] = "none"
       => backend[l] # "running"]_vars

=============================================================================
