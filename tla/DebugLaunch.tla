----------------------------- MODULE DebugLaunch -----------------------------
(***************************************************************************)
(* The launch of a debugger and its cleanup: startDebuggerWithBackend      *)
(* (core/debug/debug-backend-session.ts) around DebugProcess.start         *)
(* (debug-process.ts), the supervised groups of both (debug-backend-       *)
(* process.ts), and the owner kept when a launch fails uncertainly         *)
(* (debug-start-failure.ts).                                               *)
(*                                                                         *)
(* A launch of Backed starts a debug server (the backend) and then GDB     *)
(* under one device custody; any other launch starts GDB alone, for a      *)
(* server somebody else runs.  Each is a supervised group: closing its     *)
(* input asks it to end, and it ends confirmed ("gone") or without the     *)
(* supervisor's proof ("lost").                                            *)
(***************************************************************************)
EXTENDS Naturals, FiniteSets

CONSTANTS Launch,   \* calls of DebugClientSessions.start; a launch also names its session id
          Backed    \* the launches that start a backend of their own

ASSUME BackedAssumption == Backed \subseteq Launch

VARIABLES phase,      \* how far the launch is
          gdb,        \* the group of GDB
          backend,    \* the group of the debug server
          custody,    \* the leases of the probe and the endpoint
          owner,      \* who can clean up: the DebugProcess, the recovery owner, the custody alone
          cleanup,    \* the cleanup attempt in progress, or its result
          releasing   \* the release attempt, waiting for the backend

launchVars == <<phase, gdb, backend, custody, owner, cleanup, releasing>>

Group == {"none", "running", "asked", "gone", "lost"}
Launching == {"preflight", "reserving", "readying", "resolving", "configuring",
              "undoing"}

LaunchTypeOK ==
  /\ phase \in [Launch -> Launching \cup {"idle", "ending", "done"}]
  /\ gdb \in [Launch -> Group]
  /\ backend \in [Launch -> Group]
  /\ custody \in [Launch -> {"none", "held", "released"}]
  /\ owner \in [Launch -> {"none", "debugger", "recovery", "unstarted"}]
  /\ cleanup \in [Launch -> {"none", "gdb", "release", "done", "failed"}]
  /\ releasing \in [Launch -> BOOLEAN]

LaunchInit ==
  /\ phase = [l \in Launch |-> "idle"]
  /\ gdb = [l \in Launch |-> "none"]
  /\ backend = [l \in Launch |-> "none"]
  /\ custody = [l \in Launch |-> "none"]
  /\ owner = [l \in Launch |-> "none"]
  /\ cleanup = [l \in Launch |-> "none"]
  /\ releasing = [l \in Launch |-> FALSE]

Alive(g) == g \in {"running", "asked"}
Ended(g) == g \in {"none", "gone"}          \* confirmed: no member is left
Asked(g) == IF g = "running" THEN "asked" ELSE g

-----------------------------------------------------------------------------
(* Cleanup.  It is asked of several launches at once when the client       *)
(* closes; the result stays in cleanup until its caller takes it.          *)

\* cleanupProcess of the launches of S: a debugger's group is asked to end and awaited, a
\* group that is gone already leaves the release; the recovery owner asks the backend; the
\* owner of a debugger that was never spawned only releases the custody, which is refused
\* while the backend is pending and may fail besides (the choice of refused).
CleanUp(S, refused) ==
  LET Stopping == {l \in S : owner[l] = "debugger" /\ Alive(gdb[l])}
      Releasing == {l \in S : custody[l] # "released"
                                /\ \/ owner[l] = "recovery"
                                   \/ owner[l] = "debugger" /\ gdb[l] = "gone"}
      Releases == {l \in S : /\ owner[l] = "unstarted"
                             /\ Ended(backend[l])
                             /\ custody[l] = "held" => l \notin refused}
      Done == {l \in S : custody[l] = "released"} \cup Releases
  IN /\ gdb' = [l \in Launch |-> IF l \in Stopping THEN "asked" ELSE gdb[l]]
     /\ backend' = [l \in Launch |-> IF l \in Releasing THEN Asked(backend[l]) ELSE backend[l]]
     /\ releasing' = [l \in Launch |-> releasing[l] \/ l \in Releasing]
     /\ custody' = [l \in Launch |-> IF l \in Releases THEN "released" ELSE custody[l]]
     /\ cleanup' = [l \in Launch |-> CASE l \notin S -> cleanup[l]
                                       [] l \in Stopping -> "gdb"
                                       [] l \in Releasing -> "release"
                                       [] l \in Done -> "done"
                                       [] OTHER -> "failed"]

\* The GDB group ends, asked or by itself.  Its close event starts the release when the
\* supervisor confirmed that no member is left; a cleanup that waits follows it.
GdbEnds(l) ==
  /\ Alive(gdb[l])
  /\ \/ /\ gdb' = [gdb EXCEPT ![l] = "gone"]
        /\ releasing' = [releasing EXCEPT ![l] = TRUE]
        /\ backend' = [backend EXCEPT ![l] = Asked(@)]
        /\ cleanup' = [cleanup EXCEPT ![l] = IF @ = "gdb" THEN "release" ELSE @]
     \/ /\ gdb' = [gdb EXCEPT ![l] = "lost"]
        /\ cleanup' = [cleanup EXCEPT ![l] = IF @ = "gdb" THEN "failed" ELSE @]
        /\ UNCHANGED <<releasing, backend>>
  /\ UNCHANGED <<phase, custody, owner>>

\* A pipe or the protocol of GDB fails: its owner asks the group to end, and nobody waits.
GdbFails(l) ==
  /\ gdb[l] = "running"
  /\ gdb' = [gdb EXCEPT ![l] = "asked"]
  /\ UNCHANGED <<phase, backend, custody, owner, cleanup, releasing>>

\* Wrong: without the timer the cleanup waits for as long as the group lives.
GdbIsWaitedFor(l) ==
  /\ cleanup[l] = "gdb"
  /\ ~Alive(gdb[l])
  /\ cleanup' = [cleanup EXCEPT ![l] = "failed"]
  /\ UNCHANGED <<phase, gdb, backend, custody, owner, releasing>>

\* The group does not end within the time its cleanup grants it.
GdbOutlastsCleanup(l) ==
  /\ cleanup[l] = "gdb"
  /\ cleanup' = [cleanup EXCEPT ![l] = "failed"]
  /\ UNCHANGED <<phase, gdb, backend, custody, owner, releasing>>

BackendEnds(l) ==
  /\ Alive(backend[l])
  /\ \E how \in {"gone", "lost"} : backend' = [backend EXCEPT ![l] = how]
  /\ UNCHANGED <<phase, gdb, custody, owner, cleanup, releasing>>

\* Wrong: a backend that is no longer alive counts as gone, proven or not.
ReleaseEndsUnproven(l) ==
  /\ releasing[l]
  /\ releasing' = [releasing EXCEPT ![l] = FALSE]
  /\ \/ /\ ~Alive(backend[l])
        /\ custody' = [custody EXCEPT ![l] = "released"]
        /\ cleanup' = [cleanup EXCEPT ![l] = IF @ = "release" THEN "done" ELSE @]
     \/ /\ cleanup' = [cleanup EXCEPT ![l] = IF @ = "release" THEN "failed" ELSE @]
        /\ UNCHANGED custody
  /\ UNCHANGED <<phase, gdb, backend, owner>>

\* The release attempt ends: with the leases given back once the backend is confirmed gone,
\* or without: the backend is still there after its time, or a lease cannot be released now.
ReleaseEnds(l) ==
  /\ releasing[l]
  /\ releasing' = [releasing EXCEPT ![l] = FALSE]
  /\ \/ /\ Ended(backend[l])
        /\ custody' = [custody EXCEPT ![l] = "released"]
        /\ cleanup' = [cleanup EXCEPT ![l] = IF @ = "release" THEN "done" ELSE @]
     \/ /\ cleanup' = [cleanup EXCEPT ![l] = IF @ = "release" THEN "failed" ELSE @]
        /\ UNCHANGED custody
  /\ UNCHANGED <<phase, gdb, backend, owner>>

-----------------------------------------------------------------------------
(* The launch, from the first preflight to an owned debugger.              *)

\* A launch with a backend takes the leases first; GDB alone has its executable resolved first.
Preflighted(l) ==
  /\ phase[l] = "preflight"
  /\ phase' = [phase EXCEPT ![l] = IF l \in Backed THEN "reserving" ELSE "resolving"]
  /\ UNCHANGED <<gdb, backend, custody, owner, cleanup, releasing>>

\* prepareSpawn of the custody has returned and the first group is spawned.
Reserved(l) ==
  /\ phase[l] = "reserving"
  /\ custody' = [custody EXCEPT ![l] = "held"]
  /\ IF l \in Backed
       THEN /\ backend' = [backend EXCEPT ![l] = "running"]
            /\ phase' = [phase EXCEPT ![l] = "readying"]
            /\ UNCHANGED <<gdb, owner>>
       ELSE /\ gdb' = [gdb EXCEPT ![l] = "running"]
            /\ owner' = [owner EXCEPT ![l] = "debugger"]
            /\ phase' = [phase EXCEPT ![l] = "configuring"]
            /\ UNCHANGED backend
  /\ UNCHANGED <<cleanup, releasing>>

\* The backend has printed its readiness line.
Ready(l) ==
  /\ phase[l] = "readying"
  /\ backend[l] = "running"
  /\ phase' = [phase EXCEPT ![l] = "resolving"]
  /\ UNCHANGED <<gdb, backend, custody, owner, cleanup, releasing>>

\* The executable of GDB is found: with the leases held already it is spawned.
Resolved(l) ==
  /\ phase[l] = "resolving"
  /\ IF l \in Backed
       THEN /\ gdb' = [gdb EXCEPT ![l] = "running"]
            /\ owner' = [owner EXCEPT ![l] = "debugger"]
            /\ phase' = [phase EXCEPT ![l] = "configuring"]
       ELSE /\ phase' = [phase EXCEPT ![l] = "reserving"]
            /\ UNCHANGED <<gdb, owner>>
  /\ UNCHANGED <<backend, custody, cleanup, releasing>>

\* Who is left with the cleanup of a launch that fails in this phase.
OwnerOf(l) == IF owner[l] = "debugger" THEN "debugger"
              ELSE IF l \in Backed /\ phase[l] # "resolving" THEN "recovery"
              ELSE "unstarted"

\* The launch fails once it has to be undone: a refused reservation (with some of the leases
\* taken or none), a deadline, a changed policy, a group that ended, a refused attach.
LaunchBreaks(l) ==
  /\ phase[l] \in {"reserving", "readying", "resolving", "configuring"}
  /\ phase' = [phase EXCEPT ![l] = "undoing"]
  /\ owner' = [owner EXCEPT ![l] = OwnerOf(l)]
  /\ \/ UNCHANGED custody
     \/ phase[l] = "reserving" /\ custody' = [custody EXCEPT ![l] = "held"]
  /\ UNCHANGED <<gdb, backend, cleanup, releasing>>

\* The owner of the failed launch cleans up before the call returns.
Undo(l, refused) ==
  /\ phase[l] = "undoing"
  /\ cleanup[l] = "none"
  /\ CleanUp({l}, refused)
  /\ UNCHANGED <<phase, owner>>

=============================================================================
