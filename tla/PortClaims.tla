------------------------------ MODULE PortClaims ------------------------------
(***************************************************************************)
(* One serial port, shared by the processes of one host through its claim  *)
(* file (src/src/utils/semaphore.ts), the registry of monitor pids         *)
(* (src/src/utils/process-manager.ts) and the lease of its device.  A call *)
(* starts a monitor, stops one (src/src/tools/monitor.ts) or uploads       *)
(* (src/src/tools/upload.ts, src/src/utils/spooler.ts).                    *)
(*                                                                         *)
(* A claim is read and changed under a guard that outlives no process, so  *)
(* one such change is one step.  A caller that does not get the guard in   *)
(* time fails, or goes on without the release it tried.                    *)
(*                                                                         *)
(* Left out: claims of other hosts, claims under an alias of the port,     *)
(* claim files that cannot be read, the refresh of a call's own claim      *)
(* (which no caller asks for), the reuse of a pid, a guard overtaken from  *)
(* a suspended holder, and the server reset that removes every claim.      *)
(***************************************************************************)
CONSTANTS
  Op,      \* the calls
  Process,
  ProcOf,  \* the process that makes the call
  Kind,    \* "monitor", "stop" or "upload"
  Nobody,
  Dead     \* the registry's lock was left by a process that died

ASSUME ClaimAssumption ==
  /\ ProcOf \in [Op -> Process]
  /\ Kind \in [Op -> {"monitor", "stop", "upload"}]
  /\ Nobody \notin Op /\ Dead \notin Op /\ Nobody # Dead

VARIABLES
  pc,          \* where the call is, or how it ended
  alive,       \* the processes that run
  claim,       \* the call in the claim file
  attached,    \* the claim names the monitor's own pid: startup_pending is false
  breaker,     \* a reclaim was abandoned
  lease,       \* the upload that has the device's lease, its handoff pending
  registered,  \* the monitor in the registry
  registrar,   \* who holds the registry's lock
  seen,        \* the claim that a stop found before it killed anything
  proven,      \* the stop knows that a registered monitor is gone
  child        \* the call's process, which uses the port

file == <<claim, attached, breaker>>
registry == <<registered, registrar>>
stops == <<seen, proven>>
vars == <<pc, alive, file, lease, registry, stops, child>>

Stopping == {"stopping", "killing", "killed"}
Starting == {"claiming", "claimed", "spawning", "spawned", "attached", "cleaning"}
Ended == {"idle", "over", "up", "uncertain", "crashed"}

Claims == [by : Op \cup {Nobody}, attached : BOOLEAN]

TypeOK ==
  /\ pc \in [Op -> Stopping \cup Starting \cup Ended \cup {"running"}]
  /\ alive \subseteq Process
  /\ claim \in Op \cup {Nobody}
  /\ attached \in BOOLEAN /\ breaker \in BOOLEAN
  /\ lease \in Op \cup {Nobody}
  /\ registered \in Op \cup {Nobody}
  /\ registrar \in Op \cup {Nobody, Dead}
  /\ seen \in [Op -> Claims]
  /\ proven \in [Op -> BOOLEAN]
  /\ child \in [Op -> {"none", "alive", "gone"}]

Init ==
  /\ pc = [o \in Op |-> "idle"]
  /\ alive = Process
  /\ claim = Nobody /\ attached = FALSE /\ breaker = FALSE
  /\ lease = Nobody
  /\ registered = Nobody /\ registrar = Nobody
  /\ seen = [o \in Op |-> [by |-> Nobody, attached |-> FALSE]]
  /\ proven = [o \in Op |-> FALSE]
  /\ child = [o \in Op |-> "none"]

-----------------------------------------------------------------------------
(* Helpers *)

Goto(o, step) == pc' = [pc EXCEPT ![o] = step]

At(o, step) == pc[o] = step /\ ProcOf[o] \in alive

Current == [by |-> claim, attached |-> attached]

(* isClaimStale: a monitor's claim lives as long as the monitor, and is    *)
(* never stale before the monitor's pid is known; an upload's lives as     *)
(* long as the process that made it.                                       *)
Stale(c) ==
  /\ c.by # Nobody
  /\ IF Kind[c.by] = "monitor"
     THEN c.attached /\ child[c.by] # "alive"
     ELSE ProcOf[c.by] \notin alive

IsMonitors(c) == c.by # Nobody /\ Kind[c.by] = "monitor"

Publish(o) == claim' = o /\ attached' = FALSE
Unclaim == claim' = Nobody /\ attached' = FALSE
KeepClaim == UNCHANGED <<claim, attached>>

(* releasePort by the call o, which may or may not get the guard. *)
TryRelease(allowed) == KeepClaim \/ (allowed /\ Unclaim)

OwnedBy(p) == claim # Nobody /\ ProcOf[claim] = p

(* withMonitorTransition: one start or stop at a time in a process.        *)
InTransition(o) ==
  pc[o] \in Stopping \/ (Kind[o] = "monitor" /\ pc[o] \in Starting)

CustodyAvailable == lease = Nobody

RegistryFree == registrar \in {Nobody, Dead}

MonitorRegistered == \E m \in Op : registered = m /\ child[m] = "alive"

-----------------------------------------------------------------------------
(* The stop that each call begins with *)

Begin(o) ==
  /\ At(o, "idle")
  /\ ~\E other \in Op : ProcOf[other] = ProcOf[o] /\ InTransition(other)
  /\ Kind[o] = "monitor" => CustodyAvailable
  /\ seen' = [seen EXCEPT ![o] = Current]
  /\ Goto(o, "stopping")
  /\ UNCHANGED <<alive, file, lease, registry, proven, child>>

(* killPioMonitorByPort has the registry's lock and nothing to kill.       *)
NothingToKill(o) ==
  /\ At(o, "stopping")
  /\ RegistryFree
  /\ ~MonitorRegistered
  /\ proven' = [proven EXCEPT ![o] = registered # Nobody]
  /\ registered' = Nobody /\ registrar' = Nobody
  /\ Goto(o, "killed")
  /\ UNCHANGED <<alive, file, lease, seen, child>>

Kill(o) ==
  /\ At(o, "stopping")
  /\ RegistryFree
  /\ MonitorRegistered
  /\ registrar' = o
  /\ Goto(o, "killing")
  /\ UNCHANGED <<alive, file, lease, registered, stops, child>>

KillConfirmed(o) ==
  /\ At(o, "killing")
  /\ ~MonitorRegistered
  /\ proven' = [proven EXCEPT ![o] = TRUE]
  /\ registered' = Nobody /\ registrar' = Nobody
  /\ Goto(o, "killed")
  /\ UNCHANGED <<alive, file, lease, seen, child>>

(* The identity is not verified, or the exit not confirmed in time. *)
KillFails(o) ==
  /\ At(o, "killing")
  /\ registrar' = Nobody
  /\ Goto(o, "over")
  /\ UNCHANGED <<alive, file, lease, registered, stops, child>>

RegistryBusy(o) ==
  /\ At(o, "stopping")
  /\ registrar # Nobody
  /\ Goto(o, "over")
  /\ UNCHANGED <<alive, file, lease, registry, stops, child>>

(* A claim without a monitor's pid goes with any monitor that was killed.  *)
LegacyKillProven(o) == proven[o] /\ IsMonitors(seen[o]) /\ ~seen[o].attached

MayProceed(o) ==
  IsMonitors(seen[o]) => LegacyKillProven(o) \/ Stale(seen[o])

(* Wrong: whatever claim is there now goes with the monitor. *)
StoppedAny(o) ==
  /\ At(o, "killed")
  /\ MayProceed(o)
  /\ TryRelease(IsMonitors(seen[o]))
  /\ Goto(o, IF Kind[o] = "stop" THEN "over" ELSE "claiming")
  /\ UNCHANGED <<alive, breaker, lease, registry, stops, child>>

(* Only the claim that was seen is released. *)
Stopped(o) ==
  /\ At(o, "killed")
  /\ MayProceed(o)
  /\ TryRelease(/\ IsMonitors(seen[o]) /\ Current = seen[o]
                /\ LegacyKillProven(o) \/ Stale(Current))
  /\ Goto(o, IF Kind[o] = "stop" THEN "over" ELSE "claiming")
  /\ UNCHANGED <<alive, breaker, lease, registry, stops, child>>

StopUnproven(o) ==
  /\ At(o, "killed")
  /\ ~MayProceed(o)
  /\ Goto(o, "over")
  /\ UNCHANGED <<alive, file, lease, registry, stops, child>>

-----------------------------------------------------------------------------
(* claimPort *)

(* The port is free, or its claim is stale and nobody broke off a reclaim. *)
Claimable == claim = Nobody \/ (Stale(Current) /\ ~breaker)

Claim(o) ==
  /\ At(o, "claiming")
  /\ Claimable
  /\ Publish(o)
  /\ Goto(o, "claimed")
  /\ UNCHANGED <<alive, breaker, lease, registry, stops, child>>

(* Refused, or the guard was not to be had. *)
ClaimFails(o) ==
  /\ At(o, "claiming")
  /\ Goto(o, "over")
  /\ UNCHANGED <<alive, file, lease, registry, stops, child>>

-----------------------------------------------------------------------------
(* A monitor's start *)

(* Wrong: the lease that was free before the claim is taken to be so now.  *)
CheckNothing(m) ==
  /\ At(m, "claimed") /\ Kind[m] = "monitor"
  /\ Goto(m, "spawning")
  /\ UNCHANGED <<alive, file, lease, registry, stops, child>>

CheckCustody(m) ==
  /\ At(m, "claimed") /\ Kind[m] = "monitor"
  /\ CustodyAvailable
  /\ Goto(m, "spawning")
  /\ UNCHANGED <<alive, file, lease, registry, stops, child>>

(* The device is taken, or there is no process: the claim is released if   *)
(* it is still this call's.                                                *)
StartFails(m) ==
  /\ pc[m] \in {"claimed", "spawning"} /\ ProcOf[m] \in alive
  /\ Kind[m] = "monitor"
  /\ TryRelease(claim = m)
  /\ Goto(m, "over")
  /\ UNCHANGED <<alive, breaker, lease, registry, stops, child>>

SpawnMonitor(m) ==
  /\ At(m, "spawning")
  /\ child' = [child EXCEPT ![m] = "alive"]
  /\ Goto(m, "spawned")
  /\ UNCHANGED <<alive, file, lease, registry, stops>>

AttachPid(m) ==
  /\ At(m, "spawned")
  /\ claim = m
  /\ attached' = TRUE
  /\ Goto(m, "attached")
  /\ UNCHANGED <<alive, claim, breaker, lease, registry, stops, child>>

(* registerPioMonitorPid refuses when a different monitor still runs. *)
RegisterPid(m) ==
  /\ At(m, "attached")
  /\ RegistryFree
  /\ ~MonitorRegistered
  /\ registered' = m /\ registrar' = Nobody
  /\ Goto(m, "up")
  /\ UNCHANGED <<alive, file, lease, stops, child>>

(* The pid could not be recorded: the new monitor is killed.               *)
RecordFails(m) ==
  /\ pc[m] \in {"spawned", "attached"} /\ ProcOf[m] \in alive
  /\ Goto(m, "cleaning")
  /\ UNCHANGED <<alive, file, lease, registry, stops, child>>

(* Wrong: the kill is not waited for. *)
CleanedUpUnseen(m) ==
  /\ At(m, "cleaning")
  /\ TryRelease(claim = m)
  /\ Goto(m, "over")
  /\ UNCHANGED <<alive, breaker, lease, registry, stops, child>>

CleanedUp(m) ==
  /\ At(m, "cleaning")
  /\ child[m] # "alive"
  /\ TryRelease(claim = m)
  /\ Goto(m, "over")
  /\ UNCHANGED <<alive, breaker, lease, registry, stops, child>>

(* The exit is not confirmed in time: the claim stays as it is. *)
CleanupPending(m) ==
  /\ At(m, "cleaning")
  /\ Goto(m, "uncertain")
  /\ UNCHANGED <<alive, file, lease, registry, stops, child>>

-----------------------------------------------------------------------------
(* An upload *)

(* The project has a build, or a log file cannot be opened: the call ends  *)
(* before the part that releases the claim.                                *)
RejectUpload(u) ==
  /\ At(u, "claimed") /\ Kind[u] = "upload"
  /\ Goto(u, "over")
  /\ UNCHANGED <<alive, file, lease, registry, stops, child>>

(* acquireProcessDeviceCustody and prepareSpawn. *)
TakeCustody(u) ==
  /\ At(u, "claimed") /\ Kind[u] = "upload"
  /\ CustodyAvailable
  /\ lease' = u
  /\ Goto(u, "running")
  /\ UNCHANGED <<alive, file, registry, stops, child>>

CustodyFails(u) ==
  /\ At(u, "claimed") /\ Kind[u] = "upload"
  /\ TryRelease(OwnedBy(ProcOf[u]) \/ Stale(Current))
  /\ Goto(u, "over")
  /\ UNCHANGED <<alive, breaker, lease, registry, stops, child>>

SpawnUpload(u) ==
  /\ At(u, "running")
  /\ child[u] = "none"
  /\ child' = [child EXCEPT ![u] = "alive"]
  /\ UNCHANGED <<pc, alive, file, lease, registry, stops>>

(* The process never started or is known to have ended. *)
UploadEnds(u) ==
  /\ At(u, "running")
  /\ child[u] # "alive"
  /\ lease' = Nobody
  /\ TryRelease(OwnedBy(ProcOf[u]) \/ Stale(Current))
  /\ Goto(u, "over")
  /\ UNCHANGED <<alive, breaker, registry, stops, child>>

(* Its end is not confirmed, or the lease's release is refused.            *)
UploadUncertain(u) ==
  /\ At(u, "running")
  /\ child[u] # "none"
  /\ Goto(u, "uncertain")
  /\ UNCHANGED <<alive, file, lease, registry, stops, child>>

-----------------------------------------------------------------------------
(* What happens to processes, and the operator's recovery *)

ChildEnds(o) ==
  /\ child[o] = "alive"
  /\ child' = [child EXCEPT ![o] = "gone"]
  /\ UNCHANGED <<pc, alive, file, lease, registry, stops>>

(* What a death in the middle of claimPort leaves: a claim of the dead     *)
(* process, or a reclaim broken off before or after the old claim went.    *)
ClaimBrokenOff(o) ==
  \/ UNCHANGED file
  \/ claim = Nobody /\ Publish(o) /\ UNCHANGED breaker
  \/ /\ Stale(Current) /\ ~breaker
     /\ breaker' = TRUE
     /\ KeepClaim \/ Unclaim \/ Publish(o)

Crash(p) ==
  /\ p \in alive
  /\ alive' = alive \ {p}
  /\ pc' = [o \in Op |-> IF ProcOf[o] = p /\ pc[o] \notin {"over", "up", "uncertain"}
                         THEN "crashed" ELSE pc[o]]
  /\ registrar' = IF registrar \in Op /\ ProcOf[registrar] = p THEN Dead ELSE registrar
  /\ \/ UNCHANGED file
     \/ \E o \in Op : ProcOf[o] = p /\ pc[o] = "claiming" /\ ClaimBrokenOff(o)
  /\ UNCHANGED <<lease, registered, stops, child>>

(* --force is for an operator who is certain that the holder is finished.  *)
HolderFinished ==
  \E o \in Op : claim = o /\ child[o] # "alive" /\ pc[o] \in Ended

(* port release, which also clears a reclaim that was broken off.          *)
PortRelease ==
  /\ claim # Nobody \/ breaker
  /\ breaker' = FALSE
  /\ TryRelease(Stale(Current) \/ HolderFinished)
  /\ UNCHANGED <<pc, alive, lease, registry, stops, child>>

-----------------------------------------------------------------------------
StopStep(o) ==
  \/ Begin(o) \/ NothingToKill(o) \/ Kill(o) \/ KillConfirmed(o) \/ KillFails(o)
  \/ RegistryBusy(o) \/ Stopped(o) \/ StopUnproven(o)

MonitorStep(o) ==
  \/ CheckCustody(o) \/ StartFails(o) \/ SpawnMonitor(o) \/ AttachPid(o)
  \/ RegisterPid(o) \/ RecordFails(o) \/ CleanedUp(o) \/ CleanupPending(o)

UploadStep(o) ==
  \/ RejectUpload(o) \/ TakeCustody(o) \/ CustodyFails(o) \/ SpawnUpload(o)
  \/ UploadEnds(o) \/ UploadUncertain(o)

Next ==
  \/ \E o \in Op : \/ StopStep(o) \/ Claim(o) \/ ClaimFails(o)
                   \/ MonitorStep(o) \/ UploadStep(o) \/ ChildEnds(o)
  \/ \E p \in Process : Crash(p)
  \/ PortRelease

Spec == Init /\ [][Next]_vars

-----------------------------------------------------------------------------
(* Properties *)

(* Never do two processes use the port: monitors and uploads of different  *)
(* servers and command lines exclude each other by the claim and the       *)
(* lease together, across crashes, kills and reclaims.                     *)
OneUser ==
  \A o, other \in Op : child[o] = "alive" /\ child[other] = "alive" => o = other

(* A process that uses the port is covered by something another process    *)
(* can see: a monitor by its claim, an upload by its lease.                *)
UseIsVisible ==
  \A o \in Op : child[o] = "alive" => claim = o \/ lease = o

(* Nobody loses its claim to another call before its process has started,  *)
(* nor while its monitor runs: "the claim is released only once the monitor's own *)
(* PID is confirmed gone".  An upload that outlives its coordinator is     *)
(* left to the lease.                                                      *)
ClaimIsKept ==
  [][\A o \in Op :
       claim = o /\ claim' # o =>
         /\ child[o] = "alive" => lease = o
         /\ pc[o] \in {"claimed", "spawning", "spawned", "running"} => pc'[o] # pc[o]]_vars
=============================================================================
