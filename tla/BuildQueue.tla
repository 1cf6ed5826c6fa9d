------------------------------ MODULE BuildQueue ------------------------------
(***************************************************************************)
(* The build pipeline of one server: the HardwareLockManager               *)
(* (src/src/utils/lock-manager.ts), executeWithSpooling                    *)
(* (src/src/utils/spooler.ts) and the build pids that a project's registry *)
(* records (src/src/utils/process-manager.ts).  A job is one call that     *)
(* compiles, uploads or installs.  Each await between a check and the act  *)
(* that rests on it is a place where another job can run.                  *)
(***************************************************************************)
EXTENDS Naturals

CONSTANTS
  Job, Project, ProjectOf,
  Session,     \* the ids that agents give to acquire_lock
  Locking,     \* how a job is locked: "implicit", "session" (it names one),
               \* "none" (a dashboard build), "install" (a dashboard install)
  SessionOf,
  Background,  \* the jobs dispatched with background: true
  Uploads,     \* the jobs that hold a device custody
  Monitored,   \* the projects whose monitor the dashboard starts
  Resets,      \* the projects for which reset_server_state is called
  Restarts,    \* how often the server may die and be started again
  Nobody

ASSUME QueueAssumption ==
  /\ ProjectOf \in [Job -> Project]
  /\ Locking \in [Job -> {"implicit", "session", "none", "install"}]
  /\ SessionOf \in [Job -> Session]
  /\ Background \subseteq Job /\ Uploads \subseteq Job
  /\ Monitored \subseteq Project /\ Resets \subseteq Project
  /\ Restarts \in Nat
  /\ Job \cap Session = {} /\ Nobody \notin Job \cup Session

VARIABLES
  lock,        \* who holds the server's one hardware lock
  pc,          \* where the call is, or how it ended
  child,       \* the job's process
  registered,  \* the jobs whose live pid is in their project's registry
  resetting,   \* a reset has killed what is tracked, the lock comes next
  restarts,    \* how often the server has died
  given        \* history: the jobs whose protection was given up from outside

server == <<restarts, given>>
vars == <<lock, pc, child, registered, resetting, restarts, given>>

InProgress == {"entered", "checked", "spawned", "running", "clearing",
               "installing"}

TypeOK ==
  /\ lock \in Job \cup Session \cup {Nobody}
  /\ pc \in [Job -> InProgress \cup {"idle", "uncertain", "over"}]
  /\ child \in [Job -> {"none", "alive", "gone"}]
  /\ registered \subseteq Job
  /\ resetting \in BOOLEAN
  /\ restarts \in 0 .. Restarts
  /\ given \subseteq Job

Init ==
  /\ lock = Nobody
  /\ pc = [j \in Job |-> "idle"]
  /\ child = [j \in Job |-> "none"]
  /\ registered = {}
  /\ resetting = FALSE
  /\ restarts = 0
  /\ given = {}

Goto(j, step) == pc' = [pc EXCEPT ![j] = step]

Of(p) == {j \in Job : ProjectOf[j] = p}

(* A record of a pid that has died counts for nothing, and is left out.    *)
IsBuildActive(p) == registered \cap Of(p) # {}

(* releaseLock: only the holder's own id releases.                         *)
Release(id) == lock' = IF lock = id THEN Nobody ELSE lock

-----------------------------------------------------------------------------
(* The lock's tools *)

AcquireLock(s) ==
  /\ lock = Nobody
  /\ lock' = s
  /\ UNCHANGED <<pc, child, registered, resetting, server>>

ReleaseLock(s) ==
  /\ lock = s
  /\ Release(s)
  /\ UNCHANGED <<pc, child, registered, resetting, server>>

(* The dashboard, the reset and the death of the server take from a job    *)
(* what kept others away from its child.                                   *)
GiveUpOn(jobs) ==
  given' = given \cup {j \in jobs \cap Job : pc[j] # "over" \/ child[j] = "alive"}

(* The dashboard takes a lock for an orphan when its own project has no    *)
(* active build.                                                           *)
Evictable(p) == ~IsBuildActive(p)

MonitorEvicts(p) ==
  /\ p \in Monitored
  /\ lock # Nobody
  /\ Evictable(p)
  /\ lock' = Nobody
  /\ GiveUpOn({lock})
  /\ UNCHANGED <<pc, child, registered, resetting, restarts>>

-----------------------------------------------------------------------------
(* A job's call *)

EnterImplicit(j) ==
  /\ pc[j] = "idle" /\ Locking[j] = "implicit"
  /\ lock = Nobody
  /\ lock' = j
  /\ Goto(j, "entered")
  /\ UNCHANGED <<child, registered, resetting, server>>

(* requireLock lets a session pass when nobody holds the lock, and takes   *)
(* none; a dashboard build does not even ask.                              *)
EnterUnheld(j) ==
  /\ pc[j] = "idle" /\ Locking[j] \in {"session", "none"}
  /\ Locking[j] = "session" => lock \in {Nobody, SessionOf[j]}
  /\ Goto(j, "entered")
  /\ UNCHANGED <<lock, child, registered, resetting, server>>

EnterInstall(j) ==
  /\ pc[j] = "idle" /\ Locking[j] = "install"
  /\ lock = Nobody \/ Evictable(ProjectOf[j])
  /\ lock' = j
  /\ GiveUpOn({lock})
  /\ Goto(j, "installing")
  /\ UNCHANGED <<child, registered, resetting, restarts>>

(* Wrong: a call that never started a process keeps the lock. *)
LeaveLocked(j) ==
  /\ Goto(j, "over")
  /\ given' = given \ {j}
  /\ IF child[j] = "none" THEN UNCHANGED lock ELSE Release(j)

(* The call ends, and with it the lock it took.                            *)
Leave(j) ==
  /\ Goto(j, "over")
  /\ Release(j)
  /\ given' = given \ {j}

InstallEnds(j) ==
  /\ pc[j] = "installing"
  /\ Leave(j)
  /\ UNCHANGED <<child, registered, resetting, restarts>>

(* Wrong: the lock is released whatever became of the child. *)
GiveUpReleasing(j) ==
  /\ Goto(j, "uncertain")
  /\ Release(j)
  /\ UNCHANGED given

(* cleanupPending: the caller is told, and an implicit lock stays.         *)
GiveUp(j) ==
  /\ Goto(j, "uncertain")
  /\ UNCHANGED <<lock, given>>

Check(j) ==
  /\ pc[j] = "entered"
  /\ ~IsBuildActive(ProjectOf[j])
  /\ Goto(j, "checked")
  /\ UNCHANGED <<lock, child, registered, resetting, server>>

(* A build is already running for the project, or the arguments are bad.   *)
Reject(j) ==
  /\ pc[j] = "entered"
  /\ Leave(j)
  /\ UNCHANGED <<child, registered, resetting, restarts>>

Spawn(j) ==
  /\ pc[j] = "checked"
  /\ child' = [child EXCEPT ![j] = "alive"]
  /\ Goto(j, "spawned")
  /\ UNCHANGED <<lock, registered, resetting, server>>

(* The custody is refused, the call is cancelled, or there is no process.  *)
(* A custody whose release is refused in turn leaves the call uncertain.   *)
SpawnFails(j) ==
  /\ pc[j] = "checked"
  /\ Leave(j) \/ (j \in Uploads /\ GiveUp(j))
  /\ UNCHANGED <<child, registered, resetting, restarts>>

(* A background call returns here, and its implicit lock is released while *)
(* the process runs on.                                                    *)
Register(j) ==
  /\ pc[j] = "spawned"
  /\ registered' = IF child[j] = "alive" THEN registered \cup {j} ELSE registered
  /\ Goto(j, "running")
  /\ IF j \in Background THEN Release(j) ELSE UNCHANGED lock
  /\ UNCHANGED <<child, resetting, server>>

(* The registry's file lock is contended: the child is terminated, and     *)
(* the call waits for its end as it would for any other's.                 *)
RegisterFails(j) ==
  /\ pc[j] = "spawned"
  /\ Goto(j, "running")
  /\ UNCHANGED <<lock, child, registered, resetting, server>>

ChildExits(j) ==
  /\ child[j] = "alive"
  /\ child' = [child EXCEPT ![j] = "gone"]
  /\ registered' = registered \ {j}
  /\ given' = IF pc[j] = "over" THEN given \ {j} ELSE given
  /\ UNCHANGED <<lock, pc, resetting, restarts>>

-----------------------------------------------------------------------------
(* waitForOwnedProcess settles *)

(* The exit is confirmed, and so is the release of the custody.            *)
Confirmed(j) ==
  /\ pc[j] = "running"
  /\ child[j] = "gone"
  /\ Goto(j, "clearing")
  /\ UNCHANGED <<lock, child, registered, resetting, server>>

(* Wrong: a custody that may still be held is waited for without an end. *)
UnconfirmedUnlessCustody(j) ==
  /\ pc[j] = "running"
  /\ child[j] = "alive" /\ j \notin Uploads
  /\ GiveUp(j)
  /\ UNCHANGED <<child, registered, resetting, restarts>>

(* The child outlives its kill.                                            *)
Unconfirmed(j) ==
  /\ pc[j] = "running"
  /\ child[j] = "alive"
  /\ GiveUp(j)
  /\ UNCHANGED <<child, registered, resetting, restarts>>

(* The exit is confirmed and the store refuses to release the custody.     *)
CustodyRefused(j) ==
  /\ pc[j] = "running"
  /\ child[j] = "gone"
  /\ j \in Uploads
  /\ GiveUp(j)
  /\ UNCHANGED <<child, registered, resetting, restarts>>

(* unregisterBuildPid removes every build of the project.  It may fail,    *)
(* for contention, and the call ends nevertheless.                         *)
Clear(j) ==
  /\ pc[j] = "clearing"
  /\ registered' \in {registered, registered \ Of(ProjectOf[j])}
  /\ Leave(j)
  /\ UNCHANGED <<child, resetting, restarts>>

-----------------------------------------------------------------------------
(* reset_server_state: the tracked processes are killed, the registry is   *)
(* removed, and then whoever holds the lock loses it.                      *)

ResetBegins(p) ==
  /\ p \in Resets /\ ~resetting
  /\ resetting' = TRUE
  /\ registered' = registered \ Of(p)
  /\ GiveUpOn(registered \cap Of(p))
  /\ UNCHANGED <<lock, pc, child, restarts>>

ResetEnds ==
  /\ resetting
  /\ resetting' = FALSE
  /\ lock' = Nobody
  /\ GiveUpOn({lock})
  /\ UNCHANGED <<pc, child, registered, restarts>>

(* The server dies, and another is started: the calls and the lock are     *)
(* gone, the children and the registries are not.                          *)
ServerDies ==
  /\ restarts < Restarts
  /\ restarts' = restarts + 1
  /\ lock' = Nobody
  /\ resetting' = FALSE
  /\ pc' = [j \in Job |-> IF pc[j] = "idle" THEN "idle" ELSE "over"]
  /\ GiveUpOn({j \in Job \ registered : child[j] = "alive"})
  /\ UNCHANGED <<child, registered>>

-----------------------------------------------------------------------------
Enter(j) == EnterImplicit(j) \/ EnterUnheld(j) \/ EnterInstall(j)

Settle(j) == Confirmed(j) \/ Unconfirmed(j) \/ CustodyRefused(j)

Proceed(j) ==
  \/ InstallEnds(j) \/ Check(j) \/ Reject(j) \/ Spawn(j) \/ SpawnFails(j)
  \/ Register(j) \/ RegisterFails(j) \/ Settle(j) \/ Clear(j)

Next ==
  \/ \E j \in Job : Enter(j) \/ Proceed(j) \/ ChildExits(j)
  \/ \E s \in Session : AcquireLock(s) \/ ReleaseLock(s)
  \/ \E p \in Project : MonitorEvicts(p) \/ ResetBegins(p)
  \/ ResetEnds \/ ServerDies

Spec == Init /\ [][Next]_vars

(* The server's own calls go on: every await has a timer behind it.        *)
FairSpec == Spec /\ \A j \in Job : WF_vars(Proceed(j))

-----------------------------------------------------------------------------
(* Properties *)

(* An implicit lock never outlives the call that took it, unless that call *)
(* could not confirm the end of its child: not on any failure path, nor    *)
(* after an eviction or a reset in the middle of the call.                 *)
NoLeakedLock ==
  \A j \in Job : lock = j => pc[j] \in InProgress \cup {"uncertain"}

(* Every call that takes the implicit lock gives it back or ends uncertain *)
(* with it: time and again no call that goes on has the lock.              *)
LockComesBack == []<>(\A j \in Job : lock = j => pc[j] = "uncertain")

(* Two processes never build one project at a time.  The spooler refuses:  *)
(* "A build is already actively running for this project."                 *)
OneCompilation ==
  \A j, k \in Job :
    j # k /\ ProjectOf[j] = ProjectOf[k] => ~(child[j] = "alive" /\ child[k] = "alive")

(* Foreground calls under the implicit lock never build a project together, *)
(* over timeouts, failed registrations and restarts of the server, unless  *)
(* somebody gave one of them up from outside; for every live child keeps   *)
(* the next build out, by its call's lock or by its record.                *)
Foreground == {j \in Job : Locking[j] = "implicit" /\ j \notin Background}

LockedBuildsExclude ==
  /\ \A j \in Foreground :
       child[j] = "alive" => lock = j \/ j \in registered \/ j \in given
  /\ \A j, k \in Foreground \ given :
       j # k /\ ProjectOf[j] = ProjectOf[k] => ~(child[j] = "alive" /\ child[k] = "alive")
=============================================================================
