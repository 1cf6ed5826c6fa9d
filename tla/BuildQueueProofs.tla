--------------------------- MODULE BuildQueueProofs ---------------------------
(***************************************************************************)
(* The hardware lock and the build records of a server, for any jobs,      *)
(* projects and sessions, with any number of restarts.  A foreground call  *)
(* has its implicit lock from its entry to its end; a child that has lost  *)
(* it to the death of the server is recorded, and its record keeps every   *)
(* other call of the project before its check.                             *)
(***************************************************************************)
EXTENDS BuildQueue, TLAPS

(* A process is there between its spawn and the end of its call, or later. *)
ChildInv ==
  \A j \in Job :
    /\ child[j] = "alive" => pc[j] \in {"spawned", "running", "uncertain", "over"}
    /\ pc[j] = "clearing" => child[j] = "gone"

Checked == {"checked", "spawned", "running", "clearing", "uncertain"}

(* An implicit lock is the call's until somebody takes it. *)
HoldInv ==
  \A j \in Foreground \ given : pc[j] \in Checked \cup {"entered"} => lock = j

(* The child of a server that died is recorded, alone in its project. *)
OrphanInv ==
  \A k \in Foreground \ given :
    child[k] = "alive" /\ lock # k =>
      /\ pc[k] = "over" /\ k \in registered
      /\ \A j \in Of(ProjectOf[k]) : pc[j] \notin Checked

IInv == /\ TypeOK /\ ChildInv /\ HoldInv /\ OrphanInv
        /\ NoLeakedLock /\ LockedBuildsExclude

LEMMA InitInv == Init => IInv
<1> SUFFICES ASSUME Init PROVE IInv
  OBVIOUS
<1>1. TypeOK
  <2>1. 0 \in 0 .. Restarts
    BY QueueAssumption
  <2>2. pc \in [Job -> InProgress \cup {"idle", "uncertain", "over"}]
    BY DEF Init
  <2> QED BY <2>1, <2>2 DEF Init, TypeOK
<1>2. ChildInv /\ HoldInv /\ OrphanInv /\ NoLeakedLock
  BY QueueAssumption
  DEF Init, ChildInv, HoldInv, OrphanInv, NoLeakedLock, InProgress, Checked, Foreground
<1>3. LockedBuildsExclude
  BY DEF Init, LockedBuildsExclude, Foreground
<1> QED BY <1>1, <1>2, <1>3 DEF IInv

-----------------------------------------------------------------------------
(* Types *)

LEMMA StepTypes ==
  ASSUME TypeOK, [Next]_vars
  PROVE  TypeOK'
<1> USE QueueAssumption DEF TypeOK, InProgress, Goto, Release, server
<1>1. ASSUME NEW j \in Job, Enter(j) PROVE TypeOK'
  BY <1>1 DEF Enter, EnterImplicit, EnterUnheld, EnterInstall, GiveUpOn
<1>2. ASSUME NEW j \in Job, InstallEnds(j) \/ Check(j) \/ Reject(j) \/ Spawn(j) \/ SpawnFails(j)
      PROVE  TypeOK'
  BY <1>2 DEF InstallEnds, Check, Reject, Spawn, SpawnFails, Leave, GiveUp
<1>3. ASSUME NEW j \in Job, Register(j) \/ RegisterFails(j) \/ Settle(j) \/ Clear(j)
      PROVE  TypeOK'
  BY <1>3 DEF Register, RegisterFails, Settle, Confirmed, Unconfirmed, CustodyRefused, Clear, Leave, GiveUp
<1>4. ASSUME NEW j \in Job, ChildExits(j) PROVE TypeOK'
  BY <1>4 DEF ChildExits
<1>5. ASSUME NEW s \in Session, AcquireLock(s) \/ ReleaseLock(s) PROVE TypeOK'
  BY <1>5 DEF AcquireLock, ReleaseLock
<1>6. ASSUME NEW p \in Project, MonitorEvicts(p) \/ ResetBegins(p) PROVE TypeOK'
  BY <1>6 DEF MonitorEvicts, ResetBegins, GiveUpOn
<1>7. CASE ResetEnds
  BY <1>7 DEF ResetEnds, GiveUpOn
<1>8. CASE ServerDies
  <2>1. restarts' \in 0 .. Restarts
    BY <1>8 DEF ServerDies
  <2>2. pc' \in [Job -> InProgress \cup {"idle", "uncertain", "over"}]
    BY <1>8 DEF ServerDies
  <2> QED BY <1>8, <2>1, <2>2 DEF ServerDies, GiveUpOn
<1>9. CASE UNCHANGED vars
  BY <1>9 DEF vars
<1> QED BY <1>1, <1>2, <1>3, <1>4, <1>5, <1>6, <1>7, <1>8, <1>9 DEF Next, Proceed

-----------------------------------------------------------------------------
(* The lock and the records *)

Rest == ChildInv /\ HoldInv /\ OrphanInv /\ NoLeakedLock

(* A child that nobody gave up was so before, or is just spawned. *)
LEMMA NewChild ==
  ASSUME IInv, [Next]_vars, NEW j \in Job, child'[j] = "alive", j \notin given', ~Spawn(j)
  PROVE  child[j] = "alive" /\ j \notin given
<1> DEFINE Kept == child[j] = "alive" /\ j \notin given
<1> USE DEF IInv, TypeOK, ChildInv, server
<1>1. ASSUME NEW k \in Job, Enter(k) PROVE Kept
  BY <1>1 DEF Enter, EnterImplicit, EnterUnheld, EnterInstall, GiveUpOn
<1>2. ASSUME NEW k \in Job, InstallEnds(k) \/ Check(k) \/ Reject(k) \/ SpawnFails(k) \/ Clear(k) PROVE Kept
  BY <1>2 DEF InstallEnds, Check, Reject, SpawnFails, Clear, Leave, GiveUp
<1>3. ASSUME NEW k \in Job, Register(k) \/ RegisterFails(k) \/ Settle(k) PROVE Kept
  BY <1>3 DEF Register, RegisterFails, Settle, Confirmed, Unconfirmed, CustodyRefused, GiveUp
<1>4. ASSUME NEW k \in Job, Spawn(k) \/ ChildExits(k) PROVE Kept
  BY <1>4 DEF Spawn, ChildExits
<1>5. ASSUME NEW s \in Session, AcquireLock(s) \/ ReleaseLock(s) PROVE Kept
  BY <1>5 DEF AcquireLock, ReleaseLock
<1>6. ASSUME NEW p \in Project, MonitorEvicts(p) \/ ResetBegins(p) PROVE Kept
  BY <1>6 DEF MonitorEvicts, ResetBegins, GiveUpOn
<1>7. CASE ResetEnds \/ ServerDies
  BY <1>7 DEF ResetEnds, ServerDies, GiveUpOn
<1>8. CASE UNCHANGED vars
  BY <1>8 DEF vars
<1> QED BY <1>1, <1>2, <1>3, <1>4, <1>5, <1>6, <1>7, <1>8 DEF Next, Proceed

LEMMA StepRest ==
  ASSUME IInv, [Next]_vars
  PROVE  Rest'
<1>0. TypeOK'
  BY StepTypes DEF IInv
<1> USE QueueAssumption
    DEF IInv, TypeOK, ChildInv, HoldInv, OrphanInv, NoLeakedLock, Rest, Goto, Release, server,
        InProgress, Checked, Foreground, Of
<1>1. ASSUME NEW j \in Job, EnterImplicit(j) PROVE Rest'
  BY <1>1 DEF EnterImplicit
<1>2. ASSUME NEW j \in Job, EnterUnheld(j) PROVE Rest'
  BY <1>2 DEF EnterUnheld
<1>3. ASSUME NEW j \in Job, EnterInstall(j) PROVE Rest'
  BY <1>3 DEF EnterInstall, GiveUpOn
<1>4. ASSUME NEW j \in Job, InstallEnds(j) PROVE Rest'
  BY <1>4 DEF InstallEnds, Leave
<1>5. ASSUME NEW j \in Job, Check(j) PROVE Rest'
  BY <1>5 DEF Check, IsBuildActive
<1>6. ASSUME NEW j \in Job, Reject(j) PROVE Rest'
  BY <1>6 DEF Reject, Leave
<1>7. ASSUME NEW j \in Job, Spawn(j) PROVE Rest'
  BY <1>7 DEF Spawn
<1>8. ASSUME NEW j \in Job, SpawnFails(j) PROVE Rest'
  BY <1>8 DEF SpawnFails, Leave, GiveUp
<1>9. ASSUME NEW j \in Job, Register(j) PROVE Rest'
  BY <1>9 DEF Register
<1>10. ASSUME NEW j \in Job, RegisterFails(j) PROVE Rest'
  BY <1>10 DEF RegisterFails
<1>11. ASSUME NEW j \in Job, Settle(j) PROVE Rest'
  BY <1>11 DEF Settle, Confirmed, Unconfirmed, CustodyRefused, GiveUp
<1>12. ASSUME NEW j \in Job, Clear(j) PROVE Rest'
  BY <1>12 DEF Clear, Leave
<1>13. ASSUME NEW j \in Job, ChildExits(j) PROVE Rest'
  BY <1>13 DEF ChildExits
<1>14. ASSUME NEW s \in Session, AcquireLock(s) \/ ReleaseLock(s) PROVE Rest'
  BY <1>14 DEF AcquireLock, ReleaseLock
<1>15. ASSUME NEW p \in Project, MonitorEvicts(p) PROVE Rest'
  BY <1>15 DEF MonitorEvicts, GiveUpOn
<1>16. ASSUME NEW p \in Project, ResetBegins(p) PROVE Rest'
  BY <1>16 DEF ResetBegins, GiveUpOn
<1>17. CASE ResetEnds
  BY <1>17 DEF ResetEnds, GiveUpOn
<1>18. CASE ServerDies
  BY <1>18 DEF ServerDies, GiveUpOn
<1>19. CASE UNCHANGED vars
  BY <1>19 DEF vars
<1> QED BY <1>1, <1>2, <1>3, <1>4, <1>5, <1>6, <1>7, <1>8, <1>9, <1>10, <1>11, <1>12, <1>13, <1>14,
           <1>15, <1>16, <1>17, <1>18, <1>19
        DEF Next, Proceed, Enter

-----------------------------------------------------------------------------
(* Two calls that count never compile a project together: the spawn of one *)
(* holds the lock, and was checked when no record was there.               *)
LEMMA StepExcludes ==
  ASSUME IInv, [Next]_vars
  PROVE  LockedBuildsExclude'
<1>0. TypeOK' /\ Rest'
  BY StepTypes, StepRest DEF IInv
<1>1. ASSUME NEW j \in Foreground, child'[j] = "alive"
      PROVE  lock' = j \/ j \in registered' \/ j \in given'
  BY <1>0, <1>1 DEF Rest, OrphanInv
<1>2. ASSUME NEW j \in Foreground, NEW k \in Foreground, j # k, ProjectOf[j] = ProjectOf[k],
             j \notin given', k \notin given', child'[j] = "alive", child'[k] = "alive", Spawn(j)
      PROVE  FALSE
  <2>1. j \in Job /\ k \in Job /\ j \in Of(ProjectOf[k])
    BY <1>2 DEF Foreground, Of
  <2>2. pc[j] = "checked" /\ UNCHANGED <<lock, given>> /\ child[k] = "alive"
    BY <1>2, <2>1 DEF Spawn, server, IInv, TypeOK
  <2>3. lock = j
    BY <1>2, <2>2 DEF IInv, HoldInv, Checked
  <2> QED BY <1>2, <2>1, <2>2, <2>3 DEF IInv, OrphanInv, Checked
<1>3. ASSUME NEW j \in Foreground, NEW k \in Foreground, j # k, ProjectOf[j] = ProjectOf[k],
             j \notin given', k \notin given', child'[j] = "alive", child'[k] = "alive"
      PROVE  FALSE
  <2>1. j \in Job /\ k \in Job
    BY DEF Foreground
  <2>2. ~Spawn(j) /\ ~Spawn(k)
    BY <1>2, <1>3
  <2> QED BY <1>3, <2>1, <2>2, NewChild DEF IInv, LockedBuildsExclude
<1> QED BY <1>1, <1>3 DEF LockedBuildsExclude, Foreground

LEMMA Invariance == Spec => []IInv
<1>1. IInv /\ [Next]_vars => IInv'
  BY StepTypes, StepRest, StepExcludes DEF IInv, Rest
<1> QED BY <1>1, InitInv, PTL DEF Spec

-----------------------------------------------------------------------------
(* The types of the lock, the calls and the records.                       *)
THEOREM QueueTypeCorrect == Spec => []TypeOK
<1>1. IInv => TypeOK
  BY DEF IInv
<1> QED BY <1>1, Invariance, PTL

(* A lock is its call's, or the call could not confirm its child's end.    *)
THEOREM LocksHaveCalls == Spec => []NoLeakedLock
<1>1. IInv => NoLeakedLock
  BY DEF IInv
<1> QED BY <1>1, Invariance, PTL

(* Foreground builds of a project exclude each other over restarts.        *)
THEOREM BuildsExclude == Spec => []LockedBuildsExclude
<1>1. IInv => LockedBuildsExclude
  BY DEF IInv
<1> QED BY <1>1, Invariance, PTL
=============================================================================
