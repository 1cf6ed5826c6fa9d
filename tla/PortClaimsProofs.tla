--------------------------- MODULE PortClaimsProofs ---------------------------
(***************************************************************************)
(* Who may use a serial port, for any number of calls and processes.       *)
(*                                                                         *)
(* What an upload relies on holds whatever happens.  What a monitor relies *)
(* on holds until a stop misfires: the rule for claims of old versions,    *)
(* which record no monitor's pid, also fits the claim of a monitor that is *)
(* only starting, and a monitor that was proven gone then stands for       *)
(* another one.  With one monitor for the port no stop misfires.           *)
(***************************************************************************)
EXTENDS PortClaims, TLAPS

LEMMA InitTypes == Init => TypeOK
<1> SUFFICES ASSUME Init PROVE TypeOK
  OBVIOUS
<1>1. seen \in [Op -> Claims]
  BY DEF Init, Claims
<1>2. /\ pc \in [Op -> Stopping \cup Starting \cup Ended \cup {"running"}]
      /\ child \in [Op -> {"none", "alive", "gone"}]
  BY DEF Init, Ended
<1> QED BY <1>1, <1>2 DEF Init, TypeOK

CallStep(o) ==
  StopStep(o) \/ Claim(o) \/ ClaimFails(o) \/ MonitorStep(o) \/ UploadStep(o) \/ ChildEnds(o)

LEMMA TryReleaseTypes ==
  ASSUME TypeOK, NEW allowed \in BOOLEAN, TryRelease(allowed)
  PROVE  claim' \in Op \cup {Nobody} /\ attached' \in BOOLEAN
  BY DEF TypeOK, TryRelease, KeepClaim, Unclaim

LEMMA CallTypes ==
  ASSUME TypeOK, NEW o \in Op, CallStep(o)
  PROVE  TypeOK'
<1> USE ClaimAssumption DEF TypeOK, Goto, file, registry, stops, Stopping, Starting, Ended
<1>1. CASE Begin(o)
  BY <1>1 DEF Begin, Current, Claims
<1>2. CASE NothingToKill(o) \/ Kill(o) \/ KillConfirmed(o) \/ KillFails(o) \/ RegistryBusy(o)
  BY <1>2 DEF NothingToKill, Kill, KillConfirmed, KillFails, RegistryBusy
<1>3. CASE Stopped(o) \/ StopUnproven(o)
  BY <1>3 DEF Stopped, StopUnproven, TryRelease, KeepClaim, Unclaim
<1>4. CASE Claim(o) \/ ClaimFails(o)
  BY <1>4 DEF Claim, ClaimFails, Publish
<1>5. CASE CheckCustody(o) \/ StartFails(o) \/ SpawnMonitor(o) \/ AttachPid(o)
  BY <1>5 DEF CheckCustody, StartFails, SpawnMonitor, AttachPid, TryRelease, KeepClaim, Unclaim
<1>6. CASE RegisterPid(o) \/ RecordFails(o) \/ CleanedUp(o) \/ CleanupPending(o)
  BY <1>6 DEF RegisterPid, RecordFails, CleanedUp, CleanupPending, TryRelease, KeepClaim, Unclaim
<1>7. CASE RejectUpload(o) \/ TakeCustody(o) \/ CustodyFails(o)
  BY <1>7 DEF RejectUpload, TakeCustody, CustodyFails, TryRelease, KeepClaim, Unclaim
<1>8. CASE SpawnUpload(o) \/ UploadEnds(o) \/ UploadUncertain(o)
  BY <1>8 DEF SpawnUpload, UploadEnds, UploadUncertain, TryRelease, KeepClaim, Unclaim
<1>9. CASE ChildEnds(o)
  BY <1>9 DEF ChildEnds
<1> QED
  BY <1>1, <1>2, <1>3, <1>4, <1>5, <1>6, <1>7, <1>8, <1>9
  DEF CallStep, StopStep, MonitorStep, UploadStep

LEMMA CrashTypes ==
  ASSUME TypeOK, NEW p \in Process, Crash(p)
  PROVE  TypeOK'
<1>1. claim' \in Op \cup {Nobody} /\ attached' \in BOOLEAN /\ breaker' \in BOOLEAN
  BY DEF TypeOK, Crash, ClaimBrokenOff, Publish, Unclaim, KeepClaim, file
<1>2. pc' \in [Op -> Stopping \cup Starting \cup Ended \cup {"running"}]
  BY DEF TypeOK, Crash, Ended
<1> QED BY <1>1, <1>2 DEF TypeOK, Crash, stops

LEMMA PortReleaseTypes ==
  ASSUME TypeOK, PortRelease
  PROVE  TypeOK'
  BY DEF TypeOK, PortRelease, TryRelease, KeepClaim, Unclaim, registry, stops

(* Every variable has its type in every state. *)
THEOREM ClaimsTypeCorrect == Spec => []TypeOK
<1>1. ASSUME TypeOK, [Next]_vars PROVE TypeOK'
  <2>1. CASE UNCHANGED vars
    BY <1>1, <2>1 DEF TypeOK, vars, file, registry, stops
  <2> QED BY <1>1, <2>1, CallTypes, CrashTypes, PortReleaseTypes DEF Next, CallStep
<1> QED BY InitTypes, <1>1, PTL DEF Spec

-----------------------------------------------------------------------------
(* What holds whatever happens *)

(* A call that goes on has a process that runs. *)
LiveInv(o) == pc[o] \notin {"over", "up", "uncertain", "crashed"} => ProcOf[o] \in alive

(* Where a call is tells what it is, and whether it has started a process. *)
PlaceInv(o) ==
  /\ pc[o] \in {"spawning", "spawned", "attached", "cleaning", "up"} => Kind[o] = "monitor"
  /\ pc[o] = "running" => Kind[o] = "upload"
  /\ pc[o] \in {"claiming", "claimed"} => Kind[o] # "stop"
  /\ pc[o] \in {"idle", "claiming", "claimed", "spawning"} \cup Stopping => child[o] = "none"
  /\ pc[o] \in {"spawned", "attached"} => child[o] # "none"
  /\ Kind[o] = "stop" => child[o] = "none"

(* An upload has the claim until it ends, and the lease while it may have  *)
(* a process: also after its coordinator died.                             *)
UploadInv(u) ==
  Kind[u] = "upload" => /\ pc[u] \in {"claimed", "running"} => claim = u
                        /\ pc[u] = "running" \/ child[u] = "alive" => lease = u

CallInv == TypeOK /\ \A o \in Op : LiveInv(o) /\ PlaceInv(o) /\ UploadInv(o)

LEMMA InitCalls == Init => CallInv
<1> SUFFICES ASSUME Init PROVE CallInv
  OBVIOUS
<1>1. \A o \in Op : LiveInv(o) /\ PlaceInv(o) /\ UploadInv(o)
  BY ClaimAssumption DEF Init, LiveInv, PlaceInv, UploadInv
<1> QED BY <1>1, InitTypes DEF CallInv

(* A call leaves the place and the process of the others alone, and no     *)
(* call makes a process of the host run again or end.                      *)
LEMMA OthersSame ==
  ASSUME TypeOK, NEW o \in Op, CallStep(o)
  PROVE  /\ alive' = alive
         /\ \A t \in Op \ {o} : pc'[t] = pc[t] /\ child'[t] = child[t]
<1> USE DEF TypeOK, Goto, At
<1>1. CASE StopStep(o)
  BY <1>1 DEF StopStep, Begin, NothingToKill, Kill, KillConfirmed, KillFails, RegistryBusy, Stopped, StopUnproven
<1>2. CASE Claim(o) \/ ClaimFails(o) \/ ChildEnds(o)
  BY <1>2 DEF Claim, ClaimFails, ChildEnds
<1>3. CASE MonitorStep(o)
  BY <1>3 DEF MonitorStep, CheckCustody, StartFails, SpawnMonitor, AttachPid, RegisterPid, RecordFails, CleanedUp, CleanupPending
<1>4. CASE UploadStep(o)
  BY <1>4 DEF UploadStep, RejectUpload, TakeCustody, CustodyFails, SpawnUpload, UploadEnds, UploadUncertain
<1> QED BY <1>1, <1>2, <1>3, <1>4 DEF CallStep

(* What a step of o does to the claim: it keeps it, or attaches the pid of *)
(* its own monitor, or publishes a claim where it may, or releases one: a  *)
(* stale one, its own when it ends without a process, or, as a stop, a     *)
(* monitor's of which it thinks that it is gone.                           *)
LEMMA ClaimEffect ==
  ASSUME CallInv, NEW o \in Op, CallStep(o)
  PROVE  \/ UNCHANGED <<claim, attached>>
         \/ AttachPid(o)
         \/ /\ Claimable /\ pc'[o] = "claimed" /\ child' = child
            /\ claim' = o /\ attached' = FALSE
         \/ /\ claim' = Nobody /\ claim # Nobody /\ child' = child
            /\ \/ Stale(Current)
               \/ claim = o /\ pc'[o] = "over" /\ child[o] # "alive"
               \/ Stopped(o) /\ Kind[claim] = "monitor"
<1> USE DEF CallInv, TypeOK, Goto, At, file, registry, stops
<1>1. CASE StopStep(o)
  <2>1. CASE Stopped(o)
    BY <2>1, ClaimAssumption DEF Stopped, TryRelease, KeepClaim, Unclaim, IsMonitors, Current
  <2> QED BY <1>1, <2>1 DEF StopStep, Begin, NothingToKill, Kill, KillConfirmed, KillFails, RegistryBusy, StopUnproven
<1>2. CASE Claim(o)
  BY <1>2 DEF Claim, Publish
<1>3. CASE ClaimFails(o) \/ ChildEnds(o)
  BY <1>3 DEF ClaimFails, ChildEnds
<1>4. CASE MonitorStep(o)
  <2>1. CASE StartFails(o)
    BY <2>1, ClaimAssumption DEF StartFails, TryRelease, KeepClaim, Unclaim, PlaceInv
  <2>2. CASE CleanedUp(o)
    BY <2>2, ClaimAssumption DEF CleanedUp, TryRelease, KeepClaim, Unclaim
  <2> QED BY <1>4, <2>1, <2>2 DEF MonitorStep, CheckCustody, SpawnMonitor, RegisterPid, RecordFails, CleanupPending
<1>5. CASE UploadStep(o)
  <2>1. CASE CustodyFails(o)
    BY <2>1, ClaimAssumption DEF CustodyFails, TryRelease, KeepClaim, Unclaim, PlaceInv, UploadInv, Stale, Current
  <2>2. CASE UploadEnds(o)
    BY <2>2, ClaimAssumption DEF UploadEnds, TryRelease, KeepClaim, Unclaim, PlaceInv, UploadInv, Stale, Current
  <2> QED BY <1>5, <2>1, <2>2 DEF UploadStep, RejectUpload, TakeCustody, SpawnUpload, UploadUncertain
<1> QED BY <1>1, <1>2, <1>3, <1>4, <1>5 DEF CallStep

LEMMA OwnPlace ==
  ASSUME CallInv, NEW o \in Op, CallStep(o)
  PROVE  LiveInv(o)' /\ PlaceInv(o)'
<1> USE ClaimAssumption
    DEF CallInv, TypeOK, LiveInv, PlaceInv, Goto, At, file, registry, stops, Stopping
<1>1. CASE Begin(o) \/ NothingToKill(o) \/ Kill(o) \/ KillConfirmed(o) \/ KillFails(o) \/ RegistryBusy(o)
  BY <1>1 DEF Begin, NothingToKill, Kill, KillConfirmed, KillFails, RegistryBusy
<1>2. CASE Stopped(o) \/ StopUnproven(o)
  BY <1>2 DEF Stopped, StopUnproven
<1>3. CASE Claim(o) \/ ClaimFails(o) \/ ChildEnds(o)
  BY <1>3 DEF Claim, ClaimFails, ChildEnds
<1>4. CASE CheckCustody(o) \/ StartFails(o) \/ SpawnMonitor(o) \/ AttachPid(o)
  BY <1>4 DEF CheckCustody, StartFails, SpawnMonitor, AttachPid
<1>5. CASE RegisterPid(o) \/ RecordFails(o) \/ CleanedUp(o) \/ CleanupPending(o)
  BY <1>5 DEF RegisterPid, RecordFails, CleanedUp, CleanupPending
<1>6. CASE UploadStep(o)
  BY <1>6 DEF UploadStep, RejectUpload, TakeCustody, CustodyFails, SpawnUpload, UploadEnds, UploadUncertain
<1> QED BY <1>1, <1>2, <1>3, <1>4, <1>5, <1>6 DEF CallStep, StopStep, MonitorStep

(* The lease goes only to an upload that has the claim, and from one that  *)
(* is over.                                                                *)
LEMMA LeaseEffect ==
  ASSUME CallInv, NEW o \in Op, CallStep(o)
  PROVE  \/ lease' = lease
         \/ lease = Nobody /\ lease' = o /\ TakeCustody(o)
         \/ lease = o /\ lease' = Nobody /\ pc'[o] = "over" /\ child'[o] # "alive"
<1> USE DEF CallInv, TypeOK, Goto, At
<1>1. CASE UploadStep(o)
  BY <1>1 DEF UploadStep, RejectUpload, TakeCustody, CustodyFails, SpawnUpload, UploadEnds, UploadUncertain,
              CustodyAvailable, PlaceInv, UploadInv
<1>2. CASE StopStep(o)
  BY <1>2 DEF StopStep, Begin, NothingToKill, Kill, KillConfirmed, KillFails, RegistryBusy, Stopped, StopUnproven
<1>3. CASE Claim(o) \/ ClaimFails(o) \/ ChildEnds(o)
  BY <1>3 DEF Claim, ClaimFails, ChildEnds
<1>4. CASE MonitorStep(o)
  BY <1>4 DEF MonitorStep, CheckCustody, StartFails, SpawnMonitor, AttachPid, RegisterPid, RecordFails, CleanedUp, CleanupPending
<1> QED BY <1>1, <1>2, <1>3, <1>4 DEF CallStep

(* Where an upload comes from, and where its process does. *)
LEMMA UploadEffect ==
  ASSUME CallInv, NEW o \in Op, CallStep(o), Kind[o] = "upload"
  PROVE  /\ pc'[o] \in {"claimed", "running"} => pc[o] \in {"claimed", "running"} \/ claim' = o
         /\ pc'[o] = "running" => pc[o] = "running" \/ lease' = o
         /\ child'[o] = "alive" => child[o] = "alive" \/ pc[o] = "running"
<1> USE DEF CallInv, TypeOK, Goto, At
<1>1. CASE UploadStep(o)
  BY <1>1 DEF UploadStep, RejectUpload, TakeCustody, CustodyFails, SpawnUpload, UploadEnds, UploadUncertain
<1>2. CASE StopStep(o)
  BY <1>2 DEF StopStep, Begin, NothingToKill, Kill, KillConfirmed, KillFails, RegistryBusy, Stopped, StopUnproven
<1>3. CASE Claim(o) \/ ClaimFails(o) \/ ChildEnds(o)
  BY <1>3 DEF Claim, Publish, ClaimFails, ChildEnds
<1>4. CASE MonitorStep(o)
  BY <1>4 DEF MonitorStep, CheckCustody, StartFails, SpawnMonitor, AttachPid, RegisterPid, RecordFails, CleanedUp,
              CleanupPending, PlaceInv
<1> QED BY <1>1, <1>2, <1>3, <1>4 DEF CallStep

LEMMA CallsStep ==
  ASSUME CallInv, NEW o \in Op, CallStep(o)
  PROVE  CallInv'
<1>1. TypeOK'
  BY CallTypes DEF CallInv
<1>2. alive' = alive /\ \A t \in Op \ {o} : pc'[t] = pc[t] /\ child'[t] = child[t]
  BY OthersSame DEF CallInv
<1>3. ASSUME NEW t \in Op PROVE LiveInv(t)' /\ PlaceInv(t)'
  BY <1>2, OwnPlace DEF CallInv, LiveInv, PlaceInv
<1>4. ASSUME NEW u \in Op, Kind[u] = "upload" PROVE UploadInv(u)'
  <2>1. ASSUME pc'[u] \in {"claimed", "running"} PROVE claim' = u
    <3>1. CASE pc[u] \in {"claimed", "running"}
      <4>1. claim = u /\ ~Stale(Current)
        BY <3>1, <1>4, ClaimAssumption DEF CallInv, UploadInv, LiveInv, Stale, Current
      <4>2. ~(claim = o /\ pc'[o] = "over")
        BY <2>1, <4>1
      <4>3. claim # Nobody /\ Kind[claim] # "monitor"
        BY <1>4, <4>1, ClaimAssumption
      <4> QED BY <4>1, <4>2, <4>3, ClaimEffect DEF Claimable, AttachPid
    <3>2. CASE pc[u] \notin {"claimed", "running"}
      BY <1>2, <1>4, <2>1, <3>2, UploadEffect
    <3> QED BY <3>1, <3>2
  <2>2. ASSUME pc'[u] = "running" \/ child'[u] = "alive" PROVE lease' = u
    <3>1. CASE pc[u] = "running" \/ child[u] = "alive"
      <4>1. lease = u /\ lease # Nobody
        BY <1>4, <3>1, ClaimAssumption DEF CallInv, UploadInv
      <4> QED BY <2>2, <4>1, LeaseEffect
    <3>2. CASE ~(pc[u] = "running" \/ child[u] = "alive")
      BY <1>2, <1>4, <2>2, <3>2, UploadEffect
    <3> QED BY <3>1, <3>2
  <2> QED BY <2>1, <2>2 DEF UploadInv
<1> QED BY <1>1, <1>3, <1>4 DEF CallInv, UploadInv

(* The death of a process ends its calls and frees no claim but a stale    *)
(* one, and leaves leases and children as they are.                        *)
LEMMA CrashEffect ==
  ASSUME TypeOK, NEW p \in Process, Crash(p)
  PROVE  /\ alive' = alive \ {p} /\ UNCHANGED <<lease, registered, stops, child>>
         /\ \A t \in Op : \/ pc'[t] = pc[t] /\ (ProcOf[t] = p => pc[t] \in {"over", "up", "uncertain"})
                          \/ ProcOf[t] = p /\ pc'[t] = "crashed" /\ pc[t] \notin {"over", "up", "uncertain"}
         /\ \/ UNCHANGED <<claim, attached>>
            \/ /\ claim = Nobody \/ Stale(Current)
               /\ claim' = Nobody \/ pc'[claim'] = "crashed"
<1>1. \A t \in Op : \/ pc'[t] = pc[t] /\ (ProcOf[t] = p => pc[t] \in {"over", "up", "uncertain"})
                    \/ ProcOf[t] = p /\ pc'[t] = "crashed" /\ pc[t] \notin {"over", "up", "uncertain"}
  BY DEF Crash
<1>2. UNCHANGED file \/ \E o \in Op : ProcOf[o] = p /\ pc[o] = "claiming" /\ ClaimBrokenOff(o)
  BY DEF Crash
<1>3. ASSUME NEW o \in Op, ProcOf[o] = p, pc[o] = "claiming", ClaimBrokenOff(o)
      PROVE  \/ UNCHANGED <<claim, attached>>
             \/ (claim = Nobody \/ Stale(Current)) /\ claim' \in {Nobody, o}
  BY <1>3 DEF ClaimBrokenOff, Publish, Unclaim, KeepClaim, file
<1>4. \A o \in Op : ProcOf[o] = p /\ pc[o] = "claiming" => pc'[o] = "crashed"
  BY <1>1
<1>5. \/ UNCHANGED <<claim, attached>>
      \/ /\ claim = Nobody \/ Stale(Current)
         /\ claim' = Nobody \/ pc'[claim'] = "crashed"
  BY <1>2, <1>3, <1>4 DEF file
<1>6. alive' = alive \ {p} /\ UNCHANGED <<lease, registered, stops, child>>
  BY DEF Crash
<1> QED BY <1>1, <1>5, <1>6

LEMMA CallsCrash ==
  ASSUME CallInv, NEW p \in Process, Crash(p)
  PROVE  CallInv'
<1>1. TypeOK'
  BY CrashTypes DEF CallInv
<1>2. ASSUME NEW t \in Op PROVE LiveInv(t)' /\ PlaceInv(t)' /\ UploadInv(t)'
  <2>1. TypeOK /\ LiveInv(t) /\ PlaceInv(t) /\ UploadInv(t)
    BY DEF CallInv
  <2>2. LiveInv(t)' /\ PlaceInv(t)'
    BY <2>1, CrashEffect, ClaimAssumption DEF LiveInv, PlaceInv, Stopping
  <2>3. ASSUME Kind[t] = "upload", pc'[t] \in {"claimed", "running"} PROVE claim' = t
    <3>1. pc[t] = pc'[t]
      BY <2>1, <2>3, CrashEffect
    <3>2. claim = t /\ ~Stale(Current)
      BY <2>1, <2>3, <3>1, ClaimAssumption DEF UploadInv, LiveInv, Stale, Current
    <3> QED BY <2>1, <3>2, CrashEffect, ClaimAssumption
  <2>4. ASSUME Kind[t] = "upload", pc'[t] = "running" \/ child'[t] = "alive" PROVE lease' = t
    BY <2>1, <2>4, CrashEffect DEF UploadInv
  <2> QED BY <2>2, <2>3, <2>4 DEF UploadInv
<1> QED BY <1>1, <1>2 DEF CallInv

(* The operator's release takes a claim that is stale, or whose call is    *)
(* over and has no process.                                                *)
LEMMA PortReleaseEffect ==
  ASSUME PortRelease
  PROVE  /\ UNCHANGED <<pc, alive, lease, registry, stops, child>>
         /\ \/ UNCHANGED <<claim, attached>>
            \/ /\ claim' = Nobody /\ attached' = FALSE
               /\ \/ Stale(Current)
                  \/ claim \in Op /\ child[claim] # "alive" /\ pc[claim] \in Ended
  BY DEF PortRelease, TryRelease, KeepClaim, Unclaim, HolderFinished

LEMMA CallsRelease ==
  ASSUME CallInv, PortRelease
  PROVE  CallInv'
<1>1. TypeOK'
  BY PortReleaseTypes DEF CallInv
<1>2. ASSUME NEW t \in Op PROVE LiveInv(t)' /\ PlaceInv(t)' /\ UploadInv(t)'
  <2>1. TypeOK /\ LiveInv(t) /\ PlaceInv(t) /\ UploadInv(t)
    BY DEF CallInv
  <2>2. LiveInv(t)' /\ PlaceInv(t)'
    BY <2>1, PortReleaseEffect DEF LiveInv, PlaceInv
  <2>3. ASSUME Kind[t] = "upload", pc'[t] \in {"claimed", "running"} PROVE claim' = t
    <3>1. pc[t] = pc'[t]
      BY PortReleaseEffect
    <3>2. claim = t /\ ~Stale(Current)
      BY <2>1, <2>3, <3>1, ClaimAssumption DEF UploadInv, LiveInv, Stale, Current
    <3> QED BY <2>3, <3>1, <3>2, PortReleaseEffect DEF Ended
  <2>4. ASSUME Kind[t] = "upload", pc'[t] = "running" \/ child'[t] = "alive" PROVE lease' = t
    BY <2>1, <2>4, PortReleaseEffect DEF UploadInv
  <2> QED BY <2>2, <2>3, <2>4 DEF UploadInv
<1> QED BY <1>1, <1>2 DEF CallInv

LEMMA CallInvariance == Spec => []CallInv
<1>1. ASSUME CallInv, [Next]_vars PROVE CallInv'
  <2>1. CASE UNCHANGED vars
    BY <1>1, <2>1 DEF CallInv, TypeOK, LiveInv, PlaceInv, UploadInv, vars, file, registry, stops
  <2> QED BY <1>1, <2>1, CallsStep, CallsCrash, CallsRelease DEF Next, CallStep
<1> QED BY InitCalls, <1>1, PTL DEF Spec

(* What an upload relies on. *)
UploadsHold ==
  /\ \A u \in Op : UploadInv(u)
  /\ \A u, w \in Op :
       Kind[u] = "upload" /\ Kind[w] = "upload" /\ child[u] = "alive" /\ child[w] = "alive" => u = w

(* No two uploads use the port, each has the lease while it does, and has  *)
(* the claim until it is over: whatever crashes, stops and misfires.       *)
THEOREM UploadsExclude == Spec => []UploadsHold
<1>1. CallInv => UploadsHold
  BY ClaimAssumption DEF CallInv, UploadsHold, UploadInv
<1> QED BY <1>1, CallInvariance, PTL

-----------------------------------------------------------------------------
(* What holds until a stop misfires *)

BeforePid == {"claimed", "spawning", "spawned"}

(* A monitor has the claim from its call's beginning to its own end, and   *)
(* it is attached exactly when its pid is known; while it runs no upload   *)
(* has the lease.                                                          *)
MonitorInv(m) ==
  Kind[m] = "monitor" =>
    /\ pc[m] \in BeforePid \/ child[m] = "alive" => claim = m
    /\ pc[m] \in BeforePid /\ claim = m => ~attached
    /\ pc[m] \in {"attached", "up"} /\ claim = m => attached
    /\ pc[m] = "spawning" \/ child[m] = "alive" => lease = Nobody

ClaimInv == CallInv /\ \A m \in Op : MonitorInv(m)

(* A stop releases the claim of a monitor that runs, or whose pid is not   *)
(* known yet.                                                              *)
Misfire ==
  \E o \in Op : /\ Stopped(o) /\ claim' # claim
                /\ child[claim] = "alive" \/ pc[claim] \in BeforePid

NoMisfire == [][~Misfire]_vars

LEMMA InitMonitors == Init => ClaimInv
<1> SUFFICES ASSUME Init PROVE ClaimInv
  OBVIOUS
<1>1. \A m \in Op : MonitorInv(m)
  BY DEF Init, MonitorInv, BeforePid
<1> QED BY <1>1, InitCalls DEF ClaimInv

(* The claim of such a monitor is not stale. *)
LEMMA MonitorNotStale ==
  ASSUME ClaimInv, NEW m \in Op, Kind[m] = "monitor", pc[m] \in BeforePid \/ child[m] = "alive"
  PROVE  claim = m /\ claim # Nobody /\ ~Stale(Current)
  BY ClaimAssumption DEF ClaimInv, MonitorInv, Stale, Current

(* Where a monitor comes from. *)
LEMMA MonitorEffect ==
  ASSUME CallInv, NEW o \in Op, CallStep(o), Kind[o] = "monitor"
  PROVE  /\ pc'[o] \in BeforePid => pc[o] \in BeforePid \/ (claim' = o /\ attached' = FALSE)
         /\ pc'[o] \in {"attached", "up"} => pc[o] \in {"attached", "up"} \/ AttachPid(o)
         /\ pc'[o] = "spawning" => pc[o] = "spawning" \/ (lease = Nobody /\ lease' = lease)
         /\ child'[o] = "alive" => child[o] = "alive" \/ pc[o] = "spawning"
         /\ AttachPid(o) => pc'[o] = "attached"
<1> USE DEF CallInv, TypeOK, Goto, At, BeforePid
<1>1. CASE MonitorStep(o)
  BY <1>1 DEF MonitorStep, CheckCustody, StartFails, SpawnMonitor, AttachPid, RegisterPid, RecordFails, CleanedUp,
              CleanupPending, CustodyAvailable
<1>2. CASE StopStep(o)
  BY <1>2 DEF StopStep, Begin, NothingToKill, Kill, KillConfirmed, KillFails, RegistryBusy, Stopped, StopUnproven,
              AttachPid
<1>3. CASE Claim(o) \/ ClaimFails(o) \/ ChildEnds(o)
  BY <1>3 DEF Claim, Publish, ClaimFails, ChildEnds, AttachPid
<1>4. CASE UploadStep(o)
  BY <1>4 DEF UploadStep, RejectUpload, TakeCustody, CustodyFails, SpawnUpload, UploadEnds, UploadUncertain,
              PlaceInv, AttachPid
<1> QED BY <1>1, <1>2, <1>3, <1>4 DEF CallStep

LEMMA MonitorsStep ==
  ASSUME ClaimInv, NEW o \in Op, CallStep(o), ~Misfire
  PROVE  ClaimInv'
<1>1. CallInv /\ CallInv'
  BY CallsStep DEF ClaimInv
<1>2. \A t \in Op \ {o} : pc'[t] = pc[t] /\ child'[t] = child[t]
  BY <1>1, OthersSame DEF CallInv
<1>3. ASSUME NEW m \in Op, Kind[m] = "monitor" PROVE MonitorInv(m)'
  <2>1. ASSUME pc'[m] \in BeforePid \/ child'[m] = "alive" PROVE claim' = m
    <3>1. CASE pc[m] \in BeforePid \/ child[m] = "alive"
      <4>1. claim = m /\ claim # Nobody /\ ~Stale(Current)
        BY <1>3, <3>1, MonitorNotStale
      <4>2. ~(claim = o /\ pc'[o] = "over" /\ child' = child /\ child[o] # "alive")
        BY <2>1, <4>1 DEF BeforePid
      <4>3. ~(Stopped(o) /\ claim' # claim)
        BY <3>1, <4>1 DEF Misfire
      <4> QED BY <1>1, <4>1, <4>2, <4>3, ClaimEffect DEF Claimable, AttachPid
    <3>2. CASE ~(pc[m] \in BeforePid \/ child[m] = "alive")
      BY <1>1, <1>2, <1>3, <2>1, <3>2, MonitorEffect DEF BeforePid
    <3> QED BY <3>1, <3>2
  <2>2. ASSUME pc'[m] \in BeforePid, claim' = m PROVE ~attached'
    <3>1. m = o => ~AttachPid(o)
      BY <1>1, <1>3, <2>2, MonitorEffect DEF BeforePid
    <3>2. AttachPid(o) => claim' = o
      BY DEF AttachPid
    <3>3. CASE UNCHANGED <<claim, attached>>
      BY <1>1, <1>2, <1>3, <2>2, <3>3, MonitorEffect DEF ClaimInv, MonitorInv
    <3> QED BY <1>1, <1>3, <2>2, <3>1, <3>2, <3>3, ClaimEffect, ClaimAssumption
  <2>3. ASSUME pc'[m] \in {"attached", "up"}, claim' = m PROVE attached'
    <3>1. AttachPid(o) => attached'
      BY DEF AttachPid
    <3>2. CASE UNCHANGED <<claim, attached>>
      BY <1>1, <1>2, <1>3, <2>3, <3>1, <3>2, MonitorEffect DEF ClaimInv, MonitorInv
    <3> QED BY <1>1, <1>3, <2>3, <3>1, <3>2, ClaimEffect, ClaimAssumption
  <2>4. ASSUME pc'[m] = "spawning" \/ child'[m] = "alive" PROVE lease' = Nobody
    <3>1. CASE pc[m] = "spawning" \/ child[m] = "alive"
      <4>1. claim = m /\ lease = Nobody
        BY <1>3, <3>1 DEF ClaimInv, MonitorInv, BeforePid
      <4>2. TakeCustody(o) => claim = o /\ Kind[o] # "monitor"
        BY <1>1 DEF TakeCustody, At, CallInv, UploadInv
      <4> QED BY <1>1, <1>3, <4>1, <4>2, LeaseEffect
    <3>2. CASE ~(pc[m] = "spawning" \/ child[m] = "alive")
      BY <1>1, <1>2, <1>3, <2>4, <3>2, MonitorEffect
    <3> QED BY <3>1, <3>2
  <2> QED BY <2>1, <2>2, <2>3, <2>4 DEF MonitorInv
<1> QED BY <1>1, <1>3 DEF ClaimInv, MonitorInv

LEMMA MonitorsCrash ==
  ASSUME ClaimInv, NEW p \in Process, Crash(p)
  PROVE  ClaimInv'
<1>1. CallInv' /\ TypeOK
  BY CallsCrash DEF ClaimInv, CallInv
<1>2. ASSUME NEW m \in Op, Kind[m] = "monitor" PROVE MonitorInv(m)'
  <2>1. child' = child /\ lease' = lease /\ (pc'[m] # "crashed" => pc'[m] = pc[m])
    BY <1>1, CrashEffect
  <2>2. CASE UNCHANGED <<claim, attached>>
    BY <1>2, <2>1, <2>2 DEF ClaimInv, MonitorInv, BeforePid
  <2>3. CASE (claim = Nobody \/ Stale(Current)) /\ (claim' = Nobody \/ pc'[claim'] = "crashed")
    <3>1. ~(pc[m] \in BeforePid \/ child[m] = "alive")
      BY <1>2, <2>3, MonitorNotStale
    <3>2. ~(pc'[m] \in BeforePid \/ child'[m] = "alive")
      BY <2>1, <3>1 DEF BeforePid
    <3>3. ~(pc'[m] \in {"attached", "up"} /\ claim' = m)
      BY <2>3, ClaimAssumption
    <3>4. pc'[m] # "spawning"
      BY <3>2 DEF BeforePid
    <3> QED BY <3>2, <3>3, <3>4 DEF MonitorInv
  <2> QED BY <1>1, <2>2, <2>3, CrashEffect
<1> QED BY <1>1, <1>2 DEF ClaimInv, MonitorInv

LEMMA MonitorsRelease ==
  ASSUME ClaimInv, PortRelease
  PROVE  ClaimInv'
<1>1. CallInv'
  BY CallsRelease DEF ClaimInv
<1>2. ASSUME NEW m \in Op, Kind[m] = "monitor" PROVE MonitorInv(m)'
  <2>1. UNCHANGED <<pc, lease, child>>
    BY PortReleaseEffect
  <2>2. CASE UNCHANGED <<claim, attached>>
    BY <1>2, <2>1, <2>2 DEF ClaimInv, MonitorInv
  <2>3. CASE /\ claim' = Nobody
             /\ \/ Stale(Current)
                \/ claim \in Op /\ child[claim] # "alive" /\ pc[claim] \in Ended
    <3>1. ~(pc[m] \in BeforePid \/ child[m] = "alive")
      BY <1>2, <2>3, MonitorNotStale DEF BeforePid, Ended
    <3>2. claim' # m /\ pc[m] # "spawning"
      BY <2>3, <3>1, ClaimAssumption DEF BeforePid
    <3> QED BY <2>1, <3>1, <3>2 DEF MonitorInv
  <2> QED BY <2>2, <2>3, PortReleaseEffect
<1> QED BY <1>1, <1>2 DEF ClaimInv, MonitorInv

LEMMA ClaimStep == ClaimInv /\ [Next]_vars /\ [~Misfire]_vars => ClaimInv'
<1> SUFFICES ASSUME ClaimInv, [Next]_vars, [~Misfire]_vars PROVE ClaimInv'
  OBVIOUS
<1>1. CASE UNCHANGED vars
  BY <1>1 DEF ClaimInv, CallInv, TypeOK, LiveInv, PlaceInv, UploadInv, MonitorInv, vars, file, registry, stops
<1>2. CASE Next /\ ~Misfire
  BY <1>2, MonitorsStep, MonitorsCrash, MonitorsRelease DEF Next, CallStep
<1> QED BY <1>1, <1>2

LEMMA ClaimInvariance == Spec /\ NoMisfire => []ClaimInv
  BY InitMonitors, ClaimStep, PTL DEF Spec, NoMisfire

LEMMA InvExcludes == ClaimInv => OneUser /\ UseIsVisible
<1> SUFFICES ASSUME ClaimInv PROVE OneUser /\ UseIsVisible
  OBVIOUS
<1>1. ASSUME NEW o \in Op, child[o] = "alive"
      PROVE  \/ Kind[o] = "monitor" /\ claim = o /\ lease = Nobody
             \/ Kind[o] = "upload" /\ lease = o
  BY <1>1, ClaimAssumption DEF ClaimInv, CallInv, PlaceInv, UploadInv, MonitorInv
<1> QED BY <1>1, ClaimAssumption DEF OneUser, UseIsVisible

(* Never do two processes use the port, across crashes, kills, reclaims    *)
(* and the operator's releases, of any number of calls, unless a stop      *)
(* misfires.                                                               *)
THEOREM OneUserUntilMisfire == Spec /\ NoMisfire => []OneUser
<1>1. ClaimInv => OneUser
  BY InvExcludes
<1> QED BY <1>1, ClaimInvariance, PTL

(* And each process that uses it is covered by its claim or its lease.     *)
THEOREM UseIsVisibleUntilMisfire == Spec /\ NoMisfire => []UseIsVisible
<1>1. ClaimInv => UseIsVisible
  BY InvExcludes
<1> QED BY <1>1, ClaimInvariance, PTL

(* What ClaimIsKept says of one call in one step. *)
KeepsClaim(o) ==
  claim = o /\ claim' # o =>
    /\ child[o] = "alive" => lease = o
    /\ pc[o] \in {"claimed", "spawning", "spawned", "running"} => pc'[o] # pc[o]

(* No step ends a process and releases a claim at once. *)
LEMMA ClaimOrChild ==
  ASSUME CallInv, Next, claim' # claim
  PROVE  child' = child
<1>1. ASSUME NEW o \in Op, CallStep(o) PROVE child' = child
  BY <1>1, ClaimEffect DEF AttachPid
<1> QED BY <1>1, CrashEffect, PortReleaseEffect DEF Next, CallStep, CallInv

(* Nobody loses its claim to another call before its process has started,  *)
(* nor while its monitor runs, unless a stop misfires.                     *)
THEOREM ClaimIsKeptUntilMisfire == Spec /\ NoMisfire => ClaimIsKept
<1>1. ASSUME ClaimInv, ClaimInv', [Next]_vars, NEW o \in Op
      PROVE  KeepsClaim(o)
  <2> SUFFICES ASSUME claim = o, claim' # o PROVE KeepsClaim(o)
    BY DEF KeepsClaim
  <2>1. Next /\ child' = child
    BY <1>1, ClaimOrChild DEF vars, file, ClaimInv
  <2>2. child[o] = "alive" => lease = o
    BY <1>1, <2>1, ClaimAssumption DEF ClaimInv, CallInv, PlaceInv, UploadInv, MonitorInv
  <2>3. ASSUME pc[o] \in {"claimed", "spawning", "spawned", "running"}, pc'[o] = pc[o] PROVE FALSE
    BY <1>1, <2>3, ClaimAssumption DEF ClaimInv, CallInv, PlaceInv, UploadInv, MonitorInv, BeforePid
  <2> QED BY <2>2, <2>3 DEF KeepsClaim
<1>2. ASSUME ClaimInv, ClaimInv', [Next]_vars
      PROVE  [\A o \in Op : KeepsClaim(o)]_vars
  BY <1>1, <1>2
<1>3. ASSUME [\A o \in Op : KeepsClaim(o)]_vars
      PROVE  [\A o \in Op :
                claim = o /\ claim' # o =>
                  /\ child[o] = "alive" => lease = o
                  /\ pc[o] \in {"claimed", "spawning", "spawned", "running"} => pc'[o] # pc[o]]_vars
  BY <1>3 DEF KeepsClaim
<1> QED BY <1>2, <1>3, ClaimInvariance, PTL DEF Spec, ClaimIsKept

-----------------------------------------------------------------------------
(* One monitor for the port *)

OneMonitor == \A m, n \in Op : Kind[m] = "monitor" /\ Kind[n] = "monitor" => m = n

(* A monitor came so far that it was registered. *)
EverUp == \E m \in Op : Kind[m] = "monitor" /\ pc[m] = "up"

(* Only such a one is in the registry, being killed or proven gone.        *)
UpInv == registered # Nobody \/ (\E o \in Op : proven[o] \/ pc[o] = "killing") => EverUp

(* What a call does with the registry: only the registration of a monitor  *)
(* that is now up adds to it, and only a stop that found it used, or that  *)
(* kills, proves anything.                                                 *)
LEMMA RegistryEffect ==
  ASSUME CallInv, NEW o \in Op, CallStep(o)
  PROVE  /\ pc[o] = "up" => pc'[o] = "up"
         /\ \/ registered' \in {registered, Nobody}
            \/ Kind[o] = "monitor" /\ pc'[o] = "up"
         /\ \A t \in Op : proven'[t] => proven[t] \/ registered # Nobody \/ pc[t] = "killing"
         /\ pc'[o] = "killing" => pc[o] = "killing" \/ registered # Nobody
<1> USE DEF CallInv, TypeOK, Goto, At, registry, stops
<1>1. CASE StopStep(o)
  <2>1. CASE Begin(o) \/ NothingToKill(o)
    BY <2>1 DEF Begin, NothingToKill
  <2>2. CASE Kill(o)
    BY <2>2, ClaimAssumption DEF Kill, MonitorRegistered
  <2>3. CASE KillConfirmed(o) \/ KillFails(o) \/ RegistryBusy(o) \/ Stopped(o) \/ StopUnproven(o)
    BY <2>3 DEF KillConfirmed, KillFails, RegistryBusy, Stopped, StopUnproven
  <2> QED BY <1>1, <2>1, <2>2, <2>3 DEF StopStep
<1>2. CASE Claim(o) \/ ClaimFails(o) \/ ChildEnds(o)
  BY <1>2 DEF Claim, ClaimFails, ChildEnds
<1>3. CASE MonitorStep(o)
  BY <1>3 DEF MonitorStep, CheckCustody, StartFails, SpawnMonitor, AttachPid, RegisterPid, RecordFails, CleanedUp,
              CleanupPending, PlaceInv
<1>4. CASE UploadStep(o)
  BY <1>4 DEF UploadStep, RejectUpload, TakeCustody, CustodyFails, SpawnUpload, UploadEnds, UploadUncertain
<1> QED BY <1>1, <1>2, <1>3, <1>4 DEF CallStep

LEMMA UpStep ==
  ASSUME CallInv, UpInv, [Next]_vars
  PROVE  UpInv'
<1> USE DEF CallInv, TypeOK
<1>1. ASSUME NEW o \in Op, CallStep(o) PROVE UpInv'
  <2>1. EverUp => EverUp'
    BY <1>1, OthersSame, RegistryEffect DEF EverUp
  <2>2. \A t \in Op : pc'[t] = "killing" => pc[t] = "killing" \/ registered # Nobody
    BY <1>1, OthersSame, RegistryEffect
  <2>3. CASE Kind[o] = "monitor" /\ pc'[o] = "up"
    BY <2>3 DEF UpInv, EverUp
  <2>4. CASE registered' \in {registered, Nobody}
    <3>1. \A t \in Op : proven'[t] => proven[t] \/ registered # Nobody \/ pc[t] = "killing"
      BY <1>1, RegistryEffect
    <3> QED BY <2>1, <2>2, <2>4, <3>1 DEF UpInv
  <2> QED BY <1>1, <2>3, <2>4, RegistryEffect
<1>2. ASSUME NEW p \in Process, Crash(p) PROVE UpInv'
  <2>1. UNCHANGED <<registered, proven>>
    BY <1>2, CrashEffect DEF stops
  <2>2. EverUp => EverUp'
    BY <1>2, CrashEffect DEF EverUp
  <2>3. \A t \in Op : pc'[t] = "killing" => pc[t] = "killing"
    BY <1>2, CrashEffect
  <2> QED BY <2>1, <2>2, <2>3 DEF UpInv
<1>3. CASE PortRelease
  BY <1>3, PortReleaseEffect DEF registry, stops, UpInv, EverUp
<1>4. CASE UNCHANGED vars
  BY <1>4 DEF vars, registry, stops, UpInv, EverUp
<1> QED BY <1>1, <1>2, <1>3, <1>4 DEF Next, CallStep

(* The claim of the only monitor is attached once a stop can find that     *)
(* monitor gone, and the rule for old claims does not fit it any more.     *)
LEMMA OneMonitorStep ==
  ASSUME OneMonitor, ClaimInv, UpInv
  PROVE  ~Misfire
<1> SUFFICES ASSUME NEW o \in Op, Stopped(o), claim' # claim,
                    child[claim] = "alive" \/ pc[claim] \in BeforePid
             PROVE  FALSE
  BY DEF Misfire
<1>1. /\ IsMonitors(seen[o]) /\ Current = seen[o]
      /\ LegacyKillProven(o) \/ Stale(Current)
  BY DEF Stopped, TryRelease, KeepClaim
<1>2. claim \in Op /\ Kind[claim] = "monitor"
  BY <1>1 DEF IsMonitors, Current, ClaimInv, CallInv, TypeOK
<1>3. ~Stale(Current)
  BY <1>2, MonitorNotStale
<1>4. proven[o] /\ ~attached
  BY <1>1, <1>3 DEF LegacyKillProven, Current
<1>5. PICK m \in Op : Kind[m] = "monitor" /\ pc[m] = "up"
  BY <1>4 DEF UpInv, EverUp
<1>6. m = claim
  BY <1>2, <1>5 DEF OneMonitor
<1> QED BY <1>4, <1>5, <1>6 DEF ClaimInv, MonitorInv

(* With one monitor for the port no stop misfires. *)
THEOREM OneMonitorNeverMisfires ==
  ASSUME OneMonitor
  PROVE  Spec => NoMisfire
<1> DEFINE I == ClaimInv /\ UpInv
<1>1. Init => I
  BY InitMonitors DEF Init, UpInv
<1>2. I /\ [Next]_vars => I' /\ [~Misfire]_vars
  <2> SUFFICES ASSUME I, [Next]_vars PROVE I' /\ ~Misfire
    OBVIOUS
  <2>1. ~Misfire
    BY OneMonitorStep
  <2>2. ClaimInv'
    BY <2>1, ClaimStep
  <2>3. UpInv'
    BY UpStep DEF ClaimInv
  <2> QED BY <2>1, <2>2, <2>3
<1> QED BY <1>1, <1>2, PTL DEF Spec, NoMisfire

(* Hence one monitor, with any number of uploads, stops and processes,     *)
(* never shares its port, is always seen and never loses its claim.        *)
THEOREM OneMonitorIsSafe ==
  ASSUME OneMonitor
  PROVE  Spec => []OneUser /\ []UseIsVisible /\ ClaimIsKept
  BY OneMonitorNeverMisfires, OneUserUntilMisfire, UseIsVisibleUntilMisfire, ClaimIsKeptUntilMisfire, PTL
=============================================================================
