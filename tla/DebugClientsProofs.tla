------------------------- MODULE DebugClientsProofs -------------------------
(***************************************************************************)
(* The safety of the debuggers of a connection, for any launches, requests *)
(* and capacity.  What a cleanup does to the groups and the leases is      *)
(* stated once, in CleanUpEffect.  The leases are safe because a release   *)
(* is only attempted once GDB is gone, and no debugger is lost because the *)
(* ids of the launches that are under way, of the sessions and of the      *)
(* reservations never coincide.                                            *)
(***************************************************************************)
EXTENDS DebugClients, TLAPS

Early == {"idle", "preflight", "reserving", "readying", "resolving"}

(* Before GDB is spawned nothing is being undone. *)
EarlyInv ==
  \A l \in Launch :
    /\ phase[l] \in Early => /\ gdb[l] = "none" /\ owner[l] = "none" /\ ~releasing[l]
                             /\ cleanup[l] = "none" /\ custody[l] # "released"
    /\ phase[l] \in {"idle", "preflight"} => custody[l] = "none" /\ backend[l] = "none"
    /\ phase[l] = "configuring" => owner[l] = "debugger"

(* A release is attempted without GDB, and a cleanup is done with the leases released. *)
OwnerInv ==
  \A l \in Launch :
    /\ owner[l] \in {"recovery", "unstarted"} => gdb[l] = "none"
    /\ releasing[l] => Ended(gdb[l])
    /\ cleanup[l] = "done" => custody[l] = "released"

LaunchInv == LaunchTypeOK /\ EarlyInv /\ OwnerInv /\ LeasesOutliveGroups

Active(l) == l \in Starting \/ sessions[id[l]] = l

(* A session is kept under the id of its launch. *)
SessionInv ==
  /\ \A i \in Known : id[sessions[i]] = i /\ phase[sessions[i]] \in {"done", "ending"}
  /\ \A l \in Launch : phase[l] = "ending" => sessions[id[l]] = l
  /\ \A i \in Launch : stopping[i] # "none" => i \in Known

(* An id is that of one launch, and is reserved for one request. *)
IdInv ==
  /\ \A l, m \in Launch : Active(l) /\ Active(m) /\ id[l] = id[m] => l = m
  /\ \A r \in Request, m \in Launch :
       Active(m) /\ id[m] = reserved[r] => phase[m] \in Launching /\ request[m] = r
  /\ \A r, q \in Request : reserved[r] # Nobody /\ reserved[r] = reserved[q] => r = q
  /\ \A l \in Launch : phase[l] = "idle" => /\ \A m \in Launch : id[m] = l => m = l
                                            /\ \A r \in Request : reserved[r] # l

CloseInv ==
  /\ closing \in {"stopping", "stops", "clean", "pending"} => \A l \in Launch : phase[l] \notin Launching
  /\ closing = "clean" => Known = {}

IInv == LaunchInv /\ TypeOK /\ SessionInv /\ IdInv /\ CloseInv /\ Reachable

LEMMA InitInv == Init => IInv
  BY BackedAssumption, CapacityAssumption, NobodyAssumption
  DEF Init, LaunchInit, IInv, LaunchInv, LaunchTypeOK, EarlyInv, OwnerInv, LeasesOutliveGroups, TypeOK,
      SessionInv, IdInv, CloseInv, Reachable, Active, Starting, Known, Early, Launching, Group, Ended

-----------------------------------------------------------------------------
(* Launches *)

(* What a cleanup asked of the launches S changes, and what it keeps.      *)
LEMMA CleanUpEffect ==
  ASSUME LaunchInv, NEW S \in SUBSET Launch, NEW refused, CleanUp(S, refused)
  PROVE  /\ gdb' \in [Launch -> Group]
         /\ backend' \in [Launch -> Group]
         /\ custody' \in [Launch -> {"none", "held", "released"}]
         /\ cleanup' \in [Launch -> {"none", "gdb", "release", "done", "failed"}]
         /\ releasing' \in [Launch -> BOOLEAN]
         /\ \A l \in Launch \ S : /\ gdb'[l] = gdb[l] /\ backend'[l] = backend[l]
                                  /\ custody'[l] = custody[l] /\ cleanup'[l] = cleanup[l]
                                  /\ releasing'[l] = releasing[l]
         /\ \A l \in Launch : /\ gdb'[l] = "none" <=> gdb[l] = "none"
                              /\ Ended(gdb'[l]) <=> Ended(gdb[l])
                              /\ Ended(backend'[l]) <=> Ended(backend[l])
                              /\ custody'[l] # custody[l] => custody'[l] = "released"
                              /\ custody'[l] = "released" => Ended(gdb[l]) /\ Ended(backend[l])
                              /\ releasing'[l] => Ended(gdb[l])
                              /\ cleanup'[l] = "done" => custody'[l] = "released"
<1> USE DEF LaunchInv, LaunchTypeOK, OwnerInv, LeasesOutliveGroups, CleanUp, Group, Ended, Alive, Asked
<1>1. gdb' \in [Launch -> Group] /\ backend' \in [Launch -> Group]
  OBVIOUS
<1>2. /\ custody' \in [Launch -> {"none", "held", "released"}]
      /\ cleanup' \in [Launch -> {"none", "gdb", "release", "done", "failed"}]
  OBVIOUS
<1>3. releasing' \in [Launch -> BOOLEAN]
  OBVIOUS
<1>4. \A l \in Launch \ S : /\ gdb'[l] = gdb[l] /\ backend'[l] = backend[l]
                            /\ custody'[l] = custody[l] /\ cleanup'[l] = cleanup[l]
  OBVIOUS
<1>5. \A l \in Launch \ S : releasing'[l] = releasing[l]
  OBVIOUS
<1>6. \A l \in Launch : /\ gdb'[l] = "none" <=> gdb[l] = "none"
                        /\ Ended(gdb'[l]) <=> Ended(gdb[l])
                        /\ Ended(backend'[l]) <=> Ended(backend[l])
                        /\ custody'[l] # custody[l] => custody'[l] = "released"
                        /\ custody'[l] = "released" => Ended(gdb[l]) /\ Ended(backend[l])
  OBVIOUS
<1>7. \A l \in Launch : releasing'[l] => Ended(gdb[l])
  OBVIOUS
<1>8. \A l \in Launch : cleanup'[l] = "done" => custody'[l] = "released"
  OBVIOUS
<1> QED BY <1>1, <1>2, <1>3, <1>4, <1>5, <1>6, <1>7, <1>8

(* It keeps the invariant of launches whose GDB has been spawned, or that are being undone. *)
LEMMA CleanUpInv ==
  ASSUME LaunchInv, NEW S \in SUBSET Launch, NEW refused, CleanUp(S, refused),
         phase' \in [Launch -> Launching \cup {"idle", "ending", "done"}],
         \A l \in Launch : phase'[l] = phase[l] \/ phase'[l] \in {"ending", "done"},
         \A l \in S : phase[l] \notin Early,
         UNCHANGED owner
  PROVE  LaunchInv'
<1> USE DEF LaunchInv, Early
<1>1. LaunchTypeOK'
  BY CleanUpEffect DEF LaunchTypeOK
<1>2. OwnerInv' /\ LeasesOutliveGroups'
  BY CleanUpEffect DEF OwnerInv, LeasesOutliveGroups
<1>3. ASSUME NEW l \in Launch, phase'[l] \in Early
      PROVE  /\ phase[l] = phase'[l]
             /\ gdb'[l] = gdb[l] /\ backend'[l] = backend[l] /\ custody'[l] = custody[l]
             /\ cleanup'[l] = cleanup[l] /\ releasing'[l] = releasing[l]
  <2>1. phase[l] = phase'[l] /\ l \in Launch \ S
    BY <1>3
  <2> QED BY <2>1, CleanUpEffect
<1>4. EarlyInv'
  BY <1>3 DEF EarlyInv
<1> QED BY <1>1, <1>2, <1>4

LEMMA GroupsInv ==
  ASSUME LaunchInv, NEW l \in Launch,
         GdbEnds(l) \/ GdbFails(l) \/ BackendEnds(l) \/ GdbOutlastsCleanup(l) \/ ReleaseEnds(l)
  PROVE  LaunchInv'
<1> USE DEF LaunchInv, LaunchTypeOK, EarlyInv, OwnerInv, LeasesOutliveGroups, Group, Ended, Alive,
            Asked, Early, Launching
<1>1. CASE GdbEnds(l)
  <2>1. gdb[l] # "none" /\ ~Ended(gdb[l])
    BY <1>1 DEF GdbEnds
  <2>2. CASE /\ gdb' = [gdb EXCEPT ![l] = "gone"]
             /\ releasing' = [releasing EXCEPT ![l] = TRUE]
             /\ backend' = [backend EXCEPT ![l] = Asked(@)]
             /\ cleanup' = [cleanup EXCEPT ![l] = IF @ = "gdb" THEN "release" ELSE @]
             /\ UNCHANGED <<phase, custody, owner>>
    <3>1. LaunchTypeOK'
      BY <2>2
    <3>2. \A m \in Launch : m # l => releasing'[m] = releasing[m]
      BY <2>2
    <3>3. EarlyInv' /\ OwnerInv' /\ LeasesOutliveGroups'
      BY <2>1, <2>2, <3>2
    <3> QED BY <3>1, <3>3
  <2>3. CASE /\ gdb' = [gdb EXCEPT ![l] = "lost"]
             /\ cleanup' = [cleanup EXCEPT ![l] = IF @ = "gdb" THEN "failed" ELSE @]
             /\ UNCHANGED <<releasing, backend, phase, custody, owner>>
    BY <2>1, <2>3
  <2> QED BY <1>1, <2>2, <2>3 DEF GdbEnds
<1>2. CASE GdbFails(l)
  BY <1>2 DEF GdbFails
<1>3. CASE BackendEnds(l)
  BY <1>3 DEF BackendEnds
<1>4. CASE GdbOutlastsCleanup(l)
  BY <1>4 DEF GdbOutlastsCleanup
<1>5. CASE ReleaseEnds(l)
  BY <1>5 DEF ReleaseEnds
<1> QED BY <1>1, <1>2, <1>3, <1>4, <1>5

LEMMA ProceedsInv ==
  ASSUME LaunchInv, NEW l \in Launch, LaunchProceeds(l)
  PROVE  LaunchInv'
<1> USE DEF LaunchInv, LaunchTypeOK, EarlyInv, OwnerInv, LeasesOutliveGroups, Group, Ended, Early,
            Launching
<1>1. CASE Preflighted(l)
  BY <1>1 DEF Preflighted
<1>2. CASE Reserved(l)
  BY <1>2 DEF Reserved
<1>3. CASE Ready(l)
  BY <1>3 DEF Ready
<1>4. CASE Resolved(l)
  BY <1>4 DEF Resolved
<1>5. CASE LaunchBreaks(l)
  <2>1. owner[l] = "debugger" \/ gdb[l] = "none"
    BY <1>5 DEF LaunchBreaks
  <2>2. OwnerOf(l) \in {"recovery", "unstarted"} => gdb[l] = "none"
    BY <2>1 DEF OwnerOf
  <2>3. OwnerOf(l) \in {"debugger", "recovery", "unstarted"}
    BY DEF OwnerOf
  <2>4. /\ custody' \in [Launch -> {"none", "held", "released"}]
        /\ \A m \in Launch : m # l => custody'[m] = custody[m]
        /\ custody'[l] = "released" => custody[l] = "released"
        /\ custody[l] = "released" => custody'[l] = "released"
    BY <1>5 DEF LaunchBreaks
  <2>5. /\ phase[l] \in {"reserving", "readying", "resolving", "configuring"}
        /\ phase' = [phase EXCEPT ![l] = "undoing"]
        /\ owner' = [owner EXCEPT ![l] = OwnerOf(l)]
        /\ UNCHANGED <<gdb, backend, cleanup, releasing>>
    BY <1>5 DEF LaunchBreaks
  <2>6. LaunchTypeOK'
    BY <2>3, <2>4, <2>5
  <2>7. EarlyInv' /\ OwnerInv' /\ LeasesOutliveGroups'
    BY <2>2, <2>4, <2>5
  <2> QED BY <2>6, <2>7
<1>6. ASSUME NEW refused, Undo(l, refused) PROVE LaunchInv'
  BY <1>6, CleanUpInv, {l} \in SUBSET Launch DEF Undo
<1> QED BY <1>1, <1>2, <1>3, <1>4, <1>5, <1>6 DEF LaunchProceeds

(* What is left when a launch whose leases were released is forgotten: nothing of it. *)
LEMMA ForgetEffect ==
  ASSUME LaunchInv, NEW l \in Launch, custody[l] = "released", Forget(l)
  PROVE  /\ gdb' \in [Launch -> Group] /\ backend' \in [Launch -> Group]
         /\ custody' \in [Launch -> {"none", "held", "released"}]
         /\ owner' \in [Launch -> {"none", "debugger", "recovery", "unstarted"}]
         /\ releasing' \in [Launch -> BOOLEAN]
         /\ \A m \in Launch \ {l} : /\ gdb'[m] = gdb[m] /\ backend'[m] = backend[m]
                                    /\ custody'[m] = custody[m] /\ owner'[m] = owner[m]
                                    /\ releasing'[m] = releasing[m]
         /\ gdb'[l] = "none" /\ backend'[l] = "none" /\ custody'[l] = "none"
         /\ owner'[l] = "none" /\ releasing'[l] = FALSE
  BY DEF LaunchInv, LaunchTypeOK, LeasesOutliveGroups, Forget, Group, Ended

(* The invariant of the launches survives that. *)
LEMMA ForgetInv ==
  ASSUME LaunchInv, NEW l \in Launch, custody[l] = "released", Forget(l),
         phase' = [phase EXCEPT ![l] = "done"], cleanup' = [cleanup EXCEPT ![l] = "none"]
  PROVE  LaunchInv'
<1>1. LaunchTypeOK'
  BY ForgetEffect DEF LaunchInv, LaunchTypeOK
<1>2. \A m \in Launch \ {l} : phase'[m] = phase[m] /\ cleanup'[m] = cleanup[m]
  BY DEF LaunchInv, LaunchTypeOK
<1>3. phase'[l] = "done" /\ cleanup'[l] = "none"
  BY DEF LaunchInv, LaunchTypeOK
<1>4. /\ gdb'[l] = "none" /\ backend'[l] = "none" /\ custody'[l] = "none"
      /\ owner'[l] = "none" /\ releasing'[l] = FALSE
  BY ForgetEffect
<1>5. \A m \in Launch \ {l} : /\ gdb'[m] = gdb[m] /\ backend'[m] = backend[m]
                             /\ custody'[m] = custody[m] /\ owner'[m] = owner[m]
                             /\ releasing'[m] = releasing[m]
  BY ForgetEffect
<1>6. EarlyInv' /\ OwnerInv' /\ LeasesOutliveGroups'
  <2> SUFFICES ASSUME NEW m \in Launch
               PROVE  /\ phase'[m] \in Early => /\ gdb'[m] = "none" /\ owner'[m] = "none" /\ ~releasing'[m]
                                                /\ cleanup'[m] = "none" /\ custody'[m] # "released"
                      /\ phase'[m] \in {"idle", "preflight"} => custody'[m] = "none" /\ backend'[m] = "none"
                      /\ phase'[m] = "configuring" => owner'[m] = "debugger"
                      /\ owner'[m] \in {"recovery", "unstarted"} => gdb'[m] = "none"
                      /\ releasing'[m] => Ended(gdb'[m])
                      /\ cleanup'[m] = "done" => custody'[m] = "released"
                      /\ custody'[m] = "released" => Ended(gdb'[m]) /\ Ended(backend'[m])
    BY DEF EarlyInv, OwnerInv, LeasesOutliveGroups, Ended
  <2>1. CASE m = l
    BY <1>3, <1>4, <2>1 DEF Early
  <2>2. CASE m # l
    BY <1>2, <1>5, <2>2 DEF LaunchInv, EarlyInv, OwnerInv, LeasesOutliveGroups, Ended
  <2> QED BY <2>1, <2>2
<1> QED BY <1>1, <1>6 DEF LaunchInv

LEMMA StepLaunchInv ==
  ASSUME IInv, [Next]_vars
  PROVE  LaunchInv'
<1> USE NobodyAssumption
    DEF IInv, TypeOK, LaunchInv, LaunchTypeOK, EarlyInv, OwnerInv, LeasesOutliveGroups, Group, Early,
        Launching, launchVars
<1>1. ASSUME NEW l \in Launch, Start(l) PROVE LaunchInv'
  BY <1>1 DEF Start
<1>2. ASSUME NEW l \in Launch, LaunchStep(l) PROVE LaunchInv'
  <2>1. CASE LaunchProceeds(l)
    BY <2>1, ProceedsInv
  <2>2. CASE LaunchRefused(l)
    BY <2>2 DEF LaunchRefused
  <2>3. CASE LaunchFails(l)
    <3>1. CASE cleanup[l] = "failed"
      BY <2>3, <3>1 DEF LaunchFails
    <3>2. CASE cleanup[l] # "failed"
      BY <2>3, <3>2, ForgetInv DEF LaunchFails
    <3> QED BY <3>1, <3>2
  <2>4. CASE LaunchSucceeds(l)
    <3>1. CASE Closed
      <4>1. CleanUp({l}, {}) /\ phase' = [phase EXCEPT ![l] = "ending"] /\ UNCHANGED owner
        BY <2>4, <3>1 DEF LaunchSucceeds
      <4>2. {l} \in SUBSET Launch /\ phase[l] \notin Early
        BY <2>4 DEF LaunchSucceeds
      <4> QED BY <4>1, <4>2, CleanUpInv
    <3>2. CASE ~Closed
      BY <2>4, <3>2 DEF LaunchSucceeds
    <3> QED BY <3>1, <3>2
  <2> QED BY <1>2, <2>1, <2>2, <2>3, <2>4 DEF LaunchStep
<1>3. ASSUME NEW l \in Launch, CleanupStep(l) \/ GroupStep(l) PROVE LaunchInv'
  BY <1>3, GroupsInv DEF CleanupStep, GroupStep
<1>4. ASSUME NEW i \in Launch, CommandAndStop(i) \/ Unacknowledged(i) PROVE LaunchInv'
  BY <1>4 DEF CommandAndStop, Unacknowledged
<1>5. ASSUME NEW S, S \subseteq {sessions[j] : j \in Known}, NEW refused, CleanUp(S, refused),
             UNCHANGED <<phase, owner>>
      PROVE  LaunchInv'
  <2>1. S \in SUBSET Launch /\ \A l \in S : phase[l] \notin Early
    BY <1>5 DEF SessionInv, Known
  <2> QED BY <1>5, <2>1, CleanUpInv
<1>6. ASSUME NEW i \in Launch, NEW refused, Stop(i, refused) PROVE LaunchInv'
  BY <1>6, <1>5, {sessions[i]} \subseteq {sessions[j] : j \in Known} DEF Stop
<1>7. ASSUME NEW i \in Launch, Acknowledged(i) PROVE LaunchInv'
  <2>1. i \in Known
    BY <1>7 DEF Acknowledged, SessionInv
  <2> QED BY <1>7, <2>1, <1>5, {sessions[i]} \subseteq {sessions[j] : j \in Known} DEF Acknowledged
<1>8. ASSUME NEW i \in Launch, StopEnds(i) PROVE LaunchInv'
  <2>1. sessions[i] \in Launch /\ phase[sessions[i]] \in {"done", "ending"}
    BY <1>8 DEF StopEnds, SessionInv, Known
  <2>2. CASE cleanup[sessions[i]] = "done" /\ Forget(sessions[i])
    BY <1>8, <2>1, <2>2, ForgetInv DEF StopEnds
  <2>3. CASE UNCHANGED <<gdb, backend, custody, owner, releasing>>
    BY <1>8, <2>1, <2>3 DEF StopEnds
  <2> QED BY <1>8, <2>2, <2>3 DEF StopEnds
<1>9. ASSUME NEW refused, StopsSettled(refused) PROVE LaunchInv'
  BY <1>9, <1>5, {sessions[i] : i \in {j \in Known : stopping[j] = "none"}} \subseteq {sessions[j] : j \in Known}
  DEF StopsSettled
<1>10. CASE Close \/ StartsSettled \/ CloseReports \/ \E r \in Request : ReservationExpires(r)
  BY <1>10 DEF Close, StartsSettled, CloseReports, ReservationExpires
<1>11. CASE UNCHANGED vars
  BY <1>11 DEF vars
<1> QED BY <1>1, <1>2, <1>3, <1>4, <1>6, <1>7, <1>8, <1>9, <1>10, <1>11 DEF Next, StopStep, CloseStep

-----------------------------------------------------------------------------
(* Ids, sessions and the client *)

IdsInv == TypeOK /\ SessionInv /\ IdInv /\ CloseInv /\ Reachable

(* A step of launches, groups and cleanups that leaves the client's records alone. *)
LEMMA ClientUnchanged ==
  ASSUME IInv, LaunchInv', UNCHANGED clientVars,
         \A l \in Launch : \/ phase'[l] = phase[l]
                           \/ phase[l] \in Launching /\ phase'[l] \in Launching,
         \A l \in Launch : \/ l \in Starting
                           \/ custody[l] = "held" \/ ~Ended(gdb[l]) \/ ~Ended(backend[l])
                           \/ custody'[l] # "held" /\ Ended(gdb'[l]) /\ Ended(backend'[l])
  PROVE  IdsInv'
<1> USE DEF IInv, IdsInv, TypeOK, LaunchInv, clientVars, Starting
<1>1. TypeOK' /\ Known' = Known
  BY DEF Known
<1>2. \A l \in Launch : (l \in Starting)' <=> l \in Starting
  BY DEF Launching
<1>3. \A l \in Launch : Active(l)' <=> Active(l)
  BY <1>2 DEF Active
<1>4. SessionInv'
  <2>1. \A l \in Launch : phase[l] \notin Launching => phase'[l] = phase[l]
    BY DEF Launching
  <2>2. \A l \in Launch : phase'[l] = "ending" => phase[l] = "ending"
    BY DEF Launching
  <2>3. \A i \in Known : sessions[i] \in Launch
    BY DEF Known
  <2> QED BY <1>1, <2>1, <2>2, <2>3 DEF SessionInv, Launching
<1>5. IdInv'
  BY <1>3 DEF IdInv, Launching
<1>6. CloseInv'
  BY <1>1 DEF CloseInv, Launching
<1>7. Reachable'
  BY <1>2 DEF Reachable
<1> QED BY <1>1, <1>4, <1>5, <1>6, <1>7

(* A step that only asks for cleanups, forgets reservations or goes on with a close. *)
LEMMA SessionsUnchanged ==
  ASSUME IInv, LaunchInv', UNCHANGED <<phase, request, id, sessions>>,
         reserved' \in [Request -> Launch \cup {Nobody}],
         \A r \in Request : reserved'[r] \in {reserved[r], Nobody},
         stopping' \in [Launch -> {"none", "command", "cleanup"}],
         \A i \in Launch : stopping'[i] # "none" => i \in Known,
         awaited' \subseteq Launch,
         closing' \in {"open", "starting", "stopping", "stops", "clean", "pending"},
         closing' \in {"stopping", "stops", "clean", "pending"} => \A l \in Launch : phase[l] \notin Launching,
         closing' = "clean" => Known = {},
         \A l \in Launch : \/ custody[l] = "held" \/ ~Ended(gdb[l]) \/ ~Ended(backend[l])
                           \/ custody'[l] # "held" /\ Ended(gdb'[l]) /\ Ended(backend'[l])
  PROVE  IdsInv'
<1> USE DEF IInv, IdsInv, Starting
<1>1. TypeOK' /\ Known' = Known
  BY DEF TypeOK, LaunchInv, Known
<1>2. \A l \in Launch : Active(l)' <=> Active(l)
  BY DEF Active
<1>3. SessionInv'
  BY <1>1 DEF SessionInv
<1>4. IdInv'
  BY <1>2, NobodyAssumption DEF IdInv, TypeOK
<1>5. CloseInv'
  BY <1>1 DEF CloseInv
<1>6. Reachable'
  BY DEF Reachable
<1> QED BY <1>1, <1>3, <1>4, <1>5, <1>6

LEMMA StepIds ==
  ASSUME IInv, [Next]_vars
  PROVE  IdsInv'
<1>0. LaunchInv'
  BY StepLaunchInv
<1>1. ASSUME NEW l \in Launch, LaunchProceeds(l), UNCHANGED clientVars PROVE IdsInv'
  <2>1. /\ phase[l] \in Launching /\ phase'[l] \in Launching
        /\ \A m \in Launch : m # l => /\ phase'[m] = phase[m] /\ custody'[m] = custody[m]
                                      /\ gdb'[m] = gdb[m] /\ backend'[m] = backend[m]
    <3>1. ASSUME NEW refused, Undo(l, refused)
          PROVE  /\ phase[l] = "undoing" /\ UNCHANGED phase
                 /\ \A m \in Launch : m # l => /\ custody'[m] = custody[m]
                                               /\ gdb'[m] = gdb[m] /\ backend'[m] = backend[m]
      <4>1. CleanUp({l}, refused) /\ phase[l] = "undoing" /\ UNCHANGED phase
        BY <3>1 DEF Undo
      <4>2. {l} \in SUBSET Launch /\ LaunchInv
        BY DEF IInv
      <4>3. \A m \in Launch \ {l} : /\ custody'[m] = custody[m]
                                    /\ gdb'[m] = gdb[m] /\ backend'[m] = backend[m]
        BY <4>1, <4>2, CleanUpEffect
      <4> QED BY <4>1, <4>3
    <3> USE DEF IInv, LaunchInv, LaunchTypeOK, Launching
    <3>2. CASE Preflighted(l) \/ Reserved(l) \/ Ready(l) \/ Resolved(l) \/ LaunchBreaks(l)
      BY <3>2 DEF Preflighted, Reserved, Ready, Resolved, LaunchBreaks
    <3> QED BY <1>1, <3>1, <3>2 DEF LaunchProceeds
  <2> QED BY <1>0, <1>1, <2>1, ClientUnchanged DEF Starting
<1>2. ASSUME NEW l \in Launch, CleanupStep(l) \/ GroupStep(l) PROVE IdsInv'
  <2>1. UNCHANGED clientVars /\ UNCHANGED phase
    BY <1>2 DEF CleanupStep, GroupStep, GdbOutlastsCleanup, ReleaseEnds, GdbEnds, GdbFails, BackendEnds
  <2>2. \A m \in Launch : \/ custody[m] = "held" \/ ~Ended(gdb[m]) \/ ~Ended(backend[m])
                          \/ custody'[m] # "held" /\ Ended(gdb'[m]) /\ Ended(backend'[m])
    <3> USE DEF IInv, LaunchInv, LaunchTypeOK, Ended, Alive, Asked
    <3>1. CASE GdbOutlastsCleanup(l) \/ ReleaseEnds(l)
      BY <3>1 DEF GdbOutlastsCleanup, ReleaseEnds
    <3>2. CASE GdbEnds(l) \/ GdbFails(l) \/ BackendEnds(l)
      BY <3>2 DEF GdbEnds, GdbFails, BackendEnds
    <3> QED BY <1>2, <3>1, <3>2 DEF CleanupStep, GroupStep
  <2> QED BY <1>0, <2>1, <2>2, ClientUnchanged
<1> USE NobodyAssumption DEF IdsInv, IInv
<1>3. ASSUME NEW l \in Launch, Start(l) PROVE IdsInv'
  <2> USE <1>3 DEF Start, TypeOK, LaunchInv, LaunchTypeOK, Launching, Starting
  <2>1. TypeOK'
    BY <1>0
  <2>2. phase[l] = "idle" /\ \A m \in Launch : m # l => Active(m)' = Active(m) /\ id'[m] = id[m]
    BY DEF Active
  <2>3. SessionInv'
    BY DEF SessionInv, Known
  <2>4. \A m \in Launch : m # l /\ Active(m) => id[m] # id'[l]
    BY DEF IdInv
  <2>5. \A m \in Launch : m # l /\ phase[m] = "idle" => id'[l] # m
    BY DEF IdInv
  <2>6. IdInv'
    BY <2>2, <2>4, <2>5 DEF IdInv
  <2>7. CloseInv' /\ Reachable'
    BY DEF CloseInv, Reachable, Closed, EarlyInv
  <2> QED BY <2>1, <2>3, <2>6, <2>7
<1>4. ASSUME NEW l \in Launch, LaunchRefused(l) PROVE IdsInv'
  <2> USE <1>4 DEF LaunchRefused, KeepsId, TypeOK, LaunchInv, LaunchTypeOK, Launching, Starting
  <2>1. PICK keep \in {Nobody} \cup IF Closed THEN {} ELSE {id[l]} :
               reserved' = [reserved EXCEPT ![request[l]] = keep]
    OBVIOUS
  <2>2. TypeOK'
    BY <1>0, <2>1
  <2>3. ~Active(l)' /\ \A m \in Launch : m # l => Active(m)' = Active(m)
    BY DEF Active, SessionInv, Known
  <2>4. SessionInv'
    BY DEF SessionInv, Known
  <2>5. Active(l)
    BY DEF Active
  <2>6. \A r \in Request : r # request[l] => reserved[r] # id[l]
    BY <2>5 DEF IdInv
  <2>7. IdInv'
    BY SMTT(60), <2>1, <2>3, <2>5, <2>6 DEF IdInv
  <2>8. CloseInv' /\ Reachable'
    BY <2>3 DEF CloseInv, Reachable, Closed, EarlyInv, Early, Known, Ended, Active
  <2> QED BY <2>2, <2>4, <2>7, <2>8
<1>5. ASSUME NEW l \in Launch, LaunchFails(l) PROVE IdsInv'
  <2> USE <1>5 DEF LaunchFails, TypeOK, LaunchInv, LaunchTypeOK, Launching, Starting
  <2>1. Active(l)
    BY DEF Active
  <2>2. CASE cleanup[l] = "failed"
    <3>1. /\ reserved' = [reserved EXCEPT ![request[l]] = Nobody]
          /\ sessions' = [sessions EXCEPT ![id[l]] = l]
      BY <2>2 DEF DropsId
    <3>2. TypeOK'
      BY <1>0, <3>1
    <3>3. \A m \in Launch : m # l => Active(m)' = Active(m)
      BY <2>1, <3>1 DEF Active, IdInv
    <3>4. SessionInv'
      BY <2>1, <3>1 DEF SessionInv, Known, Active, IdInv
    <3>5. IdInv'
      BY <2>1, <3>1, <3>3 DEF IdInv
    <3>6. CloseInv'
      BY <2>1, <3>1, <3>3 DEF CloseInv, Closed, Active, IdInv
    <3>7. UNCHANGED <<gdb, backend, custody, id>>
      BY <2>2
    <3>8. Active(l)'
      BY <2>1, <3>1, <3>7 DEF Active
    <3>9. Reachable'
      <4> USE DEF Active, Reachable
      <4> SUFFICES ASSUME NEW m \in Launch,
                          custody'[m] = "held" \/ ~Ended(gdb'[m]) \/ ~Ended(backend'[m])
                   PROVE  Active(m)'
        BY DEF Ended
      <4> HIDE DEF Active
      <4>1. Active(m)
        BY <3>7 DEF Active
      <4> QED BY <3>3, <3>8, <4>1
    <3> QED BY <3>2, <3>4, <3>5, <3>6, <3>9
  <2>3. CASE cleanup[l] # "failed"
    <3>1. PICK keep \in {Nobody} \cup IF Closed THEN {} ELSE {id[l]} :
                 reserved' = [reserved EXCEPT ![request[l]] = keep]
      BY <2>3 DEF KeepsId
    <3>2. TypeOK' /\ UNCHANGED sessions
      BY <1>0, <2>3, <3>1
    <3>3. ~Active(l)' /\ \A m \in Launch : m # l => Active(m)' = Active(m)
      BY <3>2 DEF Active, SessionInv, Known
    <3>4. SessionInv'
      BY <3>2 DEF SessionInv, Known
    <3>5. \A r \in Request : r # request[l] => reserved[r] # id[l]
      BY <2>1 DEF IdInv
    <3>6. IdInv'
      BY <2>1, <3>1, <3>3, <3>5 DEF IdInv
    <3>7. custody[l] = "released" /\ Forget(l)
      BY <2>3 DEF OwnerInv
    <3>8. CloseInv'
      BY <3>2 DEF CloseInv, Closed, Known
    <3>9. Reachable'
      <4>1. /\ \A m \in Launch \ {l} : gdb'[m] = gdb[m] /\ backend'[m] = backend[m] /\ custody'[m] = custody[m]
            /\ gdb'[l] = "none" /\ backend'[l] = "none" /\ custody'[l] = "none"
        BY <3>7, ForgetEffect
      <4> HIDE DEF LaunchFails, TypeOK, LaunchTypeOK, LaunchInv
      <4> QED BY <3>3, <4>1 DEF Reachable, Active, Ended
    <3> QED BY <3>2, <3>4, <3>6, <3>8, <3>9
  <2> QED BY <2>2, <2>3
<1>6. ASSUME NEW l \in Launch, LaunchSucceeds(l) PROVE IdsInv'
  <2>0. /\ id[l] \in Launch /\ request[l] \in Request
        /\ \A m \in Launch : m # l => /\ custody'[m] = custody[m] /\ gdb'[m] = gdb[m]
                                      /\ backend'[m] = backend[m]
    <3>0. id[l] \in Launch /\ request[l] \in Request
      BY DEF TypeOK
    <3>1. CASE Closed
      <4>1. CleanUp({l}, {}) /\ {l} \in SUBSET Launch
        BY <1>6, <3>1 DEF LaunchSucceeds
      <4>2. \A m \in Launch \ {l} : /\ custody'[m] = custody[m] /\ gdb'[m] = gdb[m]
                                    /\ backend'[m] = backend[m]
        BY <4>1, CleanUpEffect
      <4> QED BY <3>0, <4>2
    <3>2. CASE ~Closed
      BY <1>6, <3>0, <3>2 DEF LaunchSucceeds
    <3> QED BY <3>1, <3>2
  <2> USE <1>6 DEF LaunchSucceeds, TypeOK, LaunchInv, LaunchTypeOK, Launching, Starting
  <2>1. Active(l) /\ phase[l] = "configuring"
    BY DEF Active
  <2>2. /\ reserved' = [reserved EXCEPT ![request[l]] = Nobody]
        /\ sessions' = [sessions EXCEPT ![id[l]] = l]
        /\ UNCHANGED <<request, id, awaited, closing>>
        /\ \/ /\ Closed
              /\ phase' = [phase EXCEPT ![l] = "ending"]
              /\ stopping' = [stopping EXCEPT ![id[l]] = "cleanup"]
           \/ ~Closed /\ phase' = [phase EXCEPT ![l] = "done"] /\ UNCHANGED stopping
    BY DEF DropsId
  <2>3. TypeOK'
    BY <1>0, <2>2
  <2>4. \A m \in Launch : m # l => Active(m)' = Active(m)
    BY <2>1, <2>2 DEF Active, IdInv
  <2>5. SessionInv'
    BY <2>1, <2>2 DEF SessionInv, Known, Active, IdInv
  <2>6. IdInv'
    <3>1. \A r \in Request : r # request[l] => reserved[r] # id[l]
      BY <2>1 DEF IdInv
    <3>2. \A r \in Request : reserved'[r] # id[l]
      BY <2>0, <2>2, <3>1
    <3>3. \A m \in Launch : m # l => phase'[m] = phase[m]
      BY <2>2
    <3>4. \A r \in Request : reserved'[r] = reserved[r] \/ reserved'[r] = Nobody
      BY <2>2
    <3>5. \A r \in Request, m \in Launch :
            Active(m)' /\ id'[m] = reserved'[r] => phase'[m] \in Launching /\ request'[m] = r
      BY SMTT(60), <2>2, <2>4, <3>2, <3>3, <3>4 DEF IdInv
    <3>6. \A m, k \in Launch : Active(m)' /\ Active(k)' /\ id'[m] = id'[k] => m = k
      BY SMTT(60), <2>1, <2>2, <2>4 DEF IdInv
    <3>7. \A m \in Launch : phase'[m] = "idle" => phase[m] = "idle"
      BY <2>2
    <3> QED BY <2>2, <3>4, <3>5, <3>6, <3>7 DEF IdInv
  <2>7. CloseInv'
    BY <2>1, <2>2 DEF CloseInv, Closed
  <2>9. Reachable'
    BY <2>0, <2>2, <2>4 DEF Reachable, Active
  <2> QED BY <2>3, <2>5, <2>6, <2>7, <2>9
<1>7. ASSUME NEW i \in Launch, StopEnds(i) PROVE IdsInv'
  <2> DEFINE l == sessions[i]
  <2>1. i \in Known /\ l \in Launch /\ id[l] = i /\ phase[l] \in {"done", "ending"} /\ sessions[id[l]] = l
    BY <1>7 DEF StopEnds, SessionInv, Known, TypeOK
  <2>2. /\ stopping' = [stopping EXCEPT ![i] = "none"]
        /\ awaited' = awaited \ {i}
        /\ phase' = [phase EXCEPT ![l] = "done"]
        /\ UNCHANGED <<request, id, reserved, closing>>
        /\ \/ UNCHANGED <<sessions, gdb, backend, custody>>
           \/ cleanup[l] = "done" /\ sessions' = [sessions EXCEPT ![i] = Nobody] /\ Forget(l)
    BY <1>7 DEF StopEnds
  <2> HIDE DEF l
  <2> USE DEF TypeOK, LaunchInv, LaunchTypeOK, Launching, Starting
  <2>3. TypeOK'
    <3>1. sessions' \in [Launch -> Launch \cup {Nobody}]
      BY <2>2
    <3>2. stopping' \in [Launch -> {"none", "command", "cleanup"}] /\ awaited' \subseteq Launch
      BY <2>2
    <3> QED BY <1>0, <2>2, <3>1, <3>2
  <2>4. \A m \in Launch : m # l => Active(m)' = Active(m)
    BY <2>1, <2>2 DEF Active
  <2>5. Active(l)
    BY <2>1 DEF Active
  <2>6. SessionInv'
    BY <2>1, <2>2 DEF SessionInv, Known
  <2>7. \A m \in Launch : phase'[m] \in Launching \cup {"idle"} <=> phase[m] \in Launching \cup {"idle"}
    BY <2>1, <2>2
  <2>8. \A m \in Launch : m # l => phase'[m] = phase[m]
    BY <2>2
  <2>9. IdInv'
    BY <2>1, <2>2, <2>4, <2>5, <2>7, <2>8 DEF IdInv
  <2>10. CloseInv'
    BY <2>1, <2>2 DEF CloseInv, Known
  <2>11. Reachable'
    <3>1. CASE UNCHANGED <<sessions, gdb, backend, custody>>
      <4>1. \A m \in Launch : Active(m)' = Active(m)
        BY <2>1, <2>2, <2>4, <3>1 DEF Active
      <4> HIDE DEF TypeOK, LaunchInv, LaunchTypeOK
      <4> QED BY <3>1, <4>1 DEF Reachable, Active
    <3>2. CASE cleanup[l] = "done" /\ Forget(l)
      <4>1. custody[l] = "released"
        BY <2>1, <3>2 DEF OwnerInv
      <4>2. /\ \A m \in Launch \ {l} : /\ gdb'[m] = gdb[m] /\ backend'[m] = backend[m]
                                       /\ custody'[m] = custody[m]
            /\ gdb'[l] = "none" /\ backend'[l] = "none" /\ custody'[l] = "none"
        BY ZenonT(60), <2>1, <3>2, <4>1, ForgetEffect
      <4> HIDE DEF TypeOK, LaunchInv, LaunchTypeOK
      <4> QED BY <2>1, <2>4, <4>2 DEF Reachable, Active, Ended
    <3> QED BY <2>2, <3>1, <3>2
  <2> QED BY <2>3, <2>6, <2>9, <2>10, <2>11
<1> HIDE DEF IdsInv, IInv
<1>8. ASSUME NEW S, S \subseteq {sessions[j] : j \in Known}, NEW refused, CleanUp(S, refused)
      PROVE  \A l \in Launch : \/ custody[l] = "held" \/ ~Ended(gdb[l]) \/ ~Ended(backend[l])
                               \/ custody'[l] # "held" /\ Ended(gdb'[l]) /\ Ended(backend'[l])
  <2>1. S \in SUBSET Launch /\ LaunchInv
    BY <1>8 DEF IInv, TypeOK, Known
  <2>2. \A l \in Launch : /\ Ended(gdb'[l]) <=> Ended(gdb[l])
                          /\ Ended(backend'[l]) <=> Ended(backend[l])
                          /\ custody'[l] # custody[l] => custody'[l] = "released"
    BY <1>8, <2>1, CleanUpEffect
  <2> QED BY <2>2
<1>9. ASSUME NEW i \in Launch, NEW refused, Stop(i, refused) PROVE IdsInv'
  <2>1. {sessions[i]} \subseteq {sessions[j] : j \in Known} /\ CleanUp({sessions[i]}, refused)
    BY <1>9 DEF Stop
  <2>2. /\ UNCHANGED <<phase, request, id, sessions, reserved, awaited, closing>>
        /\ i \in Known /\ stopping' = [stopping EXCEPT ![i] = "cleanup"]
    BY <1>9 DEF Stop
  <2> QED BY <1>0, <1>8, <2>1, <2>2, SessionsUnchanged DEF IInv, TypeOK, SessionInv, CloseInv
<1>10. ASSUME NEW i \in Launch, Acknowledged(i) PROVE IdsInv'
  <2>1. i \in Known
    BY <1>10 DEF Acknowledged, IInv, SessionInv
  <2>2. {sessions[i]} \subseteq {sessions[j] : j \in Known} /\ CleanUp({sessions[i]}, {})
    BY <1>10, <2>1 DEF Acknowledged
  <2>3. /\ UNCHANGED <<phase, request, id, sessions, reserved, awaited, closing>>
        /\ stopping' = [stopping EXCEPT ![i] = "cleanup"]
    BY <1>10 DEF Acknowledged
  <2> QED BY <1>0, <1>8, <2>1, <2>2, <2>3, SessionsUnchanged DEF IInv, TypeOK, SessionInv, CloseInv
<1>11. ASSUME NEW refused, StopsSettled(refused) PROVE IdsInv'
  <2> DEFINE S == {sessions[i] : i \in {j \in Known : stopping[j] = "none"}}
  <2>1. S \subseteq {sessions[j] : j \in Known} /\ CleanUp(S, refused)
    BY <1>11 DEF StopsSettled
  <2>2. /\ UNCHANGED <<phase, request, id, sessions, reserved>>
        /\ closing = "stopping" /\ closing' = "stops" /\ awaited' = Known
        /\ stopping' = [i \in Launch |-> IF i \in Known /\ stopping[i] = "none"
                                         THEN "cleanup" ELSE stopping[i]]
    BY <1>11 DEF StopsSettled
  <2> HIDE DEF S
  <2>3. Known \subseteq Launch
    BY DEF Known
  <2> QED BY <1>0, <1>8, <2>1, <2>2, <2>3, SessionsUnchanged DEF IInv, TypeOK, SessionInv, CloseInv
<1> USE DEF IInv, TypeOK, SessionInv, CloseInv, launchVars
<1>12. ASSUME NEW r \in Request, ReservationExpires(r) PROVE IdsInv'
  BY <1>0, <1>12, SessionsUnchanged DEF ReservationExpires
<1>13. ASSUME NEW i \in Launch, CommandAndStop(i) \/ Unacknowledged(i) PROVE IdsInv'
  BY <1>0, <1>13, SessionsUnchanged DEF CommandAndStop, Unacknowledged
<1>14. CASE Close \/ StartsSettled
  BY <1>0, <1>14, SessionsUnchanged DEF Close, StartsSettled
<1>15. CASE CloseReports
  BY <1>0, <1>15, SessionsUnchanged DEF CloseReports
<1>16. CASE UNCHANGED vars
  BY <1>0, <1>16, SessionsUnchanged DEF vars, clientVars
<1> QED BY <1>1, <1>2, <1>3, <1>4, <1>5, <1>6, <1>7, <1>9, <1>10, <1>11, <1>12, <1>13, <1>14,
           <1>15, <1>16
        DEF Next, LaunchStep, CleanupStep, GroupStep, StopStep, CloseStep

LEMMA Invariance == Spec => []IInv
<1>1. IInv /\ [Next]_vars => IInv'
  BY StepLaunchInv, StepIds DEF IInv, IdsInv
<1> QED BY <1>1, InitInv, PTL DEF Spec

-----------------------------------------------------------------------------
(* The types of a connection's launches, sessions and reservations.        *)
THEOREM DebugTypeCorrect == Spec => []TypeOK
<1>1. IInv => TypeOK
  BY DEF IInv
<1> QED BY <1>1, Invariance, PTL

(* No leases are released while a debugger or its server may be there.     *)
THEOREM LeasesAreSafe == Spec => []LeasesOutliveGroups
<1>1. IInv => LeasesOutliveGroups
  BY DEF IInv, LaunchInv
<1> QED BY <1>1, Invariance, PTL

(* What a launch leaves can be found by a stop or a close.                 *)
THEOREM NothingIsLost == Spec => []Reachable
<1>1. IInv => Reachable
  BY DEF IInv
<1> QED BY <1>1, Invariance, PTL

(* A clean close has left nothing, whatever was under way when it began.   *)
THEOREM CloseIsClean == Spec => []CleanCloseIsClean
<1>1. IInv => CleanCloseIsClean
  BY NobodyAssumption
  DEF IInv, TypeOK, LaunchInv, LaunchTypeOK, SessionInv, CloseInv, Reachable, CleanCloseIsClean,
      Starting, Known
<1> QED BY <1>1, Invariance, PTL
=============================================================================
