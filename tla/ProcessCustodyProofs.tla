------------------------ MODULE ProcessCustodyProofs ------------------------
(***************************************************************************)
(* Exclusive use of a device, for every number of servers, custodies and   *)
(* devices.  ExclusiveUse is not inductive: it needs to know that a live   *)
(* custody owns the record of its device, that no two custodies share a    *)
(* device, and that the record of a child stays pending after its server   *)
(* dies.                                                                   *)
(***************************************************************************)
EXTENDS ProcessCustody, TLAPS

(* A custody that was taken still owns its lease, and one that may have a  *)
(* child has a pending record.                                             *)
CustodyOwns ==
  \A c \in Custody : stage[c] # "none" =>
    /\ lease[c] \in Resource \X Nonce
    /\ Owns(HostOf[c], lease[c][1], lease[c][2])
    /\ stage[c] \in {"prepared", "spawned"} => rec[lease[c][1]].pending

(* Two custodies never hold one device.                                    *)
DistinctDevices ==
  \A c, d \in Custody :
    stage[c] # "none" /\ stage[d] # "none" /\ lease[c][1] = lease[d][1] => c = d

(* The record of a device with a live child is pending and names the       *)
(* server of the child; while that server runs, the custody knows of it.   *)
ChildRecorded ==
  \A c \in Custody : child[c] # None =>
    /\ rec[child[c]] # NoRecord
    /\ rec[child[c]].owner = HostOf[c]
    /\ rec[child[c]].pending
    /\ life[HostOf[c]] # "unborn"
    /\ Running(HostOf[c]) => stage[c] = "spawned" /\ lease[c][1] = child[c]

(* Two children never share a device, even after their server died.        *)
DistinctChildren ==
  \A c, d \in Custody : child[c] # None /\ child[c] = child[d] => c = d

IInv ==
  /\ TypeOK
  /\ CustodyOwns
  /\ DistinctDevices
  /\ ChildRecorded
  /\ DistinctChildren

-----------------------------------------------------------------------------
LEMMA InitInv == Init => IInv
  BY CustodyAssumption
  DEF Init, RegistryInit, IInv, TypeOK, LeaseTypeOK, Stages, CustodyOwns,
      DistinctDevices, ChildRecorded, DistinctChildren

(* A live child on the device of a running custody is that custody's own.  *)
LEMMA ChildOfCustody ==
  ASSUME IInv, NEW c \in Custody, stage[c] # "none",
         NEW d \in Custody, child[d] = lease[c][1]
  PROVE  c = d /\ stage[c] = "spawned"
<1>1. /\ lease[c][1] \in Resource
      /\ Running(HostOf[c])
      /\ rec[lease[c][1]].owner = HostOf[c]
  BY DEF IInv, CustodyOwns, Owns
<1>2. child[d] # None
  BY <1>1, CustodyAssumption
<1>3. stage[d] = "spawned" /\ lease[d][1] = child[d]
  BY <1>1, <1>2 DEF IInv, ChildRecorded
<1> QED
  BY <1>3 DEF IInv, DistinctDevices

-----------------------------------------------------------------------------
(* Steps of processes *)

LEMMA StartInv ==
  ASSUME IInv, NEW p \in Proc, StartServer(p)
  PROVE  IInv'
<1>1. /\ UNCHANGED <<rec, held, receipts, tickets, issued, stage, lease, child>>
      /\ life[p] = "unborn"
      /\ life' = [life EXCEPT ![p] = "running"]
  BY DEF StartServer, Start, custodyVars
<1>2. TypeOK'
  BY <1>1 DEF IInv, TypeOK, LeaseTypeOK
<1>3. \A q \in Proc : Running(q) => Running(q)'
  BY <1>1 DEF IInv, TypeOK, LeaseTypeOK, Running
<1>4. CustodyOwns'
  <2> SUFFICES ASSUME NEW c \in Custody, stage[c] # "none"
               PROVE  /\ lease[c] \in Resource \X Nonce
                      /\ Owns(HostOf[c], lease[c][1], lease[c][2])'
                      /\ stage[c] \in {"prepared", "spawned"} => rec[lease[c][1]].pending
    BY <1>1 DEF CustodyOwns
  <2>1. /\ lease[c] \in Resource \X Nonce
        /\ Owns(HostOf[c], lease[c][1], lease[c][2])
        /\ stage[c] \in {"prepared", "spawned"} => rec[lease[c][1]].pending
    BY DEF IInv, CustodyOwns
  <2> QED
    BY <1>1, <1>3, <2>1, CustodyAssumption DEF Owns
<1>5. ChildRecorded'
  <2> SUFFICES ASSUME NEW c \in Custody, child[c] # None
               PROVE  /\ rec[child[c]] # NoRecord
                      /\ rec[child[c]].owner = HostOf[c]
                      /\ rec[child[c]].pending
                      /\ life'[HostOf[c]] # "unborn"
                      /\ Running(HostOf[c])' =>
                           stage[c] = "spawned" /\ lease[c][1] = child[c]
    BY <1>1 DEF ChildRecorded
  <2>1. /\ life[HostOf[c]] # "unborn"
        /\ HostOf[c] # p
        /\ HostOf[c] \in Proc
    BY <1>1, CustodyAssumption DEF IInv, ChildRecorded
  <2>2. life'[HostOf[c]] = life[HostOf[c]]
    BY <1>1, <2>1 DEF IInv, TypeOK, LeaseTypeOK
  <2> QED
    BY <2>1, <2>2 DEF IInv, ChildRecorded, Running
<1> QED
  BY <1>1, <1>2, <1>4, <1>5 DEF IInv, DistinctDevices, DistinctChildren

LEMMA EndInv ==
  ASSUME IInv, NEW p \in Proc, EndServer(p)
  PROVE  IInv'
<1>1. /\ UNCHANGED <<rec, issued, child>>
      /\ life' = [life EXCEPT ![p] = "dead"]
      /\ stage' = [c \in Custody |-> IF HostOf[c] = p THEN "none" ELSE stage[c]]
      /\ lease' = [c \in Custody |-> IF HostOf[c] = p THEN None ELSE lease[c]]
      /\ \A q \in Proc : q # p => held'[q] = held[q] /\ life'[q] = life[q]
      /\ life'[p] = "dead"
  BY DEF EndServer, End, IInv, TypeOK, LeaseTypeOK
<1>2. TypeOK'
  BY <1>1 DEF IInv, TypeOK, LeaseTypeOK, Stages, EndServer, End
<1>3. \A c \in Custody : stage'[c] # "none" =>
        /\ stage'[c] = stage[c]
        /\ lease'[c] = lease[c]
        /\ HostOf[c] # p
  BY <1>1
<1>4. CustodyOwns'
  <2> SUFFICES ASSUME NEW c \in Custody, stage'[c] # "none"
               PROVE  /\ lease'[c] \in Resource \X Nonce
                      /\ Owns(HostOf[c], lease[c][1], lease[c][2])'
                      /\ stage'[c] \in {"prepared", "spawned"} =>
                           rec'[lease'[c][1]].pending
    BY DEF CustodyOwns
  <2>1. /\ lease[c] \in Resource \X Nonce
        /\ Owns(HostOf[c], lease[c][1], lease[c][2])
        /\ stage[c] \in {"prepared", "spawned"} => rec[lease[c][1]].pending
    BY <1>3 DEF IInv, CustodyOwns
  <2>2. HostOf[c] \in Proc
    BY CustodyAssumption
  <2> QED
    BY <1>1, <1>3, <2>1, <2>2 DEF Owns, Running
<1>5. DistinctDevices'
  BY <1>3 DEF IInv, DistinctDevices
<1>6. ChildRecorded'
  <2> SUFFICES ASSUME NEW c \in Custody, child[c] # None
               PROVE  /\ rec[child[c]] # NoRecord
                      /\ rec[child[c]].owner = HostOf[c]
                      /\ rec[child[c]].pending
                      /\ life'[HostOf[c]] # "unborn"
                      /\ Running(HostOf[c])' =>
                           stage'[c] = "spawned" /\ lease'[c][1] = child[c]
    BY <1>1 DEF ChildRecorded
  <2>1. HostOf[c] \in Proc
    BY CustodyAssumption
  <2> QED
    BY <1>1, <2>1 DEF IInv, ChildRecorded, Running
<1> QED
  BY <1>1, <1>2, <1>4, <1>5, <1>6 DEF IInv, DistinctChildren

LEMMA ChildExitsInv ==
  ASSUME IInv, NEW c \in Custody, ChildExits(c)
  PROVE  IInv'
<1>1. /\ UNCHANGED <<life, rec, held, receipts, tickets, issued, stage, lease>>
      /\ child' = [child EXCEPT ![c] = None]
  BY DEF ChildExits, regVars
<1>2. TypeOK'
  BY <1>1 DEF IInv, TypeOK, LeaseTypeOK
<1>3. \A d \in Custody : child'[d] # None => child'[d] = child[d]
  BY <1>1 DEF IInv, TypeOK
<1>4. CustodyOwns' /\ DistinctDevices'
  BY <1>1 DEF IInv, CustodyOwns, DistinctDevices, Owns, Running
<1>5. ChildRecorded' /\ DistinctChildren'
  BY <1>1, <1>3 DEF IInv, ChildRecorded, DistinctChildren, Running
<1> QED
  BY <1>2, <1>4, <1>5 DEF IInv

-----------------------------------------------------------------------------
(* Steps of custodies *)

(* What a custody c may change without disturbing the others: its stage,   *)
(* its lease, its child, and the record of its own device.                 *)
LocalChange(c, r) ==
  /\ life' = life
  /\ \A d \in Custody : d # c => /\ stage'[d] = stage[d]
                               /\ lease'[d] = lease[d]
                               /\ child'[d] = child[d]
  /\ \A q \in Resource : q # r => rec'[q] = rec[q]
  /\ \A p \in Proc, q \in Resource, n \in Nonce :
       q # r /\ <<q, n>> \in held[p] => <<q, n>> \in held'[p]

(* It is enough that no other custody or child is on that device and that  *)
(* c itself is left in order.                                              *)
LEMMA LocalStep ==
  ASSUME IInv, TypeOK', NEW c \in Custody, NEW r \in Resource, LocalChange(c, r),
         \A d \in Custody : d # c => /\ stage[d] # "none" => lease[d][1] # r
                                 /\ child[d] # r,
         stage'[c] # "none" =>
           /\ lease'[c] \in Resource \X Nonce
           /\ lease'[c][1] = r
           /\ Owns(HostOf[c], lease[c][1], lease[c][2])'
           /\ stage'[c] \in {"prepared", "spawned"} => rec'[r].pending,
         child'[c] # None =>
           /\ child'[c] = r
           /\ stage'[c] = "spawned"
  PROVE  IInv'
<1> USE DEF LocalChange
<1>1. ASSUME NEW d \in Custody, d # c, stage'[d] # "none"
      PROVE  /\ lease'[d] \in Resource \X Nonce
             /\ lease'[d][1] # r
             /\ Owns(HostOf[d], lease[d][1], lease[d][2])'
             /\ stage'[d] \in {"prepared", "spawned"} => rec'[lease'[d][1]].pending
  <2>1. /\ lease[d] \in Resource \X Nonce
        /\ Owns(HostOf[d], lease[d][1], lease[d][2])
        /\ stage[d] \in {"prepared", "spawned"} => rec[lease[d][1]].pending
        /\ lease[d][1] # r
        /\ HostOf[d] \in Proc
    BY <1>1, CustodyAssumption DEF IInv, CustodyOwns
  <2>2. /\ rec'[lease[d][1]] = rec[lease[d][1]]
        /\ <<lease[d][1], lease[d][2]>> \in held'[HostOf[d]]
    BY <2>1 DEF Owns
  <2> QED
    BY <1>1, <2>1, <2>2 DEF Owns, Running
<1>2. CustodyOwns'
  BY <1>1 DEF CustodyOwns
<1>3. DistinctDevices'
  <2> SUFFICES ASSUME NEW d \in Custody, NEW e \in Custody, stage'[d] # "none",
                      stage'[e] # "none", lease'[d][1] = lease'[e][1], d # e
               PROVE  FALSE
    BY DEF DistinctDevices
  <2>1. CASE d = c \/ e = c
    BY <1>1, <2>1
  <2>2. CASE d # c /\ e # c
    BY <2>2 DEF IInv, DistinctDevices
  <2> QED
    BY <2>1, <2>2
<1>4. ASSUME NEW d \in Custody, child'[d] # None
      PROVE  /\ rec'[child'[d]] # NoRecord
             /\ rec'[child'[d]].owner = HostOf[d]
             /\ rec'[child'[d]].pending
             /\ life'[HostOf[d]] # "unborn"
             /\ Running(HostOf[d])' => stage'[d] = "spawned" /\ lease'[d][1] = child'[d]
  <2>1. CASE d = c
    BY <1>4, <2>1 DEF Owns, Running
  <2>2. CASE d # c
    <3>1. /\ child[d] \in Resource /\ child[d] # r
          /\ child'[d] = child[d]
      BY <1>4, <2>2 DEF IInv, TypeOK
    <3>2. rec'[child[d]] = rec[child[d]]
      BY <3>1
    <3> QED
      BY <1>4, <2>2, <3>1, <3>2 DEF IInv, ChildRecorded, Running
  <2> QED
    BY <2>1, <2>2
<1>5. ChildRecorded'
  BY <1>4 DEF ChildRecorded
<1>6. DistinctChildren'
  <2> SUFFICES ASSUME NEW d \in Custody, NEW e \in Custody, child'[d] # None,
                      child'[d] = child'[e], d # e
               PROVE  FALSE
    BY DEF DistinctChildren
  <2>1. CASE d = c \/ e = c
    BY <2>1
  <2>2. CASE d # c /\ e # c
    BY <2>2 DEF IInv, DistinctChildren
  <2> QED
    BY <2>1, <2>2
<1> QED
  BY <1>2, <1>3, <1>5, <1>6 DEF IInv

LEMMA TakeInv ==
  ASSUME IInv, NEW c \in Custody, NEW r \in Resource,
         AcquireCustody(c, r) \/ Reserve(c, r)
  PROVE  IInv'
<1>1. PICK s \in {"held", "reserved"} : Take(c, r, s)
  BY DEF AcquireCustody, Reserve
<1>2. HostOf[c] \in Proc
  BY CustodyAssumption
<1>3. PICK n \in Nonce :
        /\ rec' = [rec EXCEPT ![r] = [owner |-> HostOf[c], nonce |-> n, pending |-> FALSE]]
        /\ held' = [held EXCEPT ![HostOf[c]] = @ \cup {<<r, n>>}]
        /\ issued' = issued \cup {n}
        /\ UNCHANGED <<life, receipts, tickets, child>>
        /\ stage[c] = "none" /\ child[c] = None
        /\ Running(HostOf[c])
        /\ Reclaimable(r)
        /\ stage' = [stage EXCEPT ![c] = s]
        /\ lease' = [lease EXCEPT ![c] = <<r, rec'[r].nonce>>]
  BY <1>1 DEF Take, Acquire, Goto
<1>4. /\ rec'[r] = [owner |-> HostOf[c], nonce |-> n, pending |-> FALSE]
      /\ lease' = [lease EXCEPT ![c] = <<r, n>>]
  BY <1>3 DEF IInv, TypeOK, LeaseTypeOK
<1>5. [owner |-> HostOf[c], nonce |-> n, pending |-> FALSE] \in Record
  BY <1>2 DEF Record
<1>6. TypeOK'
  <2>1. rec' \in [Resource -> Record \cup {NoRecord}]
    BY <1>3, <1>5 DEF IInv, TypeOK, LeaseTypeOK
  <2>2. held' \in [Proc -> SUBSET (Resource \X Nonce)]
    BY <1>2, <1>3 DEF IInv, TypeOK, LeaseTypeOK
  <2>3. lease' \in [Custody -> (Resource \X Nonce) \cup {None}]
    BY <1>4 DEF IInv, TypeOK
  <2>4. stage' \in [Custody -> Stages]
    BY <1>3 DEF IInv, TypeOK, Stages
  <2> QED
    BY <1>3, <2>1, <2>2, <2>3, <2>4 DEF IInv, TypeOK, LeaseTypeOK
<1>7. ASSUME NEW d \in Custody, d # c
      PROVE  (stage[d] # "none" => lease[d][1] # r) /\ child[d] # r
  <2>1. stage[d] # "none" => lease[d][1] # r
    BY <1>3 DEF IInv, CustodyOwns, Owns, Reclaimable, Running
  <2>2. child[d] # r
    BY <1>3, CustodyAssumption DEF IInv, ChildRecorded, Reclaimable
  <2> QED
    BY <2>1, <2>2
<1>8. LocalChange(c, r)
  BY <1>2, <1>3, <1>4 DEF LocalChange, IInv, TypeOK, LeaseTypeOK
<1>9. /\ lease'[c] = <<r, n>>
      /\ stage'[c] \in {"held", "reserved"}
      /\ child'[c] = None
      /\ <<r, n>> \in held'[HostOf[c]]
  BY <1>2, <1>3, <1>4 DEF IInv, TypeOK, LeaseTypeOK
<1>10. rec'[r] # NoRecord
  BY <1>4, <1>5, RegistryAssumption
<1>11. Owns(HostOf[c], lease[c][1], lease[c][2])'
  BY <1>3, <1>4, <1>9, <1>10 DEF Owns, Running
<1> QED
  BY <1>6, <1>7, <1>8, <1>9, <1>11, LocalStep

(* What a custody that was taken knows about its device.                   *)
LEMMA Taken ==
  ASSUME IInv, NEW c \in Custody, stage[c] # "none"
  PROVE  /\ HostOf[c] \in Proc
         /\ lease[c] = <<lease[c][1], lease[c][2]>>
         /\ lease[c][1] \in Resource
         /\ lease[c][2] \in Nonce
         /\ Owns(HostOf[c], lease[c][1], lease[c][2])
         /\ stage[c] \in {"prepared", "spawned"} => rec[lease[c][1]].pending
         /\ \A d \in Custody : d # c => /\ stage[d] # "none" => lease[d][1] # lease[c][1]
                                     /\ child[d] # lease[c][1]
         /\ child[c] # None => child[c] = lease[c][1] /\ stage[c] = "spawned"
<1>1. /\ HostOf[c] \in Proc
      /\ lease[c] \in Resource \X Nonce
      /\ Owns(HostOf[c], lease[c][1], lease[c][2])
      /\ stage[c] \in {"prepared", "spawned"} => rec[lease[c][1]].pending
  BY CustodyAssumption DEF IInv, CustodyOwns
<1>2. \A d \in Custody : d # c => /\ stage[d] # "none" => lease[d][1] # lease[c][1]
                              /\ child[d] # lease[c][1]
  BY ChildOfCustody DEF IInv, DistinctDevices
<1>3. child[c] # None => child[c] = lease[c][1] /\ stage[c] = "spawned"
  BY <1>1 DEF IInv, ChildRecorded, Owns
<1> QED
  BY <1>1, <1>2, <1>3

LEMMA MarkInv ==
  ASSUME IInv, NEW c \in Custody, PrepareSpawn(c) \/ CancelCustody(c)
  PROVE  IInv'
<1> DEFINE r == lease[c][1]
           n == lease[c][2]
<1>1. PICK b \in BOOLEAN, s \in {"prepared", "releasing"} :
        /\ rec' = [rec EXCEPT ![r] = [owner |-> HostOf[c], nonce |-> n, pending |-> b]]
        /\ UNCHANGED <<life, held, receipts, tickets, issued, lease, child>>
        /\ stage[c] \in {"held", "prepared", "releasing"}
        /\ stage' = [stage EXCEPT ![c] = s]
        /\ s = "prepared" => b
        /\ s = "prepared" => stage[c] = "held"
  BY DEF PrepareSpawn, CancelCustody, BeginHandoff, CancelHandoff, Goto, memory
<1>2. /\ stage[c] # "none" /\ stage[c] # "spawned"
      /\ HostOf[c] \in Proc /\ lease[c] = <<r, n>> /\ r \in Resource /\ n \in Nonce
      /\ Owns(HostOf[c], r, n)
      /\ child[c] = None
  BY <1>1, Taken
<1>3. [owner |-> HostOf[c], nonce |-> n, pending |-> b] \in Record
  BY <1>2 DEF Record
<1>4. /\ rec'[r] = [owner |-> HostOf[c], nonce |-> n, pending |-> b]
      /\ rec'[r] # NoRecord
      /\ stage'[c] = s
  BY <1>1, <1>2, <1>3, RegistryAssumption DEF IInv, TypeOK, LeaseTypeOK
<1>5. TypeOK'
  BY <1>1, <1>2, <1>3 DEF IInv, TypeOK, LeaseTypeOK, Stages
<1>6. LocalChange(c, r)
  BY <1>1, <1>2 DEF LocalChange, IInv, TypeOK, LeaseTypeOK
<1>7. Owns(HostOf[c], lease[c][1], lease[c][2])'
  BY <1>1, <1>2, <1>4 DEF Owns, Running
<1>8. \A d \in Custody : d # c => (stage[d] # "none" => lease[d][1] # r) /\ child[d] # r
  BY <1>2, Taken
<1> HIDE DEF r, n
<1>9. lease'[c] \in Resource \X Nonce /\ lease'[c][1] = r /\ child'[c] = None
  BY <1>1, <1>2
<1> QED
  BY <1>1, <1>2, <1>4, <1>5, <1>6, <1>7, <1>8, <1>9, LocalStep

LEMMA ReleaseInv ==
  ASSUME IInv, NEW c \in Custody, ReleaseCustody(c) \/ ReleasePort(c)
  PROVE  IInv'
<1> DEFINE r == lease[c][1]
           n == lease[c][2]
<1>1. /\ rec' = [rec EXCEPT ![r] = NoRecord]
      /\ held' = [held EXCEPT ![HostOf[c]] = @ \ {<<r, n>>}]
      /\ UNCHANGED <<life, receipts, tickets, issued, child>>
      /\ stage[c] \in {"releasing", "reserved"}
      /\ stage' = [stage EXCEPT ![c] = "none"]
      /\ lease' = [lease EXCEPT ![c] = None]
  BY DEF ReleaseCustody, ReleasePort, Release, Goto
<1>2. /\ HostOf[c] \in Proc /\ r \in Resource
      /\ child[c] = None
      /\ \A d \in Custody : d # c => (stage[d] # "none" => lease[d][1] # r) /\ child[d] # r
  BY <1>1, Taken
<1>3. TypeOK'
  BY <1>1, <1>2 DEF IInv, TypeOK, LeaseTypeOK, Stages
<1>4. LocalChange(c, r)
  BY <1>1, <1>2 DEF LocalChange, IInv, TypeOK, LeaseTypeOK
<1>5. stage'[c] = "none" /\ child'[c] = None
  BY <1>1, <1>2 DEF IInv, TypeOK
<1> HIDE DEF r, n
<1> QED
  BY <1>2, <1>3, <1>4, <1>5, LocalStep

LEMMA MoveInv ==
  ASSUME IInv, NEW c \in Custody,
         Spawn(c) \/ ConfirmExit(c) \/ OpenPort(c) \/ ClosePort(c)
  PROVE  IInv'
<1> DEFINE r == lease[c][1]
           n == lease[c][2]
<1>1. PICK s \in {"prepared", "spawned", "open", "reserved"}, k \in {None, r} :
        /\ UNCHANGED <<life, rec, held, receipts, tickets, issued, lease>>
        /\ stage[c] # "none"
        /\ s \in {"prepared", "spawned"} => stage[c] \in {"prepared", "spawned"}
        /\ s # "spawned" => k = None
        /\ stage' = [stage EXCEPT ![c] = s]
        /\ child' = [child EXCEPT ![c] = k]
  <2>1. CASE Spawn(c)
    BY <2>1 DEF Spawn, Goto, regVars
  <2>2. CASE ConfirmExit(c) \/ OpenPort(c) \/ ClosePort(c)
    <3>1. stage[c] # "none" /\ child[c] = None
      BY <2>2, Taken DEF ConfirmExit, OpenPort, ClosePort
    <3>2. child' = [child EXCEPT ![c] = None]
      BY <2>2, <3>1 DEF ConfirmExit, OpenPort, ClosePort, IInv, TypeOK
    <3> QED
      BY <2>2, <3>1, <3>2 DEF ConfirmExit, OpenPort, ClosePort, Goto, regVars
  <2> QED
    BY <2>1, <2>2
<1>2. /\ HostOf[c] \in Proc /\ lease[c] = <<r, n>> /\ r \in Resource /\ n \in Nonce
      /\ Owns(HostOf[c], r, n)
      /\ stage[c] \in {"prepared", "spawned"} => rec[r].pending
      /\ \A d \in Custody : d # c => (stage[d] # "none" => lease[d][1] # r) /\ child[d] # r
  BY <1>1, Taken
<1>3. TypeOK'
  BY <1>1, <1>2 DEF IInv, TypeOK, LeaseTypeOK, Stages
<1>4. LocalChange(c, r)
  BY <1>1, <1>2 DEF LocalChange, IInv, TypeOK
<1>5. /\ stage'[c] = s /\ child'[c] = k
      /\ Owns(HostOf[c], lease[c][1], lease[c][2])'
  BY <1>1, <1>2 DEF IInv, TypeOK, Owns, Running
<1>6. lease'[c] \in Resource \X Nonce /\ lease'[c][1] = r
  BY <1>1, <1>2
<1> HIDE DEF r, n
<1> QED
  BY <1>1, <1>2, <1>3, <1>4, <1>5, <1>6, LocalStep

-----------------------------------------------------------------------------
(* Theorems *)

(* The invariant: holds at the start and is preserved by every step.       *)
THEOREM CustodyInvariance == Spec => []IInv
<1>1. IInv /\ [Next]_vars => IInv'
  <2> SUFFICES ASSUME IInv, [Next]_vars PROVE IInv'
    OBVIOUS
  <2>1. CASE UNCHANGED vars
    BY <2>1 DEF vars, IInv, TypeOK, LeaseTypeOK, CustodyOwns, DistinctDevices,
                ChildRecorded, DistinctChildren, Owns, Running
  <2>2. ASSUME NEW c \in Custody, Step(c) PROVE IInv'
    BY <2>2, TakeInv, MarkInv, ReleaseInv, MoveInv DEF Step
  <2> QED
    BY <2>1, <2>2, StartInv, EndInv, ChildExitsInv DEF Next
<1> QED
  BY <1>1, InitInv, PTL DEF Spec

(* Every variable keeps its type.                                          *)
THEOREM CustodyTypeCorrect == Spec => []TypeOK
<1>1. IInv => TypeOK
  BY DEF IInv
<1> QED
  BY <1>1, CustodyInvariance, PTL

(* A device in use has a record that names its user and, for a child, that *)
(* no crash can free (prepareSpawn before spawn).                          *)
LEMMA UseFromInv == IInv => UseIsRecorded
<1> SUFFICES ASSUME IInv, NEW c \in Custody, NEW r \in Resource, Uses(c, r)
             PROVE  /\ rec[r] # NoRecord
                    /\ rec[r].owner = HostOf[c]
                    /\ child[c] = r => rec[r].pending
  BY DEF UseIsRecorded
<1>1. CASE child[c] = r
  BY <1>1, CustodyAssumption DEF IInv, ChildRecorded
<1>2. CASE child[c] # r
  BY <1>2, Taken DEF Uses, Owns
<1> QED
  BY <1>1, <1>2

THEOREM RecordedUse == Spec => []UseIsRecorded
  BY UseFromInv, CustodyInvariance, PTL

(* At most one port or child is on a device at any time, for any number of *)
(* servers, custodies, crashes and reused process ids.                     *)
THEOREM Exclusion == Spec => []ExclusiveUse
<1>1. IInv => ExclusiveUse
  <2> SUFFICES ASSUME IInv, NEW c \in Custody, NEW d \in Custody, NEW r \in Resource,
                      Uses(c, r), Uses(d, r)
               PROVE  c = d
    BY DEF ExclusiveUse
  <2>1. r # None
    BY CustodyAssumption
  <2>2. CASE child[c] = r /\ child[d] = r
    BY <2>1, <2>2 DEF IInv, DistinctChildren
  <2>3. CASE stage[c] = "open" /\ lease[c][1] = r
    BY <2>3, Taken DEF Uses
  <2>4. CASE stage[d] = "open" /\ lease[d][1] = r
    BY <2>4, Taken DEF Uses
  <2> QED
    BY <2>2, <2>3, <2>4 DEF Uses
<1> QED
  BY <1>1, CustodyInvariance, PTL

(* A device leaves its owner only when that owner's custodies do not use   *)
(* it.                                                                     *)
THEOREM IdleTransfer == Spec => OwnerChangesWhenIdle
<1> DEFINE A == \A r \in Resource :
                  (rec[r] # NoRecord /\ (rec'[r] = NoRecord \/ rec'[r].owner # rec[r].owner))
                    => \A c \in Custody : HostOf[c] = rec[r].owner => ~Uses(c, r)
<1>1. IInv /\ [Next]_vars => [A]_vars
  <2> SUFFICES ASSUME IInv, Next, NEW r \in Resource, rec[r] # NoRecord,
                      rec'[r] = NoRecord \/ rec'[r].owner # rec[r].owner,
                      NEW d \in Custody, Uses(d, r)
               PROVE  FALSE
    OBVIOUS
  <2>1. PICK c \in Custody : Step(c)
    BY DEF Next, StartServer, EndServer, ChildExits, Start, End, regVars
  <2>2. ASSUME NEW q \in Resource, AcquireCustody(c, q) \/ Reserve(c, q)
        PROVE  FALSE
    <3>1. q = r /\ Reclaimable(r)
      BY <2>2 DEF AcquireCustody, Reserve, Take, Acquire, IInv, TypeOK, LeaseTypeOK
    <3>2. CASE child[d] = r
      BY <3>1, <3>2, CustodyAssumption DEF IInv, ChildRecorded, Reclaimable
    <3>3. CASE child[d] # r
      BY ZenonT(60), <3>1, <3>3, Taken DEF Uses, Owns, Reclaimable, Running
    <3> QED
      BY <3>2, <3>3
  <2>3. CASE PrepareSpawn(c) \/ CancelCustody(c)
    <3>1. /\ stage[c] # "none"
          /\ Owns(HostOf[c], lease[c][1], lease[c][2])
          /\ HostOf[c] \in Proc /\ lease[c][2] \in Nonce /\ lease[c][1] \in Resource
      BY <2>3, Taken DEF PrepareSpawn, CancelCustody
    <3>2. PICK b \in BOOLEAN : rec' = [rec EXCEPT ![lease[c][1]] =
             [owner |-> HostOf[c], nonce |-> lease[c][2], pending |-> b]]
      BY <2>3 DEF PrepareSpawn, CancelCustody, BeginHandoff, CancelHandoff
    <3>3. [owner |-> HostOf[c], nonce |-> lease[c][2], pending |-> b] # NoRecord
      BY <3>1, RegistryAssumption DEF Record
    <3> QED
      BY <3>1, <3>2, <3>3 DEF Owns, IInv, TypeOK, LeaseTypeOK
  <2>4. CASE ReleaseCustody(c) \/ ReleasePort(c)
    <3>1. /\ stage[c] \in {"releasing", "reserved"}
          /\ rec' = [rec EXCEPT ![lease[c][1]] = NoRecord]
      BY <2>4 DEF ReleaseCustody, ReleasePort, Release
    <3>2. lease[c][1] = r
      BY <3>1 DEF IInv, TypeOK, LeaseTypeOK
    <3>3. d = c \/ (child[d] # r /\ (stage[d] # "none" => lease[d][1] # r))
      BY <3>1, <3>2, Taken
    <3>4. child[c] = None
      BY <3>1, Taken
    <3> QED
      BY <3>1, <3>3, <3>4, CustodyAssumption DEF Uses
  <2>5. CASE Spawn(c) \/ ConfirmExit(c) \/ OpenPort(c) \/ ClosePort(c)
    BY <2>5 DEF Spawn, ConfirmExit, OpenPort, ClosePort, regVars
  <2> QED
    BY <2>1, <2>2, <2>3, <2>4, <2>5 DEF Step
<1> QED
  BY <1>1, CustodyInvariance, PTL DEF Spec, OwnerChangesWhenIdle

-----------------------------------------------------------------------------
(* What a dying server leaves *)

(* The custody c will cancel the handoff that the record of r has.         *)
HandsOver(c, r) ==
  /\ HostOf[c] = rec[r].owner
  /\ lease[c] = <<r, rec[r].nonce>>
  /\ stage[c] \in {"prepared", "spawned"}

(* While its owner runs, a pending record has a custody that knows of it.  *)
PendingKnown ==
  \A r \in Resource : rec[r] # NoRecord =>
    /\ rec[r].owner \in Proc /\ life[rec[r].owner] # "unborn"
    /\ rec[r].pending /\ Running(rec[r].owner) => \E c \in Custody : HandsOver(c, r)

(* A step of a custody c keeps that, if it leaves every record but that of *)
(* its own device q alone.                                                 *)
LEMMA KnownLocally ==
  ASSUME IInv, PendingKnown, NEW c \in Custody, NEW q \in Resource, LocalChange(c, q),
         stage[c] # "none" => lease[c][1] = q,
         rec'[q] # NoRecord =>
           /\ rec'[q].owner \in Proc /\ Running(rec[q].owner)'
           /\ rec'[q].pending => \E d \in Custody : HandsOver(d, q)'
  PROVE  PendingKnown'
<1> SUFFICES ASSUME NEW r \in Resource, rec'[r] # NoRecord
             PROVE  /\ rec'[r].owner \in Proc /\ life'[rec'[r].owner] # "unborn"
                    /\ rec'[r].pending /\ Running(rec[r].owner)' => \E d \in Custody : HandsOver(d, r)'
  BY DEF PendingKnown
<1>1. CASE r = q
  BY <1>1 DEF LocalChange, Running
<1>2. CASE r # q
  <2>1. rec'[r] = rec[r] /\ life' = life
    BY <1>2 DEF LocalChange
  <2>2. ASSUME rec[r].pending, Running(rec[r].owner) PROVE \E d \in Custody : HandsOver(d, r)'
    <3>1. PICK d \in Custody : HandsOver(d, r)
      BY <2>1, <2>2 DEF PendingKnown
    <3>2. d # c
      BY <1>2, <3>1 DEF HandsOver
    <3> QED BY <2>1, <3>1, <3>2 DEF HandsOver, LocalChange
  <2> QED BY <2>1, <2>2 DEF PendingKnown, Running
<1> QED BY <1>1, <1>2

LEMMA TakeKnown ==
  ASSUME IInv, PendingKnown, NEW c \in Custody, NEW r \in Resource,
         AcquireCustody(c, r) \/ Reserve(c, r)
  PROVE  PendingKnown'
<1>1. PICK s \in {"held", "reserved"} : Take(c, r, s)
  BY DEF AcquireCustody, Reserve
<1>2. HostOf[c] \in Proc
  BY CustodyAssumption
<1>3. PICK n \in Nonce :
        /\ rec' = [rec EXCEPT ![r] = [owner |-> HostOf[c], nonce |-> n, pending |-> FALSE]]
        /\ held' = [held EXCEPT ![HostOf[c]] = @ \cup {<<r, n>>}]
        /\ UNCHANGED <<life, child>>
        /\ stage[c] = "none"
        /\ Running(HostOf[c])
        /\ stage' = [stage EXCEPT ![c] = s]
        /\ lease' = [lease EXCEPT ![c] = <<r, rec'[r].nonce>>]
  BY <1>1 DEF Take, Acquire, Goto
<1>4. rec'[r] = [owner |-> HostOf[c], nonce |-> n, pending |-> FALSE]
  BY <1>3 DEF IInv, TypeOK, LeaseTypeOK
<1>5. LocalChange(c, r)
  BY <1>2, <1>3 DEF LocalChange, IInv, TypeOK, LeaseTypeOK
<1> QED BY <1>2, <1>3, <1>4, <1>5, KnownLocally DEF Running

LEMMA MarkKnown ==
  ASSUME IInv, PendingKnown, NEW c \in Custody, PrepareSpawn(c) \/ CancelCustody(c)
  PROVE  PendingKnown'
<1>1. stage[c] # "none"
  BY DEF PrepareSpawn, CancelCustody
<1>2. PICK r \in Resource, n \in Nonce : lease[c] = <<r, n>> /\ Owns(HostOf[c], r, n)
  BY <1>1, Taken
<1>3. PICK b \in BOOLEAN, s \in {"prepared", "releasing"} :
        /\ rec' = [rec EXCEPT ![r] = [owner |-> HostOf[c], nonce |-> n, pending |-> b]]
        /\ UNCHANGED <<life, held, lease, child>>
        /\ stage' = [stage EXCEPT ![c] = s]
        /\ b => s = "prepared"
  <2>1. lease[c][1] = r /\ lease[c][2] = n
    BY <1>2
  <2>2. CASE PrepareSpawn(c)
    BY <2>1, <2>2 DEF PrepareSpawn, BeginHandoff, Goto, memory
  <2>3. CASE CancelCustody(c)
    BY <2>1, <2>3 DEF CancelCustody, CancelHandoff, Goto, memory
  <2> QED BY <2>2, <2>3
<1>4. HostOf[c] \in Proc /\ Running(HostOf[c])
  BY <1>2, CustodyAssumption DEF Owns
<1>5. /\ rec'[r] = [owner |-> HostOf[c], nonce |-> n, pending |-> b]
      /\ stage'[c] = s /\ lease'[c] = <<r, n>>
  BY <1>2, <1>3 DEF IInv, TypeOK, LeaseTypeOK
<1>6. LocalChange(c, r)
  BY <1>3 DEF LocalChange, IInv, TypeOK, LeaseTypeOK
<1>7. b => HandsOver(c, r)'
  BY <1>3, <1>5 DEF HandsOver
<1>8. rec'[r].owner = HostOf[c] /\ rec'[r].pending = b /\ Running(rec[r].owner)'
  BY <1>3, <1>4, <1>5 DEF Running
<1> QED BY <1>2, <1>4, <1>6, <1>7, <1>8, KnownLocally

LEMMA ReleaseKnown ==
  ASSUME IInv, PendingKnown, NEW c \in Custody, ReleaseCustody(c) \/ ReleasePort(c)
  PROVE  PendingKnown'
<1> DEFINE r == lease[c][1]
           n == lease[c][2]
<1>1. /\ rec' = [rec EXCEPT ![r] = NoRecord]
      /\ held' = [held EXCEPT ![HostOf[c]] = @ \ {<<r, n>>}]
      /\ UNCHANGED <<life, child>>
      /\ stage[c] # "none"
      /\ stage' = [stage EXCEPT ![c] = "none"]
      /\ lease' = [lease EXCEPT ![c] = None]
  BY DEF ReleaseCustody, ReleasePort, Release, Goto
<1>2. HostOf[c] \in Proc /\ r \in Resource
  BY <1>1, Taken
<1>3. rec'[r] = NoRecord
  BY <1>1, <1>2 DEF IInv, TypeOK, LeaseTypeOK
<1>4. LocalChange(c, r)
  BY <1>1, <1>2 DEF LocalChange, IInv, TypeOK, LeaseTypeOK
<1> QED BY <1>2, <1>3, <1>4, KnownLocally

LEMMA MoveKnown ==
  ASSUME IInv, PendingKnown, NEW c \in Custody,
         Spawn(c) \/ ConfirmExit(c) \/ OpenPort(c) \/ ClosePort(c)
  PROVE  PendingKnown'
<1>1. /\ UNCHANGED <<life, rec, lease>>
      /\ \A d \in Custody : stage[d] \in {"prepared", "spawned"} => stage'[d] \in {"prepared", "spawned"}
  BY DEF Spawn, ConfirmExit, OpenPort, ClosePort, Goto, regVars, IInv, TypeOK
<1>2. \A d \in Custody, r \in Resource : HandsOver(d, r) => HandsOver(d, r)'
  BY <1>1 DEF HandsOver
<1> QED BY <1>1, <1>2 DEF PendingKnown, Running

LEMMA ProcessKnown ==
  ASSUME IInv, PendingKnown, NEW p \in Proc, StartServer(p) \/ EndServer(p)
  PROVE  PendingKnown'
<1>1. /\ UNCHANGED rec
      /\ life'[p] # "unborn"
      /\ \A q \in Proc \ {p} : life'[q] = life[q]
  BY DEF StartServer, EndServer, Start, End, IInv, TypeOK, LeaseTypeOK
<1> SUFFICES ASSUME NEW r \in Resource, rec[r] # NoRecord
             PROVE  /\ rec[r].owner \in Proc /\ life'[rec[r].owner] # "unborn"
                    /\ rec[r].pending /\ Running(rec[r].owner)' => \E c \in Custody : HandsOver(c, r)'
  BY <1>1 DEF PendingKnown
<1>2. rec[r].owner \in Proc /\ life[rec[r].owner] # "unborn"
  BY DEF PendingKnown
<1>3. ASSUME rec[r].pending, Running(rec[r].owner)' PROVE \E c \in Custody : HandsOver(c, r)'
  <2>1. rec[r].owner # p
    BY <1>2, <1>3 DEF StartServer, EndServer, Start, End, Running, IInv, TypeOK, LeaseTypeOK
  <2>2. PICK c \in Custody : HandsOver(c, r)
    BY <1>1, <1>2, <1>3, <2>1 DEF PendingKnown, Running
  <2>3. stage'[c] = stage[c] /\ lease'[c] = lease[c]
    BY <2>1, <2>2 DEF HandsOver, StartServer, EndServer, custodyVars
  <2> QED BY <1>1, <2>2, <2>3 DEF HandsOver
<1> QED BY <1>1, <1>2, <1>3

LEMMA KnownInvariance == Spec => []PendingKnown
<1>1. Init => PendingKnown
  BY DEF Init, RegistryInit, PendingKnown
<1>2. ASSUME IInv, PendingKnown, [Next]_vars PROVE PendingKnown'
  <2>1. CASE UNCHANGED vars
    BY <1>2, <2>1 DEF vars, PendingKnown, HandsOver, Running
  <2>2. ASSUME NEW c \in Custody, Step(c) PROVE PendingKnown'
    BY <1>2, <2>2, TakeKnown, MarkKnown, ReleaseKnown, MoveKnown DEF Step
  <2>3. ASSUME NEW c \in Custody, ChildExits(c) PROVE PendingKnown'
    BY <1>2, <2>3 DEF ChildExits, regVars, PendingKnown, HandsOver, Running
  <2> QED BY <1>2, <2>1, <2>2, <2>3, ProcessKnown DEF Next
<1> QED BY <1>1, <1>2, CustodyInvariance, PTL DEF Spec

(* A server that dies blocks only the devices on which one of its          *)
(* custodies had prepared a child: whatever cleanup was under way, or was  *)
(* refused and never tried again, the next server takes the device over.   *)
THEOREM DeathFrees == Spec => DeathFreesTheRest
<1> DEFINE A == \A p \in Proc, r \in Resource :
                  Running(p) /\ ~Running(p)' /\ rec[r] # NoRecord /\ rec[r].owner = p =>
                    \/ Reclaimable(r)'
                    \/ \E c \in Custody : /\ HostOf[c] = p /\ lease[c] = <<r, rec[r].nonce>>
                                         /\ stage[c] \in {"prepared", "spawned"}
<1>1. ASSUME IInv, PendingKnown, [Next]_vars PROVE [A]_vars
  <2> SUFFICES ASSUME Next, NEW p \in Proc, NEW r \in Resource,
                      Running(p), ~Running(p)', rec[r] # NoRecord, rec[r].owner = p
               PROVE  \/ Reclaimable(r)'
                      \/ \E c \in Custody : /\ HostOf[c] = p /\ lease[c] = <<r, rec[r].nonce>>
                                           /\ stage[c] \in {"prepared", "spawned"}
    BY <1>1
  <2>1. ASSUME NEW c \in Custody, Step(c) \/ ChildExits(c) PROVE FALSE
    <3>1. life' = life
      BY <2>1 DEF Step, ChildExits, PrepareSpawn, Spawn, ConfirmExit, CancelCustody, ReleaseCustody,
                  OpenPort, ClosePort, ReleasePort, AcquireCustody, Reserve, Take, Acquire,
                  BeginHandoff, CancelHandoff, Release, regVars
    <3> QED BY <3>1 DEF Running
  <2>2. PICK q \in Proc : StartServer(q) \/ EndServer(q)
    BY <2>1 DEF Next
  <2>3. EndServer(p)
    BY <1>1, <2>2 DEF StartServer, EndServer, Start, End, Running, IInv, TypeOK, LeaseTypeOK
  <2>4. rec' = rec /\ life'[p] = "dead"
    BY <1>1, <2>3 DEF EndServer, End, IInv, TypeOK, LeaseTypeOK
  <2>5. CASE rec[r].pending
    BY <1>1, <2>5 DEF PendingKnown, HandsOver
  <2>6. CASE ~rec[r].pending
    BY <2>4, <2>6 DEF Reclaimable
  <2> QED BY <2>5, <2>6
<1> QED BY <1>1, CustodyInvariance, KnownInvariance, PTL DEF Spec, DeathFreesTheRest

-----------------------------------------------------------------------------
(* The store that custodies use *)

(* Custodies use the store by its operations only, and only on leases they *)
(* have: what holds of every use of the store holds here.                  *)
THEOREM CustodiesUseRegistry == Spec => RegistrySpec
<1>1. Init => RegistryInit
  BY DEF Init
<1>2. ASSUME IInv, [Next]_vars PROVE [RegistryNext]_regVars
  <2>1. CASE UNCHANGED vars
    BY <2>1 DEF vars, regVars, memory
  <2>2. ASSUME NEW p \in Proc, StartServer(p) \/ EndServer(p)
        PROVE  RegistryNext
    BY <2>2 DEF StartServer, EndServer, RegistryNext
  <2>3. ASSUME NEW c \in Custody, ChildExits(c) PROVE UNCHANGED regVars
    BY <2>3 DEF ChildExits
  <2>4. ASSUME NEW c \in Custody, Step(c) PROVE [RegistryNext]_regVars
    <3>1. HostOf[c] \in Proc
      BY CustodyAssumption
    <3>2. CASE \E r \in Resource : AcquireCustody(c, r) \/ Reserve(c, r)
      BY <3>1, <3>2 DEF AcquireCustody, Reserve, Take, RegistryNext
    <3>3. CASE PrepareSpawn(c) \/ CancelCustody(c) \/ ReleaseCustody(c) \/ ReleasePort(c)
      <4>1. lease[c][1] \in Resource /\ lease[c][2] \in Nonce
        BY <1>2, <3>3 DEF PrepareSpawn, CancelCustody, ReleaseCustody, ReleasePort, IInv, CustodyOwns
      <4> QED
        BY <3>1, <3>3, <4>1
        DEF PrepareSpawn, CancelCustody, ReleaseCustody, ReleasePort, RegistryNext
    <3>4. CASE Spawn(c) \/ ConfirmExit(c) \/ OpenPort(c) \/ ClosePort(c)
      BY <3>4 DEF Spawn, ConfirmExit, OpenPort, ClosePort
    <3> QED BY <2>4, <3>2, <3>3, <3>4 DEF Step
  <2> QED BY <1>2, <2>1, <2>2, <2>3, <2>4 DEF Next
<1> QED BY <1>1, <1>2, CustodyInvariance, PTL DEF Spec, RegistrySpec

(* Every nonce in a memory was drawn, and none is both a handle and a      *)
(* ticket of one process: an adopted ticket becomes another handle.        *)
NoncesInv ==
  \A p \in Proc, r \in Resource, n \in Nonce :
    /\ <<r, n>> \in held[p] => n \in issued
    /\ <<r, n>> \in tickets[p] => n \in issued /\ <<r, n>> \notin held[p]

RegistryInv == LeaseTypeOK /\ HandlesAreCurrent /\ NoncesInv

(* What writing a record makes of the file.                                *)
LEMMA Written ==
  ASSUME LeaseTypeOK, NEW p \in Proc, NEW r \in Resource, NEW n \in Nonce, NEW b \in BOOLEAN,
         rec' = [rec EXCEPT ![r] = [owner |-> p, nonce |-> n, pending |-> b]]
  PROVE  /\ rec' \in [Resource -> Record \cup {NoRecord}]
         /\ rec'[r] # NoRecord /\ rec'[r].owner = p /\ rec'[r].nonce = n
         /\ \A q \in Resource \ {r} : rec'[q] = rec[q]
<1>1. [owner |-> p, nonce |-> n, pending |-> b] \in Record
  BY DEF Record
<1>2. rec'[r] = [owner |-> p, nonce |-> n, pending |-> b]
  BY DEF LeaseTypeOK
<1> QED BY <1>1, <1>2, RegistryAssumption DEF LeaseTypeOK

LEMMA RegistryStep == RegistryInv /\ [RegistryNext]_regVars => RegistryInv'
<1> SUFFICES ASSUME RegistryInv, [RegistryNext]_regVars PROVE RegistryInv'
  OBVIOUS
<1> USE DEF RegistryInv, LeaseTypeOK, HandlesAreCurrent, NoncesInv, Owns, Running
<1>1. ASSUME NEW p \in Proc, Start(p) PROVE RegistryInv'
  BY <1>1 DEF Start
<1>2. ASSUME NEW p \in Proc, End(p) PROVE RegistryInv'
  BY <1>2 DEF End
<1>3. ASSUME NEW p \in Proc, NEW r \in Resource, Acquire(p, r) PROVE RegistryInv'
  <2>1. PICK n \in Nonce \ issued :
          /\ rec' = [rec EXCEPT ![r] = [owner |-> p, nonce |-> n, pending |-> FALSE]]
          /\ held' = [held EXCEPT ![p] = @ \cup {<<r, n>>}]
          /\ issued' = issued \cup {n}
    BY <1>3 DEF Acquire
  <2>2. Running(p) /\ UNCHANGED <<life, receipts, tickets>>
    BY <1>3 DEF Acquire
  <2>3. \A q \in Proc, m \in Nonce : <<r, m>> \notin held[q]
    BY <1>3 DEF Acquire, Reclaimable
  <2>4. /\ rec' \in [Resource -> Record \cup {NoRecord}]
        /\ rec'[r] # NoRecord /\ rec'[r].owner = p /\ rec'[r].nonce = n
        /\ \A q \in Resource \ {r} : rec'[q] = rec[q]
    BY <2>1, Written
  <2>5. LeaseTypeOK'
    BY <2>1, <2>2, <2>4
  <2>6. ASSUME NEW q \in Proc, NEW s \in Resource, NEW k \in Nonce, <<s, k>> \in held'[q]
        PROVE  Owns(q, s, k)'
    <3>1. CASE <<s, k>> \in held[q]
      <4>1. s # r
        BY <2>3, <3>1
      <4>2. rec'[s] = rec[s] /\ Owns(q, s, k)
        BY <2>4, <3>1, <4>1
      <4> QED BY <2>2, <3>1, <4>2, <2>6
    <3>2. CASE <<s, k>> \notin held[q]
      <4>1. q = p /\ s = r /\ k = n
        BY <2>1, <2>6, <3>2
      <4> QED BY <2>2, <2>4, <2>6, <4>1
    <3> QED BY <3>1, <3>2
  <2>7. ASSUME NEW q \in Proc, NEW s \in Resource, NEW k \in Nonce
        PROVE  /\ <<s, k>> \in held'[q] => k \in issued'
               /\ <<s, k>> \in tickets'[q] => k \in issued' /\ <<s, k>> \notin held'[q]
    <3>1. <<s, k>> \in held'[q] => <<s, k>> \in held[q] \/ k = n
      BY <2>1
    <3>2. tickets'[q] = tickets[q] /\ issued' = issued \cup {n} /\ n \notin issued
      BY <2>1, <2>2
    <3> QED BY <3>1, <3>2
  <2> QED BY <2>5, <2>6, <2>7
<1>4. ASSUME NEW p \in Proc, NEW r \in Resource, NEW n \in Nonce,
             BeginHandoff(p, r, n) \/ CancelHandoff(p, r, n)
      PROVE  RegistryInv'
  <2>1. PICK b \in BOOLEAN : rec' = [rec EXCEPT ![r] = [owner |-> p, nonce |-> n, pending |-> b]]
    BY <1>4 DEF BeginHandoff, CancelHandoff
  <2>2. Owns(p, r, n) /\ UNCHANGED <<life, held, receipts, tickets, issued>>
    BY <1>4 DEF BeginHandoff, CancelHandoff, memory
  <2>3. /\ rec' \in [Resource -> Record \cup {NoRecord}]
        /\ rec'[r] # NoRecord /\ rec'[r].owner = p /\ rec'[r].nonce = n
        /\ \A q \in Resource \ {r} : rec'[q] = rec[q]
    BY <2>1, Written
  <2>4. LeaseTypeOK'
    BY <2>2, <2>3
  <2>5. HandlesAreCurrent' /\ NoncesInv'
    BY <2>1, <2>2, <2>3
  <2> QED BY <2>4, <2>5
<1>5. ASSUME NEW p \in Proc, NEW r \in Resource, NEW n \in Nonce, Adopt(p, r, n) PROVE RegistryInv'
  <2>1. PICK m \in Nonce \ issued :
          /\ rec' = [rec EXCEPT ![r] = [owner |-> p, nonce |-> m, pending |-> FALSE]]
          /\ held' = [held EXCEPT ![p] = @ \cup {<<r, m>>}]
          /\ issued' = issued \cup {m}
    BY <1>5 DEF Adopt
  <2>2. Running(p) /\ UNCHANGED <<life, receipts, tickets>>
    BY <1>5 DEF Adopt
  <2>3. \A q \in Proc, k \in Nonce : <<r, k>> \notin held[q]
    <3>1. /\ rec[r].owner = p /\ rec[r].nonce = n
          /\ <<r, n>> \notin held[p]
      BY <1>5 DEF Adopt
    <3>2. \A q \in Proc, k \in Nonce : <<r, k>> \in held[q] => q = p /\ k = n
      BY <3>1
    <3> QED BY <3>1, <3>2
  <2>4. /\ rec' \in [Resource -> Record \cup {NoRecord}]
        /\ rec'[r] # NoRecord /\ rec'[r].owner = p /\ rec'[r].nonce = m
        /\ \A q \in Resource \ {r} : rec'[q] = rec[q]
    BY <2>1, Written
  <2>5. LeaseTypeOK'
    BY <2>1, <2>2, <2>4
  <2>6. ASSUME NEW q \in Proc, NEW s \in Resource, NEW k \in Nonce, <<s, k>> \in held'[q]
        PROVE  Owns(q, s, k)'
    <3>1. CASE <<s, k>> \in held[q]
      <4>1. s # r
        BY <2>3, <3>1
      <4>2. rec'[s] = rec[s] /\ Owns(q, s, k)
        BY <2>4, <3>1, <4>1
      <4> QED BY <2>2, <3>1, <4>2, <2>6
    <3>2. CASE <<s, k>> \notin held[q]
      <4>1. q = p /\ s = r /\ k = m
        BY <2>1, <2>6, <3>2
      <4> QED BY <2>2, <2>4, <2>6, <4>1
    <3> QED BY <3>1, <3>2
  <2>7. ASSUME NEW q \in Proc, NEW s \in Resource, NEW k \in Nonce
        PROVE  /\ <<s, k>> \in held'[q] => k \in issued'
               /\ <<s, k>> \in tickets'[q] => k \in issued' /\ <<s, k>> \notin held'[q]
    <3>1. <<s, k>> \in held'[q] => <<s, k>> \in held[q] \/ k = m
      BY <2>1
    <3>2. tickets'[q] = tickets[q] /\ issued' = issued \cup {m} /\ m \notin issued
      BY <2>1, <2>2
    <3> QED BY <3>1, <3>2
  <2> QED BY <2>5, <2>6, <2>7
<1>6. ASSUME NEW p \in Proc, NEW r \in Resource, NEW n \in Nonce, Release(p, r, n) PROVE RegistryInv'
  BY <1>6 DEF Release
<1>7. ASSUME NEW p \in Proc, NEW r \in Resource, NEW n \in Nonce, NEW c \in Proc, Transfer(p, r, n, c)
      PROVE  RegistryInv'
  <2>1. PICK m \in Nonce \ issued :
          /\ rec' = [rec EXCEPT ![r] = [owner |-> c, nonce |-> m, pending |-> FALSE]]
          /\ held' = [held EXCEPT ![p] = @ \ {<<r, n>>}]
          /\ receipts' = [receipts EXCEPT ![p] = @ \cup {<<r, m, c>>}]
          /\ tickets' = IF Running(c)
                        THEN [tickets EXCEPT ![c] = @ \cup {<<r, m>>}]
                        ELSE tickets
          /\ issued' = issued \cup {m}
    BY <1>7 DEF Transfer
  <2>2. Owns(p, r, n) /\ UNCHANGED life
    BY <1>7 DEF Transfer
  <2>3. \A q \in Proc, k \in Nonce : <<r, k>> \in held[q] => q = p /\ k = n
    BY <2>2
  <2>4. /\ rec' \in [Resource -> Record \cup {NoRecord}]
        /\ \A s \in Resource \ {r} : rec'[s] = rec[s]
    BY <2>1, Written
  <2>5. LeaseTypeOK'
    <3>1. /\ held' \in [Proc -> SUBSET (Resource \X Nonce)]
          /\ receipts' \in [Proc -> SUBSET (Resource \X Nonce \X Proc)]
          /\ issued' \in SUBSET Nonce
      BY <2>1
    <3>2. tickets' \in [Proc -> SUBSET (Resource \X Nonce)]
      BY <2>1
    <3> QED BY <2>2, <2>4, <3>1, <3>2
  <2>6. \A q \in Proc, s \in Resource, k \in Nonce :
          <<s, k>> \in held'[q] => <<s, k>> \in held[q] /\ s # r
    BY <2>1, <2>3
  <2>7. HandlesAreCurrent'
    BY <2>2, <2>4, <2>6
  <2>8. ASSUME NEW q \in Proc, NEW s \in Resource, NEW k \in Nonce
        PROVE  /\ <<s, k>> \in held'[q] => k \in issued'
               /\ <<s, k>> \in tickets'[q] => k \in issued' /\ <<s, k>> \notin held'[q]
    <3>1. <<s, k>> \in tickets'[q] => <<s, k>> \in tickets[q] \/ k = m
      BY <2>1
    <3>2. issued' = issued \cup {m} /\ m \notin issued
      BY <2>1
    <3> QED BY <2>6, <3>1, <3>2
  <2> QED BY <2>5, <2>7, <2>8
<1>8. ASSUME NEW p \in Proc, NEW r \in Resource, NEW n \in Nonce, NEW c \in Proc, FinishTransfer(p, r, n, c)
      PROVE  RegistryInv'
  BY <1>8 DEF FinishTransfer
<1>9. CASE UNCHANGED regVars
  BY <1>9 DEF regVars, memory
<1> QED BY <1>1, <1>2, <1>3, <1>4, <1>5, <1>6, <1>7, <1>8, <1>9 DEF RegistryNext

(* The store keeps its own promise, for any use of it: a handle in a       *)
(* running process is the one that the file records.  This is why two      *)
(* custodies, of whatever servers, never both have a device.               *)
THEOREM RegistryHandles == RegistrySpec => []HandlesAreCurrent
<1>1. RegistryInit => RegistryInv
  BY DEF RegistryInit, RegistryInv, LeaseTypeOK, HandlesAreCurrent, NoncesInv
<1>2. RegistryInv => HandlesAreCurrent
  BY DEF RegistryInv
<1> QED BY <1>1, <1>2, RegistryStep, PTL DEF RegistrySpec
=============================================================================
