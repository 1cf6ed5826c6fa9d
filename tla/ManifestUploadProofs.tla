------------------------ MODULE ManifestUploadProofs ------------------------
(***************************************************************************)
(* The safety of captured uploads, for any calls, ports and capacity.      *)
(* What makes the invariants inductive is that the calls of a connection   *)
(* run one at a time, that a sequence holds its lease until it is          *)
(* released, and that a call with no child knows it from its step.         *)
(***************************************************************************)
EXTENDS ManifestUpload, TLAPS

BeforeStaging == {"idle", "listing", "capturing", "staging"}
Executing == {"verifying", "uploading", "waiting", "cleaning"}
Childless == {"idle", "listing", "staging", "resuming", "authorizing",
              "verifying", "uploading", "settling"}

(* The lease of an open or sealed sequence is the call's. *)
SequenceInv ==
  \A c \in Call :
    /\ sequence[c] = "none" <=> step[c] = "idle"
    /\ Holds(c) <=> sequence[c] \in {"open", "sealed"}
    /\ step[c] \in InCall \ {"settling"} => sequence[c] = "open"
    /\ phase[c] = "prepared" => handed[c]

(* The hardware lock lets one call in at a time. *)
OneCall ==
  \A c, d \in Call : step[c] \in InCall /\ step[d] \in InCall => c = d

ChildInv ==
  \A c \in Call :
    /\ step[c] \in Childless => child[c] = "none"
    /\ step[c] = "capturing" => child[c] \in {"none", "running"}
    /\ keeper[c] # "none" => step[c] = "done"
    /\ keeper[c] = "sequence" => child[c] = "none"

(* What waits for an approval was not flashed, and what was is not waiting. *)
RecordInv ==
  /\ \A r \in Call :
       /\ record[r] # "none" \/ r \in burned => step[r] \notin BeforeStaging
       /\ record[r] \in {"pending", "authorizing"} => r \notin burned
  /\ \A c \in Call :
       /\ step[c] \in {"verifying", "uploading"} => target[c] \notin burned
       /\ step[c] \in Executing => record[target[c]] \in {"none", "executing"}
       /\ step[c] \in Executing \cup {"authorizing"} => step[target[c]] \notin BeforeStaging

IInv == /\ TypeOK /\ SequenceInv /\ OneCall /\ ChildInv /\ RecordInv
        /\ ChildHasLease /\ LeaseHasKeeper

LEMMA InitInv == Init => IInv
  BY PortOfAssumption, NobodyAssumption
  DEF Init, SequenceInit, IInv, TypeOK, SequenceTypeOK, SequenceInv, OneCall, ChildInv, RecordInv,
      ChildHasLease, LeaseHasKeeper, Holds, InCall, InFlight, BeforeStaging, Executing, Childless

-----------------------------------------------------------------------------
(* Types *)

LEMMA StepTypes == TypeOK /\ [Next]_vars => TypeOK'
<1> SUFFICES ASSUME TypeOK, [Next]_vars PROVE TypeOK'
  OBVIOUS
<1> USE PortOfAssumption, NobodyAssumption DEF TypeOK, SequenceTypeOK, uploadVars, sequenceVars, Goes
<1>1. ASSUME NEW c \in Call, NEW r \in Call, Begin(c, r) PROVE TypeOK'
  BY <1>1 DEF Begin, OpenSequence, InCall, InFlight
<1>2. ASSUME NEW c \in Call, PrepareStep(c) PROVE TypeOK'
  <2>1. CASE BeginPrepare(c)
    BY <1>2, <2>1 DEF PrepareStep, BeginPrepare
  <2>2. CASE PrepareEnds(c)
    <3>1. phase' \in [Call -> {"none", "created", "preparing", "prepared"}]
      BY <2>2 DEF PrepareEnds
    <3>2. handed' \in [Call -> BOOLEAN]
      BY <2>2 DEF PrepareEnds
    <3>3. spoiled' \in [Call -> BOOLEAN]
      BY <2>2 DEF PrepareEnds
    <3>4. UNCHANGED <<lease, sequence, uploadVars>>
      BY <1>2, <2>2 DEF PrepareStep, PrepareEnds
    <3> QED BY <3>1, <3>2, <3>3, <3>4
  <2> QED BY <1>2, <2>1, <2>2 DEF PrepareStep
<1>3. ASSUME NEW c \in Call, CaptureStep(c) PROVE TypeOK'
  <2>1. CASE Listed(c) \/ CallFails(c) \/ CaptureUnconfirmed(c)
    BY <2>1 DEF Listed, NextPhase, CallFails, CaptureUnconfirmed, InCall, InFlight
  <2>2. CASE CaptureStarts(c) \/ CaptureRefused(c) \/ CaptureEnds(c)
    BY SMTT(60), <2>2 DEF CaptureStarts, CaptureRefused, CaptureEnds, ReleasePhase, InCall, InFlight
  <2>3. CASE Stage(c)
    BY <2>3 DEF Stage, InCall, InFlight
  <2> QED BY <1>3, <2>1, <2>2, <2>3 DEF CaptureStep
<1>4. ASSUME NEW c \in Call, ResumeStep(c) PROVE TypeOK'
  <2>1. CASE Resume(c) \/ ResumeRefused(c) \/ Granted(c)
    BY <2>1 DEF Resume, ResumeRefused, Granted, NextPhase, InCall, InFlight
  <2>2. CASE Verified(c) \/ VerifyFails(c) \/ UploaderStarts(c) \/ UploadStops(c)
    BY <2>2 DEF Verified, VerifyFails, UploaderStarts, UploadStops, Consumed, InCall, InFlight
  <2>3. CASE Cleaned(c) \/ CleanupFails(c) \/ Settle(c)
    BY <2>3 DEF Cleaned, CleanupFails, Settle, Finished, FinishFails, Consumed, InCall, InFlight
  <2> QED BY <1>4, <2>1, <2>2, <2>3 DEF ResumeStep
<1>5. ASSUME NEW c \in Call, UploaderEnds(c) \/ Expire(c) PROVE TypeOK'
  BY <1>5 DEF UploaderEnds, Expire
<1>6. ASSUME NEW c \in Call, KeptCleaned(c) \/ KeptFails(c) PROVE TypeOK'
  BY <1>6 DEF KeptCleaned, KeptFails, Finished, FinishFails
<1>7. CASE Close \/ CloseAwaited \/ CloseEnds
  BY <1>7 DEF Close, CloseAwaited, CloseEnds
<1>8. CASE UNCHANGED vars
  BY <1>8 DEF vars
<1> QED BY <1>1, <1>2, <1>3, <1>4, <1>5, <1>6, <1>7, <1>8 DEF Next

-----------------------------------------------------------------------------
(* The other conjuncts.  Each action changes the steps of one call only.   *)

LEMMA StepInv == IInv /\ [Next]_vars => IInv'
<1> SUFFICES ASSUME IInv, [Next]_vars PROVE IInv'
  OBVIOUS
<1>0. TypeOK'
  BY StepTypes DEF IInv
<1> DEFINE Rest == SequenceInv /\ OneCall /\ ChildInv /\ RecordInv /\ ChildHasLease /\ LeaseHasKeeper
<1> SUFFICES Rest'
  BY <1>0 DEF IInv
<1> USE PortOfAssumption, NobodyAssumption
    DEF IInv, TypeOK, SequenceTypeOK, uploadVars, sequenceVars, Goes, SequenceInv, OneCall, ChildInv,
        RecordInv, ChildHasLease, LeaseHasKeeper, Holds, InCall, InFlight, BeforeStaging, Executing,
        Childless
<1>1. ASSUME NEW c \in Call, NEW r \in Call, Begin(c, r) PROVE Rest'
  BY <1>1 DEF Begin, OpenSequence
<1>2. ASSUME NEW c \in Call, PrepareStep(c) PROVE Rest'
  <2>1. CASE BeginPrepare(c)
    BY <1>2, <2>1 DEF PrepareStep, BeginPrepare
  <2>2. CASE PrepareEnds(c)
    <3>1. UNCHANGED <<lease, sequence, uploadVars>>
      BY <1>2, <2>2 DEF PrepareStep, PrepareEnds
    <3>2. \A d \in Call : (phase[d] = "prepared")' => handed'[d]
      BY <2>2 DEF PrepareEnds
    <3>3. \A d \in Call : handed[d] => handed'[d]
      BY <2>2 DEF PrepareEnds
    <3> QED BY <3>1, <3>2, <3>3
  <2> QED BY <1>2, <2>1, <2>2 DEF PrepareStep
<1>3. ASSUME NEW c \in Call, CaptureStep(c) PROVE Rest'
  <2>1. CASE Listed(c)
    BY <2>1 DEF Listed, NextPhase
  <2>2. CASE CallFails(c)
    BY <2>2 DEF CallFails
  <2>3. CASE CaptureStarts(c)
    BY <2>3 DEF CaptureStarts
  <2>4. CASE CaptureRefused(c)
    BY <2>4 DEF CaptureRefused, ReleasePhase
  <2>5. CASE CaptureEnds(c)
    BY <2>5 DEF CaptureEnds, ReleasePhase
  <2>6. CASE CaptureUnconfirmed(c)
    BY <2>6 DEF CaptureUnconfirmed
  <2>7. CASE Stage(c)
    BY <2>7 DEF Stage
  <2> QED BY <1>3, <2>1, <2>2, <2>3, <2>4, <2>5, <2>6, <2>7 DEF CaptureStep
<1>4. ASSUME NEW c \in Call, ResumeStep(c) PROVE Rest'
  <2>1. CASE Resume(c)
    <3>1. UNCHANGED <<lease, handed, sequence, target, child, burned, keeper>>
      BY <2>1 DEF Resume, NextPhase
    <3>2. phase' = [phase EXCEPT ![c] = "created"]
      BY <2>1 DEF Resume, NextPhase
    <3>3. step[c] = "resuming"
      BY <2>1 DEF Resume
    <3>4. CASE /\ record[target[c]] = "pending"
               /\ record' = [record EXCEPT ![target[c]] = "authorizing"]
               /\ step' = [step EXCEPT ![c] = "authorizing"]
      BY <3>1, <3>2, <3>3, <3>4
    <3>5. CASE UNCHANGED record /\ step' = [step EXCEPT ![c] = "settling"]
      BY <3>1, <3>2, <3>3, <3>5
    <3> QED BY <2>1, <3>4, <3>5 DEF Resume
  <2>2. CASE ResumeRefused(c)
    BY <2>2 DEF ResumeRefused
  <2>3. CASE Granted(c)
    BY <2>3 DEF Granted
  <2>4. CASE Verified(c)
    BY <2>4 DEF Verified
  <2>5. CASE VerifyFails(c)
    BY <2>5 DEF VerifyFails, Consumed
  <2>6. CASE UploaderStarts(c)
    BY <2>6 DEF UploaderStarts
  <2>7. CASE UploadStops(c)
    BY <2>7 DEF UploadStops
  <2>8. CASE Cleaned(c)
    BY <2>8 DEF Cleaned, Finished, Consumed
  <2>9. CASE CleanupFails(c)
    BY <2>9 DEF CleanupFails, FinishFails, Consumed
  <2>10. CASE Settle(c)
    BY <2>10 DEF Settle, Finished, FinishFails
  <2> QED BY <1>4, <2>1, <2>2, <2>3, <2>4, <2>5, <2>6, <2>7, <2>8, <2>9, <2>10 DEF ResumeStep
<1>5. ASSUME NEW c \in Call, UploaderEnds(c) PROVE Rest'
  BY <1>5 DEF UploaderEnds
<1>6. ASSUME NEW c \in Call, Expire(c) PROVE Rest'
  BY <1>6 DEF Expire
<1>7. ASSUME NEW c \in Call, KeptCleaned(c) PROVE Rest'
  BY <1>7 DEF KeptCleaned, Finished
<1>8. ASSUME NEW c \in Call, KeptFails(c) PROVE Rest'
  BY <1>8 DEF KeptFails, FinishFails
<1>9. CASE Close \/ CloseAwaited \/ CloseEnds
  BY <1>9 DEF Close, CloseAwaited, CloseEnds
<1>10. CASE UNCHANGED vars
  BY <1>10 DEF vars
<1> QED BY <1>1, <1>2, <1>3, <1>4, <1>5, <1>6, <1>7, <1>8, <1>9, <1>10 DEF Next

LEMMA Invariance == Spec => []IInv
  BY InitInv, StepInv, PTL DEF Spec

-----------------------------------------------------------------------------
(* The types of a connection's calls, sequences and pending uploads.       *)
THEOREM UploadTypeCorrect == Spec => []TypeOK
<1>1. IInv => TypeOK
  BY DEF IInv
<1> QED BY <1>1, Invariance, PTL

(* A child of an upload runs under its call's lease and handoff.           *)
THEOREM ChildrenHaveLeases == Spec => []ChildHasLease
<1>1. IInv => ChildHasLease
  BY DEF IInv
<1> QED BY <1>1, Invariance, PTL

(* Whoever holds a lease is under way or has a cleanup that is kept.       *)
THEOREM LeasesHaveKeepers == Spec => []LeaseHasKeeper
<1>1. IInv => LeaseHasKeeper
  BY DEF IInv
<1> QED BY <1>1, Invariance, PTL

-----------------------------------------------------------------------------
(* Only UploaderStarts gives a call that uploads its child.                *)
LEMMA OnlyStart ==
  ASSUME IInv, [Next]_vars, NEW c \in Call, UploaderIsStarted(c)
  PROVE  UploaderStarts(c)
<1> USE PortOfAssumption, NobodyAssumption
    DEF IInv, TypeOK, SequenceTypeOK, ChildInv, Childless, UploaderIsStarted, uploadVars, Goes
<1>0. child[c] = "none" /\ child'[c] = "running"
  OBVIOUS
<1>1. ASSUME NEW d \in Call, PrepareStep(d) \/ Expire(d) \/ KeptCleaned(d) \/ KeptFails(d)
                             \/ UploaderEnds(d)
      PROVE  FALSE
  BY <1>0, <1>1 DEF PrepareStep, Expire, KeptCleaned, KeptFails, UploaderEnds
<1>2. ASSUME NEW d \in Call, NEW r \in Call, Begin(d, r) PROVE FALSE
  BY <1>0, <1>2 DEF Begin
<1>3. ASSUME NEW d \in Call, CaptureStep(d) PROVE FALSE
  BY <1>0, <1>3 DEF CaptureStep, Listed, CallFails, CaptureStarts, CaptureRefused, CaptureEnds,
                    CaptureUnconfirmed, Stage
<1>4. ASSUME NEW d \in Call, ResumeStep(d), ~UploaderStarts(d) PROVE FALSE
  BY <1>0, <1>4 DEF ResumeStep, Resume, ResumeRefused, Granted, Verified, VerifyFails, UploadStops,
                    Cleaned, CleanupFails, Settle
<1>5. CASE Close \/ CloseAwaited \/ CloseEnds
  BY <1>0, <1>5 DEF Close, CloseAwaited, CloseEnds
<1>6. CASE UNCHANGED vars
  BY <1>0, <1>6 DEF vars
<1>7. PICK d \in Call : UploaderStarts(d)
  BY <1>1, <1>2, <1>3, <1>4, <1>5, <1>6 DEF Next
<1>8. d = c
  BY <1>0, <1>7 DEF UploaderStarts
<1> QED BY <1>7, <1>8

(* Captured firmware is flashed once at most, for any number of calls.     *)
THEOREM FlashedOnce == Spec => UploadedOnce
<1>1. IInv /\ [Next]_vars
      => [\A c \in Call : UploaderIsStarted(c) => target[c] \notin burned]_vars
  BY OnlyStart DEF IInv, RecordInv, UploaderStarts
<1> QED BY <1>1, Invariance, PTL DEF Spec, UploadedOnce

(* No uploader starts for a connection that has closed.                    *)
THEOREM NothingOnceClosed == Spec => NoUploadOnceClosed
<1>1. IInv /\ [Next]_vars => [\A c \in Call : UploaderIsStarted(c) => ~Closed]_vars
  BY OnlyStart DEF UploaderStarts
<1> QED BY <1>1, Invariance, PTL DEF Spec, NoUploadOnceClosed
=============================================================================
