--------------------------- MODULE ManifestUpload ---------------------------
(***************************************************************************)
(* Captured uploads of one connection: executeManifestUpload               *)
(* (tools/manifest-upload.ts) over a custody sequence, the pending uploads *)
(* of the connection (core/analysis/pending-upload-store.ts) and the       *)
(* supervised uploader (core/analysis/retained-upload-execution.ts).  A    *)
(* call captures the firmware a build would flash and keeps it as a        *)
(* pending upload, or resumes one of another call once it is approved.     *)
(***************************************************************************)
EXTENDS CustodySequence, Naturals, FiniteSets

CONSTANT Capacity   \* pending uploads and kept cleanups of a connection, 8 in the code

ASSUME CapacityAssumption == Capacity \in Nat

VARIABLES step,      \* how far a call is
          target,    \* the call whose pending upload this one executes, its own or an earlier one
          child,     \* the child of a call; "lost" when it closed without proof of its descendants
          record,    \* the pending uploads, by the call that captured them
          burned,    \* history: the pending uploads whose uploader was started
          keeper,    \* the cleanup kept for a call: of its uploader, or of its sequence only
          closing    \* how far close() of the pending uploads is

uploadVars == <<step, target, child, record, burned, keeper, closing>>
vars == <<sequenceVars, uploadVars>>

InFlight == {"authorizing", "verifying", "uploading", "waiting", "cleaning"}   \* inside resume()
InCall == InFlight \cup {"listing", "capturing", "staging", "resuming", "settling"}
Closed == closing # "open"

TypeOK ==
  /\ SequenceTypeOK
  /\ step \in [Call -> InCall \cup {"idle", "done"}]
  /\ target \in [Call -> Call]
  /\ child \in [Call -> {"none", "running", "asked", "lost"}]
  /\ record \in [Call -> {"none", "pending", "authorizing", "executing"}]
  /\ burned \subseteq Call
  /\ keeper \in [Call -> {"none", "upload", "sequence"}]
  /\ closing \in {"open", "awaiting", "cleaning", "closed", "failed"}

Init ==
  /\ SequenceInit
  /\ step = [c \in Call |-> "idle"]
  /\ target = [c \in Call |-> c]
  /\ child = [c \in Call |-> "none"]
  /\ record = [c \in Call |-> "none"]
  /\ burned = {}
  /\ keeper = [c \in Call |-> "none"]
  /\ closing = "open"

Keepers == {c \in Call : keeper[c] # "none"}
Goes(c, to) == step' = [step EXCEPT ![c] = to]

-----------------------------------------------------------------------------
(* The call, up to its pending upload.                                     *)

\* The call runs under the hardware lock, one at a time, and takes the lease of its port.
Begin(c, r) ==
  /\ step[c] = "idle"
  /\ ~Closed
  /\ \A d \in Call : step[d] \notin InCall
  /\ OpenSequence(c)
  /\ target' = [target EXCEPT ![c] = r]
  /\ Goes(c, IF r = c THEN "listing" ELSE "resuming")
  /\ UNCHANGED <<child, record, burned, keeper, closing>>

Listed(c) ==
  /\ step[c] = "listing"
  /\ NextPhase(c)
  /\ Goes(c, "capturing")
  /\ UNCHANGED <<target, child, record, burned, keeper, closing>>

\* A refusal or an error before the capture, between capture and resume, or after it.
CallFails(c) ==
  /\ step[c] \in {"listing", "staging"}
  /\ Goes(c, "settling")
  /\ UNCHANGED <<sequenceVars, target, child, record, burned, keeper, closing>>

\* The capture child is spawned under the first phase; a failed preparation or a cancellation
\* gives the phase back and ends the call.
CaptureStarts(c) ==
  /\ step[c] = "capturing"
  /\ phase[c] = "prepared"
  /\ child[c] = "none"
  /\ child' = [child EXCEPT ![c] = "running"]
  /\ UNCHANGED <<sequenceVars, step, target, record, burned, keeper, closing>>

CaptureRefused(c) ==
  /\ step[c] = "capturing"
  /\ phase[c] = "prepared" \/ spoiled[c]
  /\ child[c] = "none"
  /\ ReleasePhase(c)
  /\ Goes(c, "settling")
  /\ UNCHANGED <<target, child, record, burned, keeper, closing>>

\* It ends confirmed, with a capture that can be staged or without.
CaptureEnds(c) ==
  /\ step[c] = "capturing"
  /\ child[c] = "running"
  /\ child' = [child EXCEPT ![c] = "none"]
  /\ ReleasePhase(c)
  /\ \E to \in {"staging", "settling"} : Goes(c, to)
  /\ UNCHANGED <<target, record, burned, keeper, closing>>

\* Its end is not confirmed: the call reports that and leaves the lease where it is.
CaptureUnconfirmed(c) ==
  /\ step[c] = "capturing"
  /\ child[c] = "running"
  /\ child' = [child EXCEPT ![c] = "lost"]
  /\ Goes(c, "done")
  /\ UNCHANGED <<sequenceVars, target, record, burned, keeper, closing>>

\* The capture is kept as a pending upload while the connection is there and has room.
Stage(c) ==
  /\ step[c] = "staging"
  /\ ~Closed
  /\ Cardinality({r \in Call : record[r] # "none"}) + Cardinality(Keepers) < Capacity
  /\ record' = [record EXCEPT ![c] = "pending"]
  /\ Goes(c, "resuming")
  /\ UNCHANGED <<sequenceVars, target, child, burned, keeper, closing>>

\* A pending upload expires unless its execution has begun.
Expire(r) ==
  /\ record[r] \in {"pending", "authorizing"}
  /\ record' = [record EXCEPT ![r] = "none"]
  /\ UNCHANGED <<sequenceVars, step, target, child, burned, keeper, closing>>

-----------------------------------------------------------------------------
(* resume(): authorization and execution of a pending upload.              *)

\* The second phase is reserved and the record taken, when it is there, free and for this port
\* and the policy has not changed.
Resume(c) ==
  LET r == target[c] IN
  /\ step[c] = "resuming"
  /\ NextPhase(c)
  /\ \/ /\ ~Closed /\ record[r] = "pending" /\ PortOf[r] = PortOf[c]
        /\ record' = [record EXCEPT ![r] = "authorizing"]
        /\ Goes(c, "authorizing")
     \/ UNCHANGED record /\ Goes(c, "settling")
  /\ UNCHANGED <<target, child, burned, keeper, closing>>

\* The authorization is refused, or comes too late: what is left of the record stays pending.
ResumeRefused(c) ==
  LET r == target[c] IN
  /\ step[c] = "authorizing"
  /\ record' = [record EXCEPT ![r] = IF @ = "authorizing" THEN "pending" ELSE @]
  /\ Goes(c, "settling")
  /\ UNCHANGED <<sequenceVars, target, child, burned, keeper, closing>>

Granted(c) ==
  LET r == target[c] IN
  /\ step[c] = "authorizing"
  /\ ~Closed
  /\ record[r] = "authorizing"
  /\ record' = [record EXCEPT ![r] = "executing"]
  /\ Goes(c, "verifying")
  /\ UNCHANGED <<sequenceVars, target, child, burned, keeper, closing>>

\* Wrong: every record that is settled waits for another attempt.
Requeued(c) == record' = [record EXCEPT ![target[c]] = IF @ = "executing" THEN "pending" ELSE @]

\* resume() settles: a record whose execution had begun is consumed.
Consumed(c) == record' = [record EXCEPT ![target[c]] = "none"]

\* The retained bytes are verified; the connection may have gone meanwhile.
Verified(c) ==
  /\ step[c] = "verifying"
  /\ ~Closed
  /\ Goes(c, "uploading")
  /\ UNCHANGED <<sequenceVars, target, child, record, burned, keeper, closing>>

VerifyFails(c) ==
  /\ step[c] = "verifying"
  /\ Consumed(c)
  /\ Goes(c, "settling")
  /\ UNCHANGED <<sequenceVars, target, child, burned, keeper, closing>>

\* Wrong: the connection is not looked at again after the device was prepared.
UploaderStartsUnchecked(c) ==
  /\ step[c] = "uploading"
  /\ phase[c] = "prepared"
  /\ child' = [child EXCEPT ![c] = "running"]
  /\ burned' = burned \cup {target[c]}
  /\ Goes(c, "waiting")
  /\ UNCHANGED <<sequenceVars, target, record, keeper, closing>>

\* The uploader is spawned after the bytes were verified once more under the prepared phase.
UploaderStarts(c) ==
  /\ step[c] = "uploading"
  /\ phase[c] = "prepared"
  /\ ~Closed
  /\ child' = [child EXCEPT ![c] = "running"]
  /\ burned' = burned \cup {target[c]}
  /\ Goes(c, "waiting")
  /\ UNCHANGED <<sequenceVars, target, record, keeper, closing>>

\* The execution is over: never started, ended, cancelled or timed out.  A child that is
\* still there is asked to end.
UploadStops(c) ==
  /\ \/ step[c] = "uploading" /\ phase[c] # "preparing"
     \/ step[c] = "waiting"
  /\ child' = [child EXCEPT ![c] = IF @ = "running" THEN "asked" ELSE @]
  /\ Goes(c, "cleaning")
  /\ UNCHANGED <<sequenceVars, target, record, burned, keeper, closing>>

\* The supervisor of the uploader closes, with or without the proof that nothing is left.
UploaderEnds(c) ==
  /\ \/ child[c] = "asked"
     \/ child[c] = "running" /\ step[c] # "capturing"
  /\ \E how \in {"none", "lost"} : child' = [child EXCEPT ![c] = how]
  /\ UNCHANGED <<sequenceVars, step, target, record, burned, keeper, closing>>

\* Wrong: the sequence is finished when the child was only asked to end.
CleanedOnAsking(c) ==
  /\ step[c] = "cleaning"
  /\ Finished(c, "none")
  /\ Consumed(c)
  /\ Goes(c, "settling")
  /\ UNCHANGED <<target, child, burned, keeper, closing>>

\* The cleanup confirms the end of the child, gives back the phase and finishes the sequence.
Cleaned(c) ==
  /\ step[c] = "cleaning"
  /\ child[c] = "none"
  /\ Finished(c, "none")
  /\ Consumed(c)
  /\ Goes(c, "settling")
  /\ UNCHANGED <<target, child, burned, keeper, closing>>

\* It cannot: the child is not confirmed gone in its time, or the lease cannot be released.
\* The connection keeps the cleanup and the call leaves the sequence as it is.
CleanupFails(c) ==
  /\ step[c] = "cleaning"
  /\ IF child[c] = "none" THEN FinishFails(c, "none") ELSE UNCHANGED sequenceVars
  /\ Consumed(c)
  /\ keeper' = [keeper EXCEPT ![c] = "upload"]
  /\ Goes(c, "done")
  /\ UNCHANGED <<target, child, burned, closing>>

-----------------------------------------------------------------------------
(* The end of a call and of the connection.                                *)

\* Wrong: a finish() that fails is only reported.
SettleReporting(c) ==
  /\ step[c] = "settling"
  /\ Finished(c, phase[c]) \/ FinishFails(c, phase[c])
  /\ Goes(c, "done")
  /\ UNCHANGED <<target, child, record, burned, keeper, closing>>

\* The call ends with finish(); when that fails the connection keeps it for a later retry.
Settle(c) ==
  /\ step[c] = "settling"
  /\ \/ Finished(c, phase[c]) /\ UNCHANGED keeper
     \/ FinishFails(c, phase[c]) /\ keeper' = [keeper EXCEPT ![c] = "sequence"]
  /\ Goes(c, "done")
  /\ UNCHANGED <<target, child, record, burned, closing>>

\* close() drops every pending upload and aborts the one that executes; it is called again
\* after it failed.
Close ==
  /\ closing \in {"open", "closed", "failed"}
  /\ closing' = "awaiting"
  /\ record' = [r \in Call |-> "none"]
  /\ UNCHANGED <<sequenceVars, step, target, child, burned, keeper>>

CloseAwaited ==
  /\ closing = "awaiting"
  /\ \A c \in Call : step[c] \notin InFlight
  /\ closing' = "cleaning"
  /\ UNCHANGED <<sequenceVars, step, target, child, record, burned, keeper>>

\* The kept cleanups are tried one after the other.
KeptCleaned(c) ==
  /\ closing = "cleaning"
  /\ keeper[c] # "none"
  /\ keeper[c] = "upload" => child[c] = "none"
  /\ Finished(c, IF keeper[c] = "upload" THEN "none" ELSE phase[c])
  /\ keeper' = [keeper EXCEPT ![c] = "none"]
  /\ UNCHANGED <<step, target, child, record, burned, closing>>

\* The first one that fails ends close().
KeptFails(c) ==
  /\ closing = "cleaning"
  /\ keeper[c] # "none"
  /\ \/ keeper[c] = "upload" /\ child[c] # "none" /\ UNCHANGED sequenceVars
     \/ /\ keeper[c] = "upload" => child[c] = "none"
        /\ FinishFails(c, IF keeper[c] = "upload" THEN "none" ELSE phase[c])
  /\ closing' = "failed"
  /\ UNCHANGED <<step, target, child, record, burned, keeper>>

CloseEnds ==
  /\ closing = "cleaning"
  /\ Keepers = {}
  /\ closing' = "closed"
  /\ UNCHANGED <<sequenceVars, step, target, child, record, burned, keeper>>

-----------------------------------------------------------------------------
\* The preparation of a phase, of the capture or of the uploader; an upload that was
\* cancelled does not begin it.
PrepareStep(c) ==
  /\ \/ step[c] = "capturing" /\ ~spoiled[c] /\ BeginPrepare(c)
     \/ step[c] = "uploading" /\ ~spoiled[c] /\ ~Closed /\ BeginPrepare(c)
     \/ PrepareEnds(c)
  /\ UNCHANGED uploadVars

CaptureStep(c) ==
  \/ Listed(c)
  \/ CallFails(c)
  \/ CaptureStarts(c)
  \/ CaptureRefused(c)
  \/ CaptureEnds(c)
  \/ CaptureUnconfirmed(c)
  \/ Stage(c)

ResumeStep(c) ==
  \/ Resume(c)
  \/ ResumeRefused(c)
  \/ Granted(c)
  \/ Verified(c)
  \/ VerifyFails(c)
  \/ UploaderStarts(c)
  \/ UploadStops(c)
  \/ Cleaned(c)
  \/ CleanupFails(c)
  \/ Settle(c)

Next ==
  \/ \E c \in Call : \/ \E r \in Call : Begin(c, r)
                     \/ PrepareStep(c)
                     \/ CaptureStep(c)
                     \/ ResumeStep(c)
                     \/ UploaderEnds(c)
                     \/ Expire(c)
                     \/ KeptCleaned(c)
                     \/ KeptFails(c)
  \/ Close
  \/ CloseAwaited
  \/ CloseEnds

Spec == Init /\ [][Next]_vars

-----------------------------------------------------------------------------
(* Properties.                                                             *)

\* While a child of the upload may use the port nobody else gets it, and the lease says that a
\* child was started: from the capture to the uploader and through every failed cleanup.
ChildHasLease == \A c \in Call : child[c] # "none" => Holds(c) /\ handed[c]

\* No lease is forgotten: its call is under way, or the connection keeps its cleanup, or the
\* capture it was taken for never confirmed its end.
LeaseHasKeeper ==
  \A c \in Call : Holds(c) => step[c] \in InCall \/ keeper[c] # "none" \/ child[c] = "lost"

UploaderIsStarted(c) == step[c] = "uploading" /\ child'[c] = "running"

\* Captured firmware is flashed once at most: no call starts an uploader for a pending upload
\* that was started before, however the earlier one ended and whoever resumes it again.
UploadedOnce == [][\A c \in Call : UploaderIsStarted(c) => target[c] \notin burned]_vars

\* Once the connection has closed no uploader is started for it, not even for a call that was
\* authorized, verified or preparing its device by then.
NoUploadOnceClosed == [][\A c \in Call : UploaderIsStarted(c) => ~Closed]_vars

=============================================================================
