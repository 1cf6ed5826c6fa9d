----------------------------- MODULE SerialProofs -----------------------------
(***************************************************************************)
(* Serial sessions, for any number of sessions and readers, any sizes and  *)
(* any length of a stream.  First a session's transport, which is proved   *)
(* on its own: every step of the stream is one of its steps or leaves it   *)
(* alone.  Then the text that the session received.  Last the manager,     *)
(* which knows of a transport what the first part proves.                  *)
(***************************************************************************)
EXTENDS SerialStream, SerialSessions, FiniteSetTheorems, SequenceTheorems, TLAPS

-----------------------------------------------------------------------------
(* The transport *)

(* After the end nothing waits, and before it the transport has not begun to close. *)
EndInv ==
  /\ Ended => openOp # "pending" /\ writeOp \notin {"writing", "draining"}
  /\ confirmed \/ closing \/ current = "closing" => Ended
  /\ port = "opening" => current = "opening"

TransportInv == TransportTypeOK /\ ConfirmedMeansClosed /\ FlagsAgree /\ EndInv

LEMMA TransportInvInit == TransportInit => TransportInv
  BY DEF TransportInit, TransportInv, TransportTypeOK, ConfirmedMeansClosed, FlagsAgree, EndInv, Ended, Ports, Ends

(* Asking the port to close keeps the flags in step with it.               *)
LEMMA ClosingAgrees ==
  ASSUME TransportInv, RequestClose, MarkTerminal("error") \/ MarkTerminal("stopped"), AbortPending
  PROVE  /\ ConfirmedMeansClosed' /\ FlagsAgree' /\ EndInv'
         /\ port' \in Ports /\ current' \in {"idle", "opening", "open", "closing"}
         /\ terminal' \in Ends \cup {"none"} /\ opening' \in BOOLEAN /\ closing' \in BOOLEAN
         /\ confirmed' \in BOOLEAN
         /\ openOp' \in {"none", "pending", "opened", "rejected"}
         /\ writeOp' \in {"none", "writing", "draining", "drained", "rejected"}
<1> USE DEF TransportInv, TransportTypeOK, ConfirmedMeansClosed, FlagsAgree, EndInv, Ended, Ports, Ends
<1>1. /\ terminal' \in Ends /\ openOp' # "pending" /\ writeOp' \notin {"writing", "draining"}
      /\ openOp' \in {"none", "pending", "opened", "rejected"}
      /\ writeOp' \in {"none", "writing", "draining", "drained", "rejected"}
  BY DEF MarkTerminal, AbortPending
<1>2. CASE port = "open" /\ AskPort
  BY <1>1, <1>2 DEF AskPort
<1>3. CASE port = "closed" /\ FinishClosed
  BY <1>1, <1>3 DEF FinishClosed
<1>4. CASE UNCHANGED <<port, current, opening, closing, confirmed>>
  BY <1>1, <1>4
<1> QED BY <1>2, <1>3, <1>4 DEF RequestClose

LEMMA TransportStepInv == TransportInv /\ [TransportNext]_transportVars => TransportInv'
<1> SUFFICES ASSUME TransportInv, [TransportNext]_transportVars PROVE TransportInv'
  OBVIOUS
<1>a. ASSUME Fail PROVE TransportInv'
  BY <1>a, ClosingAgrees DEF Fail, AnswerClosers, TransportInv, TransportTypeOK
<1>b. CASE Close
  BY <1>b, ClosingAgrees DEF Close, TransportInv, TransportTypeOK
<1>c. CASE OperationFails \/ PortFails
  BY <1>a, <1>c DEF OperationFails, PortFails
<1> USE DEF TransportInv, TransportTypeOK, ConfirmedMeansClosed, FlagsAgree, EndInv, Ended, Ports, Ends,
            MarkTerminal, AbortPending, AnswerClosers, FinishClosed, AskPort
<1>1. CASE Open
  BY <1>1 DEF Open
<1>2. CASE OpenSucceeds
  <2>1. CASE Ended
    BY ZenonT(60), <1>2, <2>1 DEF OpenSucceeds
  <2>2. CASE ~Ended
    <3>1. opening' = (port' = "opening")
      BY <1>2, <2>2 DEF OpenSucceeds
    <3> QED BY <1>2, <2>2, <3>1 DEF OpenSucceeds
  <2> QED BY <2>1, <2>2
<1>3. CASE OpenFails
  BY <1>3 DEF OpenFails
<1>4. CASE Write \/ WriteTaken \/ WriteDrained
  BY <1>4 DEF Write, WriteTaken, WriteDrained
<1>5. CASE Unplug \/ UnplugFails
  BY ZenonT(60), <1>5 DEF Unplug, UnplugFails
<1>6. CASE CloseTimesOut \/ PortCloses \/ PortStaysOpen
  BY ZenonT(60), <1>6 DEF CloseTimesOut, PortCloses, PortStaysOpen
<1>7. CASE UNCHANGED transportVars
  BY <1>7 DEF transportVars
<1> QED BY <1>b, <1>c, <1>1, <1>2, <1>3, <1>4, <1>5, <1>6, <1>7 DEF TransportNext

LEMMA StreamIsTransport == StreamSpec => TransportSpec
<1>1. StreamInit => TransportInit
  BY DEF StreamInit
<1>2. [StreamNext]_streamVars => [TransportNext]_transportVars
  BY DEF StreamNext, streamVars, TransportStep, TransportNext, Data, Terminated, EndSession
<1> QED BY <1>1, <1>2, PTL DEF StreamSpec, TransportSpec

LEMMA TransportInvariance == StreamSpec => []TransportInv
  BY StreamIsTransport, TransportInvInit, TransportStepInv, PTL DEF TransportSpec

(* The types of the transport's state.                                     *)
THEOREM TransportTypeCorrect == StreamSpec => []TransportTypeOK
<1>1. TransportInv => TransportTypeOK
  BY DEF TransportInv
<1> QED BY <1>1, TransportInvariance, PTL

(* A closure that is confirmed is final.                                   *)
THEOREM ConfirmedIsFinal == StreamSpec => []ConfirmedMeansClosed
<1>1. TransportInv => ConfirmedMeansClosed
  BY DEF TransportInv
<1> QED BY <1>1, TransportInvariance, PTL

(* No operation succeeds after the end.                                    *)
THEOREM EndIsTheEnd == StreamSpec => NoSuccessAfterEnd
<1> DEFINE Honest == Ended => /\ (openOp' = "opened" => openOp = "opened")
                              /\ (writeOp' = "drained" => writeOp = "drained")
                              /\ writeOp' # "writing"
<1>1. ASSUME TransportInv, TransportNext PROVE Honest
  <2> USE DEF TransportInv, TransportTypeOK, EndInv, Ended, AbortPending
  <2>1. CASE Open \/ OpenSucceeds \/ OpenFails
    BY <1>1, <2>1 DEF Open, OpenSucceeds, OpenFails
  <2>2. CASE Write \/ WriteTaken \/ WriteDrained
    BY <1>1, <2>2 DEF Write, WriteTaken, WriteDrained
  <2>3. CASE OperationFails \/ PortFails \/ Unplug \/ UnplugFails
    BY <1>1, <2>3 DEF OperationFails, PortFails, Fail, Unplug, UnplugFails
  <2>4. CASE Close \/ CloseTimesOut \/ PortCloses \/ PortStaysOpen
    BY <1>1, <2>4 DEF Close, CloseTimesOut, PortCloses, PortStaysOpen
  <2> QED BY <1>1, <2>1, <2>2, <2>3, <2>4 DEF TransportNext
<1>2. ASSUME TransportInv, [TransportNext]_transportVars PROVE [Honest]_transportVars
  BY <1>1, <1>2
<1> QED BY <1>2, TransportInvariance, StreamIsTransport, PTL DEF TransportSpec, NoSuccessAfterEnd

(* The transport implements what the session relies on.                    *)
THEOREM TransportPromises == StreamSpec => PromiseSpec
<1>1. TransportInit => TransportPromise!Init
  BY DEF TransportInit, Ended, promised, TransportPromise!Init
<1>2. ASSUME TransportInv, [TransportNext]_transportVars PROVE [TransportPromise!Next]_promised
  <2> USE DEF TransportInv, TransportTypeOK, ConfirmedMeansClosed, EndInv, FlagsAgree, Ended, Ports, Ends,
              promised, TransportPromise!Next, TransportPromise!Moves, MarkTerminal, AskPort, FinishClosed
  <2>1. CASE Open \/ OpenSucceeds \/ OpenFails
    BY <1>2, <2>1 DEF Open, OpenSucceeds, OpenFails
  <2>2. CASE Write \/ WriteTaken \/ WriteDrained \/ Unplug \/ CloseTimesOut
    BY <1>2, <2>2 DEF Write, WriteTaken, WriteDrained, Unplug, CloseTimesOut
  <2>3. CASE OperationFails \/ PortFails \/ Close
    BY <1>2, <2>3 DEF OperationFails, PortFails, Fail, Close, RequestClose
  <2>4. CASE UnplugFails \/ PortCloses \/ PortStaysOpen
    BY <1>2, <2>4 DEF UnplugFails, PortCloses, PortStaysOpen
  <2>5. CASE UNCHANGED transportVars
    BY <2>5 DEF transportVars
  <2> QED BY <1>2, <2>1, <2>2, <2>3, <2>4, <2>5 DEF TransportNext
<1> QED BY <1>1, <1>2, TransportInvariance, StreamIsTransport, PTL
        DEF TransportSpec, PromiseSpec, TransportPromise!Spec

-----------------------------------------------------------------------------
(* The text *)

TextInv ==
  /\ first \in Nat
  /\ offset \in Seq(Nat) /\ Len(offset) >= 1 /\ offset[1] = 0
  /\ \A m, n \in 1 .. Len(offset) : m <= n => offset[m] <= offset[n]
  /\ stored = offset[Len(offset)]
  /\ partial \in 0 .. LineBytes
  /\ ended \in BOOLEAN
  /\ NextCursor - first <= MaxLines
  /\ stored + partial <= BufferBytes

LEMMA Sizes ==
  /\ MaxLines \in Nat \ {0} /\ LineBytes \in Nat \ {0} /\ PageLines \in Nat \ {0}
  /\ BufferBytes \in Nat /\ PageBytes \in Nat /\ LineBytes <= BufferBytes
  BY BufferAssumption

(* What is left when the lines before f have gone.                         *)
LEMMA Trimmed ==
  ASSUME TextInv, NEW f \in first .. NextCursor,
         NEW lines \in {0, 1}, NEW bytes \in 0 .. BufferBytes, EvictTo(f, lines, bytes)
  PROVE  /\ f \in Nat /\ first <= f /\ From(f) \in Seq(Nat)
         /\ Len(From(f)) = NextCursor - f + 1 /\ Len(From(f)) >= 1
         /\ From(f)[1] = 0
         /\ \A m, n \in 1 .. Len(From(f)) : m <= n => From(f)[m] <= From(f)[n]
         /\ From(f)[Len(From(f))] = stored - Bytes(first, f)
         /\ From(f)[Len(From(f))] = Bytes(f, NextCursor)
         /\ NextCursor - f + lines <= MaxLines
         /\ stored - Bytes(first, f) + bytes <= BufferBytes
<1> DEFINE k == f - first
           len == Len(offset) - k
<1>1. /\ k \in Nat /\ len \in Nat /\ len >= 1 /\ k + len = Len(offset)
      /\ NextCursor - f + 1 = len /\ f \in Nat /\ first <= f
  BY DEF TextInv, NextCursor
<1>2. \A n \in 1 .. Len(offset) : offset[n] \in Nat
  BY SMTT(60) DEF TextInv
<1>3. From(f) = [n \in 1 .. len |-> offset[n + k] - offset[k + 1]]
  BY <1>1 DEF From
<1>4. \A n \in 1 .. len : /\ n + k \in 1 .. Len(offset)
                          /\ offset[n + k] \in Nat /\ offset[k + 1] \in Nat
                          /\ offset[k + 1] <= offset[n + k]
  <2> SUFFICES ASSUME NEW n \in 1 .. len
               PROVE  /\ n + k \in 1 .. Len(offset) /\ offset[n + k] \in Nat
                      /\ offset[k + 1] \in Nat /\ offset[k + 1] <= offset[n + k]
    OBVIOUS
  <2> HIDE DEF k, len
  <2>1. n + k \in 1 .. Len(offset) /\ k + 1 \in 1 .. Len(offset) /\ k + 1 <= n + k
    BY <1>1
  <2>2. offset[k + 1] <= offset[n + k]
    BY <2>1 DEF TextInv
  <2> QED BY <1>2, <2>1, <2>2
<1> HIDE DEF k, len
<1>5. From(f) \in [1 .. len -> Nat]
  BY <1>3, <1>4
<1>6. From(f) \in Seq(Nat) /\ Len(From(f)) = len
  BY <1>1, <1>5
<1>7. From(f)[1] = 0
  <2>1. 1 \in 1 .. len /\ offset[1 + k] = offset[k + 1] /\ offset[k + 1] \in Nat
    BY <1>1, <1>4
  <2> QED BY <2>1, <1>3
<1>8. ASSUME NEW m \in 1 .. len, NEW n \in 1 .. len, m <= n
      PROVE  From(f)[m] <= From(f)[n]
  <2>1. m + k \in 1 .. Len(offset) /\ n + k \in 1 .. Len(offset) /\ m + k <= n + k
    BY <1>1, <1>4, <1>8
  <2>2. offset[m + k] <= offset[n + k]
    BY <2>1 DEF TextInv
  <2> QED BY SMTT(60), <2>2, <1>3, <1>4
<1>9. From(f)[len] = offset[Len(offset)] - offset[k + 1]
  <2>1. len \in 1 .. len /\ len + k = Len(offset)
    BY <1>1
  <2> QED BY <2>1, <1>3
<1>10. Bytes(first, f) = offset[k + 1] - offset[1] /\ Bytes(f, NextCursor) = offset[Len(offset)] - offset[k + 1]
  BY SMTT(60), <1>1 DEF Bytes, k, NextCursor, TextInv
<1>11. offset[k + 1] \in Nat /\ offset[Len(offset)] \in Nat /\ offset[1] = 0 /\ stored = offset[Len(offset)]
  BY <1>1, <1>2 DEF TextInv
<1>12. From(f)[len] = stored - Bytes(first, f) /\ From(f)[len] = Bytes(f, NextCursor)
  BY <1>9, <1>10, <1>11
<1>13. NextCursor - f + lines <= MaxLines /\ stored - Bytes(first, f) + bytes <= BufferBytes
  <2>1. CASE f = NextCursor
    <3>1. len = 1
      BY <1>1, <2>1 DEF NextCursor, TextInv
    <3>2. stored - Bytes(first, f) = 0
      BY <1>7, <1>12, <3>1
    <3> QED BY <1>1, <2>1, <3>1, <3>2, Sizes
  <2>2. CASE f # NextCursor
    BY <2>2 DEF EvictTo
  <2> QED BY <2>1, <2>2
<1> QED BY <1>1, <1>6, <1>7, <1>8, <1>12, <1>13

LEMMA CharacterKeepsText ==
  ASSUME TextInv, Character, ended' \in BOOLEAN
  PROVE  TextInv' /\ first <= first' /\ NextCursor' = NextCursor
<1>1. Grown \in 0 .. LineBytes /\ Grown \in 0 .. BufferBytes
  BY Sizes DEF Grown, TextInv
<1>2. PICK f \in first .. NextCursor :
        EvictTo(f, 0, Grown) /\ first' = f /\ stored' = stored - Bytes(first, f) /\ offset' = From(f)
  BY DEF Character
<1>3. /\ f \in Nat /\ first <= f /\ From(f) \in Seq(Nat)
      /\ Len(From(f)) = NextCursor - f + 1 /\ Len(From(f)) >= 1
      /\ From(f)[1] = 0
      /\ \A m, n \in 1 .. Len(From(f)) : m <= n => From(f)[m] <= From(f)[n]
      /\ From(f)[Len(From(f))] = stored - Bytes(first, f)
      /\ NextCursor - f + 0 <= MaxLines
      /\ stored - Bytes(first, f) + Grown <= BufferBytes
  BY <1>1, <1>2, Trimmed
<1>4. NextCursor' = first' + Len(offset') - 1 /\ NextCursor \in Nat
  BY DEF NextCursor, TextInv
<1>5. NextCursor' = NextCursor /\ NextCursor' - first' <= MaxLines
  BY <1>2, <1>3, <1>4
<1>6. first' \in Nat /\ offset' \in Seq(Nat) /\ Len(offset') >= 1 /\ offset'[1] = 0
  BY <1>2, <1>3
<1>7. \A m, n \in 1 .. Len(offset') : m <= n => offset'[m] <= offset'[n]
  BY <1>2, <1>3
<1>8. stored' = offset'[Len(offset')] /\ partial' \in 0 .. LineBytes
  BY <1>1, <1>2, <1>3 DEF Character
<1>9. stored' + partial' <= BufferBytes
  BY <1>2, <1>3 DEF Character
<1>10. TextInv'
  BY <1>5, <1>6, <1>7, <1>8, <1>9 DEF TextInv
<1> QED BY <1>2, <1>3, <1>5, <1>10

LEMMA LineKeepsText ==
  ASSUME TextInv, FinishLine, ended' \in BOOLEAN
  PROVE  TextInv' /\ first <= first' /\ NextCursor' = NextCursor + 1
<1>1. PICK bytes \in Filtered, f \in first .. NextCursor :
        /\ EvictTo(f, 1, bytes) /\ first' = f
        /\ stored' = stored - Bytes(first, f) + bytes
        /\ offset' = Append(From(f), Bytes(f, NextCursor) + bytes)
  BY DEF FinishLine
<1>2. bytes \in 0 .. BufferBytes
  BY Sizes DEF Filtered, TextInv
<1> DEFINE F == From(f)
<1>3. /\ f \in Nat /\ first <= f /\ F \in Seq(Nat)
      /\ Len(F) = NextCursor - f + 1 /\ Len(F) >= 1
      /\ F[1] = 0
      /\ \A m, n \in 1 .. Len(F) : m <= n => F[m] <= F[n]
      /\ F[Len(F)] = stored - Bytes(first, f)
      /\ F[Len(F)] = Bytes(f, NextCursor)
      /\ NextCursor - f + 1 <= MaxLines
      /\ stored - Bytes(first, f) + bytes <= BufferBytes
  BY <1>1, <1>2, Trimmed
<1>4. offset' = Append(F, F[Len(F)] + bytes) /\ stored' = F[Len(F)] + bytes
  BY <1>1, <1>3
<1> HIDE DEF F
<1>5. /\ offset' \in Seq(Nat) /\ Len(offset') = Len(F) + 1
      /\ \A n \in 1 .. Len(F) : offset'[n] = F[n]
      /\ offset'[Len(F) + 1] = F[Len(F)] + bytes
      /\ \A n \in 1 .. Len(F) : F[n] \in Nat
  BY <1>2, <1>3, <1>4
<1>6. ASSUME NEW m \in 1 .. Len(offset'), NEW n \in 1 .. Len(offset'), m <= n
      PROVE  offset'[m] <= offset'[n]
  <2>1. CASE n <= Len(F)
    BY SMTT(60), <1>3, <1>5, <1>6, <2>1
  <2>2. CASE n = Len(F) + 1 /\ m = Len(F) + 1
    BY <1>2, <1>3, <1>5, <2>2
  <2>3. CASE n = Len(F) + 1 /\ m <= Len(F)
    <3>1. F[m] <= F[Len(F)] /\ offset'[m] = F[m] /\ F[m] \in Nat /\ F[Len(F)] \in Nat
      BY <1>3, <1>5, <1>6, <2>3
    <3> QED BY <1>2, <1>5, <2>3, <3>1
  <2> QED BY <1>3, <1>5, <1>6, <2>1, <2>2, <2>3
<1>7. NextCursor' = first' + Len(offset') - 1 /\ NextCursor \in Nat
  BY DEF NextCursor, TextInv
<1>8. NextCursor' = NextCursor + 1 /\ NextCursor' - first' <= MaxLines
  BY <1>1, <1>3, <1>5, <1>7
<1>9. partial' = 0 /\ stored' + partial' <= BufferBytes
  BY <1>1, <1>2, <1>3, <1>4, <1>5 DEF FinishLine
<1>10. first' \in Nat /\ first <= first' /\ Len(offset') >= 1 /\ offset'[1] = 0
  BY <1>1, <1>3, <1>5
<1>11. stored' = offset'[Len(offset')]
  BY <1>4, <1>5
<1>12. \A m, n \in 1 .. Len(offset') : m <= n => offset'[m] <= offset'[n]
  BY <1>6
<1>13. TextInv'
  BY <1>5, <1>8, <1>9, <1>10, <1>11, <1>12, Sizes DEF TextInv
<1> QED BY <1>8, <1>10, <1>13

-----------------------------------------------------------------------------
(* The readers *)

(* Every line before the cursor c was given or is known to be lost.        *)
Accounted(c, given, missed) ==
  /\ c \in 0 .. NextCursor
  /\ given \in SUBSET (0 .. c - 1) /\ missed \in Nat
  /\ Cardinality(given) + missed = c
  /\ (0 .. c - 1) \ given \subseteq 0 .. first - 1

(* What a call at cursor c saw is a page from there on.                    *)
IsPage(v, c) ==
  /\ v \in Views
  /\ v.from = c + v.dropped
  /\ v.from <= v.to /\ v.to <= v.latest /\ v.latest <= NextCursor
  /\ v.dropped > 0 => v.from <= first

IsCurrent(v) ==
  /\ v.open = ~ended
  /\ v.latest = NextCursor
  /\ ~v.more => v.to = NextCursor /\ v.partial = partial

(* A view of an open stream may be old, if a change was noted since.       *)
ReaderOK(r) ==
  /\ Accounted(cursor[r], got[r], lost[r])
  /\ phase[r] = "matching" =>
       /\ IsPage(view[r], cursor[r])
       /\ r \notin changed \/ ~view[r].open => IsCurrent(view[r])
  /\ phase[r] = "finished" =>
       ended /\ cursor[r] = NextCursor /\ view[r].partial = partial

Phases == {"reading", "matching", "waiting", "finished", "cancelled"}

ReadersInv ==
  /\ phase \in [Reader -> Phases]
  /\ cursor \in [Reader -> Nat]
  /\ view \in [Reader -> Views]
  /\ got \in [Reader -> SUBSET Nat]
  /\ lost \in [Reader -> Nat]
  /\ \A r \in Reader : ReaderOK(r)

BufferInv == TextInv /\ ReadersInv

LEMMA BufferInitInv == BufferInit => BufferInv
<1> SUFFICES ASSUME BufferInit PROVE BufferInv
  OBVIOUS
<1>1. TextInv
  <2>1. offset \in Seq(Nat) /\ Len(offset) = 1 /\ offset[1] = 0 /\ first = 0
    BY DEF BufferInit
  <2>2. \A m, n \in 1 .. Len(offset) : m <= n => offset[m] <= offset[n]
    <3> SUFFICES ASSUME NEW m \in 1 .. Len(offset), NEW n \in 1 .. Len(offset) PROVE offset[m] <= offset[n]
      OBVIOUS
    <3>1. m = 1 /\ n = 1
      BY <2>1
    <3> QED BY <2>1, <3>1
  <2>3. NextCursor - first <= MaxLines
    BY <2>1, Sizes DEF NextCursor
  <2>4. stored = 0 /\ partial = 0 /\ ended \in BOOLEAN /\ stored + partial <= BufferBytes
        /\ partial \in 0 .. LineBytes
    <3>1. stored = 0 /\ partial = 0 /\ ended = FALSE
      BY DEF BufferInit
    <3>2. 0 + 0 <= BufferBytes /\ 0 \in 0 .. LineBytes
      BY Sizes
    <3>3. ended \in BOOLEAN
      BY <3>1, Zenon
    <3> QED BY <3>1, <3>2, <3>3
  <2>5. stored = offset[Len(offset)]
    BY <2>1, <2>4
  <2> QED BY <2>1, <2>2, <2>3, <2>4, <2>5 DEF TextInv
<1>2. NoView \in Views
  BY DEF NoView, Views
<1>3. ASSUME NEW r \in Reader PROVE ReaderOK(r)
  BY FS_EmptySet DEF BufferInit, ReaderOK, Accounted, NextCursor
<1> QED BY <1>1, <1>2, <1>3 DEF BufferInit, BufferInv, ReadersInv, Phases

(* Receiving takes nothing from what the readers know.                     *)
LEMMA ChangeKeepsReaders ==
  ASSUME BufferInv, ~ended, Changed, first' \in Nat, NextCursor' \in Nat,
         first <= first', NextCursor <= NextCursor'
  PROVE  ReadersInv'
<1>1. NextCursor \in Nat /\ first \in Nat
  BY DEF BufferInv, TextInv, NextCursor
<1>2. ASSUME NEW r \in Reader PROVE ReaderOK(r)'
  <2>1. ReaderOK(r) /\ cursor[r] \in Nat /\ view[r] \in Views
    BY DEF BufferInv, ReadersInv
  <2>2. cursor'[r] = cursor[r] /\ got'[r] = got[r] /\ lost'[r] = lost[r] /\ view'[r] = view[r]
    BY DEF Changed
  <2>3. Accounted(cursor[r], got[r], lost[r])'
    BY <1>1, <2>1, <2>2 DEF ReaderOK, Accounted
  <2>4. phase'[r] = IF phase[r] = "waiting" THEN "reading" ELSE phase[r]
    BY DEF Changed
  <2>5. phase[r] # "finished"
    BY <2>1 DEF ReaderOK
  <2>6. ASSUME phase[r] = "matching"
        PROVE  IsPage(view[r], cursor[r])' /\ r \in changed' /\ view'[r].open
    <3>1. IsPage(view[r], cursor[r]) /\ (~view[r].open => IsCurrent(view[r]))
      BY <2>1, <2>6 DEF ReaderOK
    <3>2. view[r].open
      BY <3>1, <2>1 DEF IsCurrent, Views
    <3>3. r \in changed'
      BY <2>6 DEF Changed
    <3>4. IsPage(view[r], cursor[r])'
      BY <1>1, <2>1, <2>2, <3>1 DEF IsPage, Views
    <3> QED BY <2>2, <3>2, <3>3, <3>4
  <2> QED BY <2>3, <2>4, <2>5, <2>6 DEF ReaderOK
<1>3. phase' \in [Reader -> Phases]
  BY DEF BufferInv, ReadersInv, Changed, Phases
<1> QED BY <1>2, <1>3 DEF BufferInv, ReadersInv, Changed

LEMMA ReceiveKeeps == ASSUME BufferInv, Receive PROVE BufferInv'
<1>1. ~ended /\ ended' = ended /\ ended' \in BOOLEAN /\ Changed /\ TextInv
  BY DEF Receive, BufferInv, TextInv
<1>2. NextCursor \in Nat /\ first \in Nat
  BY <1>1 DEF TextInv, NextCursor
<1>3. TextInv' /\ first <= first' /\ NextCursor <= NextCursor'
  <2>1. CASE Character
    <3>1. TextInv' /\ first <= first' /\ NextCursor' = NextCursor
      BY <1>1, <2>1, CharacterKeepsText
    <3> QED BY <1>2, <3>1
  <2>2. CASE FinishLine
    <3>1. TextInv' /\ first <= first' /\ NextCursor' = NextCursor + 1
      BY <1>1, <2>2, LineKeepsText
    <3> QED BY <1>2, <3>1
  <2>3. CASE UNCHANGED <<first, offset, stored, partial>>
    BY <1>1, <1>2, <2>3 DEF TextInv, NextCursor
  <2> QED BY <2>1, <2>2, <2>3 DEF Receive
<1>4. first' \in Nat /\ NextCursor' \in Nat
  BY <1>3 DEF TextInv, NextCursor
<1> QED BY <1>1, <1>3, <1>4, ChangeKeepsReaders DEF BufferInv

LEMMA CloseKeeps == ASSUME BufferInv, CloseBuffer PROVE BufferInv'
<1>1. ~ended /\ ended' = TRUE /\ ended' \in BOOLEAN /\ Changed /\ TextInv
  BY DEF CloseBuffer, BufferInv
<1>2. NextCursor \in Nat /\ first \in Nat
  BY <1>1 DEF TextInv, NextCursor
<1>3. TextInv' /\ first <= first' /\ NextCursor <= NextCursor'
  <2>1. CASE Character
    <3>1. TextInv' /\ first <= first' /\ NextCursor' = NextCursor
      BY <1>1, <2>1, CharacterKeepsText
    <3> QED BY <1>2, <3>1
  <2>2. CASE UNCHANGED <<first, offset, stored, partial>>
    BY <1>1, <1>2, <2>2 DEF TextInv, NextCursor
  <2> QED BY <2>1, <2>2 DEF CloseBuffer
<1>4. first' \in Nat /\ NextCursor' \in Nat
  BY SMTT(60), <1>3 DEF TextInv, NextCursor
<1> QED BY <1>1, <1>3, <1>4, ChangeKeepsReaders DEF BufferInv

(* A snapshot is a page, and it is up to date.                             *)
LEMMA SnapshotIsPage ==
  ASSUME BufferInv, NEW r \in Reader, NEW v \in Snapshot(r)
  PROVE  IsPage(v, cursor[r]) /\ IsCurrent(v)
<1> DEFINE start == IF cursor[r] < first THEN first ELSE cursor[r]
           Shown(to, size) == /\ to = NextCursor
                              /\ to - start < PageLines
                              /\ Bytes(start, to) + size <= PageBytes
<1>1. PICK to \in start .. NextCursor, size \in Filtered :
        v = [from    |-> start,
             to      |-> to,
             latest  |-> NextCursor,
             partial |-> IF Shown(to, size) THEN partial ELSE 0,
             dropped |-> start - cursor[r],
             more    |-> to < NextCursor \/ (~Shown(to, size) /\ partial > 0),
             open    |-> ~ended]
  BY DEF Snapshot
<1>2. /\ cursor[r] \in Nat /\ first \in Nat /\ NextCursor \in Nat
      /\ partial \in Nat /\ ended \in BOOLEAN
  BY Sizes DEF BufferInv, TextInv, ReadersInv, NextCursor
<1>3. start \in Nat /\ start - cursor[r] \in Nat /\ (start - cursor[r] > 0 => start <= first)
  BY <1>2
<1> HIDE DEF start, Shown
<1>4. v \in Views
  BY <1>1, <1>2, <1>3 DEF Views
<1>5. IsPage(v, cursor[r])
  BY <1>1, <1>2, <1>3, <1>4 DEF IsPage
<1>6. ~v.more => v.to = NextCursor /\ v.partial = partial
  <2>1. v.more = (to < NextCursor \/ (~Shown(to, size) /\ partial > 0))
    BY <1>1
  <2>2. v.to = to /\ v.partial = IF Shown(to, size) THEN partial ELSE 0
    BY <1>1
  <2>3. to \in Nat /\ to <= NextCursor
    BY <1>1, <1>2, <1>3
  <2>4. ASSUME ~v.more PROVE to = NextCursor /\ v.partial = partial
    <3>1. ~(to < NextCursor) /\ (Shown(to, size) \/ ~(partial > 0))
      BY <2>1, <2>4
    <3>2. to = NextCursor
      BY <1>2, <2>3, <3>1
    <3>3. Shown(to, size) => v.partial = partial
      BY <2>2, Zenon
    <3>4. ~Shown(to, size) => v.partial = 0 /\ ~(partial > 0)
      BY <2>2, <3>1, Zenon
    <3>5. ~(partial > 0) => partial = 0
      BY <1>2
    <3> QED BY <3>2, <3>3, <3>4, <3>5, Zenon
  <2> QED BY <2>2, <2>4
<1>7. v.open = ~ended /\ v.latest = NextCursor
  BY <1>1
<1> QED BY <1>5, <1>6, <1>7 DEF IsCurrent

(* The lines of a page are new to a reader at cursor c.                    *)
LEMMA PageAccounted ==
  ASSUME NEW c, NEW given, NEW missed, Accounted(c, given, missed),
         first \in Nat, NextCursor \in Nat,
         NEW v \in Views, IsPage(v, c), NEW to \in v.from .. v.to
  PROVE  Accounted(to, given \cup (v.from .. to - 1), missed + v.dropped)
<1>1. /\ c \in Nat /\ missed \in Nat /\ to \in Nat
      /\ v.from \in Nat /\ v.dropped \in Nat /\ v.to \in Nat /\ v.latest \in Nat
      /\ c <= v.from /\ v.from <= to /\ to <= NextCursor
  BY DEF Accounted, IsPage, Views
<1>2. IsFiniteSet(given)
  <2>1. IsFiniteSet(0 .. c - 1)
    BY <1>1, FS_Interval
  <2> QED BY <2>1, FS_Subset DEF Accounted
<1>3. IsFiniteSet(v.from .. to - 1) /\ Cardinality(v.from .. to - 1) = to - v.from
  <2>1. /\ IsFiniteSet(v.from .. to - 1)
        /\ Cardinality(v.from .. to - 1) = IF v.from > to - 1 THEN 0 ELSE (to - 1) - v.from + 1
    <3>1. v.from \in Int /\ to - 1 \in Int
      BY <1>1
    <3> QED BY <3>1, FS_Interval, Zenon
  <2> QED BY <1>1, <2>1
<1>4. given \cap (v.from .. to - 1) = {}
  BY <1>1 DEF Accounted
<1>5. Cardinality(given \cup (v.from .. to - 1)) = Cardinality(given) + (to - v.from)
  <2>1. Cardinality(given \cup (v.from .. to - 1))
          = Cardinality(given) + Cardinality(v.from .. to - 1) - Cardinality(given \cap (v.from .. to - 1))
    BY <1>2, <1>3, FS_Union
  <2>2. Cardinality(given) \in Nat
    BY <1>2, FS_CardinalityType
  <2>3. Cardinality({}) = 0
    BY FS_EmptySet
  <2> HIDE DEF IsPage
  <2>4. Cardinality(given \cup (v.from .. to - 1)) = Cardinality(given) + (to - v.from) - 0
    BY <1>3, <1>4, <2>1, <2>3
  <2>5. \A x, y \in Int : x + y - 0 = x + y
    OBVIOUS
  <2> QED BY <1>1, <2>2, <2>4, <2>5
<1>6. given \cup (v.from .. to - 1) \in SUBSET (0 .. to - 1)
  <2>1. given \in SUBSET (0 .. to - 1)
    <3>1. 0 .. c - 1 \subseteq 0 .. to - 1
      BY <1>1
    <3> QED BY <3>1 DEF Accounted
  <2>2. v.from .. to - 1 \subseteq 0 .. to - 1
    BY <1>1
  <2> QED BY <2>1, <2>2
<1>7. (0 .. to - 1) \ (given \cup (v.from .. to - 1)) \subseteq 0 .. first - 1
  <2> SUFFICES ASSUME NEW x \in 0 .. to - 1, x \notin given, x \notin v.from .. to - 1
               PROVE  x \in 0 .. first - 1
    OBVIOUS
  <2>1. x \in Nat /\ x < v.from
    BY <1>1
  <2>2. CASE x < c
    BY <1>1, <2>1, <2>2 DEF Accounted
  <2>3. CASE x >= c
    <3>1. v.dropped > 0
      BY <1>1, <2>1, <2>3 DEF IsPage
    <3> QED BY <1>1, <2>1, <3>1 DEF IsPage
  <2> QED BY <1>1, <2>1, <2>2, <2>3
<1>8. Cardinality(given \cup (v.from .. to - 1)) + (missed + v.dropped) = to
  <2>1. Cardinality(given) + missed = c /\ v.from = c + v.dropped /\ Cardinality(given) \in Nat
    BY <1>2, FS_CardinalityType DEF Accounted, IsPage
  <2> QED BY <1>1, <1>5, <2>1
<1> QED BY <1>1, <1>6, <1>7, <1>8 DEF Accounted

(* The other readers of a step are as they were.                           *)
LEMMA OthersKept ==
  ASSUME BufferInv, UNCHANGED text, NEW s \in Reader,
         phase'[s] = phase[s], cursor'[s] = cursor[s], view'[s] = view[s],
         got'[s] = got[s], lost'[s] = lost[s], s \in changed => s \in changed'
  PROVE  ReaderOK(s)'
<1>1. ReaderOK(s)
  BY DEF BufferInv, ReadersInv
<1>2. first' = first /\ NextCursor' = NextCursor /\ partial' = partial /\ ended' = ended
  BY DEF text, NextCursor
<1>3. Accounted(cursor[s], got[s], lost[s])'
  BY <1>1, <1>2 DEF ReaderOK, Accounted
<1>4. ASSUME phase[s] = "matching"
      PROVE  /\ IsPage(view[s], cursor[s])'
             /\ s \notin changed' \/ ~view'[s].open => IsCurrent(view[s])'
  BY <1>1, <1>2, <1>4 DEF ReaderOK, IsPage, IsCurrent
<1>5. phase[s] = "finished" => ended' /\ cursor'[s] = NextCursor' /\ view'[s].partial = partial'
  BY <1>1, <1>2 DEF ReaderOK
<1> QED BY <1>3, <1>4, <1>5 DEF ReaderOK

LEMMA TextKept == ASSUME TextInv, UNCHANGED text PROVE TextInv'
  BY DEF TextInv, text, NextCursor

(* An answer that ends the stream has to be right about the end.           *)
LEMMA AnswerKeeps ==
  ASSUME BufferInv, UNCHANGED text, NEW r \in Reader, NEW v \in Views,
         IsPage(v, cursor[r]), NEW to \in v.from .. v.to,
         NEW open, NEW more, Answer(r, v, to, open, more),
         ~open /\ ~more => ended /\ to = NextCursor /\ v.partial = partial
  PROVE  BufferInv'
<1>1. /\ first' = first /\ NextCursor' = NextCursor /\ partial' = partial /\ ended' = ended
      /\ first \in Nat /\ NextCursor \in Nat
  BY DEF text, NextCursor, BufferInv, TextInv
<1>2. /\ phase'[r] = IF ~open /\ ~more THEN "finished" ELSE "reading"
      /\ cursor'[r] = to
      /\ view'[r] = IF ~open /\ ~more THEN v ELSE NoView
      /\ got'[r] = got[r] \cup (v.from .. to - 1)
      /\ lost'[r] = lost[r] + v.dropped
  BY DEF Answer, BufferInv, ReadersInv
<1>3. Accounted(to, got[r] \cup (v.from .. to - 1), lost[r] + v.dropped)
  BY <1>1, PageAccounted DEF BufferInv, ReadersInv, ReaderOK
<1>4. Accounted(cursor[r], got[r], lost[r])'
  BY <1>1, <1>2, <1>3 DEF Accounted
<1>5. phase'[r] # "matching"
  BY <1>2
<1>6. phase'[r] = "finished" => ended' /\ cursor'[r] = NextCursor' /\ view'[r].partial = partial'
  BY <1>1, <1>2
<1>7. ReaderOK(r)'
  BY <1>4, <1>5, <1>6 DEF ReaderOK
<1>8. ASSUME NEW s \in Reader, s # r PROVE ReaderOK(s)'
  <2>1. /\ phase'[s] = phase[s] /\ cursor'[s] = cursor[s] /\ view'[s] = view[s]
        /\ got'[s] = got[s] /\ lost'[s] = lost[s] /\ (s \in changed => s \in changed')
    BY <1>8 DEF Answer, BufferInv, ReadersInv
  <2> QED BY <2>1, OthersKept
<1>9. /\ v.dropped \in Nat /\ to \in Nat /\ v.from \in Nat /\ NoView \in Views
  BY DEF Views, NoView
<1>10. /\ phase' \in [Reader -> Phases] /\ cursor' \in [Reader -> Nat]
       /\ view' \in [Reader -> Views]
  BY <1>9 DEF Answer, BufferInv, ReadersInv, Phases
<1>11. got' \in [Reader -> SUBSET Nat] /\ lost' \in [Reader -> Nat]
  BY <1>9 DEF Answer, BufferInv, ReadersInv
<1> QED BY <1>7, <1>8, <1>10, <1>11, TextKept DEF BufferInv, ReadersInv

(* A call that does not answer changes nothing that its reader knows.      *)
LEMMA SilentKeeps ==
  ASSUME BufferInv, UNCHANGED text, NEW r \in Reader, NEW p \in {"reading", "matching", "waiting"},
         NEW v \in Views, p = "matching" => IsPage(v, cursor[r]) /\ IsCurrent(v),
         phase' = [phase EXCEPT ![r] = p], view' = [view EXCEPT ![r] = v],
         UNCHANGED <<cursor, got, lost>>, \A s \in Reader : s # r /\ s \in changed => s \in changed'
  PROVE  BufferInv'
<1>1. /\ first' = first /\ NextCursor' = NextCursor /\ partial' = partial /\ ended' = ended
  BY DEF text, NextCursor
<1>2. phase'[r] = p /\ view'[r] = v /\ cursor'[r] = cursor[r] /\ got'[r] = got[r] /\ lost'[r] = lost[r]
  BY DEF BufferInv, ReadersInv
<1>3. Accounted(cursor[r], got[r], lost[r])'
  BY <1>1, <1>2 DEF BufferInv, ReadersInv, ReaderOK, Accounted
<1>4. p = "matching" => IsPage(view[r], cursor[r])' /\ IsCurrent(view[r])'
  BY <1>1, <1>2 DEF IsPage, IsCurrent
<1>5. ReaderOK(r)'
  BY <1>2, <1>3, <1>4 DEF ReaderOK
<1>6. ASSUME NEW s \in Reader, s # r PROVE ReaderOK(s)'
  <2>1. /\ phase'[s] = phase[s] /\ cursor'[s] = cursor[s] /\ view'[s] = view[s]
        /\ got'[s] = got[s] /\ lost'[s] = lost[s] /\ (s \in changed => s \in changed')
    BY <1>6 DEF BufferInv, ReadersInv
  <2> QED BY <2>1, OthersKept
<1>7. phase' \in [Reader -> Phases] /\ view' \in [Reader -> Views]
  BY DEF BufferInv, ReadersInv, Phases
<1> QED BY <1>5, <1>6, <1>7, TextKept DEF BufferInv, ReadersInv

LEMMA AnswerOrSleepKeeps ==
  ASSUME BufferInv, UNCHANGED text, NEW r \in Reader, NEW c, NEW v \in Views,
         IsPage(v, cursor[r]), IsCurrent(v), AnswerOrSleep(r, c, v)
  PROVE  BufferInv'
<1>1. v.to \in v.from .. v.to
  BY DEF IsPage, Views
<1>2. ~v.open /\ ~v.more => ended /\ v.to = NextCursor /\ v.partial = partial
  BY DEF IsCurrent, Views
<1>3. CASE Answer(r, v, v.to, v.open, v.more)
  BY <1>1, <1>2, <1>3, AnswerKeeps
<1>4. CASE Sleep(r, c)
  <2>1. NoView \in Views
    BY DEF NoView, Views
  <2> QED BY <1>4, <2>1, SilentKeeps DEF Sleep
<1> QED BY <1>3, <1>4 DEF AnswerOrSleep

LEMMA LookKeeps == ASSUME BufferInv, NEW r \in Reader, Look(r) PROVE BufferInv'
<1>1. UNCHANGED text
  BY DEF Look
<1>2. PICK c \in (IF call[r] = NoCall THEN Calls ELSE {call[r]}), v \in Snapshot(r) :
        \/ ~c.pattern /\ AnswerOrSleep(r, c, v)
        \/ ~c.pattern /\ call[r] = NoCall /\ Answer(r, v, v.to, v.open, v.more)
        \/ /\ c.pattern
           /\ phase' = [phase EXCEPT ![r] = "matching"]
           /\ call' = [call EXCEPT ![r] = c]
           /\ view' = [view EXCEPT ![r] = v]
           /\ UNCHANGED <<cursor, changed, expired, got, lost>>
  BY DEF Look
<1>3. IsPage(v, cursor[r]) /\ IsCurrent(v)
  BY SnapshotIsPage
<1>4. v \in Views /\ v.to \in v.from .. v.to
  BY <1>3 DEF IsPage, Views
<1>5. ~v.open /\ ~v.more => ended /\ v.to = NextCursor /\ v.partial = partial
  BY <1>3, <1>4 DEF IsCurrent, Views
<1>6. CASE AnswerOrSleep(r, c, v)
  BY <1>1, <1>3, <1>4, <1>6, AnswerOrSleepKeeps
<1>7. CASE Answer(r, v, v.to, v.open, v.more)
  BY <1>1, <1>3, <1>4, <1>5, <1>7, AnswerKeeps
<1>8. CASE /\ phase' = [phase EXCEPT ![r] = "matching"]
           /\ view' = [view EXCEPT ![r] = v]
           /\ UNCHANGED <<cursor, changed, expired, got, lost>>
  BY <1>1, <1>3, <1>4, <1>8, SilentKeeps
<1> QED BY <1>2, <1>6, <1>7, <1>8

LEMMA FoundKeeps == ASSUME BufferInv, NEW r \in Reader, Found(r) PROVE BufferInv'
<1> DEFINE v == view[r]
<1>1. /\ UNCHANGED text /\ phase[r] = "matching"
      /\ Answer(r, v, v.to, ~ended, More(r, v))
  BY DEF Found
<1>2. /\ v \in Views /\ IsPage(v, cursor[r])
      /\ r \notin changed \/ ~v.open => IsCurrent(v)
  BY <1>1 DEF BufferInv, ReadersInv, ReaderOK
<1>3. v.to \in v.from .. v.to /\ v.to <= NextCursor /\ v.to \in Nat /\ NextCursor \in Nat
  BY SMTT(60), <1>2 DEF IsPage, Views, BufferInv, TextInv, NextCursor
<1>4. ASSUME ended, ~More(r, v)
      PROVE  v.to = NextCursor /\ v.partial = partial
  <2>1. ~v.more /\ ~(v.to < NextCursor) /\ (r \notin changed \/ v.partial = partial)
    BY <1>4 DEF More
  <2>2. v.to = NextCursor
    BY <1>3, <2>1
  <2>3. r \notin changed => v.partial = partial
    BY <1>2, <2>1 DEF IsCurrent
  <2> QED BY <2>1, <2>2, <2>3
<1> HIDE DEF v
<1> QED BY <1>1, <1>2, <1>3, <1>4, AnswerKeeps

LEMMA FoundLineKeeps == ASSUME BufferInv, NEW r \in Reader, FoundLine(r) PROVE BufferInv'
<1> DEFINE v == view[r]
<1>1. UNCHANGED text /\ phase[r] = "matching"
  BY DEF FoundLine
<1>2. /\ v \in Views /\ IsPage(v, cursor[r])
      /\ r \notin changed \/ ~v.open => IsCurrent(v)
  BY <1>1 DEF BufferInv, ReadersInv, ReaderOK
<1>3. PICK m \in v.from .. v.latest - 1 :
        Answer(r, v, IF m < v.to THEN m + 1 ELSE v.to, v.open,
               v.more \/ (IF m < v.to THEN m + 1 ELSE v.to) < v.latest)
  BY DEF FoundLine
<1> DEFINE to == IF m < v.to THEN m + 1 ELSE v.to
           more == v.more \/ to < v.latest
<1> HIDE DEF v
<1>4. to \in v.from .. v.to /\ to \in Nat /\ v.to \in Nat /\ v.latest \in Nat
  BY <1>2 DEF IsPage, Views
<1>5. ASSUME ~v.open, ~more
      PROVE  ended /\ to = NextCursor /\ v.partial = partial
  <2>1. IsCurrent(v) /\ ~v.more /\ ~(to < v.latest)
    BY <1>2, <1>5
  <2>2. ended /\ v.latest = NextCursor /\ v.to = NextCursor /\ v.partial = partial
    BY <1>2, <1>5, <2>1 DEF IsCurrent, Views
  <2>3. to = NextCursor
    BY <1>4, <2>1, <2>2
  <2> QED BY <2>2, <2>3
<1>6. Answer(r, v, to, v.open, more)
  BY <1>3
<1> HIDE DEF to, more
<1> QED BY <1>1, <1>2, <1>4, <1>5, <1>6, AnswerKeeps

LEMMA NotFoundKeeps == ASSUME BufferInv, NEW r \in Reader, NotFound(r) PROVE BufferInv'
<1> DEFINE v == view[r]
<1>1. UNCHANGED text /\ phase[r] = "matching"
  BY DEF NotFound
<1>2. /\ v \in Views /\ IsPage(v, cursor[r])
      /\ r \notin changed \/ ~v.open => IsCurrent(v)
  BY <1>1 DEF BufferInv, ReadersInv, ReaderOK
<1>3. \/ r \notin changed /\ AnswerOrSleep(r, call[r], v)
      \/ ~v.open /\ Answer(r, v, v.to, v.open, v.more)
      \/ r \in expired /\ Answer(r, v, v.to, v.open, v.more) /\ call[r].reference
      \/ \E w \in Snapshot(r) : Answer(r, w, w.to, w.open, w.more)
      \/ Again(r)
  BY DEF NotFound
<1> HIDE DEF v
<1>4. v.to \in v.from .. v.to
  BY <1>2 DEF IsPage, Views
<1>5. CASE r \notin changed /\ AnswerOrSleep(r, call[r], v)
  BY <1>1, <1>2, <1>5, AnswerOrSleepKeeps
<1>6. CASE Answer(r, v, v.to, v.open, v.more)
  <2>1. ~v.open /\ ~v.more => ended /\ v.to = NextCursor /\ v.partial = partial
    BY <1>2 DEF IsCurrent, Views
  <2> QED BY <1>1, <1>2, <1>4, <1>6, <2>1, AnswerKeeps
<1>7. ASSUME NEW w \in Snapshot(r), Answer(r, w, w.to, w.open, w.more) PROVE BufferInv'
  <2>1. IsPage(w, cursor[r]) /\ IsCurrent(w)
    BY SnapshotIsPage
  <2>2. w \in Views /\ w.to \in w.from .. w.to
    BY <2>1 DEF IsPage, Views
  <2>3. ~w.open /\ ~w.more => ended /\ w.to = NextCursor /\ w.partial = partial
    BY <2>1, <2>2 DEF IsCurrent, Views
  <2> QED BY <1>1, <1>7, <2>1, <2>2, <2>3, AnswerKeeps
<1>8. CASE Again(r)
  <2>1. NoView \in Views
    BY DEF NoView, Views
  <2> QED BY <1>1, <1>8, <2>1, SilentKeeps DEF Again
<1> QED BY <1>3, <1>5, <1>6, <1>7, <1>8

LEMMA ExpireKeeps == ASSUME BufferInv, NEW r \in Reader, Expire(r) PROVE BufferInv'
<1>1. /\ UNCHANGED text /\ UNCHANGED <<cursor, view, changed, got, lost>>
      /\ phase[r] \in {"matching", "waiting"}
      /\ phase' = [phase EXCEPT ![r] = IF @ = "waiting" THEN "reading" ELSE @]
  BY DEF Expire
<1>2. ASSUME NEW s \in Reader, s # r PROVE ReaderOK(s)'
  <2>1. phase'[s] = phase[s]
    BY <1>1, <1>2 DEF BufferInv, ReadersInv
  <2> QED BY <1>1, <2>1, OthersKept
<1>3. CASE phase[r] = "matching"
  <2>1. phase'[r] = phase[r]
    BY <1>1, <1>3 DEF BufferInv, ReadersInv
  <2> QED BY <1>1, <1>2, <2>1, OthersKept, TextKept DEF BufferInv, ReadersInv, Phases
<1>4. CASE phase[r] = "waiting"
  <2>1. phase'[r] = "reading" /\ phase' \in [Reader -> Phases]
    BY <1>1, <1>4 DEF BufferInv, ReadersInv, Phases
  <2>2. Accounted(cursor[r], got[r], lost[r])
    BY DEF BufferInv, ReadersInv, ReaderOK
  <2>3. Accounted(cursor[r], got[r], lost[r])'
    BY <1>1, <2>2 DEF Accounted, text, NextCursor
  <2>4. ReaderOK(r)'
    BY <2>1, <2>3 DEF ReaderOK
  <2> QED BY <1>1, <1>2, <2>1, <2>4, TextKept DEF BufferInv, ReadersInv
<1> QED BY <1>1, <1>3, <1>4

LEMMA CancelKeeps == ASSUME BufferInv, NEW r \in Reader, Cancel(r) PROVE BufferInv'
<1>1. UNCHANGED text
  BY DEF Cancel
<1>2. ASSUME NEW s \in Reader, s # r PROVE ReaderOK(s)'
  <2>1. /\ phase'[s] = phase[s] /\ cursor'[s] = cursor[s] /\ view'[s] = view[s]
        /\ got'[s] = got[s] /\ lost'[s] = lost[s] /\ (s \in changed => s \in changed')
    BY <1>2 DEF Cancel, BufferInv, ReadersInv
  <2> QED BY <1>1, <2>1, OthersKept
<1>3. phase'[r] = "cancelled" /\ cursor'[r] = 0 /\ got'[r] = {} /\ lost'[r] = 0
  BY DEF Cancel, BufferInv, ReadersInv
<1>4. ReaderOK(r)'
  <2>1. NextCursor' \in Nat
    BY SMTT(60), <1>1, TextKept DEF BufferInv, TextInv, NextCursor
  <2>2. Accounted(0, {}, 0)'
    BY <2>1, FS_EmptySet DEF Accounted
  <2> QED BY <1>3, <2>2 DEF ReaderOK, Accounted
<1>5. NoView \in Views
  BY DEF NoView, Views
<1>6. /\ phase' \in [Reader -> Phases] /\ cursor' \in [Reader -> Nat] /\ view' \in [Reader -> Views]
      /\ got' \in [Reader -> SUBSET Nat] /\ lost' \in [Reader -> Nat]
  BY <1>5 DEF Cancel, BufferInv, ReadersInv, Phases
<1> QED BY <1>1, <1>2, <1>4, <1>6, TextKept DEF BufferInv, ReadersInv

LEMMA IdleKeeps == ASSUME BufferInv, UNCHANGED <<text, readers>> PROVE BufferInv'
<1>1. ASSUME NEW s \in Reader PROVE ReaderOK(s)'
  BY OthersKept DEF readers
<1> QED BY <1>1, TextKept DEF BufferInv, ReadersInv, readers

LEMMA StreamKeepsBuffer == BufferInv /\ [StreamNext]_streamVars => BufferInv'
<1> SUFFICES ASSUME BufferInv, [StreamNext]_streamVars PROVE BufferInv'
  OBVIOUS
<1>1. CASE Data
  BY <1>1, ReceiveKeeps DEF Data
<1>2. CASE Terminated \/ EndSession
  BY <1>2, CloseKeeps, IdleKeeps, TextKept DEF Terminated, EndSession, text
<1>3. CASE BufferStep
  BY <1>3, LookKeeps, FoundKeeps, FoundLineKeeps, NotFoundKeeps, ExpireKeeps, CancelKeeps
  DEF BufferStep, Read
<1>4. CASE UNCHANGED <<text, readers>>
  BY <1>4, IdleKeeps
<1> QED BY <1>1, <1>2, <1>3, <1>4 DEF StreamNext, streamVars

LEMMA BufferInvariance == StreamSpec => []BufferInv
<1>1. StreamInit => BufferInv
  BY BufferInitInv DEF StreamInit
<1> QED BY <1>1, StreamKeepsBuffer, PTL DEF StreamSpec

(* Whatever the sizes and the calls, a reader is given, or told of as      *)
(* lost, each line once.                                                   *)
THEOREM LinesAreAccounted == StreamSpec => []LinesAccounted
<1>1. BufferInv => LinesAccounted
  BY DEF BufferInv, ReadersInv, ReaderOK, Accounted, LinesAccounted
<1> QED BY <1>1, BufferInvariance, PTL

(* The buffer keeps to its budget of lines and of bytes.                   *)
THEOREM BudgetIsKept == StreamSpec => []BudgetKept
<1>1. ASSUME BufferInv PROVE BudgetKept
  <2>1. TextInv /\ offset[Len(offset)] \in Nat
    BY <1>1 DEF BufferInv, TextInv
  <2>2. Bytes(first, NextCursor) = offset[Len(offset)] - offset[1]
    <3>1. NextCursor - first + 1 = Len(offset) /\ first - first + 1 = 1
      BY <2>1 DEF TextInv, NextCursor
    <3> QED BY <3>1 DEF Bytes
  <2>3. stored = Bytes(first, NextCursor)
    BY <2>1, <2>2 DEF TextInv
  <2> QED BY <2>1, <2>3 DEF TextInv, BudgetKept
<1> QED BY <1>1, BufferInvariance, PTL

(* A reader that was told of the end missed nothing.                       *)
THEOREM EveryoneIsToldEverything == StreamSpec => []ToldEverything
<1>1. BufferInv => ToldEverything
  BY DEF BufferInv, ReadersInv, ReaderOK, ToldEverything
<1> QED BY <1>1, BufferInvariance, PTL

-----------------------------------------------------------------------------
(* The session manager: types *)

LEMMA InitTypes == Init => TypeOK
  BY SessionAssumption DEF Init, TypeOK

(* What the store leaves of a session's leases are leases of it. *)
LEMMA ReleaseKeepsTypes ==
  ASSUME TypeOK, NEW s \in Session, ReleaseLease(s)
  PROVE  /\ leases' \in [Session -> SUBSET Resource]
         /\ refused' \in [Session -> BOOLEAN]
         /\ leases'[s] \subseteq leases[s]
         /\ \A t \in Session \ {s} : leases'[t] = leases[t] /\ refused'[t] = refused[t]
<1>1. CASE UNCHANGED <<leases, refused>>
  BY <1>1 DEF TypeOK
<1>2. CASE \E left \in SUBSET leases[s] :
             /\ leases' = [leases EXCEPT ![s] = left]
             /\ refused' = [refused EXCEPT ![s] = left # {}]
  <2>1. PICK left \in SUBSET leases[s] :
          /\ leases' = [leases EXCEPT ![s] = left]
          /\ refused' = [refused EXCEPT ![s] = left # {}]
    BY <1>2
  <2>2. leases' \in [Session -> SUBSET Resource] /\ leases'[s] = left
    BY <2>1 DEF TypeOK
  <2>3. (left # {}) \in BOOLEAN
    OBVIOUS
  <2>4. refused' \in [Session -> BOOLEAN]
    BY <2>1, <2>3, Zenon DEF TypeOK
  <2> QED BY <2>1, <2>2, <2>4 DEF TypeOK
<1> QED BY <1>1, <1>2 DEF ReleaseLease, Leftovers

(* A transport that is closed stays a transport. *)
LEMMA ClosingIsWire ==
  ASSUME NEW w \in Promise!Wires \cup {"none"}
  PROVE  Closing(w) \in Promise!Wires \cup {"none"}
  BY DEF Closing, Promise!Wires

-----------------------------------------------------------------------------
(* The steps that count a session, and the others *)

Admits(s) == BeginDiscovery(s) \/ StartDirect(s)

LEMMA StepTypes ==
  ASSUME TypeOK, NEW s \in Session, Step(s)
  PROVE  TypeOK'
<1> USE SessionAssumption
<1>1. CASE BeginDiscovery(s)
  BY <1>1 DEF BeginDiscovery, Goto, TypeOK, device, lent
<1>2. CASE Discovered(s)
  BY <1>2 DEF Discovered, Goto, TypeOK, device, lent, StartSteps
<1>3. CASE DiscoveryFails(s)
  BY <1>3 DEF DiscoveryFails, Goto, TypeOK, device, lent
<1>4. CASE StartDirect(s)
  BY <1>4 DEF StartDirect, Goto, TypeOK, device, lent, StartSteps
<1>5. CASE Authorized(s)
  BY <1>5 DEF Authorized, Resume, Goto, TypeOK, device, lent, StartSteps
<1>6. CASE Acquired(s)
  BY <1>6 DEF Acquired, Resume, Goto, TypeOK, StartSteps
<1>7. CASE AcquiredInPart(s)
  BY <1>7 DEF AcquiredInPart, Resume, Goto, TypeOK, lent, StartSteps
<1>8. CASE Made(s)
  BY <1>8 DEF Made, Goto, TypeOK, lent, StartSteps, Promise!Wires
<1>9. CASE Opens(s)
  BY <1>9 DEF Opens, Resume, Goto, TypeOK, lent, StartSteps, Promise!Wires
<1>10. CASE Opened(s)
  BY <1>10 DEF Opened, Resume, Goto, TypeOK, device, lent, StartSteps
<1>11. CASE Started(s)
  BY <1>11 DEF Started, Resume, Goto, TypeOK, device, lent
<1>12. CASE Fails(s)
  <2>1. CASE pc' = [pc EXCEPT ![s] = "over"] /\ ReleaseLease(s)
    BY ZenonT(60), <2>1, <1>12, ReleaseKeepsTypes DEF Fails, Goto, TypeOK, lent
  <2>2. CASE pc' = [pc EXCEPT ![s] = "closing"] /\ UNCHANGED <<leases, refused>>
    BY <2>2, <1>12, ClosingIsWire DEF Fails, Goto, TypeOK, lent, StartSteps
  <2> QED BY <2>1, <2>2, <1>12 DEF Fails, Goto
<1>13. CASE CloseAnswered(s)
  BY <1>13 DEF CloseAnswered, Goto, TypeOK, device, lent
<1>14. CASE WireMoves(s)
  BY <1>14 DEF WireMoves, TypeOK, flow, lent, Promise!Wires
<1>15. CASE WireCloses(s)
  BY <1>15, ReleaseKeepsTypes DEF WireCloses, TypeOK, flow, lent, Promise!Wires
<1>16. CASE Stop(s)
  BY <1>16, ClosingIsWire DEF Stop, StopThese, Exists, TypeOK, lent
<1>17. CASE ReleaseAgain(s)
  BY <1>17, ReleaseKeepsTypes DEF ReleaseAgain, TypeOK, flow, lent
<1>18. CASE Forget(s)
  BY <1>18 DEF Forget, Goto, TypeOK, device, lent
<1>19. CASE HookPrepares(s)
  BY <1>19 DEF HookPrepares, TypeOK, flow, device
<1>20. CASE HookPrepared(s)
  BY <1>20 DEF HookPrepared, MarkAll, MarkSome, TypeOK, flow
<1>21. CASE HookRefused(s)
  BY <1>21 DEF HookRefused, TypeOK, flow, device
<1>22. CASE HookSpawns(s)
  BY <1>22 DEF HookSpawns, TypeOK, flow, device
<1>23. CASE ChildExits(s)
  BY <1>23 DEF ChildExits, TypeOK, flow, device
<1>24. CASE HookReleases(s)
  BY <1>24, ReleaseKeepsTypes DEF HookReleases, UnmarkAll, TypeOK, flow
<1>25. CASE HookReleaseFails(s)
  BY <1>25 DEF HookReleaseFails, UnmarkSome, TypeOK, flow
<1>26. CASE HookReturns(s)
  BY <1>26 DEF HookReturns, Resume, Goto, TypeOK, device, lent, StartSteps
<1>27. CASE Holds(s)
  BY <1>27 DEF Holds, TypeOK, flow, device
<1>28. CASE HoldPrepares(s)
  BY <1>28 DEF HoldPrepares, TypeOK, flow, device
<1>29. CASE HoldPrepared(s)
  BY <1>29 DEF HoldPrepared, MarkAll, MarkSome, TypeOK, flow
<1>30. CASE HoldRefused(s)
  BY <1>30 DEF HoldRefused, TypeOK, flow, device
<1>31. CASE HoldSpawns(s)
  BY <1>31 DEF HoldSpawns, TypeOK, flow, device
<1>32. CASE HoldReleases(s)
  BY <1>32, ReleaseKeepsTypes DEF HoldReleases, UnmarkAll, TypeOK, flow
<1>33. CASE HoldReleaseFails(s)
  BY <1>33 DEF HoldReleaseFails, UnmarkSome, TypeOK, flow
<1> QED
  BY <1>1, <1>2, <1>3, <1>4, <1>5, <1>6, <1>7, <1>8, <1>9, <1>10, <1>11,
     <1>12, <1>13, <1>14, <1>15, <1>16, <1>17, <1>18, <1>19, <1>20, <1>21,
     <1>22, <1>23, <1>24, <1>25, <1>26, <1>27, <1>28, <1>29, <1>30, <1>31,
     <1>32, <1>33
  DEF Step

LEMMA OwnerTypes ==
  ASSUME TypeOK, NEW o \in Owner, StopOwner(o) \/ DisconnectOwner(o)
  PROVE  TypeOK' /\ pc' = pc /\ leases' = leases
<1>1. StopAll(o) /\ away' \in {away, away \cup {o}}
  BY DEF StopOwner, DisconnectOwner
<1>2. wire' \in [Session -> Promise!Wires \cup {"none"}]
  BY <1>1, ClosingIsWire DEF StopAll, StopThese, TypeOK
<1>3. stopping' \in [Session -> BOOLEAN] /\ doomed' \in [Session -> BOOLEAN]
  BY <1>1 DEF StopAll, StopThese, TypeOK
<1>4. away' \subseteq Owner
  BY <1>1 DEF TypeOK
<1> QED
  BY <1>1, <1>2, <1>3, <1>4 DEF StopAll, TypeOK, lent

(* Every variable of the manager has its type in every state. *)
THEOREM SessionTypeCorrect == Spec => []TypeOK
<1>1. ASSUME TypeOK, [Next]_vars
      PROVE  TypeOK'
  <2>1. CASE Next
    BY <1>1, <2>1, StepTypes, OwnerTypes DEF Next
  <2>2. CASE UNCHANGED vars
    BY <1>1, <2>2 DEF TypeOK, vars, flow, device, lent
  <2> QED BY <1>1, <2>1, <2>2
<1> QED BY InitTypes, <1>1, PTL DEF Spec

-----------------------------------------------------------------------------
(* Only the admission of a session adds to those that are counted. *)
LEMMA CountedGrows ==
  ASSUME TypeOK, NEW s \in Session, Step(s)
  PROVE  \/ Counted' \subseteq Counted
         \/ HasRoom /\ Counted' \subseteq Counted \cup {s}
<1>1. CASE BeginDiscovery(s)
  BY <1>1 DEF BeginDiscovery, Goto, TypeOK, device, Counted, CleanupPending, Starting, StartSteps
<1>2. CASE StartDirect(s)
  BY <1>2 DEF StartDirect, Goto, TypeOK, device, Counted, CleanupPending, Starting, StartSteps
<1>3. CASE Discovered(s) \/ DiscoveryFails(s)
  BY <1>3 DEF Discovered, DiscoveryFails, Goto, TypeOK, device, Counted, CleanupPending, Starting, StartSteps
<1>4. CASE \/ Authorized(s) \/ Acquired(s) \/ AcquiredInPart(s) \/ Made(s) \/ Opens(s)
           \/ Opened(s) \/ Started(s) \/ CloseAnswered(s) \/ HookReturns(s)
  <2>1. Starting(s)
    BY <1>4
    DEF Authorized, Acquired, AcquiredInPart, Made, Opens, Opened, Started,
        CloseAnswered, HookReturns, Resume, Starting, StartSteps
  <2>2. \A t \in Session \ {s} : pc'[t] = pc[t] /\ leases'[t] = leases[t]
    BY <1>4
    DEF Authorized, Acquired, AcquiredInPart, Made, Opens, Opened, Started,
        CloseAnswered, HookReturns, Resume, Goto, TypeOK, device
  <2> QED BY <2>1, <2>2 DEF Counted, CleanupPending, Starting
<1>5. CASE Fails(s)
  <2>1. Starting(s)
    BY <1>5 DEF Fails, Starting, StartSteps
  <2>2. UNCHANGED leases \/ ReleaseLease(s)
    BY <1>5 DEF Fails
  <2>3. \A t \in Session \ {s} : pc'[t] = pc[t] /\ leases'[t] = leases[t]
    BY <1>5, <2>2, ReleaseKeepsTypes DEF Fails, Goto, TypeOK
  <2> QED BY <2>1, <2>3 DEF Counted, CleanupPending, Starting
<1>6. CASE \/ WireCloses(s) \/ ReleaseAgain(s) \/ HookReleases(s) \/ HoldReleases(s)
  <2>1. UNCHANGED pc /\ ReleaseLease(s)
    BY <1>6 DEF WireCloses, ReleaseAgain, HookReleases, HoldReleases, flow
  <2>2. \A t \in Session : leases'[t] \subseteq leases[t]
    BY <2>1, ReleaseKeepsTypes
  <2> QED BY <2>1, <2>2 DEF Counted, CleanupPending, Starting
<1>7. CASE Forget(s)
  <2>1. leases[s] = {} /\ UNCHANGED leases
    BY <1>7 DEF Forget, CleanupPending, device
  <2> QED BY <1>7, <2>1 DEF Forget, Goto, TypeOK, Counted, CleanupPending, Starting, StartSteps
<1>8. CASE \/ WireMoves(s) \/ Stop(s) \/ HookPrepares(s) \/ HookPrepared(s)
           \/ HookRefused(s) \/ HookSpawns(s) \/ ChildExits(s)
           \/ HookReleaseFails(s) \/ Holds(s) \/ HoldPrepares(s)
           \/ HoldPrepared(s) \/ HoldRefused(s) \/ HoldSpawns(s)
           \/ HoldReleaseFails(s)
  <2>1. UNCHANGED <<pc, leases>>
    BY <1>8
    DEF WireMoves, Stop, HookPrepares, HookPrepared, HookRefused, HookSpawns,
        ChildExits, HookReleaseFails, Holds, HoldPrepares, HoldPrepared,
        HoldRefused, HoldSpawns, HoldReleaseFails, flow, device
  <2> QED BY <2>1 DEF Counted, CleanupPending, Starting
<1> QED
  BY <1>1, <1>2, <1>3, <1>4, <1>5, <1>6, <1>7, <1>8 DEF Step

LEMMA CountedIsFinite ==
  /\ IsFiniteSet(Counted)
  /\ Load \in Nat
  /\ \A T \in SUBSET Counted : IsFiniteSet(T) /\ Cardinality(T) <= Load
  /\ \A s \in Session : IsFiniteSet(Counted \cup {s}) /\ Cardinality(Counted \cup {s}) <= Load + 1
<1>1. IsFiniteSet(Counted)
  BY FS_Subset, SessionAssumption DEF Counted
<1>2. Load \in Nat
  BY <1>1, FS_CardinalityType DEF Load
<1>3. \A T \in SUBSET Counted : IsFiniteSet(T) /\ Cardinality(T) <= Load
  BY <1>1, FS_Subset DEF Load
<1>4. \A s \in Session : IsFiniteSet(Counted \cup {s}) /\ Cardinality(Counted \cup {s}) <= Load + 1
  BY <1>1, <1>2, FS_AddElement DEF Load
<1> QED BY <1>1, <1>2, <1>3, <1>4

(* requireCapacity, at every moment: the discoveries, starts and sessions  *)
(* with a lease that is still to be released are never more than the       *)
(* capacity, although a session that is admitted waits many times before   *)
(* it has a lease.                                                         *)
THEOREM CapacityKept == Spec => []CapacityHeld
<1>1. Init => CapacityHeld
  <2> SUFFICES ASSUME Init PROVE CapacityHeld
    OBVIOUS
  <2>1. Counted = {}
    BY DEF Init, Counted, CleanupPending, Starting, StartSteps
  <2> QED BY <2>1, FS_EmptySet, SessionAssumption DEF CapacityHeld, Load
<1>2. ASSUME TypeOK, CapacityHeld, [Next]_vars
      PROVE  CapacityHeld'
  <2>1. CASE Counted' \subseteq Counted
    <3>1. Load' <= Load /\ Load' \in Nat
      BY <2>1, CountedIsFinite, FS_CardinalityType DEF Load
    <3> QED BY <1>2, <3>1, CountedIsFinite, SessionAssumption DEF CapacityHeld
  <2>2. ASSUME NEW s \in Session, HasRoom, Counted' \subseteq Counted \cup {s}
        PROVE  CapacityHeld'
    <3>1. Load' <= Load + 1 /\ Load' \in Nat
      <4>1. IsFiniteSet(Counted \cup {s}) /\ Cardinality(Counted \cup {s}) <= Load + 1
        BY CountedIsFinite
      <4>2. IsFiniteSet(Counted') /\ Cardinality(Counted') <= Cardinality(Counted \cup {s})
        BY <2>2, <4>1, FS_Subset
      <4> QED BY <4>1, <4>2, FS_CardinalityType, CountedIsFinite DEF Load
    <3> QED BY <2>2, <3>1, CountedIsFinite, SessionAssumption DEF CapacityHeld, HasRoom
  <2>3. CASE \E o \in Owner : StopOwner(o) \/ DisconnectOwner(o)
    <3>1. UNCHANGED <<pc, leases>>
      BY <1>2, <2>3, OwnerTypes
    <3> QED BY <3>1, <2>1 DEF Counted, CleanupPending, Starting
  <2>4. CASE UNCHANGED vars
    BY <2>4, <2>1 DEF vars, flow, device, Counted, CleanupPending, Starting
  <2>5. CASE \E s \in Session : Step(s)
    BY <1>2, <2>5, <2>1, <2>2, CountedGrows
  <2> QED BY <1>2, <2>3, <2>4, <2>5 DEF Next
<1> QED BY <1>1, <1>2, SessionTypeCorrect, PTL DEF Spec

-----------------------------------------------------------------------------
(* Leases, marks and who uses a device *)

Early(s) == pc[s] \in {"none", "discovering", "authorizing", "checking"}

(* Before its leases are acquired a session has nothing. *)
EarlyInv(s) ==
  Early(s) => /\ leases[s] = {} /\ wire[s] = "none" /\ ~confirmedClosed[s]
              /\ hook[s] = "none" /\ ~external[s] /\ hold[s] = "none" /\ child[s] = "none"

(* Where start() is tells whether there is a transport, and a closure that *)
(* was confirmed stays true.                                               *)
WireInv(s) ==
  /\ confirmedClosed[s] => wire[s] \in {"none", "closed"}
  /\ pc[s] \in {"hook", "making"} => wire[s] = "none" /\ ~confirmedClosed[s]
  /\ pc[s] \in {"rechecking", "opening", "confirming", "closing", "running"} => wire[s] # "none"

(* An upload's process and a power operation never meet: the one needs     *)
(* that there is no transport yet, the other an open one.                  *)
LentInv(s) ==
  /\ pc[s] = "making" => ~external[s]
  /\ external[s] => wire[s] = "none"
  /\ hold[s] # "none" => wire[s] # "none"
  /\ hook[s] = "marked" => external[s]
  /\ child[s] = "upload" => external[s]
  /\ child[s] = "power" => hold[s] = "spent"

(* A lease is missing only once the closure is confirmed, and not while    *)
(* the device is lent.                                                     *)
LeaseInv(s) ==
  /\ pc[s] # "gone" /\ ~Early(s) /\ ~confirmedClosed[s] => leases[s] = Needs[s]
  /\ external[s] \/ hold[s] # "none" => leases[s] = Needs[s]
  /\ pc[s] = "gone" => leases[s] = {} /\ wire[s] \in {"none", "closed"}

StopInv(s) == Exists(s) /\ OwnerOf[s] \in away => stopping[s]

(* What is kept although it could be given back was refused.  A transport  *)
(* that start() has left is asked to close, and an upload is believed in   *)
(* only while its custody is.                                              *)
KeptInv(s) ==
  /\ leases[s] # {} /\ confirmedClosed[s] /\ ~external[s] /\ hold[s] = "none" => refused[s]
  /\ wire[s] = "closed" => confirmedClosed[s]
  /\ pc[s] = "over" /\ ~confirmedClosed[s] => wire[s] # "none"
  /\ wire[s] = "made" => pc[s] = "rechecking"
  /\ external[s] => hook[s] \in {"marked", "spent"}

OwnInv(s) == EarlyInv(s) /\ WireInv(s) /\ LentInv(s) /\ LeaseInv(s) /\ StopInv(s)

(* No two sessions lease one resource. *)
Exclusive == \A s, t \in Session : s # t => leases[s] \cap leases[t] = {}

(* What a process may be started on, or runs on, is marked. *)
MarkInv ==
  \A s \in Session : hook[s] = "marked" \/ hold[s] = "marked" \/ child[s] # "none"
                       => leases[s] \subseteq mark

SessionInv ==
  /\ TypeOK
  /\ \A s \in Session : OwnInv(s) /\ KeptInv(s)
  /\ Exclusive /\ MarkInv /\ NoOrphanMark

LEMMA NeedsSomething == \A s \in Session : Needs[s] # {} /\ Needs[s] \subseteq Resource
  BY SessionAssumption

LEMMA InitSession == Init => SessionInv
<1> SUFFICES ASSUME Init PROVE SessionInv
  OBVIOUS
<1>1. TypeOK
  BY InitTypes
<1>2. \A s \in Session : OwnInv(s) /\ KeptInv(s)
  BY DEF Init, OwnInv, EarlyInv, WireInv, LentInv, LeaseInv, StopInv, KeptInv, Early, Exists
<1> QED BY <1>1, <1>2 DEF Init, SessionInv, Exclusive, MarkInv, NoOrphanMark

(* A step of one session leaves the others as they are, but for the marks. *)
Same(t) ==
  /\ pc'[t] = pc[t] /\ stopping'[t] = stopping[t]
  /\ wire'[t] = wire[t] /\ confirmedClosed'[t] = confirmedClosed[t]
  /\ leases'[t] = leases[t] /\ refused'[t] = refused[t]
  /\ hook'[t] = hook[t] /\ external'[t] = external[t]
  /\ hold'[t] = hold[t] /\ child'[t] = child[t]

LEMMA SameOwn ==
  ASSUME NEW t \in Session, OwnInv(t), KeptInv(t), Same(t), away' = away
  PROVE  OwnInv(t)' /\ KeptInv(t)'
  BY DEF Same, OwnInv, EarlyInv, WireInv, LentInv, LeaseInv, StopInv, KeptInv, Early, Exists

LEMMA OthersSame ==
  ASSUME TypeOK, NEW s \in Session, Step(s)
  PROVE  away' = away /\ \A t \in Session \ {s} : Same(t)
<1> USE DEF Same, TypeOK, flow, device, lent
<1>1. CASE \/ BeginDiscovery(s) \/ Discovered(s) \/ DiscoveryFails(s) \/ StartDirect(s)
           \/ Authorized(s) \/ Opened(s) \/ Started(s) \/ CloseAnswered(s) \/ Forget(s) \/ HookReturns(s)
  BY <1>1 DEF BeginDiscovery, Discovered, DiscoveryFails, StartDirect, Authorized, Opened, Started,
              CloseAnswered, Forget, HookReturns, Resume, Goto
<1>2. CASE Acquired(s) \/ AcquiredInPart(s) \/ Made(s) \/ Opens(s)
  BY <1>2 DEF Acquired, AcquiredInPart, Made, Opens, Resume, Goto
<1>3. CASE Fails(s)
  <2>1. UNCHANGED <<leases, refused>> \/ ReleaseLease(s)
    BY <1>3 DEF Fails
  <2>2. \A t \in Session \ {s} : leases'[t] = leases[t] /\ refused'[t] = refused[t]
    BY <2>1, ReleaseKeepsTypes
  <2> QED BY <1>3, <2>2 DEF Fails, Goto
<1>4. CASE WireMoves(s)
  BY <1>4 DEF WireMoves
<1>5. CASE Stop(s)
  BY <1>5 DEF Stop, StopThese
<1>6. CASE WireCloses(s) \/ ReleaseAgain(s) \/ HookReleases(s) \/ HoldReleases(s)
  <2>1. ReleaseLease(s)
    BY <1>6 DEF WireCloses, ReleaseAgain, HookReleases, HoldReleases
  <2>2. \A t \in Session \ {s} : leases'[t] = leases[t] /\ refused'[t] = refused[t]
    BY <2>1, ReleaseKeepsTypes
  <2> QED BY <1>6, <2>2 DEF WireCloses, ReleaseAgain, HookReleases, HoldReleases
<1>7. CASE \/ HookPrepares(s) \/ HookPrepared(s) \/ HookRefused(s) \/ HookSpawns(s)
           \/ ChildExits(s) \/ HookReleaseFails(s)
  BY <1>7 DEF HookPrepares, HookPrepared, HookRefused, HookSpawns, ChildExits, HookReleaseFails
<1>8. CASE \/ Holds(s) \/ HoldPrepares(s) \/ HoldPrepared(s) \/ HoldRefused(s)
           \/ HoldSpawns(s) \/ HoldReleaseFails(s)
  BY <1>8 DEF Holds, HoldPrepares, HoldPrepared, HoldRefused, HoldSpawns, HoldReleaseFails
<1> QED
  BY <1>1, <1>2, <1>3, <1>4, <1>5, <1>6, <1>7, <1>8 DEF Step

(* Leases are only given back with the closure confirmed and the device    *)
(* not lent, and then whatever is kept was refused.                        *)
LEMMA ReleaseEffect ==
  ASSUME TypeOK, NEW s \in Session, ReleaseLease(s)
  PROVE  \/ /\ leases'[s] = leases[s]
            /\ ~(confirmedClosed'[s] /\ hold'[s] = "none" /\ ~external'[s])
         \/ /\ confirmedClosed'[s] /\ hold'[s] = "none" /\ ~external'[s]
            /\ leases'[s] \subseteq leases[s]
            /\ leases[s] \cap mark' \subseteq leases'[s]
            /\ refused'[s] = (leases'[s] # {})
  BY DEF TypeOK, ReleaseLease, Leftovers

LEMMA OwnStep ==
  ASSUME TypeOK, NEW s \in Session, OwnInv(s), Step(s)
  PROVE  OwnInv(s)'
<1> USE SessionAssumption
    DEF TypeOK, OwnInv, EarlyInv, WireInv, LentInv, LeaseInv, StopInv, Early, Exists, flow, device, lent
<1>0. away' = away
  BY OthersSame
<1>1. CASE BeginDiscovery(s) \/ Discovered(s) \/ DiscoveryFails(s) \/ StartDirect(s)
  BY <1>1 DEF BeginDiscovery, Discovered, DiscoveryFails, StartDirect, Goto, Active
<1>2. CASE Authorized(s) \/ Opened(s) \/ Started(s) \/ CloseAnswered(s) \/ HookReturns(s)
  BY <1>2 DEF Authorized, Opened, Started, CloseAnswered, HookReturns, Resume, Goto
<1>3. CASE Acquired(s)
  BY <1>3 DEF Acquired, Resume, Goto
<1>4. CASE AcquiredInPart(s)
  BY <1>4 DEF AcquiredInPart, Resume, Goto
<1>5. CASE Made(s) \/ Opens(s)
  BY <1>5 DEF Made, Opens, Resume, Goto
<1>6. CASE Fails(s)
  <2>1. CASE /\ pc[s] \in {"authorizing", "checking", "hook", "making"}
             /\ Goto(s, "over")
             /\ confirmedClosed' = [confirmedClosed EXCEPT ![s] = TRUE]
             /\ UNCHANGED <<doomed, stopping, away, wire, mark, lent>>
             /\ ReleaseLease(s)
    BY <2>1, ReleaseEffect DEF Goto
  <2>2. CASE /\ pc[s] \in {"rechecking", "opening", "confirming"}
             /\ Goto(s, "closing")
             /\ wire' = [wire EXCEPT ![s] = Closing(@)]
             /\ UNCHANGED <<doomed, stopping, away, confirmedClosed, leases, refused, mark, lent>>
    BY <2>2 DEF Goto, Closing
  <2> QED BY <1>6, <2>1, <2>2 DEF Fails
<1>7. CASE WireMoves(s)
  BY <1>7 DEF WireMoves, Promise!Moves
<1>8. CASE WireCloses(s)
  BY <1>8, ReleaseEffect DEF WireCloses, Promise!Moves
<1>9. CASE Stop(s)
  BY <1>9 DEF Stop, StopThese, Closing
<1>10. CASE ReleaseAgain(s)
  BY <1>10, ReleaseEffect DEF ReleaseAgain
<1>11. CASE Forget(s)
  <2>1. leases[s] = {} /\ pc[s] \in {"running", "over"}
    BY <1>11 DEF Forget, CleanupPending
  <2>2. confirmedClosed[s] /\ ~external[s] /\ hold[s] = "none"
    BY <2>1, NeedsSomething
  <2>3. wire[s] \in {"none", "closed"}
    BY <2>2
  <2> QED BY <1>11, <2>1, <2>2, <2>3 DEF Forget, Goto
<1>12. CASE HookPrepares(s) \/ HookPrepared(s) \/ HookRefused(s) \/ HookSpawns(s)
  <2>1. CASE HookPrepares(s)
    BY <2>1 DEF HookPrepares, HookActive
  <2>2. CASE HookPrepared(s)
    BY <2>2 DEF HookPrepared, HookActive
  <2>3. CASE HookRefused(s)
    BY <2>3 DEF HookRefused
  <2>4. CASE HookSpawns(s)
    BY <2>4 DEF HookSpawns, HookActive
  <2> QED BY <1>12, <2>1, <2>2, <2>3, <2>4
<1>13. CASE ChildExits(s) \/ HookReleaseFails(s)
  BY <1>13 DEF ChildExits, HookReleaseFails
<1>14. CASE HookReleases(s)
  BY <1>14, ReleaseEffect DEF HookReleases
<1>15. CASE Holds(s) \/ HoldPrepares(s) \/ HoldPrepared(s) \/ HoldRefused(s)
  BY <1>15 DEF Holds, HoldGuard, HoldPrepares, HoldPrepared, HoldRefused
<1>16. CASE HoldSpawns(s) \/ HoldReleaseFails(s)
  BY <1>16 DEF HoldSpawns, HoldReleaseFails
<1>17. CASE HoldReleases(s)
  BY <1>17, ReleaseEffect DEF HoldReleases
<1> QED
  BY <1>1, <1>2, <1>3, <1>4, <1>5, <1>6, <1>7, <1>8, <1>9, <1>10, <1>11, <1>12, <1>13, <1>14,
     <1>15, <1>16, <1>17 DEF Step

LEMMA KeptStep ==
  ASSUME TypeOK, NEW s \in Session, OwnInv(s), KeptInv(s), Step(s)
  PROVE  KeptInv(s)'
<1> USE DEF TypeOK, KeptInv, flow, device, lent
<1>1. CASE BeginDiscovery(s) \/ Discovered(s) \/ DiscoveryFails(s) \/ StartDirect(s) \/ Authorized(s)
  BY <1>1 DEF BeginDiscovery, Discovered, DiscoveryFails, StartDirect, Authorized, Resume, Goto
<1>2. CASE Acquired(s) \/ AcquiredInPart(s)
  <2>1. pc[s] = "checking" /\ EarlyInv(s)
    BY <1>2 DEF Acquired, AcquiredInPart, Resume, OwnInv
  <2>2. CASE Acquired(s)
    BY <2>1, <2>2 DEF Acquired, Resume, Goto, EarlyInv, Early
  <2>3. CASE AcquiredInPart(s)
    <3>1. wire'[s] = "none" /\ ~external'[s] /\ confirmedClosed'[s]
      BY <2>1, <2>3 DEF AcquiredInPart, EarlyInv, Early
    <3>2. leases'[s] # {} => refused'[s]
      BY <2>3 DEF AcquiredInPart
    <3> QED BY <3>1, <3>2
  <2> QED BY <1>2, <2>2, <2>3
<1>3. CASE Made(s) \/ Opens(s)
  BY <1>3 DEF Made, Opens, Resume, Goto, OwnInv, WireInv
<1>4. CASE Opened(s) \/ Started(s) \/ CloseAnswered(s) \/ Forget(s) \/ HookReturns(s)
  BY <1>4 DEF Opened, Started, CloseAnswered, Forget, HookReturns, Resume, Goto, OwnInv, WireInv
<1>5. CASE Fails(s)
  <2>1. CASE /\ pc[s] \in {"authorizing", "checking", "hook", "making"}
             /\ Goto(s, "over")
             /\ confirmedClosed' = [confirmedClosed EXCEPT ![s] = TRUE]
             /\ UNCHANGED <<doomed, stopping, away, wire, mark, lent>>
             /\ ReleaseLease(s)
    <3>1. leases'[s] # {} /\ ~external'[s] /\ hold'[s] = "none" => refused'[s]
      BY <2>1, ReleaseEffect
    <3>2. wire'[s] # "made" /\ confirmedClosed'[s]
      BY <2>1
    <3> QED BY <2>1, <3>1, <3>2
  <2>2. CASE /\ pc[s] \in {"rechecking", "opening", "confirming"}
             /\ Goto(s, "closing")
             /\ wire' = [wire EXCEPT ![s] = Closing(@)]
             /\ UNCHANGED <<doomed, stopping, away, confirmedClosed, leases, refused, mark, lent>>
    BY <2>2 DEF Goto, Closing
  <2> QED BY <1>5, <2>1, <2>2 DEF Fails
<1>6. CASE WireMoves(s)
  BY <1>6 DEF WireMoves, Promise!Moves
<1>7. CASE WireCloses(s) \/ ReleaseAgain(s)
  <2>1. CASE WireCloses(s)
    BY <2>1, ReleaseEffect DEF WireCloses
  <2>2. CASE ReleaseAgain(s)
    BY <2>2, ReleaseEffect DEF ReleaseAgain
  <2> QED BY <1>7, <2>1, <2>2
<1>8. CASE Stop(s)
  BY <1>8 DEF Stop, StopThese, Closing
<1>9. CASE HookPrepares(s) \/ HookPrepared(s) \/ HookRefused(s) \/ HookSpawns(s)
  BY <1>9 DEF HookPrepares, HookPrepared, HookRefused, HookSpawns
<1>10. CASE ChildExits(s) \/ HookReleaseFails(s)
  BY <1>10 DEF ChildExits, HookReleaseFails
<1>11. CASE HookReleases(s) \/ HoldReleases(s)
  BY <1>11, ReleaseEffect DEF HookReleases, HoldReleases
<1>12. CASE \/ Holds(s) \/ HoldPrepares(s) \/ HoldPrepared(s) \/ HoldRefused(s)
            \/ HoldSpawns(s) \/ HoldReleaseFails(s)
  BY <1>12 DEF Holds, HoldPrepares, HoldPrepared, HoldRefused, HoldSpawns, HoldReleaseFails
<1> QED
  BY <1>1, <1>2, <1>3, <1>4, <1>5, <1>6, <1>7, <1>8, <1>9, <1>10, <1>11, <1>12 DEF Step

(* What a step does to the leases of its session: they are acquired, or    *)
(* kept, or given back except for the marked ones.                         *)
LEMMA LeaseEffect ==
  ASSUME TypeOK, NEW s \in Session, OwnInv(s), Step(s)
  PROVE  \/ /\ Early(s) /\ leases[s] = {} /\ mark' = mark
            /\ leases'[s] \cap Taken(s) = {}
         \/ leases'[s] = leases[s]
         \/ /\ hold'[s] = "none" /\ ~external'[s]
            /\ leases'[s] \subseteq leases[s]
            /\ leases[s] \cap mark' \subseteq leases'[s]
<1> USE DEF TypeOK, flow, device, lent
<1>1. CASE Acquired(s) \/ AcquiredInPart(s)
  BY <1>1 DEF Acquired, AcquiredInPart, Resume, Goto, Early, OwnInv, EarlyInv
<1>2. CASE Fails(s)
  BY <1>2, ReleaseEffect DEF Fails
<1>3. CASE WireCloses(s) \/ ReleaseAgain(s) \/ HookReleases(s) \/ HoldReleases(s)
  BY <1>3, ReleaseEffect DEF WireCloses, ReleaseAgain, HookReleases, HoldReleases
<1>4. CASE \/ BeginDiscovery(s) \/ Discovered(s) \/ DiscoveryFails(s) \/ StartDirect(s)
           \/ Authorized(s) \/ Made(s) \/ Opens(s) \/ Opened(s) \/ Started(s) \/ CloseAnswered(s)
           \/ WireMoves(s) \/ Stop(s) \/ Forget(s) \/ HookReturns(s)
  BY <1>4 DEF BeginDiscovery, Discovered, DiscoveryFails, StartDirect, Authorized, Made, Opens, Opened,
              Started, CloseAnswered, WireMoves, Stop, Forget, HookReturns
<1>5. CASE \/ HookPrepares(s) \/ HookPrepared(s) \/ HookRefused(s) \/ HookSpawns(s)
           \/ ChildExits(s) \/ HookReleaseFails(s)
           \/ Holds(s) \/ HoldPrepares(s) \/ HoldPrepared(s) \/ HoldRefused(s)
           \/ HoldSpawns(s) \/ HoldReleaseFails(s)
  BY <1>5 DEF HookPrepares, HookPrepared, HookRefused, HookSpawns, ChildExits, HookReleaseFails,
              Holds, HoldPrepares, HoldPrepared, HoldRefused, HoldSpawns, HoldReleaseFails
<1> QED BY <1>1, <1>2, <1>3, <1>4, <1>5 DEF Step

(* What it does to the marks: it adds some of its session's, and then      *)
(* remembers them, or takes some away, which it does only without a        *)
(* process and then admits none on them.                                   *)
LEMMA MarkEffect ==
  ASSUME TypeOK, NEW s \in Session, OwnInv(s), Step(s)
  PROVE  \/ mark' = mark
         \/ /\ mark \subseteq mark' /\ mark' \subseteq mark \cup leases[s]
            /\ external'[s] \/ hold'[s] \in {"marked", "spent"}
         \/ /\ mark' \subseteq mark /\ mark \ leases[s] \subseteq mark'
            /\ child'[s] = "none" /\ hook'[s] # "marked" /\ hold'[s] # "marked"
            /\ \/ mark' \cap leases[s] = {}
               \/ external'[s] \/ hold'[s] \in {"marked", "spent"}
<1> USE DEF TypeOK, flow, device, lent
<1>1. CASE HookPrepared(s)
  BY <1>1 DEF HookPrepared, MarkAll, MarkSome
<1>2. CASE HoldPrepared(s)
  BY <1>2 DEF HoldPrepared, MarkAll, MarkSome
<1>3. CASE HookReleases(s)
  BY <1>3 DEF HookReleases, UnmarkAll, OwnInv, LentInv
<1>4. CASE HookReleaseFails(s)
  BY <1>4 DEF HookReleaseFails, UnmarkSome, OwnInv, LentInv
<1>5. CASE HoldReleases(s)
  BY <1>5 DEF HoldReleases, UnmarkAll, OwnInv, LentInv
<1>6. CASE HoldReleaseFails(s)
  BY <1>6 DEF HoldReleaseFails, UnmarkSome, OwnInv, LentInv
<1>7. CASE \/ BeginDiscovery(s) \/ Discovered(s) \/ DiscoveryFails(s) \/ StartDirect(s)
           \/ Authorized(s) \/ Acquired(s) \/ AcquiredInPart(s) \/ Made(s) \/ Opens(s)
           \/ Opened(s) \/ Started(s) \/ Fails(s) \/ CloseAnswered(s)
           \/ WireMoves(s) \/ WireCloses(s) \/ Stop(s) \/ ReleaseAgain(s) \/ Forget(s) \/ HookReturns(s)
  BY <1>7 DEF BeginDiscovery, Discovered, DiscoveryFails, StartDirect, Authorized, Acquired,
              AcquiredInPart, Made, Opens, Opened, Started, Fails, CloseAnswered, WireMoves, WireCloses,
              Stop, ReleaseAgain, Forget, HookReturns
<1>8. CASE \/ HookPrepares(s) \/ HookRefused(s) \/ HookSpawns(s) \/ ChildExits(s)
           \/ Holds(s) \/ HoldPrepares(s) \/ HoldRefused(s) \/ HoldSpawns(s)
  BY <1>8 DEF HookPrepares, HookRefused, HookSpawns, ChildExits, Holds, HoldPrepares, HoldRefused,
              HoldSpawns
<1> QED BY <1>1, <1>2, <1>3, <1>4, <1>5, <1>6, <1>7, <1>8 DEF Step

(* A mark that is there is remembered as long as it is there. *)
LEMMA RememberEffect ==
  ASSUME TypeOK, NEW s \in Session, OwnInv(s), Step(s),
         external[s] \/ hold[s] \in {"marked", "spent"}
  PROVE  \/ external'[s] \/ hold'[s] \in {"marked", "spent"}
         \/ mark' \cap leases[s] = {}
<1> USE DEF TypeOK, flow, device, lent
<1>1. CASE HookReleases(s) \/ HoldReleases(s)
  BY <1>1 DEF HookReleases, HoldReleases, UnmarkAll, OwnInv, LentInv
<1>2. CASE \/ HookPrepares(s) \/ HookPrepared(s) \/ HookRefused(s) \/ HookSpawns(s)
           \/ ChildExits(s) \/ HookReleaseFails(s)
           \/ Holds(s) \/ HoldPrepares(s) \/ HoldPrepared(s) \/ HoldRefused(s)
           \/ HoldSpawns(s) \/ HoldReleaseFails(s)
  BY <1>2 DEF HookPrepares, HookPrepared, HookRefused, HookSpawns, ChildExits, HookReleaseFails,
              Holds, HoldPrepares, HoldPrepared, HoldRefused, HoldSpawns, HoldReleaseFails
<1>3. CASE \/ BeginDiscovery(s) \/ Discovered(s) \/ DiscoveryFails(s) \/ StartDirect(s)
           \/ Authorized(s) \/ Acquired(s) \/ AcquiredInPart(s) \/ Made(s) \/ Opens(s)
           \/ Opened(s) \/ Started(s) \/ Fails(s) \/ CloseAnswered(s)
           \/ WireMoves(s) \/ WireCloses(s) \/ Stop(s) \/ ReleaseAgain(s) \/ Forget(s) \/ HookReturns(s)
  BY <1>3 DEF BeginDiscovery, Discovered, DiscoveryFails, StartDirect, Authorized, Acquired,
              AcquiredInPart, Made, Opens, Opened, Started, Fails, CloseAnswered, WireMoves, WireCloses,
              Stop, ReleaseAgain, Forget, HookReturns, OwnInv, EarlyInv, Early, Resume
<1> QED BY <1>1, <1>2, <1>3 DEF Step

(* A process, or the right to start one, appears only on leases that are   *)
(* marked: all of them were, in the step that granted the right.           *)
LEMMA GrantEffect ==
  ASSUME TypeOK, NEW s \in Session, OwnInv(s), Step(s),
         hook'[s] = "marked" \/ hold'[s] = "marked" \/ child'[s] # "none"
  PROVE  \/ hook[s] = "marked" \/ hold[s] = "marked" \/ child[s] # "none"
         \/ leases'[s] \subseteq mark'
<1> USE DEF TypeOK, flow, device, lent
<1>1. CASE HookPrepared(s) \/ HoldPrepared(s)
  BY <1>1 DEF HookPrepared, HoldPrepared, MarkAll
<1>2. CASE HookReleases(s) \/ HoldReleases(s)
  BY <1>2 DEF HookReleases, HoldReleases
<1>3. CASE \/ HookPrepares(s) \/ HookRefused(s) \/ HookSpawns(s)
           \/ ChildExits(s) \/ HookReleaseFails(s)
           \/ Holds(s) \/ HoldPrepares(s) \/ HoldRefused(s)
           \/ HoldSpawns(s) \/ HoldReleaseFails(s)
  BY <1>3 DEF HookPrepares, HookRefused, HookSpawns, ChildExits, HookReleaseFails,
              Holds, HoldPrepares, HoldRefused, HoldSpawns, HoldReleaseFails
<1>4. CASE \/ BeginDiscovery(s) \/ Discovered(s) \/ DiscoveryFails(s) \/ StartDirect(s)
           \/ Authorized(s) \/ Acquired(s) \/ AcquiredInPart(s) \/ Made(s) \/ Opens(s)
           \/ Opened(s) \/ Started(s) \/ Fails(s) \/ CloseAnswered(s)
           \/ WireMoves(s) \/ WireCloses(s) \/ Stop(s) \/ ReleaseAgain(s) \/ Forget(s) \/ HookReturns(s)
  BY <1>4 DEF BeginDiscovery, Discovered, DiscoveryFails, StartDirect, Authorized, Acquired,
              AcquiredInPart, Made, Opens, Opened, Started, Fails, CloseAnswered, WireMoves, WireCloses,
              Stop, ReleaseAgain, Forget, HookReturns
<1> QED BY <1>1, <1>2, <1>3, <1>4 DEF Step

LEMMA SessionStep ==
  ASSUME SessionInv, NEW s \in Session, Step(s)
  PROVE  SessionInv'
<1> USE DEF SessionInv
<1>1. TypeOK'
  BY StepTypes
<1>2. \A t \in Session : OwnInv(t)' /\ KeptInv(t)'
  BY OthersSame, SameOwn, OwnStep, KeptStep
<1>3. \A t \in Session \ {s} : Same(t)
  BY OthersSame
<1>4. OwnInv(s)
  OBVIOUS
<1>5. Exclusive'
  <2>1. \A t \in Session \ {s} : leases'[s] \cap leases[t] = {}
    BY <1>4, LeaseEffect DEF Exclusive, Taken
  <2> QED BY <1>3, <2>1 DEF Exclusive, Same
<1>6. MarkInv'
  <2>1. ASSUME NEW t \in Session \ {s},
               hook'[t] = "marked" \/ hold'[t] = "marked" \/ child'[t] # "none"
        PROVE  leases'[t] \subseteq mark'
    <3>1. leases[t] \subseteq mark /\ leases'[t] = leases[t]
      BY <1>3, <2>1 DEF MarkInv, Same
    <3>2. leases[t] \cap leases[s] = {}
      BY DEF Exclusive
    <3>3. mark \ leases[s] \subseteq mark'
      BY <1>4, MarkEffect
    <3> QED BY <3>1, <3>2, <3>3
  <2>2. ASSUME hook'[s] = "marked" \/ hold'[s] = "marked" \/ child'[s] # "none"
        PROVE  leases'[s] \subseteq mark'
    <3>1. CASE hook[s] = "marked" \/ hold[s] = "marked" \/ child[s] # "none"
      <4>1. leases[s] \subseteq mark
        BY <3>1 DEF MarkInv
      <4>2. leases'[s] \subseteq leases[s]
        BY <3>1, <1>4, LeaseEffect DEF OwnInv, EarlyInv
      <4>3. mark \subseteq mark'
        BY <1>4, <2>2, MarkEffect
      <4> QED BY <4>1, <4>2, <4>3
    <3> QED BY <1>4, <2>2, <3>1, GrantEffect
  <2> QED BY <2>1, <2>2 DEF MarkInv
<1>7. NoOrphanMark'
  <2> SUFFICES ASSUME NEW r \in mark'
               PROVE  \E t \in Session : /\ r \in leases'[t]
                                         /\ external'[t] \/ hold'[t] \in {"marked", "spent"}
    BY DEF NoOrphanMark
  <2>1. CASE r \notin mark
    <3>1. r \in leases[s] /\ (external'[s] \/ hold'[s] \in {"marked", "spent"}) /\ mark' # mark
      BY <1>4, <2>1, MarkEffect
    <3>2. r \in leases'[s]
      BY <1>4, <3>1, LeaseEffect
    <3> QED BY <3>1, <3>2
  <2>2. CASE r \in mark
    <3>1. PICK t \in Session : r \in leases[t] /\ (external[t] \/ hold[t] \in {"marked", "spent"})
      BY <2>2 DEF NoOrphanMark
    <3>2. CASE t # s
      BY <1>3, <3>1, <3>2 DEF Same
    <3>3. CASE t = s
      <4>1. external'[s] \/ hold'[s] \in {"marked", "spent"}
        BY <1>4, <3>1, <3>3, RememberEffect
      <4>2. r \in leases'[s]
        BY <1>4, <3>1, <3>3, LeaseEffect
      <4> QED BY <4>1, <4>2
    <3> QED BY <3>2, <3>3
  <2> QED BY <2>1, <2>2
<1> QED BY <1>1, <1>2, <1>5, <1>6, <1>7

LEMMA OwnerStep ==
  ASSUME SessionInv, NEW o \in Owner, StopOwner(o) \/ DisconnectOwner(o)
  PROVE  SessionInv'
<1> USE DEF SessionInv
<1>1. /\ StopAll(o) /\ away' \subseteq away \cup {o}
      /\ UNCHANGED <<pc, confirmedClosed, leases, refused, mark, lent>>
  BY DEF StopOwner, DisconnectOwner, StopAll
<1>2. TypeOK'
  BY OwnerTypes
<1>3. ASSUME NEW t \in Session PROVE OwnInv(t)' /\ KeptInv(t)'
  <2>1. /\ OwnInv(t) /\ KeptInv(t)
        /\ wire'[t] \in {wire[t], Closing(wire[t])}
        /\ stopping[t] => stopping'[t]
        /\ OwnerOf[t] = o /\ Exists(t) => stopping'[t]
    BY <1>1 DEF StopAll, StopThese, TypeOK
  <2>2. wire'[t] = wire[t] \/ (wire'[t] = "ended" /\ wire[t] \in {"made", "opening", "open"})
    BY <2>1 DEF Closing
  <2>3. /\ pc'[t] = pc[t] /\ confirmedClosed'[t] = confirmedClosed[t] /\ leases'[t] = leases[t]
        /\ refused'[t] = refused[t]
        /\ hook'[t] = hook[t] /\ external'[t] = external[t] /\ hold'[t] = hold[t] /\ child'[t] = child[t]
    BY <1>1 DEF lent
  <2>4. EarlyInv(t)' /\ WireInv(t)' /\ LentInv(t)' /\ LeaseInv(t)'
    BY <2>1, <2>2, <2>3 DEF OwnInv, EarlyInv, WireInv, LentInv, LeaseInv, Early
  <2>5. StopInv(t)'
    BY <1>1, <2>1, <2>3 DEF OwnInv, StopInv, Exists
  <2>6. KeptInv(t)'
    BY <2>1, <2>2, <2>3 DEF KeptInv
  <2> QED BY <2>4, <2>5, <2>6 DEF OwnInv
<1>4. Exclusive' /\ MarkInv' /\ NoOrphanMark'
  BY <1>1 DEF Exclusive, MarkInv, NoOrphanMark, lent
<1> QED BY <1>2, <1>3, <1>4

LEMMA SessionInvariance == Spec => []SessionInv
<1>1. ASSUME SessionInv, [Next]_vars
      PROVE  SessionInv'
  <2>1. CASE Next
    BY <1>1, <2>1, SessionStep, OwnerStep DEF Next
  <2>2. CASE UNCHANGED vars
    BY <1>1, <2>2
    DEF vars, flow, device, lent, SessionInv, TypeOK, OwnInv, EarlyInv, WireInv, LentInv, LeaseInv,
        StopInv, KeptInv, Early, Exists, Exclusive, MarkInv, NoOrphanMark
  <2> QED BY <1>1, <2>1, <2>2
<1> QED BY InitSession, <1>1, PTL DEF Spec

-----------------------------------------------------------------------------
(* The leases of a device are all held while its port may be open or an    *)
(* upload or a meter uses it, and what a process uses is marked: whatever  *)
(* stops, fails, closes or is refused in between.                          *)
THEOREM LeasesOutliveUse == Spec => []LeaseOutlivesUse
<1>1. SessionInv => LeaseOutlivesUse
  <2> SUFFICES ASSUME SessionInv, NEW s \in Session
               PROVE  /\ InUse(s) => leases[s] = Needs[s]
                      /\ child[s] # "none" => leases[s] \subseteq mark
    BY DEF LeaseOutlivesUse
  <2>1. CASE wire[s] \in {"opening", "open", "ended"}
    BY <2>1 DEF SessionInv, OwnInv, EarlyInv, WireInv, LeaseInv, MarkInv
  <2>2. CASE child[s] # "none"
    BY <2>2 DEF SessionInv, TypeOK, OwnInv, LentInv, LeaseInv, MarkInv
  <2> QED BY <2>1, <2>2 DEF InUse
<1> QED BY <1>1, SessionInvariance, PTL

(* Every handoff mark in the store belongs to a lease of a session that    *)
(* still knows that it has to clear it.                                    *)
THEOREM MarksAreRemembered == Spec => []NoOrphanMark
  BY SessionInvariance, PTL DEF SessionInv

(* A session that was forgotten has no lease, port, process, custody or    *)
(* hold.                                                                   *)
THEOREM ForgottenHasNothing == Spec => []ForgottenIsFinished
<1>1. SessionInv => ForgottenIsFinished
  <2> SUFFICES ASSUME SessionInv, NEW s \in Session, pc[s] = "gone"
               PROVE  leases[s] = {} /\ ~InUse(s) /\ ~external[s] /\ hold[s] = "none"
    BY DEF ForgottenIsFinished
  <2>1. leases[s] = {} /\ wire[s] \in {"none", "closed"}
    BY DEF SessionInv, OwnInv, LeaseInv
  <2>2. ~external[s] /\ hold[s] = "none"
    BY <2>1, NeedsSomething DEF SessionInv, OwnInv, LeaseInv
  <2>3. child[s] = "none"
    BY <2>2 DEF SessionInv, TypeOK, OwnInv, LentInv
  <2> QED BY <2>1, <2>2, <2>3 DEF InUse
<1> QED BY <1>1, SessionInvariance, PTL

(* A lease that a session keeps has a cause: without one, its release was  *)
(* tried and refused, and the session says so.  Whichever of the closure,  *)
(* the upload and the power operation is the last to be over, its end is   *)
(* the one that gives the leases back.                                     *)
THEOREM KeptForCause == Spec => []LeasesKeptForCause
<1>1. SessionInv => LeasesKeptForCause
  <2> SUFFICES ASSUME SessionInv, NEW s \in Session, leases[s] # {}, ~Starting(s), ~InUse(s),
                      hook[s] \notin {"marked", "spent"}, hold[s] = "none"
               PROVE  refused[s]
    BY DEF LeasesKeptForCause
  <2>1. ~external[s] /\ wire[s] # "made"
    BY DEF SessionInv, KeptInv, Starting, StartSteps
  <2>2. pc[s] \in {"running", "over"}
    BY DEF SessionInv, TypeOK, OwnInv, EarlyInv, LeaseInv, Early, Starting
  <2>3. confirmedClosed[s]
    BY <2>1, <2>2 DEF SessionInv, TypeOK, OwnInv, WireInv, KeptInv, InUse, Promise!Wires
  <2> QED BY <2>1, <2>3 DEF SessionInv, KeptInv
<1> QED BY <1>1, SessionInvariance, PTL

(* What StoppedAdmitsNothing says of one session in one step. *)
AdmitsNothing(s) ==
  stopping[s] \/ OwnerOf[s] \in away =>
    /\ wire'[s] = "opening" => wire[s] = "opening"
    /\ hook'[s] = "marked" => hook[s] = "marked"
    /\ hold'[s] = "marked" => hold[s] = "marked"

LEMMA StepAdmitsNothing ==
  ASSUME SessionInv, NEW s \in Session, Step(s)
  PROVE  AdmitsNothing(s)
<1> USE DEF SessionInv, TypeOK, flow, device, lent
<1>1. OwnerOf[s] \in away /\ Exists(s) => stopping[s]
  BY DEF OwnInv, StopInv
<1>2. CASE Opens(s)
  BY <1>1, <1>2 DEF Opens, Resume, Exists, AdmitsNothing
<1>3. CASE HookPrepared(s)
  BY <1>1, <1>3 DEF HookPrepared, HookActive, Exists, AdmitsNothing
<1>4. CASE HoldPrepared(s)
  BY <1>4 DEF HoldPrepared, HoldGuard, Active, AdmitsNothing
<1>5. CASE \/ BeginDiscovery(s) \/ Discovered(s) \/ DiscoveryFails(s) \/ StartDirect(s)
           \/ Authorized(s) \/ Acquired(s) \/ AcquiredInPart(s) \/ Made(s)
           \/ Opened(s) \/ Started(s) \/ CloseAnswered(s)
           \/ WireMoves(s) \/ WireCloses(s) \/ ReleaseAgain(s) \/ Forget(s) \/ HookReturns(s)
  BY <1>5 DEF BeginDiscovery, Discovered, DiscoveryFails, StartDirect, Authorized, Acquired,
              AcquiredInPart, Made, Opened, Started, CloseAnswered, WireMoves, WireCloses,
              ReleaseAgain, Forget, HookReturns, AdmitsNothing
<1>6. CASE Fails(s) \/ Stop(s)
  BY <1>6 DEF Fails, Stop, StopThese, Closing, AdmitsNothing
<1>7. CASE \/ HookPrepares(s) \/ HookRefused(s) \/ HookSpawns(s)
           \/ ChildExits(s) \/ HookReleases(s) \/ HookReleaseFails(s)
           \/ Holds(s) \/ HoldPrepares(s) \/ HoldRefused(s)
           \/ HoldSpawns(s) \/ HoldReleases(s) \/ HoldReleaseFails(s)
  BY <1>7 DEF HookPrepares, HookRefused, HookSpawns, ChildExits, HookReleases, HookReleaseFails,
              Holds, HoldPrepares, HoldRefused, HoldSpawns, HoldReleases, HoldReleaseFails,
              AdmitsNothing
<1> QED BY <1>2, <1>3, <1>4, <1>5, <1>6, <1>7 DEF Step

LEMMA OwnerAdmitsNothing ==
  ASSUME NEW o \in Owner, StopOwner(o) \/ DisconnectOwner(o), NEW s \in Session
  PROVE  AdmitsNothing(s)
  BY DEF StopOwner, DisconnectOwner, StopAll, StopThese, Closing, lent, AdmitsNothing

(* After a stop, a stopAll or a disconnect of its owner, no step opens the *)
(* port of a session or lets a process have its device, wherever start(),  *)
(* an upload's custody or a power hold was waiting at that moment.  It     *)
(* needs that a session whose owner is away was told to stop: admission    *)
(* and disconnectOwner leave no gap.                                       *)
THEOREM NothingOnceStopped == Spec => StoppedAdmitsNothing
<1>1. ASSUME SessionInv, [Next]_vars, NEW s \in Session
      PROVE  AdmitsNothing(s) \/ UNCHANGED vars
  <2>1. ASSUME NEW t \in Session, Step(t) PROVE AdmitsNothing(s)
    <3>1. CASE t = s
      BY <1>1, <2>1, <3>1, StepAdmitsNothing
    <3>2. CASE t # s
      <4>1. Same(s)
        BY <1>1, <2>1, <3>2, OthersSame DEF SessionInv
      <4> QED BY <4>1 DEF Same, AdmitsNothing
    <3> QED BY <3>1, <3>2
  <2> QED BY <1>1, <2>1, OwnerAdmitsNothing DEF Next
<1>2. ASSUME SessionInv, [Next]_vars
      PROVE  [\A s \in Session : AdmitsNothing(s)]_vars
  BY <1>1, <1>2
<1>3. ASSUME [\A s \in Session : AdmitsNothing(s)]_vars
      PROVE  [\A s \in Session :
                stopping[s] \/ OwnerOf[s] \in away =>
                  /\ wire'[s] = "opening" => wire[s] = "opening"
                  /\ hook'[s] = "marked" => hook[s] = "marked"
                  /\ hold'[s] = "marked" => hold[s] = "marked"]_vars
  BY <1>3 DEF AdmitsNothing
<1> QED BY <1>2, <1>3, SessionInvariance, PTL DEF Spec, StoppedAdmitsNothing

(* No two sessions use one device, and within a session an upload never    *)
(* meets an open port.                                                     *)
DeviceHasOneUser ==
  /\ \A s, t \in Session : s # t /\ InUse(s) /\ InUse(t) => Needs[s] \cap Needs[t] = {}
  /\ \A s \in Session : child[s] = "upload" => wire[s] = "none"

(* Since the leases exclude each other and outlive the use, so do the      *)
(* uses themselves.                                                        *)
THEOREM SessionsExclude == Spec => []DeviceHasOneUser
<1>1. SessionInv /\ LeaseOutlivesUse => DeviceHasOneUser
  <2> SUFFICES ASSUME SessionInv, LeaseOutlivesUse PROVE DeviceHasOneUser
    OBVIOUS
  <2>1. \A s, t \in Session : s # t /\ InUse(s) /\ InUse(t) => Needs[s] \cap Needs[t] = {}
    BY DEF SessionInv, Exclusive, LeaseOutlivesUse
  <2>2. \A s \in Session : child[s] = "upload" => wire[s] = "none"
    BY DEF SessionInv, OwnInv, LentInv
  <2> QED BY <2>1, <2>2 DEF DeviceHasOneUser
<1> QED BY <1>1, SessionInvariance, LeasesOutliveUse, PTL

(* A session's transport begins when it is made, and then moves as its     *)
(* promise says.                                                           *)
MovesAsPromised(s) ==
  \/ wire'[s] = wire[s]
  \/ wire[s] = "none" /\ wire'[s] = "made"
  \/ <<wire[s], wire'[s]>> \in Promise!Moves

(* The manager drives each transport only along the moves of               *)
(* SerialPromise, which is what TransportPromises proves of the transport: *)
(* no step of a session assumes more of its port than the port delivers.   *)
THEOREM WiresMoveAsPromised == Spec => [][\A s \in Session : MovesAsPromised(s)]_vars
<1>1. ASSUME SessionInv, NEW s \in Session, Step(s) PROVE MovesAsPromised(s)
  <2> USE <1>1 DEF SessionInv, TypeOK, flow, device, lent, MovesAsPromised, Promise!Moves
  <2>1. CASE Made(s)
    BY <2>1 DEF Made, OwnInv, WireInv
  <2>2. CASE Opens(s) \/ Fails(s) \/ WireMoves(s) \/ WireCloses(s) \/ Stop(s)
    BY <2>2 DEF Opens, Fails, WireMoves, WireCloses, Stop, StopThese, Closing, Promise!Wires
  <2>3. CASE \/ BeginDiscovery(s) \/ Discovered(s) \/ DiscoveryFails(s) \/ StartDirect(s)
             \/ Authorized(s) \/ Acquired(s) \/ AcquiredInPart(s) \/ Opened(s) \/ Started(s)
             \/ CloseAnswered(s) \/ ReleaseAgain(s) \/ Forget(s) \/ HookReturns(s)
    BY <2>3 DEF BeginDiscovery, Discovered, DiscoveryFails, StartDirect, Authorized, Acquired,
                AcquiredInPart, Opened, Started, CloseAnswered, ReleaseAgain, Forget, HookReturns
  <2>4. CASE \/ HookPrepares(s) \/ HookPrepared(s) \/ HookRefused(s) \/ HookSpawns(s)
             \/ ChildExits(s) \/ HookReleases(s) \/ HookReleaseFails(s)
             \/ Holds(s) \/ HoldPrepares(s) \/ HoldPrepared(s) \/ HoldRefused(s)
             \/ HoldSpawns(s) \/ HoldReleases(s) \/ HoldReleaseFails(s)
    BY <2>4 DEF HookPrepares, HookPrepared, HookRefused, HookSpawns, ChildExits, HookReleases,
                HookReleaseFails, Holds, HoldPrepares, HoldPrepared, HoldRefused, HoldSpawns,
                HoldReleases, HoldReleaseFails
  <2> QED BY <2>1, <2>2, <2>3, <2>4 DEF Step
<1>2. ASSUME SessionInv, NEW s \in Session, NEW o \in Owner, StopOwner(o) \/ DisconnectOwner(o)
      PROVE  MovesAsPromised(s)
  BY <1>2 DEF StopOwner, DisconnectOwner, StopAll, StopThese, Closing, SessionInv, TypeOK,
              MovesAsPromised, Promise!Moves, Promise!Wires
<1>3. ASSUME SessionInv, [Next]_vars PROVE [\A s \in Session : MovesAsPromised(s)]_vars
  <2> SUFFICES ASSUME Next, NEW s \in Session PROVE MovesAsPromised(s)
    BY <1>3
  <2>1. ASSUME NEW t \in Session \ {s}, Step(t) PROVE MovesAsPromised(s)
    BY <1>3, <2>1, OthersSame DEF SessionInv, Same, MovesAsPromised
  <2> QED BY <1>1, <1>2, <1>3, <2>1 DEF Next
<1> QED BY <1>3, SessionInvariance, PTL DEF Spec
=============================================================================
