--------------------------- MODULE SerialTransport ---------------------------
(***************************************************************************)
(* One DirectSerialTransport (src/src/core/serial/serial-transport.ts):    *)
(* a SerialPort stream that is opened once and never reopened.  Opening,   *)
(* writing and closing are answered by callbacks that may come after the   *)
(* operation timed out or the transport was told to stop.                  *)
(***************************************************************************)

VARIABLES
  port,       \* the binding's port: "closed", "opening", "open", "closing"
  current,    \* the transport's own idea of its state
  terminal,   \* why it ended, or "none"
  opening,    \* an open was asked for and its callback has not come
  closing,    \* a close was asked for and its callback has not come
  confirmed,  \* physicallyClosed: the lease may be released
  openOp,     \* what the caller of open() was told
  writeOp,    \* what the caller of the last write() was told
  closeOp     \* what the callers of close() were told

transportVars == <<port, current, terminal, opening, closing, confirmed,
          openOp, writeOp, closeOp>>

Ports == {"closed", "opening", "open", "closing"}
Ends  == {"stopped", "disconnected", "error"}

TransportTypeOK ==
  /\ port \in Ports
  /\ current \in {"idle", "opening", "open", "closing"}
  /\ terminal \in Ends \cup {"none"}
  /\ opening \in BOOLEAN
  /\ closing \in BOOLEAN
  /\ confirmed \in BOOLEAN
  /\ openOp \in {"none", "pending", "opened", "rejected"}
  /\ writeOp \in {"none", "writing", "draining", "drained", "rejected"}
  /\ closeOp \in {"none", "waiting", "closed", "unconfirmed"}

TransportInit ==
  /\ port = "closed" /\ current = "idle" /\ terminal = "none"
  /\ opening = FALSE /\ closing = FALSE /\ confirmed = FALSE
  /\ openOp = "none" /\ writeOp = "none" /\ closeOp = "none"

-----------------------------------------------------------------------------
(* The private helpers. *)

Ended == terminal # "none"

MarkTerminal(end) == terminal' = IF Ended THEN terminal ELSE end

AbortPending ==
  /\ openOp'  = IF openOp = "pending" THEN "rejected" ELSE openOp
  /\ writeOp' = IF writeOp \in {"writing", "draining"} THEN "rejected" ELSE writeOp

(* The callers of close() hear of a closure once it is confirmed. *)
AnswerClosers ==
  closeOp' = IF confirmed' /\ closeOp = "waiting" THEN "closed" ELSE closeOp

(* The port is closed and no callback can open it any more. *)
FinishClosed ==
  /\ port' = "closed"
  /\ opening' = FALSE
  /\ closing' = FALSE
  /\ confirmed' = TRUE
  /\ UNCHANGED current

(* Ask the port to close.  A close that throws is one whose callback       *)
(* reports an error.                                                       *)
AskPort ==
  /\ port' = "closing"
  /\ opening' = FALSE
  /\ closing' = TRUE
  /\ current' = "closing"
  /\ UNCHANGED confirmed

(* Wrong: a port that is still being opened is taken for a closed one. *)
RequestCloseWhileOpening ==
  \/ ~confirmed /\ ~closing /\ port = "open" /\ AskPort
  \/ /\ ~confirmed /\ ~closing /\ port \in {"closed", "opening"}
     /\ confirmed' = TRUE
     /\ UNCHANGED <<port, current, opening, closing>>
  \/ /\ confirmed \/ closing \/ port = "closing"
     /\ UNCHANGED <<port, current, opening, closing, confirmed>>

RequestClose ==
  LET busy == confirmed \/ opening \/ closing \/ port \in {"opening", "closing"}
  IN  \/ ~busy /\ port = "open" /\ AskPort
      \/ ~busy /\ port = "closed" /\ FinishClosed
      \/ busy /\ UNCHANGED <<port, current, opening, closing, confirmed>>

(* Wrong: the end is not marked before the port is asked to close. *)
FailUnmarked ==
  /\ UNCHANGED terminal
  /\ AbortPending
  /\ RequestClose
  /\ AnswerClosers

Fail ==
  /\ MarkTerminal("error")
  /\ AbortPending
  /\ RequestClose
  /\ AnswerClosers

-----------------------------------------------------------------------------
(* Opening *)

Open ==
  /\ current = "idle" /\ ~Ended
  /\ current' = "opening"
  /\ opening' = TRUE
  /\ port' = "opening"
  /\ openOp' = "pending"
  /\ UNCHANGED <<terminal, closing, confirmed, writeOp, closeOp>>

(* A success that comes after the end closes the port at once. *)
OpenSucceeds ==
  /\ port = "opening"
  /\ opening' = FALSE
  /\ \/ /\ ~Ended
        /\ port' = "open"
        /\ current' = "open"
        /\ openOp' = "opened"
        /\ UNCHANGED <<terminal, closing, confirmed, writeOp, closeOp>>
     \/ /\ Ended
        /\ MarkTerminal("error")
        /\ AbortPending
        /\ AskPort
        /\ UNCHANGED closeOp

OpenFails ==
  /\ port = "opening"
  /\ MarkTerminal("error")
  /\ AbortPending
  /\ FinishClosed
  /\ AnswerClosers

-----------------------------------------------------------------------------
(* Writing *)

Write ==
  /\ ~Ended /\ current = "open" /\ port = "open"
  /\ writeOp \notin {"writing", "draining"}
  /\ writeOp' = "writing"
  /\ UNCHANGED <<port, current, terminal, opening, closing, confirmed,
                 openOp, closeOp>>

(* The port took the bytes, and is asked to drain them. *)
WriteTaken ==
  /\ writeOp = "writing"
  /\ writeOp' = "draining"
  /\ UNCHANGED <<port, current, terminal, opening, closing, confirmed,
                 openOp, closeOp>>

WriteDrained ==
  /\ writeOp = "draining"
  /\ writeOp' = "drained"
  /\ UNCHANGED <<port, current, terminal, opening, closing, confirmed,
                 openOp, closeOp>>

-----------------------------------------------------------------------------
(* Failures: an operation that times out or whose callback brings an       *)
(* error, an error event, a consumer that throws.                          *)

OperationFails ==
  /\ openOp = "pending" \/ writeOp \in {"writing", "draining"}
  /\ Fail

PortFails ==
  /\ port # "closed"
  /\ Fail

(* The device is unplugged: the binding closes the port on its own. *)
Unplug ==
  /\ port = "open"
  /\ port' = "closing"
  /\ UNCHANGED <<current, terminal, opening, closing, confirmed,
                 openOp, writeOp, closeOp>>

-----------------------------------------------------------------------------
(* Closing *)

(* Wrong: the operations that wait are not told that the port is closing. *)
CloseWithoutAbort ==
  /\ closeOp # "waiting"
  /\ MarkTerminal("stopped")
  /\ RequestClose
  /\ closeOp' = IF confirmed' THEN "closed" ELSE "waiting"
  /\ UNCHANGED <<openOp, writeOp>>

(* A call of close() while another one waits shares its answer. *)
Close ==
  /\ closeOp # "waiting"
  /\ MarkTerminal("stopped")
  /\ AbortPending
  /\ RequestClose
  /\ closeOp' = IF confirmed' THEN "closed" ELSE "waiting"

(* Wrong: the timer runs only while the port was asked to close. *)
CloseTimesOutWhenAsked ==
  /\ closeOp = "waiting" /\ closing
  /\ closeOp' = "unconfirmed"
  /\ UNCHANGED <<port, current, terminal, opening, closing, confirmed,
                 openOp, writeOp>>

CloseTimesOut ==
  /\ closeOp = "waiting"
  /\ closeOp' = "unconfirmed"
  /\ UNCHANGED <<port, current, terminal, opening, closing, confirmed,
                 openOp, writeOp>>

PortCloses ==
  /\ port = "closing"
  /\ MarkTerminal("disconnected")
  /\ AbortPending
  /\ FinishClosed
  /\ AnswerClosers

(* The requested close failed: unconfirmed, a later close() asks again.    *)
PortStaysOpen ==
  /\ port = "closing" /\ closing
  /\ port' = "open"
  /\ closing' = FALSE
  /\ UNCHANGED <<current, terminal, opening, confirmed, openOp, writeOp, closeOp>>

(* The binding's own close failed, which is an error event on an open port. *)
UnplugFails ==
  /\ port = "closing" /\ ~closing
  /\ MarkTerminal("error")
  /\ AbortPending
  /\ AskPort
  /\ UNCHANGED closeOp

-----------------------------------------------------------------------------
TransportNext ==
  \/ Open \/ OpenSucceeds \/ OpenFails
  \/ Write \/ WriteTaken \/ WriteDrained
  \/ OperationFails \/ PortFails \/ Unplug \/ UnplugFails
  \/ Close \/ CloseTimesOut \/ PortCloses \/ PortStaysOpen

TransportSpec == TransportInit /\ [][TransportNext]_transportVars

-----------------------------------------------------------------------------
(* Properties *)

(* A confirmed closure is final: no callback of an open that was still     *)
(* under way opens the port after the lease may have been released.        *)
ConfirmedMeansClosed == confirmed => port = "closed"

(* The flags that hold back a close never outlive the callback they wait   *)
(* for, so that a later close() can always ask the port again.             *)
FlagsAgree == /\ opening = (port = "opening")
              /\ closing => port = "closing"

(* Nobody is told of a success after the end: not by a late open, and not  *)
(* by a drain that completes after the transport stopped.                  *)
NoSuccessAfterEnd ==
  [][Ended => /\ (openOp' = "opened" => openOp = "opened")
              /\ (writeOp' = "drained" => writeOp = "drained")
              /\ writeOp' # "writing"]_transportVars

(* Every caller of open, write and close is answered, whatever the port    *)
(* does: a port that was never asked to close, since it was still being    *)
(* opened, leaves no caller of close() waiting.                            *)
Unanswered ==
  openOp = "pending" \/ writeOp \in {"writing", "draining"} \/ closeOp = "waiting"

Answered == []<>~Unanswered

promised == IF confirmed /\ port = "closed" THEN "closed"
            ELSE IF Ended THEN "ended"
            ELSE IF current = "idle" THEN "made" ELSE current

(* The transport keeps its promise to the session.                         *)
TransportPromise == INSTANCE SerialPromise WITH wire <- promised

PromiseSpec == TransportPromise!Spec
=============================================================================
