---------------------------- MODULE SerialStream ----------------------------
(***************************************************************************)
(* A session's transport and its buffer, as SerialSessionManager joins     *)
(* them (src/src/core/serial/session-manager.ts): what the port delivers   *)
(* goes to the buffer, the end of the transport ends the buffer in a turn  *)
(* of its own, and whoever closes the transport ends the buffer first.     *)
(***************************************************************************)
EXTENDS SerialTransport, SessionBuffer

streamVars == <<transportVars, text, readers>>

StreamInit == TransportInit /\ BufferInit

(* The port's data event, which is ignored once the transport has ended.   *)
Data ==
  /\ port \in {"open", "closing"} /\ ~Ended
  /\ Receive
  /\ UNCHANGED transportVars

Terminated ==
  /\ Ended
  /\ CloseBuffer
  /\ UNCHANGED transportVars

(* stop() and a start that fails end the buffer, and close the transport.  *)
EndSession ==
  /\ CloseBuffer \/ (ended /\ UNCHANGED <<text, readers>>)
  /\ Close

TransportStep ==
  \/ Open \/ OpenSucceeds \/ OpenFails
  \/ Write \/ WriteTaken \/ WriteDrained
  \/ OperationFails \/ PortFails \/ Unplug \/ UnplugFails
  \/ CloseTimesOut \/ PortCloses \/ PortStaysOpen

StreamNext ==
  \/ TransportStep /\ UNCHANGED <<text, readers>>
  \/ Data \/ Terminated \/ EndSession
  \/ BufferStep /\ UNCHANGED transportVars

StreamSpec == StreamInit /\ [][StreamNext]_streamVars

(* A call that reads goes on, and its caller reads on; only the deadlines  *)
(* are not relied upon.                                                    *)
FairStreamSpec ==
  /\ StreamSpec
  /\ WF_streamVars(OperationFails /\ UNCHANGED <<text, readers>>)
  /\ WF_streamVars(CloseTimesOut /\ UNCHANGED <<text, readers>>)
  /\ WF_streamVars(Terminated)
  /\ \A r \in Reader : WF_streamVars(Read(r) /\ UNCHANGED transportVars)

-----------------------------------------------------------------------------
(* When the stream has ended, however it did, each reader comes to an      *)
(* answer that says so and leaves nothing out: the sleeping ones are       *)
(* woken, and each page lets them advance.  (An end is final, so that to   *)
(* come to it time and again is to come to it and stay.)                   *)
EveryReaderTold ==
  []<>(Ended => \A r \in Reader : phase[r] \in {"finished", "cancelled"})
=============================================================================
