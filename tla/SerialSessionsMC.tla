--------------------------- MODULE SerialSessionsMC ---------------------------
(* An upload session that leases a port and its USB identity, and a        *)
(* monitor that wants the same port.                                       *)
EXTENDS SerialSessions, TLC

CONSTANTS upload, monitor, alice, port, usb

MCOwnerOf == [s \in Session |-> alice]
MCNeeds == [s \in Session |-> IF s = upload THEN {port, usb} ELSE {port}]
=============================================================================
