--------------------------- MODULE DebugClientsMC ---------------------------
(* Three launches of one connection, all for one request. *)
EXTENDS DebugClients

CONSTANTS first, second, third, blink
=============================================================================
