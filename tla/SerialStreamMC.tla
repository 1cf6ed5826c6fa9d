--------------------------- MODULE SerialStreamMC ---------------------------
(* One reader, each of whose calls may have any of the options.            *)
EXTENDS SerialStream
CONSTANTS reader
MCCalls == [pattern: BOOLEAN, reference: BOOLEAN]
=============================================================================
