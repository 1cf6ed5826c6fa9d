---------------------------- MODULE DeviceLeaseMC ----------------------------
(* Two live process ids and a third incarnation that is given the first id *)
(* again, with another start token.                                        *)
EXTENDS DeviceLease, TLC

CONSTANTS coordinator, child, reborn

MCPidOf == (coordinator :> 1) @@ (child :> 2) @@ (reborn :> 1)
MCTokenOf == (coordinator :> 1) @@ (child :> 1) @@ (reborn :> 2)
=============================================================================
