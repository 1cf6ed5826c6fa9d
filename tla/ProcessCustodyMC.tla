--------------------------- MODULE ProcessCustodyMC ---------------------------
(* Two custodies in one server and one in each of two later servers, one   *)
(* of which is given the first server's process id again.                  *)
EXTENDS ProcessCustody, TLC

CONSTANTS server, other, reborn, upload, session, otherUpload, rebornSession

MCPidOf == (server :> 1) @@ (other :> 2) @@ (reborn :> 1)
MCHostOf == (upload :> server) @@ (session :> server)
            @@ (otherUpload :> other) @@ (rebornSession :> reborn)
=============================================================================
