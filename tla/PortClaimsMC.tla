---------------------------- MODULE PortClaimsMC ----------------------------
(* A server that monitors and uploads, a command line that uploads or      *)
(* monitors, and one that stops whatever monitor has the port.             *)
EXTENDS PortClaims, TLC

CONSTANTS watch, flash, burn, look, halt, server, cli, console

MCProcOf == [o \in Op |-> CASE o \in {watch, flash} -> server
                           [] o \in {burn, look} -> cli
                           [] o = halt -> console]
MCKind == [o \in Op |-> CASE o \in {watch, look} -> "monitor"
                         [] o \in {flash, burn} -> "upload"
                         [] o = halt -> "stop"]
=============================================================================
