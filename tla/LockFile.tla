------------------------------ MODULE LockFile ------------------------------
(***************************************************************************)
(* A lock of the proper-lockfile library, as the policy stores use it with *)
(* no retries: a directory that one caller makes and removes, refreshed    *)
(* while that caller runs, and up for taking once it looks abandoned.      *)
(***************************************************************************)
CONSTANTS
  Caller,  \* the calls, each in a process of its own, that share a store
  Nobody,  \* there is no lock
  Dead     \* there is one, and the process that made it has died

ASSUME CallerAssumption == Nobody \notin Caller /\ Dead \notin Caller /\ Nobody # Dead

Holders == Caller \cup {Nobody, Dead}

Available(holder) == holder \in {Nobody, Dead}

AfterDeath(holder, p) == IF holder = p THEN Dead ELSE holder
=============================================================================
