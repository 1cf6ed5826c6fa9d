----------------------------- MODULE BuildQueueMC -----------------------------
(* Small instances of BuildQueue: a table names what each job is.          *)
EXTENDS BuildQueue, TLC

CONSTANTS compile, flash, rebuild, session, dashboard, install,
          alice, sketch, other

(* Three implicit jobs of one project. *)
OneProject == [j \in Job |-> sketch]
AllImplicit == [j \in Job |-> "implicit"]

(* Jobs of every kind. *)
MixedProject == [j \in Job |-> IF j = install THEN other ELSE sketch]
MixedLocking == [j \in Job |-> CASE j = session -> "session"
                                 [] j = dashboard -> "none"
                                 [] j = install -> "install"
                                 [] OTHER -> "implicit"]
MCSessionOf == [j \in Job |-> alice]
=============================================================================
