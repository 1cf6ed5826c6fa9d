---------------------------- MODULE PolicyGateMC ----------------------------
(***************************************************************************)
(* A small gate for TLC: an agent and a server that race for one grant and *)
(* one slot of the budget.                                                 *)
(***************************************************************************)
EXTENDS PolicyGate, TLC

(* No property tells one digest from another, only equal from different.   *)
Digests == Permutations(Scope)
=============================================================================
