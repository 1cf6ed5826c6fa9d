---------------------------- MODULE SerialPromise ----------------------------
(***************************************************************************)
(* What a direct serial transport promises the session that owns it: it    *)
(* opens at most once, nothing it does after its end is usable, and the    *)
(* port is closed for good once the closure is confirmed.                  *)
(***************************************************************************)

VARIABLE wire

Wires == {"made", "opening", "open", "ended", "closed"}

(* The moves a transport may make, in one step of its own.                 *)
Moves ==
  {<<"made", "opening">>, <<"opening", "open">>}
  \cup {<<w, "ended">> : w \in {"made", "opening", "open"}}
  \cup {<<w, "closed">> : w \in {"made", "opening", "open", "ended"}}

Init == wire = "made"

Next == <<wire, wire'>> \in Moves

Spec == Init /\ [][Next]_wire
=============================================================================
