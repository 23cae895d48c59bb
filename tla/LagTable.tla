------------------------------ MODULE LagTable ------------------------------
(***************************************************************************)
(* What the LAG manager promises the rest of the daemon: a set of LAGs and *)
(* at most one LAG for each port.  A port changes LAG only by leaving the  *)
(* first, joins only a LAG that exists, and a LAG that goes takes its own  *)
(* members out, and no others.                                             *)
(***************************************************************************)
CONSTANTS Ports, Lags, None

VARIABLES lags, member

vars == <<lags, member>>

Init == lags = {} /\ member = [p \in Ports |-> None]

Add(l) == lags' = lags \cup {l} /\ UNCHANGED member

(* A port joins a LAG, which the same event may have created. *)
Join(l, p) ==
  /\ member[p] = None
  /\ lags' = lags \cup {l} /\ member' = [member EXCEPT ![p] = l]

Leave(p) == member' = [member EXCEPT ![p] = None] /\ UNCHANGED lags

Remove(l) ==
  /\ lags' = lags \ {l}
  /\ member' = [p \in Ports |-> IF member[p] = l THEN None ELSE member[p]]

Next == \/ \E l \in Lags : Add(l) \/ Remove(l)
        \/ \E l \in Lags, p \in Ports : Join(l, p)
        \/ \E p \in Ports : Leave(p)

Spec == Init /\ [][Next]_vars
=============================================================================
