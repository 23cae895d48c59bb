------------------------------ MODULE MCNasLag ------------------------------
(* Instances of NasLag for TLC. *)
EXTENDS NasLag, TLC

CONSTANTS p1, p2, l1, l2

A(k, p) == [kind |-> k, port |-> p]

(* Two bonds at a time, or two incarnations of one name. *)
TwoNames == [l \in Lags |-> IF l = l1 THEN "bond1" ELSE "bond2"]
OneName == [l \in Lags |-> "bond1"]

(* One port, every kind of attribute alone and in an object with another. *)
OnePort == {<<>>} \cup {<<A("member", p)>> : p \in Ports}
BlockLists ==
  OnePort \cup {<<A("block", p)>> : p \in Ports}
          \cup {<<A("block", p), A("unblock", q)>> : p, q \in Ports}

Symmetric == Permutations(Ports)
=============================================================================
