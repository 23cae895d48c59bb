----------------------------- MODULE MCNasVlan ------------------------------
(* Instances of NasVlan for TLC. *)
EXTENDS NasVlan, TLC

CONSTANTS p1, p2, b1, b2

(* Each bridge has a VLAN id of its own. *)
OwnVids == [b \in Bridges |-> IF b = b1 THEN {10} ELSE {1}]

(* One list: of one port, or empty. *)
OnePortLists == {[m \in {n} |-> {p}] : n \in Modes, p \in Ports}
                  \cup {[m \in {n} |-> {}] : n \in Modes}

Symmetric == Permutations(Ports)
=============================================================================
