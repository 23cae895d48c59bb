--------------------------- MODULE MCNasVlanLag ----------------------------
(* Instances of NasVlanLag for TLC. *)
EXTENDS NasVlanLag, TLC

CONSTANTS p1, p2, l1, l2, b1, b2

Lists == {[tagged |-> {l1}], [untagged |-> {l1}], [tagged |-> {}, untagged |-> {}]}

Twice == {[tagged |-> {l1}], [tagged |-> {l1, l2}], [untagged |-> {l2}]}

SameVid == [b \in Bridges |-> {2}]

Symmetric == Permutations(Ports)
=============================================================================
