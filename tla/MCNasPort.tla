----------------------------- MODULE MCNasPort -----------------------------
(* Instances of NasPort for TLC. *)
EXTENDS NasPort, TLC

CONSTANTS p1, p2, n1, n2

Symmetric == Permutations(Ports) \cup Permutations(Fds)
=============================================================================
