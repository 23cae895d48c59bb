----------------------------- MODULE MCNasMedia -----------------------------
(* Instances of NasMedia for TLC. *)
EXTENDS NasMedia

CONSTANTS t1, t2, t3

(* t1 has every default, t2 no speed; t3 is not in the file. *)
Defaults == [t \in Types |-> IF t = t1 THEN Settings ELSE {"autoneg", "duplex"}]
=============================================================================
