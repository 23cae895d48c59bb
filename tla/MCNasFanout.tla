---- MODULE MCNasFanout ----
(* Instances of NasFanout: a front panel port of two lanes. *)
EXTENDS NasFanout

CONSTANTS f1, f2

Two == {f1, f2}
====
