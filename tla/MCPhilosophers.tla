--------------------------- MODULE MCPhilosophers --------------------------
(* Philosophers on a small table. *)
EXTENDS Philosophers
=============================================================================
