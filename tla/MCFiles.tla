------------------------------ MODULE MCFiles ------------------------------
(* Files on small tables. *)
EXTENDS Files, TLC

StackSymmetry == Permutations(Stacks)
=============================================================================
