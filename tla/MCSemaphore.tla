---------------------------- MODULE MCSemaphore ----------------------------
(* Semaphore on small instances. *)
EXTENDS Semaphore, TLC

StackSymmetry == Permutations(Stacks)
=============================================================================
