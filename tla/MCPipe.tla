------------------------------- MODULE MCPipe ------------------------------
(* Pipe on a small ring. *)
EXTENDS Pipe
=============================================================================
