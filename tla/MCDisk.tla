------------------------------- MODULE MCDisk ------------------------------
(* Disk with two blocks of two bytes; digits and letters occur in the bytes,
   and an address off the disk among the requests. *)
EXTENDS Disk

MCAddrs == {0, 1, 2}
MCBytes == {0, 171}
=============================================================================
