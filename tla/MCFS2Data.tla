----------------------------- MODULE MCFS2Data -----------------------------
(* FS2Data with two files in the root, blocks of two bytes and a volume that
   fills up. *)
EXTENDS FS2Data

aa == <<"a", "a">>
bb == <<"b", "b">>

TwoFiles == {<<aa>>, <<bb>>}
NoPaths  == {}

\* One byte, half a block, and three.  The three of Tailed differ from each other,
\* so that the wrong one in a last, partial block shows.
Whole  == {<<1>>, <<1, 2, 1>>}
Tailed == {<<1>>, <<4, 5, 6>>}
=============================================================================
