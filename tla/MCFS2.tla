------------------------------- MODULE MCFS2 -------------------------------
(* FS2 on small volumes: names of two characters, one too long, and a path that
   ends in a slash. *)
EXTENDS FS2

aa == <<"a", "a">>
bb == <<"b", "b">>
long == <<"c", "c", "c">>
slash == <<>>

Deep  == {<<aa>>, <<bb>>, <<aa, aa>>, <<aa, bb>>}
Edges == Deep \cup {<<long>>, <<aa, slash>>}
Look  == {<<>>, <<bb>>}
Rooms == {1, 6}
=============================================================================
