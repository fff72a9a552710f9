----------------------------- MODULE FileTree ------------------------------
(***************************************************************************)
(* What the file system promises its users: a tree of files and            *)
(* directories addressed by paths, where a creation or a removal either    *)
(* happens and reports TRUE, or changes nothing and reports FALSE.  There  *)
(* is no action for a restart: a restart is not visible in the tree.       *)
(*                                                                         *)
(* On one point it follows the code of fs2_create (fs2.c 753-756) against  *)
(* the comment above it (746-747: "Returns true if the file already        *)
(* exists, or if it was successfully created."): the creation of a path    *)
(* that exists reports FALSE.                                              *)
(***************************************************************************)
EXTENDS Integers, Sequences, FiniteSets

CONSTANTS
  AllPaths,   \* the paths callers use; <<>> is the root
  Malformed,  \* those that name nothing
  LsRooms     \* how many names the buffers of callers can hold

VARIABLES
  tree,   \* the type, "DIR" or "FILE", of each path that exists
  out     \* the last call and what it returned

Exists(p)   == p \in DOMAIN tree
IsDir(p)    == Exists(p) /\ tree[p] = "DIR"
Parent(p)   == SubSeq(p, 1, Len(p) - 1)
Children(p) == {q \in DOMAIN tree : q # <<>> /\ Parent(q) = p}

Returns(call, args, r, names) ==
  out' = [call |-> call, args |-> args, ret |-> r, names |-> names]

Init ==
  /\ tree = [p \in {<<>>} |-> "DIR"]
  /\ out = [call |-> "BOOT", args |-> <<>>, ret |-> TRUE, names |-> {}]

\* A path that exists is not created again, and the caller is told FALSE.
Creatable(p) == p \notin Malformed /\ ~Exists(p) /\ IsDir(Parent(p))
Removable(p) == Exists(p) /\ p # <<>> /\ Children(p) = {}

Create(call, t, p) ==
  /\ tree' = IF Creatable(p)
             THEN [q \in DOMAIN tree \cup {p} |-> IF q = p THEN t ELSE tree[q]]
             ELSE tree
  /\ Returns(call, <<p>>, Creatable(p), {})

Remove(p) ==
  /\ tree' = IF Removable(p) THEN [q \in DOMAIN tree \ {p} |-> tree[q]] ELSE tree
  /\ Returns("RM", <<p>>, Removable(p), {})

IsType(call, t, p) == UNCHANGED tree /\ Returns(call, <<p>>, Exists(p) /\ tree[p] = t, {})

\* A listing names the children of the path.  It fails where the path does not
\* exist or the caller's buffer is too small for the children and the two names
\* that a directory may have for itself and its parent.
List(p, room) == /\ Exists(p)
                 /\ room >= Cardinality(Children(p))
                 /\ UNCHANGED tree
                 /\ Returns("LS", <<p, room>>, TRUE, {q[Len(q)] : q \in Children(p)})

ListFails(p, room) == /\ Exists(p) => room < Cardinality(Children(p)) + 2
                      /\ UNCHANGED tree
                      /\ Returns("LS", <<p, room>>, FALSE, {})

Next == \E p \in AllPaths :
  \/ Create("MKFILE", "FILE", p) \/ Create("MKDIR", "DIR", p)
  \/ Remove(p)
  \/ IsType("ISFILE", "FILE", p) \/ IsType("ISDIR", "DIR", p)
  \/ \E room \in LsRooms : List(p, room) \/ ListFails(p, room)

Spec == Init /\ [][Next]_<<tree, out>>
=============================================================================
