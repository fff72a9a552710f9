---------------------------- MODULE FileContents ---------------------------
(***************************************************************************)
(* What open, read, write and close promise: a file is a sequence of       *)
(* bytes, and every open entry has a cursor of its own into it.  A write   *)
(* puts its bytes at the cursor and ends the file after them; a read       *)
(* returns the bytes from the cursor on.  A restart closes the files and   *)
(* keeps their contents.                                                   *)
(***************************************************************************)
EXTENDS Integers, Sequences

CONSTANTS
  Slots,    \* entries of the table of open files
  Files,    \* the paths of files
  NULL, Unset,             \* an unused entry, and one that a refused open has left behind
  Datas, Flags, ReadLens   \* arguments of write, open and read

VARIABLES
  content,  \* the bytes of each file that exists
  openft,   \* the open entries
  room,     \* the size that each file can surely grow to
  io        \* what the last call returned: a number, and the bytes read

MinOf(a, b) == IF a < b THEN a ELSE b

Returns(r, bytes) == io' = [ret |-> r, bytes |-> bytes]

Init ==
  /\ content = <<>>
  /\ openft = [g \in Slots |-> NULL]
  /\ io = [ret |-> 0, bytes |-> <<>>]

Free(g) == openft[g] = NULL /\ \A h \in Slots : h < g => openft[h] # NULL

Mode(f) == (IF f % 2 = 1 THEN {"R"} ELSE {}) \cup (IF (f \div 2) % 2 = 1 THEN {"W"} ELSE {})

\* Flag 4 makes a file that is not there.
Open(p, f) == \E g \in Slots :
  /\ Free(g)
  /\ p \in DOMAIN content \/ f >= 4
  /\ openft' = [openft EXCEPT ![g] = [path |-> p, mode |-> Mode(f), cursor |-> 0]]
  /\ content' = [q \in DOMAIN content \cup {p} |->
                   IF q \in DOMAIN content THEN content[q] ELSE <<>>]
  /\ Returns(g, <<>>)

\* Without it the call fails, and its entry is lost.
OpenMissing(p, f) == \E g \in Slots :
  /\ Free(g)
  /\ p \notin DOMAIN content /\ f < 4
  /\ openft' = [openft EXCEPT ![g] = Unset]
  /\ Returns(-1, <<>>) /\ UNCHANGED content

OpenFull ==
  /\ \A g \in Slots : openft[g] # NULL
  /\ Returns(-1, <<>>) /\ UNCHANGED <<openft, content>>

IsOpen(g) == openft[g] \notin {NULL, Unset}
Advance(g, n) == openft' = [openft EXCEPT ![g].cursor = @ + n]

Close(g) ==
  /\ IsOpen(g) /\ openft' = [openft EXCEPT ![g] = NULL]
  /\ Returns(0, <<>>) /\ UNCHANGED content

\* The first n bytes of data are stored.  What lies between an earlier end of
\* the file and the cursor is not specified.
Write(g, data, n) ==
  LET p == openft[g].path
      c == openft[g].cursor
  IN  /\ "W" \in openft[g].mode
      /\ n = Len(data) \/ c + Len(data) > room[p]
      /\ DOMAIN content' = DOMAIN content
      /\ \A q \in DOMAIN content \ {p} : content'[q] = content[q]
      /\ Len(content'[p]) = c + n
      /\ \A i \in 1..MinOf(c, Len(content[p])) : content'[p][i] = content[p][i]
      /\ \A i \in 1..n : content'[p][c + i] = data[i]
      /\ Advance(g, n)
      /\ Returns(n, <<>>)

\* Nothing is stored: no permission, or no room.
WriteNone(g, data) ==
  /\ \/ "W" \notin openft[g].mode
     \/ openft[g].cursor + Len(data) > room[openft[g].path]
  /\ Returns(0, <<>>) /\ UNCHANGED <<openft, content>>

Read(g, n) ==
  LET c == openft[g].cursor
      bytes == SubSeq(content[openft[g].path], c + 1, MinOf(c + n, Len(content[openft[g].path])))
  IN  /\ "R" \in openft[g].mode
      /\ Advance(g, Len(bytes))
      /\ Returns(Len(bytes), bytes) /\ UNCHANGED content

ReadNone(g) ==
  /\ "R" \notin openft[g].mode
  /\ Returns(0, <<>>) /\ UNCHANGED <<openft, content>>

Restart == openft' = [g \in Slots |-> NULL] /\ UNCHANGED <<content, io>>

Next ==
  \/ \E p \in Files, f \in Flags : Open(p, f) \/ OpenMissing(p, f)
  \/ OpenFull
  \/ \E g \in Slots : IsOpen(g) /\
       \/ Close(g)
       \/ \E data \in Datas : WriteNone(g, data) \/ \E n \in 0..Len(data) : Write(g, data, n)
       \/ ReadNone(g) \/ \E n \in ReadLens : Read(g, n)
  \/ Restart

Spec == Init /\ [][Next]_<<content, openft, io>>
=============================================================================
