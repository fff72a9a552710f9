---------------------------- MODULE BoundedFifo ----------------------------
(***************************************************************************)
(* What a pipe promises its users: a bounded first-in-first-out queue of   *)
(* characters.  A write takes the longest prefix that fits, a read gives   *)
(* the longest prefix held, and both report how many characters moved.     *)
(* Neither blocks.                                                         *)
(***************************************************************************)
EXTENDS Integers, Sequences

CONSTANTS
  PIPE_SIZE,   \* capacity
  Char,        \* the characters
  MaxChars     \* bound on the length of one write or read

VARIABLES
  queue,   \* characters written and not yet read
  got,     \* what the last read delivered
  ret      \* what the last call returned

fifoVars == <<queue, got, ret>>

Chunks == UNION {[1..n -> Char] : n \in 0..MaxChars}

Least(a, b) == IF a <= b THEN a ELSE b

Init == queue = <<>> /\ got = <<>> /\ ret = 0

Write(in) ==
  LET k == Least(Len(in), PIPE_SIZE - Len(queue))
  IN  /\ queue' = queue \o SubSeq(in, 1, k)
      /\ ret' = k
      /\ UNCHANGED got

Read(nchars) ==
  LET k == Least(nchars, Len(queue))
  IN  /\ got' = SubSeq(queue, 1, k)
      /\ queue' = SubSeq(queue, k + 1, Len(queue))
      /\ ret' = k

Next ==
  \/ \E in \in Chunks : Write(in)
  \/ \E n \in 0..MaxChars : Read(n)

Spec == Init /\ [][Next]_fifoVars
=============================================================================
