------------------------------- MODULE Pipe --------------------------------
(***************************************************************************)
(* One kernel pipe (kernel/pipe.c): a ring buffer between any number of    *)
(* readers and writers.  A call runs inside a system call with interrupts  *)
(* masked, so it is one atomic step.  The loops move one character at a    *)
(* time; the actions give their result in closed form.                     *)
(*                                                                         *)
(* The loop variable i is declared without an initial value.  The build    *)
(* compiles with -O, where gcc starts it at 0; that is the outcome         *)
(* modelled.                                                               *)
(***************************************************************************)
EXTENDS Integers, Sequences

CONSTANTS
  PIPE_SIZE,   \* 0x1000 in pipe.h
  Char,        \* the characters
  NoChar,      \* what malloc left in the buffer
  MaxChars     \* bound on nchars

ASSUME PipeAssumption ==
  /\ PIPE_SIZE \in Nat \ {0}
  /\ MaxChars \in Nat
  /\ NoChar \notin Char

Index  == 0..(PIPE_SIZE - 1)
Chunks == UNION {[1..n -> Char] : n \in 0..MaxChars}

VARIABLES
  buffer, reader, writer, full,   \* the fields of pipe_t
  got,                            \* characters the last read stored in out
  ret                             \* what the last call returned

pipeVars == <<buffer, reader, writer, full, got, ret>>

-----------------------------------------------------------------------------
(* The ring *)

Wrap_OffByOne(x) == IF x > PIPE_SIZE THEN x - PIPE_SIZE ELSE x

\* x % PIPE_SIZE for the values the two cursors reach.
Wrap(x) == IF x >= PIPE_SIZE THEN x - PIPE_SIZE ELSE x

\* How many slots after slot a is slot b.
Gap(a, b) == IF b >= a THEN b - a ELSE b - a + PIPE_SIZE

\* Characters in the pipe: the steps reader takes until can_read() is false.
Used == IF full THEN PIPE_SIZE ELSE Gap(reader, writer)

Least(a, b) == IF a <= b THEN a ELSE b

-----------------------------------------------------------------------------
(* Actions *)

\* do_pipe has just allocated the pipe and called pipe_reset.
Init ==
  /\ buffer = [j \in Index |-> NoChar]
  /\ reader = 0
  /\ writer = 0
  /\ full = FALSE
  /\ got = <<>>
  /\ ret = 0

pipe_read_KeepsFull(nchars) ==
  LET k == Least(nchars, Used)
  IN  /\ got' = [j \in 1..k |-> buffer[Wrap(reader + j - 1)]]
      /\ reader' = Wrap(reader + k)
      /\ ret' = k
      /\ UNCHANGED <<buffer, writer, full>>

\* The loop runs k times: until nchars are read or the pipe is empty.
pipe_read(nchars) ==
  LET k == Least(nchars, Used)
  IN  /\ got' = [j \in 1..k |-> buffer[Wrap(reader + j - 1)]]
      /\ reader' = Wrap(reader + k)
      /\ full' = (full /\ k = 0)
      /\ ret' = k
      /\ UNCHANGED <<buffer, writer>>

\* The loop runs k times: until all is written or the pipe is full.
pipe_write(in) ==
  LET k == Least(Len(in), PIPE_SIZE - Used)
  IN  /\ buffer' = [j \in Index |-> IF Gap(writer, j) < k THEN in[Gap(writer, j) + 1]
                                    ELSE buffer[j]]
      /\ writer' = Wrap(writer + k)
      /\ full' = IF k = 0 THEN full ELSE writer' = reader
      /\ ret' = k
      /\ UNCHANGED <<reader, got>>

Next ==
  \/ \E in \in Chunks : pipe_write(in)
  \/ \E n \in 0..MaxChars : pipe_read(n)

Spec == Init /\ [][Next]_pipeVars

-----------------------------------------------------------------------------
(* The loops of pipe.c, on a ring p *)

Ring == [buffer |-> buffer, reader |-> reader, writer |-> writer, full |-> full]

\* One round of pipe_read: the condition, then a character to out.
ReadChar(s) ==
  LET q == s.p
  IN  IF ~(q.full \/ q.writer # q.reader) THEN s
      ELSE [p   |-> [q EXCEPT !.reader = (q.reader + 1) % PIPE_SIZE, !.full = FALSE],
            out |-> Append(s.out, q.buffer[q.reader])]

ReadLoop(p, nchars) ==
  LET loop[i \in 0..nchars] ==
        IF i = 0 THEN [p |-> p, out |-> <<>>] ELSE ReadChar(loop[i - 1])
  IN  loop[nchars]

\* Round i of pipe_write, with character c.
WriteChar(s, i, c) ==
  LET q == s.p
      w == (q.writer + 1) % PIPE_SIZE
  IN  IF q.full THEN s
      ELSE [p   |-> [q EXCEPT !.buffer[q.writer] = c, !.writer = w, !.full = (w = q.reader)],
            ret |-> i]

WriteLoop(p, in) ==
  LET loop[i \in 0..Len(in)] ==
        IF i = 0 THEN [p |-> p, ret |-> 0] ELSE WriteChar(loop[i - 1], i, in[i])
  IN  loop[Len(in)]

-----------------------------------------------------------------------------
(* Properties *)

\* The cursors stay inside the buffer, full is only set when they meet, and
\* the slots between them hold characters some write stored.
RingOK ==
  /\ buffer \in [Index -> Char \cup {NoChar}]
  /\ reader \in Index
  /\ writer \in Index
  /\ full \in BOOLEAN
  /\ full => reader = writer
  /\ \A j \in Index : Gap(reader, j) < Used => buffer[j] \in Char
  /\ got \in Seq(Char)
  /\ ret \in Nat

\* The characters in the pipe, oldest first.
Contents == [j \in 1..Used |-> buffer[Wrap(reader + j - 1)]]

Fifo == INSTANCE BoundedFifo WITH queue <- Contents

\* The ring buffer is a bounded queue: nothing is lost, repeated, reordered
\* or invented at any position of the cursors, full or empty (pipe_read,
\* pipe_write).
ImplementsFifo == Fifo!Spec

\* Every step does what the loops of pipe_read and pipe_write do, character by
\* character, on the ring it starts from: same ring, same characters, same
\* count.
StepIsLoop ==
  [][\/ \E n \in 0..MaxChars :
          /\ pipe_read(n)
          /\ Ring' = ReadLoop(Ring, n).p
          /\ got' = ReadLoop(Ring, n).out
          /\ ret' = Len(got')
     \/ \E in \in Chunks :
          /\ pipe_write(in)
          /\ Ring' = WriteLoop(Ring, in).p
          /\ ret' = WriteLoop(Ring, in).ret]_pipeVars
=============================================================================
