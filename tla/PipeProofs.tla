---------------------------- MODULE PipeProofs -----------------------------
(***************************************************************************)
(* The ring buffer of kernel/pipe.c stays well formed and implements a     *)
(* bounded queue, for every buffer size and every sequence of calls.       *)
(***************************************************************************)
EXTENDS Pipe, SequenceTheorems, LeastElement

-----------------------------------------------------------------------------
(* The ring *)

\* A pipe never holds more than it has room for.
LEMMA UsedBound ==
  ASSUME RingOK
  PROVE  Used \in 0..PIPE_SIZE
BY PipeAssumption DEF RingOK, Used, Gap, Index

\* A cursor advanced by at most one lap stays in the buffer.
LEMMA WrapIndex ==
  ASSUME NEW a \in Index, NEW k \in 0..PIPE_SIZE
  PROVE  Wrap(a + k) \in Index
BY PipeAssumption DEF Wrap, Index

\* The gap from reader to writer after writer advances.
LEMMA GapAdvance ==
  ASSUME NEW r \in Index, NEW w \in Index, NEW k \in 1..PIPE_SIZE,
         Gap(r, w) + k <= PIPE_SIZE
  PROVE  (IF Wrap(w + k) = r THEN PIPE_SIZE ELSE Gap(r, Wrap(w + k))) = Gap(r, w) + k
BY PipeAssumption DEF Gap, Wrap, Index

\* The chunks a caller may pass are sequences of characters.
LEMMA ChunkType ==
  ASSUME NEW in \in Chunks
  PROVE  in \in Seq(Char) /\ Len(in) \in Nat
<1> PICK n \in 0..MaxChars : in \in [1..n -> Char]
  BY DEF Chunks
<1> QED BY PipeAssumption

-----------------------------------------------------------------------------
(* The two calls *)

\* After a write of k characters the pipe holds k more, old ones first.
LEMMA WriteStep ==
  ASSUME RingOK, NEW in \in Chunks, pipe_write(in)
  PROVE  LET k == Least(Len(in), PIPE_SIZE - Used)
         IN  /\ RingOK'
             /\ k \in Nat /\ ret' = k
             /\ Used' = Used + k
             /\ \A j \in 1..Used : Contents'[j] = Contents[j]
             /\ \A j \in (Used + 1)..(Used + k) : Contents'[j] = in[j - Used]
<1> DEFINE k == Least(Len(in), PIPE_SIZE - Used)
<1>1. /\ in \in Seq(Char) /\ Len(in) \in Nat
      /\ Used \in 0..PIPE_SIZE
      /\ k \in 0..PIPE_SIZE /\ k <= Len(in) /\ Used + k <= PIPE_SIZE
  BY ChunkType, UsedBound, PipeAssumption DEF Least
<1> HIDE DEF k
<1>2. writer = Wrap(reader + Used)
  BY PipeAssumption DEF RingOK, Used, Gap, Wrap, Index
<1>3. /\ writer' = Wrap(writer + k) /\ writer' \in Index
      /\ reader' = reader /\ got' = got /\ ret' = k
      /\ full' = IF k = 0 THEN full ELSE writer' = reader
      /\ buffer' = [j \in Index |-> IF Gap(writer, j) < k THEN in[Gap(writer, j) + 1]
                                    ELSE buffer[j]]
  BY <1>1, WrapIndex DEF pipe_write, k, RingOK
<1>4. Used' = Used + k /\ (full' => reader' = writer') /\ full' \in BOOLEAN
  <2>1. CASE k = 0
    BY <1>1, <1>3, <2>1, PipeAssumption DEF RingOK, Used, Gap, Wrap, Index
  <2>2. CASE k # 0
    <3>0. ~full
      BY <1>1, <2>2, PipeAssumption DEF Used
    <3>f. full' = (writer' = reader)
      BY <1>3, <2>2
    <3>1. ~full /\ full' \in BOOLEAN /\ (full' <=> writer' = reader)
      BY <3>0, <3>f
    <3>2. Used' = IF writer' = reader THEN PIPE_SIZE ELSE Gap(reader, writer')
      BY <1>3, <3>1 DEF Used, Gap
    <3>3. Used = Gap(reader, writer)
      BY <3>1 DEF Used
    <3>4. reader \in Index /\ writer \in Index
      BY DEF RingOK
    <3>5. (IF writer' = reader THEN PIPE_SIZE ELSE Gap(reader, writer')) = Used + k
      <4>1. k \in 1..PIPE_SIZE /\ Gap(reader, writer) + k <= PIPE_SIZE
        BY <1>1, <2>2, <3>3, PipeAssumption
      <4> QED BY <1>3, <3>3, <3>4, <4>1, GapAdvance
    <3> QED BY <1>3, <3>1, <3>2, <3>5
  <2> QED BY <2>1, <2>2
<1>5. ASSUME NEW j \in Index, Gap(reader, j) < Used
      PROVE  buffer'[j] = buffer[j]
  <2>1. ~(Gap(writer, j) < k)
    BY <1>1, <1>2, <1>5, PipeAssumption DEF Gap, Wrap, Index, RingOK
  <2> QED BY <1>3, <2>1
<1>6. ASSUME NEW j \in Index, Used <= Gap(reader, j), Gap(reader, j) < Used + k
      PROVE  buffer'[j] = in[Gap(reader, j) - Used + 1] /\ buffer'[j] \in Char
  <2>1. Gap(writer, j) = Gap(reader, j) - Used
    BY <1>1, <1>2, <1>6, PipeAssumption DEF Gap, Wrap, Index, RingOK
  <2>2. Gap(reader, j) \in Nat
    BY PipeAssumption DEF Gap, Index, RingOK
  <2> QED BY <1>1, <1>3, <1>6, <2>1, <2>2
<1>7. RingOK'
  <2>1. buffer' \in [Index -> Char \cup {NoChar}]
    <3> SUFFICES ASSUME NEW j \in Index, Gap(writer, j) < k
                 PROVE  in[Gap(writer, j) + 1] \in Char
      BY <1>3 DEF RingOK
    <3> QED BY <1>1, PipeAssumption DEF Gap, Index, RingOK
  <2>2. \A j \in Index : Gap(reader', j) < Used' => buffer'[j] \in Char
    <3> SUFFICES ASSUME NEW j \in Index, Gap(reader, j) < Used + k
                 PROVE  buffer'[j] \in Char
      BY <1>3, <1>4 DEF Gap
    <3>1. Gap(reader, j) \in Nat
      BY PipeAssumption DEF Gap, Index, RingOK
    <3> QED BY <1>1, <1>5, <1>6, <3>1 DEF RingOK
  <2> QED BY <1>1, <1>3, <1>4, <2>1, <2>2 DEF RingOK
<1>8. ASSUME NEW j \in 1..Used PROVE Contents'[j] = Contents[j]
  <2>1. j - 1 \in Index /\ Wrap(reader + j - 1) \in Index /\ Gap(reader, Wrap(reader + j - 1)) = j - 1
    BY <1>1, PipeAssumption DEF Gap, Wrap, Index, RingOK
  <2>2. buffer'[Wrap(reader + j - 1)] = buffer[Wrap(reader + j - 1)]
    BY <1>1, <1>5, <2>1
  <2> QED BY <1>1, <1>3, <1>4, <2>2 DEF Contents, Wrap
<1>9. ASSUME NEW j \in (Used + 1)..(Used + k) PROVE Contents'[j] = in[j - Used]
  <2>1. j - 1 \in Index /\ Wrap(reader + j - 1) \in Index /\ Gap(reader, Wrap(reader + j - 1)) = j - 1
    BY <1>1, PipeAssumption DEF Gap, Wrap, Index, RingOK
  <2>2. buffer'[Wrap(reader + j - 1)] = in[j - Used]
    BY <1>1, <1>6, <2>1
  <2> QED BY <1>1, <1>3, <1>4, <2>2 DEF Contents, Wrap
<1> QED BY <1>1, <1>3, <1>4, <1>7, <1>8, <1>9 DEF k

\* After a read of k characters the oldest k are delivered and gone.
LEMMA ReadStep ==
  ASSUME RingOK, NEW n \in 0..MaxChars, pipe_read(n)
  PROVE  LET k == Least(n, Used)
         IN  /\ RingOK'
             /\ k \in 0..Used /\ ret' = k
             /\ Used' = Used - k
             /\ got' = [j \in 1..k |-> Contents[j]]
             /\ \A j \in 1..(Used - k) : Contents'[j] = Contents[j + k]
<1> DEFINE k == Least(n, Used)
<1>1. Used \in 0..PIPE_SIZE /\ k \in 0..Used /\ n \in Nat
  BY UsedBound, PipeAssumption DEF Least
<1> HIDE DEF k
<1>2. /\ reader' = Wrap(reader + k) /\ reader' \in Index
      /\ writer' = writer /\ buffer' = buffer /\ ret' = k
      /\ full' \in BOOLEAN /\ (full' <=> full /\ k = 0)
      /\ got' = [j \in 1..k |-> buffer[Wrap(reader + j - 1)]]
  <2>1. /\ reader' = Wrap(reader + k) /\ writer' = writer /\ buffer' = buffer
        /\ ret' = k /\ got' = [j \in 1..k |-> buffer[Wrap(reader + j - 1)]]
    BY DEF pipe_read, k
  <2>2. reader' \in Index
    <3>1. k \in 0..PIPE_SIZE
      BY <1>1, PipeAssumption
    <3> QED BY <2>1, <3>1, WrapIndex DEF RingOK
  <2>3. full' = (full /\ k = 0)
    BY DEF pipe_read, k
  <2> QED BY <2>1, <2>2, <2>3
<1>3. reader \in Index /\ writer \in Index
  BY DEF RingOK
<1>4. Used' = Used - k /\ (full' => reader' = writer')
  <2>1. CASE k = 0
    BY <1>1, <1>2, <1>3, <2>1, PipeAssumption DEF RingOK, Used, Gap, Wrap, Index
  <2>2. CASE k # 0
    <3>1. Used' = Gap(reader', writer)
      BY <1>2, <2>2 DEF Used, Gap
    <3>2. Used = Gap(reader, writer) \/ (Used = PIPE_SIZE /\ reader = writer)
      BY DEF Used, RingOK
    <3>3. Gap(reader', writer) = Used - k
      BY <1>1, <1>2, <1>3, <2>2, <3>2, PipeAssumption DEF Gap, Wrap, Index
    <3> QED BY <1>2, <2>2, <3>1, <3>3
  <2> QED BY <2>1, <2>2
<1>5. got' = [j \in 1..k |-> Contents[j]]
  BY <1>1, <1>2 DEF Contents
<1>6. \A j \in 1..Used : Contents[j] \in Char
  <2> SUFFICES ASSUME NEW j \in 1..Used
               PROVE  Wrap(reader + j - 1) \in Index /\ Gap(reader, Wrap(reader + j - 1)) < Used
    BY DEF RingOK, Contents
  <2> QED BY <1>1, <1>3, PipeAssumption DEF Gap, Wrap, Index
<1>7. RingOK'
  <2>1. got' \in Seq(Char)
    BY <1>1, <1>5, <1>6
  <2>2. ASSUME NEW j \in Index, Gap(reader', j) < Used'
        PROVE  buffer'[j] \in Char
    <3>1. Gap(reader, j) < Used
      BY <1>1, <1>2, <1>3, <1>4, <2>2, PipeAssumption DEF Gap, Wrap, Index
    <3> QED BY <1>2, <3>1 DEF RingOK
  <2> QED BY <1>1, <1>2, <1>4, <2>1, <2>2 DEF RingOK
<1>8. ASSUME NEW j \in 1..(Used - k) PROVE Contents'[j] = Contents[j + k]
  <2>1. Wrap(reader' + j - 1) = Wrap(reader + (j + k) - 1)
    BY <1>1, <1>2, <1>3, PipeAssumption DEF Wrap, Index
  <2>2. Contents'[j] = buffer'[Wrap(reader' + j - 1)]
    BY <1>1, <1>4 DEF Contents, Wrap
  <2>3. Contents[j + k] = buffer[Wrap(reader + (j + k) - 1)]
    BY <1>1 DEF Contents
  <2> QED BY <1>2, <2>1, <2>2, <2>3
<1> QED BY <1>1, <1>2, <1>4, <1>5, <1>7, <1>8 DEF k

-----------------------------------------------------------------------------
(* Theorems *)

\* The contents of a well formed ring are a sequence of Used characters.
LEMMA ContentsType ==
  RingOK => Contents \in Seq(Char) /\ Len(Contents) = Used /\ Used \in Nat
<1> SUFFICES ASSUME RingOK
             PROVE  Contents \in Seq(Char) /\ Len(Contents) = Used /\ Used \in Nat
  OBVIOUS
<1>1. Used \in 0..PIPE_SIZE
  BY UsedBound
<1>2. ASSUME NEW j \in 1..Used PROVE buffer[Wrap(reader + j - 1)] \in Char
  <2>1. Wrap(reader + j - 1) \in Index /\ Gap(reader, Wrap(reader + j - 1)) < Used
    BY <1>1, PipeAssumption DEF Gap, Wrap, Index, RingOK
  <2> QED BY <2>1 DEF RingOK
<1>3. Used \in Nat
  BY <1>1, PipeAssumption
<1> QED BY <1>2, <1>3 DEF Contents

\* The same of the ring after a step.
LEMMA ContentsTypeNext ==
  RingOK' => Contents' \in Seq(Char) /\ Len(Contents') = Used'
<1>1. RingOK' => (Contents \in Seq(Char) /\ Len(Contents) = Used /\ Used \in Nat)'
  BY ContentsType, PTL
<1> QED BY <1>1

\* A reset pipe is well formed and every call keeps it so.
LEMMA RingInductive ==
  /\ Init => RingOK
  /\ RingOK /\ [Next]_pipeVars => RingOK'
<1>1. Init => RingOK
  <2> SUFFICES ASSUME Init PROVE RingOK
    OBVIOUS
  <2>1. Used = 0 /\ 0 \in Index
    BY PipeAssumption DEF Init, Used, Gap, Index
  <2>2. \A j \in Index : ~(Gap(reader, j) < 0)
    BY PipeAssumption DEF Init, Gap, Index
  <2> QED BY <2>1, <2>2 DEF Init, RingOK
<1>2. ASSUME RingOK, [Next]_pipeVars PROVE RingOK'
  <2>1. CASE UNCHANGED pipeVars
    BY <1>2, <2>1 DEF pipeVars, RingOK, Used, Gap
  <2>2. CASE Next
    BY <1>2, <2>2, WriteStep, ReadStep DEF Next
  <2> QED BY <1>2, <2>1, <2>2
<1> QED BY <1>1, <1>2

\* The cursors, the full flag and the stored characters stay consistent
\* through every sequence of pipe_read and pipe_write.
THEOREM RingWellFormed == Spec => []RingOK
BY RingInductive, PTL DEF Spec

\* A write of the ring is a write of the queue.
LEMMA WriteRefines ==
  ASSUME RingOK, NEW in \in Chunks, pipe_write(in)
  PROVE  Fifo!Write(in)
<1> DEFINE k == Least(Len(in), PIPE_SIZE - Used)
           added == SubSeq(in, 1, k)
<1>1. /\ RingOK'
      /\ k \in Nat /\ ret' = k
      /\ Used' = Used + k
      /\ \A j \in 1..Used : Contents'[j] = Contents[j]
      /\ \A j \in (Used + 1)..(Used + k) : Contents'[j] = in[j - Used]
  BY WriteStep
<1>2. in \in Seq(Char) /\ Len(in) \in Nat /\ k <= Len(in)
  BY UsedBound, ChunkType, PipeAssumption DEF Least
<1>3. /\ Contents \in Seq(Char) /\ Len(Contents) = Used /\ Used \in Nat
      /\ Contents' \in Seq(Char) /\ Len(Contents') = Used'
  BY <1>1, ContentsType, ContentsTypeNext
<1>4. Fifo!Least(Len(in), PIPE_SIZE - Len(Contents)) = k
  BY <1>3 DEF Fifo!Least, Least
<1> HIDE DEF k
<1>5. /\ added \in Seq(Char) /\ Len(added) = k
      /\ \A j \in 1..k : added[j] = in[j]
  BY <1>1, <1>2
<1> HIDE DEF added
<1>6. /\ Contents \o added \in Seq(Char)
      /\ Len(Contents \o added) = Used + k
      /\ \A j \in 1..(Used + k) :
            (Contents \o added)[j] = IF j <= Used THEN Contents[j] ELSE added[j - Used]
  BY <1>3, <1>5, ConcatProperties
<1>7. \A j \in 1..(Used + k) : Contents'[j] = (Contents \o added)[j]
  <2> TAKE j \in 1..(Used + k)
  <2>1. CASE j <= Used
    BY <1>1, <1>3, <1>6, <2>1
  <2>2. CASE ~(j <= Used)
    <3>1. j \in (Used + 1)..(Used + k) /\ j - Used \in 1..k
      BY <1>1, <1>3, <2>2
    <3> QED BY <1>1, <1>5, <1>6, <2>2, <3>1
  <2> QED BY <2>1, <2>2
<1>8. Contents' = Contents \o added
  BY <1>1, <1>3, <1>6, <1>7, SeqEqual
<1> QED BY <1>1, <1>4, <1>8 DEF Fifo!Write, pipe_write, added

\* A read of the ring is a read of the queue.
LEMMA ReadRefines ==
  ASSUME RingOK, NEW n \in 0..MaxChars, pipe_read(n)
  PROVE  Fifo!Read(n)
<1> DEFINE k == Least(n, Used)
<1>1. /\ k \in 0..Used /\ ret' = k
      /\ Used' = Used - k
      /\ got' = [j \in 1..k |-> Contents[j]]
      /\ \A j \in 1..(Used - k) : Contents'[j] = Contents[j + k]
  BY ReadStep
<1>2. Used \in Nat
  BY UsedBound, PipeAssumption
<1>3. Len(Contents) = Used /\ Contents \in Seq(Char)
  BY ContentsType
<1>4. Fifo!Least(n, Len(Contents)) = k
  BY <1>3 DEF Fifo!Least, Least
<1> HIDE DEF k
<1>5. SubSeq(Contents, 1, k) = [j \in 1..k |-> Contents[j]]
  BY <1>1, <1>2, <1>3
<1>6. SubSeq(Contents, k + 1, Used) = [j \in 1..(Used - k) |-> Contents[j + k]]
  BY <1>1, <1>2, <1>3
<1>7. Contents' = [j \in 1..(Used - k) |-> Contents'[j]]
  BY <1>1, <1>2 DEF Contents
<1>8. Contents' = SubSeq(Contents, k + 1, Used)
  BY <1>1, <1>2, <1>6, <1>7
<1> QED BY <1>1, <1>3, <1>4, <1>5, <1>8 DEF Fifo!Read

\* Every behaviour of the ring buffer is a behaviour of a bounded queue:
\* pipe_read and pipe_write lose, repeat and reorder nothing, for every
\* PIPE_SIZE and every position of the cursors.
THEOREM PipeIsFifo == Spec => ImplementsFifo
<1>1. Init => Fifo!Init
  <2> SUFFICES ASSUME Init PROVE Contents = <<>>
    BY DEF Init, Fifo!Init
  <2>1. Used = 0
    BY PipeAssumption DEF Init, Used, Gap
  <2> QED BY <2>1 DEF Contents
<1>2. RingOK /\ [Next]_pipeVars => [Fifo!Next]_(Fifo!fifoVars)
  <2> SUFFICES ASSUME RingOK, [Next]_pipeVars PROVE [Fifo!Next]_(Fifo!fifoVars)
    OBVIOUS
  <2>1. ASSUME NEW in \in Chunks, pipe_write(in) PROVE Fifo!Next
    BY <2>1, WriteRefines DEF Fifo!Next, Fifo!Chunks, Chunks
  <2>2. ASSUME NEW n \in 0..MaxChars, pipe_read(n) PROVE Fifo!Next
    BY <2>2, ReadRefines DEF Fifo!Next
  <2>3. CASE UNCHANGED pipeVars
    BY <2>3 DEF pipeVars, Fifo!fifoVars, Contents, Used, Gap, Wrap
  <2> QED BY <2>1, <2>2, <2>3 DEF Next
<1> QED BY <1>1, <1>2, RingWellFormed, PTL DEF Spec, ImplementsFifo, Fifo!Spec

-----------------------------------------------------------------------------
(* The loops *)

\* A loop of n rounds in which every round keeps it equal to g ends in g[n].
LEMMA LoopEnds ==
  ASSUME NEW n \in Nat, NEW f, NEW g, f[0] = g[0],
         \A i \in 1..n : f[i - 1] = g[i - 1] => f[i] = g[i]
  PROVE  f[n] = g[n]
<1> DEFINE S == {i \in 0..n : f[i] = g[i]}
<1>1. 0 \in S
  OBVIOUS
<1>2. \A k \in 1..n : k - 1 \in S => k \in S
  OBVIOUS
<1>3. 0..n \subseteq S
  <2> HIDE DEF S
  <2> QED BY <1>1, <1>2, UpTo
<1>4. n \in S
  <2> HIDE DEF S
  <2> QED BY <1>3
<1> QED BY <1>4

\* One more in the ring, as the code and as the model compute it.
LEMMA WrapIsMod ==
  ASSUME NEW x \in Index
  PROVE  (x + 1) % PIPE_SIZE = Wrap(x + 1)
<1>1. \A N \in Nat \ {0} : \A y \in 0..(N - 1) : (y + 1) % N = IF y + 1 >= N THEN y + 1 - N ELSE y + 1
  OBVIOUS
<1> QED BY <1>1, PipeAssumption DEF Index, Wrap

\* Wrapping twice is wrapping once.
LEMMA WrapAgain ==
  ASSUME NEW x \in Index, NEW m \in 0..(PIPE_SIZE - 1)
  PROVE  /\ Wrap(x + m) \in Index /\ Wrap(Wrap(x + m) + 1) = Wrap(x + (m + 1))
         /\ Gap(x, Wrap(x + m)) = m
         /\ \A j \in Index : Gap(x, j) = m => j = Wrap(x + m)
         /\ \A j \in Index : Gap(x, j) \in 0..(PIPE_SIZE - 1)
BY PipeAssumption DEF Wrap, Index, Gap

RingOf(b, r, w, f) == [buffer |-> b, reader |-> r, writer |-> w, full |-> f]
Taken(q, x)        == [q EXCEPT !.reader = x, !.full = FALSE]
Stored(q, c, x)    == [q EXCEPT !.buffer[q.writer] = c, !.writer = x, !.full = (x = q.reader)]
RingTaken(b, w, x)        == RingOf(b, x, w, FALSE)
RingStored(b, r, w, c, x) == RingOf([b EXCEPT ![w] = c], r, x, x = r)

\* The fields that a round of pipe_read assigns one after the other.
LEMMA TakenFields ==
  ASSUME NEW b, NEW r, NEW w, NEW f, NEW x
  PROVE  Taken(RingOf(b, r, w, f), x) = RingTaken(b, w, x)
<1> DEFINE q == RingOf(b, r, w, f)
           q1 == [q EXCEPT !.reader = x]
<1>0. q = [buffer |-> b, reader |-> r, writer |-> w, full |-> f]
  BY DEF RingOf
<1> HIDE DEF q
<1>1. q1 = [buffer |-> b, reader |-> x, writer |-> w, full |-> f]
  BY <1>0
<1>2. [q EXCEPT !.reader = x, !.full = FALSE] = [q1 EXCEPT !.full = FALSE]
  BY Zenon
<1> HIDE DEF q1
<1>3. ASSUME NEW y
      PROVE  [q1 EXCEPT !.full = y] = [buffer |-> b, reader |-> x, writer |-> w, full |-> y]
  BY <1>1
<1>4. [q1 EXCEPT !.full = FALSE] = [buffer |-> b, reader |-> x, writer |-> w, full |-> FALSE]
  BY <1>3, Zenon
<1> QED BY <1>2, <1>4 DEF q, Taken, RingTaken, RingOf

\* The fields that a round of pipe_write assigns one after the other.
LEMMA StoredFields ==
  ASSUME NEW b, NEW r, NEW w, NEW f, NEW x, NEW c
  PROVE  Stored(RingOf(b, r, w, f), c, x) = RingStored(b, r, w, c, x)
<1> DEFINE q == RingOf(b, r, w, f)
           v == [b EXCEPT ![w] = c]
           q1 == [q EXCEPT !.buffer[w] = c]
           q2 == [q1 EXCEPT !.writer = x]
<1>0. q = [buffer |-> b, reader |-> r, writer |-> w, full |-> f] /\ q.reader = r /\ q.writer = w
  BY DEF RingOf
<1> HIDE DEF q
<1>1. q1 = [buffer |-> v, reader |-> r, writer |-> w, full |-> f]
  BY <1>0
<1>2. ASSUME NEW y
      PROVE  [q EXCEPT !.buffer[w] = c, !.writer = x, !.full = y]
             = [buffer |-> v, reader |-> r, writer |-> x, full |-> y]
  <2>1. [q EXCEPT !.buffer[w] = c, !.writer = x, !.full = y] = [q2 EXCEPT !.full = y]
    BY Zenon
  <2> HIDE DEF v, q1
  <2>2. q2 = [buffer |-> v, reader |-> r, writer |-> x, full |-> f]
    BY <1>1
  <2> HIDE DEF q2
  <2>3. [q2 EXCEPT !.full = y] = [buffer |-> v, reader |-> r, writer |-> x, full |-> y]
    BY <2>2
  <2> QED BY <2>1, <2>3
<1>3. [q EXCEPT !.buffer[w] = c, !.writer = x, !.full = (x = r)]
      = [buffer |-> v, reader |-> r, writer |-> x, full |-> (x = r)]
  BY <1>2, Zenon
<1> QED BY <1>0, <1>3, Zenon DEF q, Stored, RingStored, RingOf

\* The ring and out when pipe_read has taken m characters.
ReadAfter(m) ==
  [p   |-> [buffer |-> buffer, reader |-> Wrap(reader + m), writer |-> writer,
            full |-> IF m = 0 THEN full ELSE FALSE],
   out |-> [j \in 1..m |-> buffer[Wrap(reader + j - 1)]]]

\* A round takes the next character, unless the pipe is empty.
LEMMA ReadRound ==
  ASSUME RingOK, NEW m \in 0..Used
  PROVE  ReadChar(ReadAfter(m)) = IF m < Used THEN ReadAfter(m + 1) ELSE ReadAfter(m)
<1> DEFINE s == ReadAfter(m)
           q == s.p
           r == Wrap(reader + m)
<1>1. Used \in 0..PIPE_SIZE /\ reader \in Index /\ writer \in Index /\ full \in BOOLEAN
      /\ PIPE_SIZE \in Nat \ {0}
  BY UsedBound, PipeAssumption DEF RingOK
<1>2. /\ q = [buffer |-> buffer, reader |-> r, writer |-> writer, full |-> IF m = 0 THEN full ELSE FALSE]
      /\ q.buffer = buffer /\ q.reader = r /\ q.writer = writer
      /\ q.full = IF m = 0 THEN full ELSE FALSE
  BY DEF ReadAfter
<1>3. CASE m < Used
  <2>1. q.full \/ q.writer # q.reader
    <3>1. CASE m = 0
      <4>1. Wrap(reader + 0) = reader
        BY <1>1 DEF Wrap, Index
      <4>2. full \/ writer # reader
        <5> SUFFICES ASSUME ~ full, writer = reader PROVE FALSE
          OBVIOUS
        <5>1. Gap(reader, writer) = 0
          BY <1>1 DEF Gap, Index
        <5>2. Used = 0
          BY <5>1 DEF Used
        <5> QED BY <1>3, <3>1, <5>2
      <4> QED BY <1>2, <3>1, <4>1, <4>2
    <3>2. CASE m # 0
      <4>1. Wrap(reader + m) # writer
        BY <1>1, <1>3, <3>2 DEF Used, Gap, Wrap, Index, RingOK
      <4> QED BY <1>2, <4>1
    <3> QED BY <3>1, <3>2
  <2>2. (r + 1) % PIPE_SIZE = Wrap(reader + (m + 1))
    <3>1. m \in 0..(PIPE_SIZE - 1)
      BY <1>1, <1>3
    <3> QED BY <1>1, <3>1, WrapAgain, WrapIsMod
  <2> DEFINE q2 == [q EXCEPT !.reader = (q.reader + 1) % PIPE_SIZE, !.full = FALSE]
             o == [j \in 1..m |-> buffer[Wrap(reader + j - 1)]]
             o2 == [j \in 1..(m + 1) |-> buffer[Wrap(reader + j - 1)]]
  <2>3. ReadChar(s) = [p |-> q2, out |-> Append(s.out, q.buffer[q.reader])]
    BY <2>1 DEF ReadChar
  <2>4. q2 = [buffer |-> buffer, reader |-> Wrap(reader + (m + 1)), writer |-> writer, full |-> FALSE]
    <3> DEFINE fl == IF m = 0 THEN full ELSE FALSE
               x == (q.reader + 1) % PIPE_SIZE
    <3>1. q = RingOf(buffer, r, writer, fl)
      BY <1>2 DEF RingOf
    <3>2. x = Wrap(reader + (m + 1))
      BY <1>2, <2>2
    <3> HIDE DEF q, r, fl, x
    <3>3. Taken(q, x) = RingTaken(buffer, writer, x)
      BY <3>1, TakenFields
    <3> QED BY <3>2, <3>3 DEF Taken, RingTaken, RingOf, x
  <2>5. s.out = o
    BY DEF ReadAfter
  <2>6. Append(o, buffer[r]) = o2
    <3>1. m \in Nat /\ Len(o) = m
      BY <1>1
    <3>2. DOMAIN Append(o, buffer[r]) = 1..(m + 1)
      BY <3>1
    <3>3. reader + (m + 1) - 1 = reader + m
      BY <1>1, <3>1 DEF Index
    <3>4. \A j \in 1..(m + 1) : Append(o, buffer[r])[j] = o2[j]
      <4> TAKE j \in 1..(m + 1)
      <4>1. CASE j = m + 1
        BY <3>1, <3>3, <4>1
      <4>2. CASE j # m + 1
        BY <3>1, <4>2
      <4> QED BY <4>1, <4>2
    <3> QED BY <3>1, <3>2, <3>4
  <2>7. ReadAfter(m + 1) = [p |-> q2, out |-> o2]
    <3>1. (IF m + 1 = 0 THEN full ELSE FALSE) = FALSE
      BY <1>1
    <3> HIDE DEF q2
    <3> QED BY <2>4, <3>1 DEF ReadAfter
  <2> QED BY <1>2, <1>3, <2>3, <2>5, <2>6, <2>7
<1>4. CASE ~ (m < Used)
  <2>1. m = Used
    BY <1>1, <1>4
  <2>2. Wrap(reader + m) = writer
    BY <1>1, <2>1 DEF Used, Gap, Wrap, Index, RingOK
  <2>3. m = 0 => ~ full
    BY <1>1, <2>1 DEF Used
  <2>4. ~ (q.full \/ q.writer # q.reader)
    BY <1>2, <2>2, <2>3
  <2> QED BY <1>4, <2>4 DEF ReadChar
<1> QED BY <1>3, <1>4

\* The closed form of pipe_read is its loop.
LEMMA ReadIsLoop ==
  ASSUME RingOK, NEW n \in Nat
  PROVE  ReadLoop(Ring, n) = ReadAfter(Least(n, Used))
<1> DEFINE s0 == [p |-> Ring, out |-> <<>>]
           body(f, i) == IF i = 0 THEN s0 ELSE ReadChar(f[i - 1])
           loop == CHOOSE f : f = [i \in 0..n |-> body(f, i)]
           g == [i \in 0..n |-> ReadAfter(Least(i, Used))]
<1>0. Used \in 0..PIPE_SIZE /\ Used \in Nat
  BY UsedBound, PipeAssumption
<1>1. ReadAfter(0) = s0
  <2>1. Wrap(reader + 0) = reader
    BY PipeAssumption DEF RingOK, Wrap, Index
  <2>2. [j \in 1..0 |-> buffer[Wrap(reader + j - 1)]] = <<>>
    OBVIOUS
  <2> QED BY <2>1, <2>2 DEF ReadAfter, Ring
<1>2. Least(0, Used) = 0
  BY <1>0 DEF Least
<1>3. ASSUME NEW i \in 1..n
      PROVE  ReadAfter(Least(i, Used)) = ReadChar(ReadAfter(Least(i - 1, Used)))
  <2> DEFINE m == Least(i - 1, Used)
  <2>1. m \in 0..Used /\ Least(i, Used) = IF m < Used THEN m + 1 ELSE m
    BY <1>0 DEF Least
  <2> HIDE DEF m
  <2>2. ReadChar(ReadAfter(m)) = IF m < Used THEN ReadAfter(m + 1) ELSE ReadAfter(m)
    BY <2>1, ReadRound
  <2> QED BY <2>1, <2>2 DEF m
<1> HIDE DEF s0
<1>4. g[0] = s0 /\ \A i \in 1..n : g[i] = ReadChar(g[i - 1])
  BY <1>1, <1>2, <1>3
<1>5. g = [i \in 0..n |-> body(g, i)]
  <2>1. \A i \in 0..n : g[i] = body(g, i)
    BY <1>4
  <2> QED BY <2>1
<1>6. loop = [i \in 0..n |-> body(loop, i)]
  <2> HIDE DEF body, g
  <2> QED BY <1>5
<1>7. ReadLoop(Ring, n) = loop[n]
  BY DEF ReadLoop, s0
<1> HIDE DEF loop
<1>8. loop[0] = s0 /\ \A i \in 1..n : loop[i] = ReadChar(loop[i - 1])
  BY <1>6
<1>9. loop[n] = g[n]
  <2>1. loop[0] = g[0] /\ \A i \in 1..n : loop[i - 1] = g[i - 1] => loop[i] = g[i]
    BY <1>4, <1>8
  <2> HIDE DEF g
  <2> QED BY <2>1, LoopEnds
<1> QED BY <1>7, <1>9

\* The ring and i when pipe_write has stored the first m characters of in.
Filled(in, m)  == [j \in Index |-> IF Gap(writer, j) < m THEN in[Gap(writer, j) + 1] ELSE buffer[j]]
FullOnce(m)    == IF m = 0 THEN full ELSE Wrap(writer + m) = reader
WriteAfter(in, m) ==
  [p |-> RingOf(Filled(in, m), reader, Wrap(writer + m), FullOnce(m)), ret |-> m]

\* The ring is full once what was free is filled.
LEMMA FullWhen ==
  ASSUME RingOK, NEW m \in 0..(PIPE_SIZE - Used)
  PROVE  FullOnce(m) <=> m = PIPE_SIZE - Used
<1>1. Used \in 0..PIPE_SIZE /\ reader \in Index /\ writer \in Index /\ PIPE_SIZE \in Nat \ {0}
  BY UsedBound, PipeAssumption DEF RingOK
<1>2. CASE m = 0
  <2>1. full => Used = PIPE_SIZE
    BY DEF Used
  <2>2. ~ full => Used < PIPE_SIZE
    <3>1. Gap(reader, writer) < PIPE_SIZE
      BY <1>1 DEF Gap, Index
    <3> QED BY <3>1 DEF Used
  <2>3. FullOnce(m) = full
    BY <1>2 DEF FullOnce
  <2>4. 0 = PIPE_SIZE - Used <=> Used = PIPE_SIZE
    BY <1>1
  <2> QED BY <1>1, <1>2, <2>1, <2>2, <2>3, <2>4
<1>3. CASE m # 0
  <2>1. Used = Gap(reader, writer)
    <3> SUFFICES ASSUME full PROVE FALSE
      BY DEF Used
    <3>1. Used = PIPE_SIZE
      BY DEF Used
    <3> QED BY <1>1, <1>3, <3>1
  <2>2. Wrap(writer + m) = reader <=> m = PIPE_SIZE - Gap(reader, writer)
    BY <1>1, <1>3, <2>1 DEF Wrap, Gap, Index
  <2> QED BY <1>3, <2>1, <2>2 DEF FullOnce
<1> QED BY <1>2, <1>3

\* A round stores the next character, unless the pipe is full.
LEMMA WriteRound ==
  ASSUME RingOK, NEW in, NEW m \in 0..(PIPE_SIZE - Used)
  PROVE  /\ m < PIPE_SIZE - Used =>
              WriteChar(WriteAfter(in, m), m + 1, in[m + 1]) = WriteAfter(in, m + 1)
         /\ m = PIPE_SIZE - Used =>
              \A i, c : WriteChar(WriteAfter(in, m), i, c) = WriteAfter(in, m)
<1> DEFINE s == WriteAfter(in, m)
           q == s.p
           w == Wrap(writer + m)
           fl == FullOnce(m)
<1>1. /\ Used \in 0..PIPE_SIZE /\ reader \in Index /\ writer \in Index
      /\ PIPE_SIZE \in Nat \ {0} /\ m \in Nat
  BY UsedBound, PipeAssumption DEF RingOK
<1>2. q = RingOf(Filled(in, m), reader, w, fl)
  BY DEF WriteAfter
<1> HIDE DEF w, fl
<1>3. q.buffer = Filled(in, m) /\ q.reader = reader /\ q.writer = w /\ q.full = fl
  BY <1>2 DEF RingOf
<1>4. fl <=> m = PIPE_SIZE - Used
  BY FullWhen DEF fl
<1>5. ASSUME m = PIPE_SIZE - Used, NEW i, NEW c
      PROVE  WriteChar(s, i, c) = s
  BY <1>3, <1>4, <1>5 DEF WriteChar
<1>6. ASSUME m < PIPE_SIZE - Used
      PROVE  WriteChar(s, m + 1, in[m + 1]) = WriteAfter(in, m + 1)
  <2> DEFINE x == (q.writer + 1) % PIPE_SIZE
             c == in[m + 1]
  <2>1. m \in 0..(PIPE_SIZE - 1) /\ m + 1 \in 0..(PIPE_SIZE - Used)
    BY <1>1, <1>6
  <2>2. /\ w \in Index /\ Wrap(w + 1) = Wrap(writer + (m + 1)) /\ Gap(writer, w) = m
        /\ \A j \in Index : Gap(writer, j) = m => j = w
        /\ \A j \in Index : Gap(writer, j) \in 0..(PIPE_SIZE - 1)
    BY <1>1, <2>1, WrapAgain DEF w
  <2>3. x = Wrap(writer + (m + 1))
    BY <1>3, <2>2, WrapIsMod
  <2>4. ~ fl
    BY <1>1, <1>4, <1>6
  <2>5. WriteChar(s, m + 1, c) = [p |-> Stored(q, c, x), ret |-> m + 1]
    BY <1>3, <2>4 DEF WriteChar, Stored
  <2> HIDE DEF q, x
  <2>6. Stored(q, c, x) = RingStored(Filled(in, m), reader, w, c, x)
    BY <1>2, StoredFields
  <2>7. [Filled(in, m) EXCEPT ![w] = c] = Filled(in, m + 1)
    <3> DEFINE a == [Filled(in, m) EXCEPT ![w] = c]
    <3>1. DOMAIN Filled(in, m) = Index /\ DOMAIN Filled(in, m + 1) = Index
      BY DEF Filled
    <3>2. ASSUME NEW j \in Index PROVE a[j] = Filled(in, m + 1)[j]
      <4>1. CASE j = w
        <5>1. a[j] = c
          BY <3>1, <4>1
        <5>2. Filled(in, m + 1)[j] = in[m + 1]
          BY <1>1, <2>2, <4>1 DEF Filled
        <5> QED BY <5>1, <5>2
      <4>2. CASE j # w
        <5>1. a[j] = Filled(in, m)[j]
          BY <3>1, <4>2
        <5>2. Gap(writer, j) \in Nat /\ Gap(writer, j) # m
          BY <1>1, <2>2, <4>2
        <5>3. Gap(writer, j) < m + 1 <=> Gap(writer, j) < m
          BY <1>1, <5>2
        <5> QED BY <5>1, <5>3 DEF Filled
      <4> QED BY <4>1, <4>2
    <3>3. a = [j \in Index |-> a[j]] /\ Filled(in, m + 1) = [j \in Index |-> Filled(in, m + 1)[j]]
      BY <3>1 DEF Filled
    <3> HIDE DEF a
    <3>4. a = Filled(in, m + 1)
      BY <3>2, <3>3
    <3> QED BY <3>4 DEF a
  <2>8. FullOnce(m + 1) = (x = reader)
    BY <1>1, <2>3 DEF FullOnce
  <2>9. RingStored(Filled(in, m), reader, w, c, x) = RingOf(Filled(in, m + 1), reader, x, x = reader)
    BY <2>7, Zenon DEF RingStored
  <2>10. WriteAfter(in, m + 1) = [p |-> RingOf(Filled(in, m + 1), reader, x, x = reader), ret |-> m + 1]
    BY <2>3, <2>8, Zenon DEF WriteAfter
  <2> QED BY <2>5, <2>6, <2>9, <2>10
<1> QED BY <1>5, <1>6

\* The closed form of pipe_write is its loop.
LEMMA WriteIsLoop ==
  ASSUME RingOK, NEW in \in Chunks
  PROVE  WriteLoop(Ring, in) = WriteAfter(in, Least(Len(in), PIPE_SIZE - Used))
<1> DEFINE n == Len(in)
           s0 == [p |-> Ring, ret |-> 0]
           body(f, i) == IF i = 0 THEN s0 ELSE WriteChar(f[i - 1], i, in[i])
           loop == CHOOSE f : f = [i \in 0..n |-> body(f, i)]
           room == PIPE_SIZE - Used
           g == [i \in 0..n |-> WriteAfter(in, Least(i, room))]
<1>0. Used \in 0..PIPE_SIZE /\ room \in Nat /\ n \in Nat
  BY UsedBound, PipeAssumption, ChunkType
<1>1. WriteAfter(in, 0) = s0
  <2>1. Wrap(writer + 0) = writer
    BY PipeAssumption DEF RingOK, Wrap, Index
  <2>2. Filled(in, 0) = buffer
    <3>1. \A j \in Index : ~ (Gap(writer, j) < 0)
      BY PipeAssumption DEF RingOK, Gap, Index
    <3>2. Filled(in, 0) = [j \in Index |-> buffer[j]]
      BY <3>1 DEF Filled
    <3> QED BY <3>2 DEF RingOK
  <2>3. FullOnce(0) = full
    BY DEF FullOnce
  <2> QED BY <2>1, <2>2, <2>3 DEF WriteAfter, Ring, RingOf
<1>2. Least(0, room) = 0
  BY <1>0 DEF Least
<1> HIDE DEF n, room
<1>3. ASSUME NEW i \in 1..n
      PROVE  WriteAfter(in, Least(i, room)) = WriteChar(WriteAfter(in, Least(i - 1, room)), i, in[i])
  <2> DEFINE m == Least(i - 1, room)
  <2>1. m \in 0..room /\ (m < room => i = m + 1 /\ Least(i, room) = i) /\ (~ (m < room) => m = room /\ Least(i, room) = room)
    BY <1>0 DEF Least
  <2> HIDE DEF m
  <2>2. /\ m < room => WriteChar(WriteAfter(in, m), m + 1, in[m + 1]) = WriteAfter(in, m + 1)
        /\ m = room => WriteChar(WriteAfter(in, m), i, in[i]) = WriteAfter(in, m)
    BY <2>1, WriteRound DEF room
  <2> QED BY <2>1, <2>2 DEF m
<1> HIDE DEF s0
<1>4. g[0] = s0 /\ \A i \in 1..n : g[i] = WriteChar(g[i - 1], i, in[i])
  BY <1>0, <1>1, <1>2, <1>3
<1>5. g = [i \in 0..n |-> body(g, i)]
  <2>1. \A i \in 0..n : g[i] = body(g, i)
    <3> TAKE i \in 0..n
    <3>1. CASE i = 0
      BY <1>4, <3>1
    <3>2. CASE i # 0
      <4>1. i \in 1..n
        BY <1>0, <3>2
      <4>2. g[i] = WriteChar(g[i - 1], i, in[i])
        BY <1>4, <4>1
      <4> HIDE DEF g
      <4> QED BY <3>2, <4>2
    <3> QED BY <3>1, <3>2
  <2> QED BY <2>1
<1>6. loop = [i \in 0..n |-> body(loop, i)]
  <2> HIDE DEF body, g
  <2> QED BY <1>5
<1>7. WriteLoop(Ring, in) = loop[n]
  BY DEF WriteLoop, s0, n
<1> HIDE DEF loop
<1>8. loop[0] = s0 /\ \A i \in 1..n : loop[i] = WriteChar(loop[i - 1], i, in[i])
  BY <1>0, <1>6
<1>9. loop[n] = g[n]
  <2>1. loop[0] = g[0] /\ \A i \in 1..n : loop[i - 1] = g[i - 1] => loop[i] = g[i]
    BY <1>4, <1>8
  <2> HIDE DEF g
  <2> QED BY <1>0, <2>1, LoopEnds
<1> QED BY <1>0, <1>7, <1>9 DEF n, room

\* The closed forms of the model are the loops of pipe.c, character by
\* character, for every ring, every chunk and every position of the cursors.
THEOREM StepsAreLoops == Spec => StepIsLoop
<1> DEFINE Reads  == \E n \in 0..MaxChars :
                       /\ pipe_read(n)
                       /\ Ring' = ReadLoop(Ring, n).p
                       /\ got' = ReadLoop(Ring, n).out
                       /\ ret' = Len(got')
           Writes == \E in \in Chunks :
                       /\ pipe_write(in)
                       /\ Ring' = WriteLoop(Ring, in).p
                       /\ ret' = WriteLoop(Ring, in).ret
<1>1. RingOK /\ [Next]_pipeVars => [Reads \/ Writes]_pipeVars
  <2> SUFFICES ASSUME RingOK, Next PROVE Reads \/ Writes
    OBVIOUS
  <2>1. ASSUME NEW n \in 0..MaxChars, pipe_read(n) PROVE Reads
    <3> DEFINE k == Least(n, Used)
    <3>1. ReadLoop(Ring, n) = ReadAfter(k) /\ k \in Nat
      BY ReadIsLoop, UsedBound, PipeAssumption DEF Least
    <3>2. Ring' = ReadAfter(k).p /\ got' = ReadAfter(k).out /\ ret' = Len(got')
      <4>1. /\ reader' = Wrap(reader + k) /\ writer' = writer /\ buffer' = buffer
            /\ full' = (full /\ k = 0) /\ ret' = k
            /\ got' = [j \in 1..k |-> buffer[Wrap(reader + j - 1)]]
        BY <2>1 DEF pipe_read
      <4> HIDE DEF k
      <4>2. full' = IF k = 0 THEN full ELSE FALSE
        BY <4>1 DEF RingOK
      <4>3. Len(got') = k
        BY <3>1, <4>1
      <4> QED BY <4>1, <4>2, <4>3 DEF Ring, ReadAfter
    <3> QED BY <2>1, <3>1, <3>2
  <2>2. ASSUME NEW in \in Chunks, pipe_write(in) PROVE Writes
    <3> DEFINE k == Least(Len(in), PIPE_SIZE - Used)
    <3>1. WriteLoop(Ring, in) = WriteAfter(in, k)
      BY WriteIsLoop
    <3>2. Ring' = WriteAfter(in, k).p /\ ret' = WriteAfter(in, k).ret
      <4>1. /\ buffer' = Filled(in, k) /\ reader' = reader /\ writer' = Wrap(writer + k)
            /\ full' = FullOnce(k) /\ ret' = k
        BY <2>2 DEF pipe_write, Filled, FullOnce
      <4> HIDE DEF k
      <4> QED BY <4>1 DEF Ring, WriteAfter, RingOf
    <3> QED BY <2>2, <3>1, <3>2
  <2> QED BY <2>1, <2>2 DEF Next
<1> QED BY <1>1, RingWellFormed, PTL DEF Spec, StepIsLoop
=============================================================================
