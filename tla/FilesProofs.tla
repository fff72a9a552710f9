---------------------------- MODULE FilesProofs -----------------------------
(***************************************************************************)
(* Descriptor tables (kernel/hilevel.c): reference counts are exact and no *)
(* descriptor finds a freed entry, for tables of every size, while some    *)
(* process keeps each end of a pipe (FilesSpec).                           *)
(***************************************************************************)
EXTENDS Files, ProcessProofs, LeastElement

-----------------------------------------------------------------------------
(* The invariant *)

\* A descriptor of an existing process finds an entry that has been set up.
Descriptors ==
  \A p \in pcballoc, d \in FD : fdt[p][d] # -1 =>
    openft[fdt[p][d]] # NULL /\ openft[fdt[p][d]].type # "UNSET"

\* Nothing that is in the table has been freed.
AllLive == \A g \in Slot : openft[g] # NULL => openft[g].live

\* A free slot is forgotten by everybody, the killed included.
NullClean == \A g \in Slot : openft[g] = NULL => lost[g] = 0

\* EndsLinked, and the other end is an end of a pipe too.
Linked ==
  \A g \in Slot : openft[g] # NULL /\ openft[g].type = "PIPE" =>
    LET other == openft[g].cursor
    IN  /\ other \in Slot /\ other # g /\ openft[other] # NULL
        /\ openft[other].type = "PIPE"
        /\ openft[other].cursor = g /\ openft[other].id = openft[g].id
        /\ openft[g].id \in pipes

FilesInv ==
  /\ OrderlyInv /\ FilesTypeOK /\ Descriptors /\ AllLive /\ NullClean
  /\ RefCounts /\ Linked

-----------------------------------------------------------------------------
(* What a close does to the global table *)

\* Entry e after n of the descriptors that count in it are closed.
Less(e, n) ==
  IF e = NULL \/ n = 0 THEN e
  ELSE IF e.type = "UART" THEN e
  ELSE IF e.open_count = n THEN NULL
  ELSE [e EXCEPT !.open_count = @ - n]

\* do_close takes one off the count and frees a file's entry with the last,
\* unless the descriptor is the last one to an end of a pipe.
LEMMA DropEffect ==
  ASSUME NEW ft \in [Slot -> fdte_t \cup {NULL}], NEW g \in Slot,
         ft[g] # NULL, ft[g].type # "UNSET",
         ft[g].type # "UART" => ft[g].open_count > 0,
         ft[g].type = "PIPE" => ft[g].open_count > 1
  PROVE  drop(ft, g) = [h \in Slot |-> IF h = g THEN Less(ft[g], 1) ELSE ft[h]]
<1> DEFINE e == ft[g]
<1>0. e \in fdte_t /\ e.type \in {"UART", "PIPE", "FILE"} /\ e.open_count \in Int
  BY DEF fdte_t
<1>1. CASE e.type = "UART"
  <2>1. drop(ft, g) = ft
    BY <1>1 DEF drop
  <2> QED BY <1>1, <2>1 DEF Less
<1>2. CASE e.type # "UART" /\ e.open_count > 1
  <2>1. drop(ft, g) = [ft EXCEPT ![g].open_count = ft[g].open_count - 1]
    BY <1>0, <1>2 DEF drop
  <2>2. drop(ft, g) = [ft EXCEPT ![g] = [ft[g] EXCEPT !.open_count = ft[g].open_count - 1]]
    BY <2>1
  <2>3. Less(ft[g], 1) = [ft[g] EXCEPT !.open_count = ft[g].open_count - 1]
    BY <1>0, <1>2 DEF Less
  <2> QED BY <2>2, <2>3
<1>3. CASE e.type = "FILE" /\ e.open_count <= 1
  <2>1. drop(ft, g) = [ft EXCEPT ![g] = NULL]
    BY <1>0, <1>3 DEF drop
  <2>2. Less(ft[g], 1) = NULL
    BY <1>0, <1>3 DEF Less
  <2> QED BY <2>1, <2>2
<1> QED BY <1>0, <1>1, <1>2, <1>3

\* The descriptors of p below n that refer to slot g.
Below(p, g, n) == {d \in FD : d < n /\ fdt[p][d] = g}

\* drop_all is its loop: any function that satisfies the equations of the loop
\* gives its result.
LEMMA DropAllLoop ==
  ASSUME NEW p, NFD \in Nat, NEW f,
         f = [d \in 0..NFD |->
                IF d = 0 THEN openft
                ELSE IF fdt[p][d - 1] = -1 THEN f[d - 1]
                ELSE drop(f[d - 1], fdt[p][d - 1])]
  PROVE  drop_all(p) = f[NFD]
<1> DEFINE body(h, d) == IF d = 0 THEN openft
                         ELSE IF fdt[p][d - 1] = -1 THEN h[d - 1]
                         ELSE drop(h[d - 1], fdt[p][d - 1])
           closed == CHOOSE h : h = [d \in 0..NFD |-> body(h, d)]
<1>1. drop_all(p) = closed[NFD]
  BY DEF drop_all
<1>2. closed = [d \in 0..NFD |-> body(closed, d)]
  OBVIOUS
<1> HIDE DEF closed
<1> DEFINE S == {d \in 0..NFD : closed[d] = f[d]}
<1>3. 0..NFD \subseteq S
  <2>1. 0 \in S
    BY <1>2
  <2>2. \A k \in 1..NFD : k - 1 \in S => k \in S
    BY <1>2
  <2> HIDE DEF S
  <2> QED BY <2>1, <2>2, UpTo
<1> QED BY <1>1, <1>3

\* Less yields an entry or a free slot.
LEMMA LessType ==
  ASSUME NEW e \in fdte_t \cup {NULL}, NEW n \in Nat
  PROVE  Less(e, n) \in fdte_t \cup {NULL}
<1>1. CASE e = NULL
  BY <1>1 DEF Less
<1>2. CASE e \in fdte_t
  <2>1. [e EXCEPT !.open_count = @ - n] \in fdte_t
    BY <1>2 DEF fdte_t
  <2> QED BY <1>2, <2>1 DEF Less
<1> QED BY <1>1, <1>2

\* While descriptors are left, closing changes nothing but the count, and one
\* more close is one more off the count.
LEMMA LessOnce ==
  ASSUME NEW e \in fdte_t, NEW n \in Nat, e.type # "UART" => e.open_count > n
  PROVE  /\ Less(e, n) \in fdte_t
         /\ Less(e, n).type = e.type /\ Less(e, n).cursor = e.cursor
         /\ Less(e, n).id = e.id /\ Less(e, n).live = e.live
         /\ e.type # "UART" => Less(e, n).open_count = e.open_count - n
         /\ Less(Less(e, n), 1) = Less(e, n + 1)
<1>0. e # NULL /\ e.open_count \in Int
  BY FilesAssumption DEF fdte_t
<1>1. CASE e.type = "UART"
  BY <1>0, <1>1 DEF Less
<1>2. CASE e.type # "UART" /\ n = 0
  <2>1. Less(e, n) = e /\ e.open_count - n = e.open_count
    BY <1>0, <1>2 DEF Less
  <2> QED BY <1>2, <2>1
<1>3. CASE e.type # "UART" /\ n # 0
  <2> DEFINE r == [e EXCEPT !.open_count = e.open_count - n]
  <2>1. Less(e, n) = r
    BY <1>0, <1>3 DEF Less
  <2>2. /\ r \in fdte_t /\ r # NULL /\ r.type = e.type /\ r.cursor = e.cursor /\ r.id = e.id /\ r.live = e.live
        /\ r.open_count = e.open_count - n
    BY <1>0, FilesAssumption DEF fdte_t
  <2>3. CASE e.open_count = n + 1
    <3>1. Less(r, 1) = NULL
      BY <1>0, <1>3, <2>2, <2>3 DEF Less
    <3>2. Less(e, n + 1) = NULL
      BY <1>0, <1>3, <2>3 DEF Less
    <3> QED BY <2>1, <2>2, <3>1, <3>2
  <2>4. CASE e.open_count # n + 1
    <3>1. Less(r, 1) = [r EXCEPT !.open_count = (e.open_count - n) - 1]
      BY <1>0, <1>3, <2>2, <2>4 DEF Less
    <3>2. Less(e, n + 1) = [e EXCEPT !.open_count = e.open_count - (n + 1)]
      BY <1>0, <1>3, <2>4 DEF Less
    <3>3. (e.open_count - n) - 1 = e.open_count - (n + 1)
      BY <1>0
    <3>4. [r EXCEPT !.open_count = (e.open_count - n) - 1] = [e EXCEPT !.open_count = (e.open_count - n) - 1]
      BY DEF fdte_t
    <3> QED BY <2>1, <2>2, <3>1, <3>2, <3>3, <3>4
  <2> QED BY <2>3, <2>4
<1> QED BY <1>1, <1>2, <1>3

\* Counting descriptors below n.
LEMMA BelowCount ==
  ASSUME NEW p, NEW g, NEW n \in 0..NFD
  PROVE  /\ IsFiniteSet(Below(p, g, n)) /\ Cardinality(Below(p, g, n)) \in Nat
         /\ Cardinality(Below(p, g, n)) <= Cardinality(Below(p, g, NFD))
         /\ n = 0 => Cardinality(Below(p, g, n)) = 0
         /\ n # 0 => Cardinality(Below(p, g, n)) =
              Cardinality(Below(p, g, n - 1)) + (IF fdt[p][n - 1] = g THEN 1 ELSE 0)
<1>0. NFD \in Nat /\ NFD - 1 \in Int /\ n \in Nat
  BY FilesAssumption
<1>1. IsFiniteSet(FD)
  BY <1>0, FS_Interval DEF FD
<1>2. \A m \in Int : IsFiniteSet(Below(p, g, m)) /\ Cardinality(Below(p, g, m)) \in Nat
  <2> SUFFICES ASSUME NEW m \in Int PROVE IsFiniteSet(Below(p, g, m)) /\ Cardinality(Below(p, g, m)) \in Nat
    OBVIOUS
  <2>1. Below(p, g, m) \in SUBSET FD
    BY DEF Below
  <2> QED BY <1>1, <2>1, FS_Subset, FS_CardinalityType
<1>3. Cardinality(Below(p, g, n)) <= Cardinality(Below(p, g, NFD))
  <2>1. Below(p, g, n) \in SUBSET Below(p, g, NFD)
    BY <1>0 DEF Below, FD
  <2> QED BY <1>0, <1>2, <2>1, FS_Subset
<1>4. CASE n = 0
  <2>1. Below(p, g, n) = {}
    BY <1>4 DEF Below, FD
  <2> QED BY <1>0, <1>2, <1>3, <1>4, <2>1, FS_EmptySet
<1>5. CASE n # 0
  <2>1. n - 1 \in FD /\ n - 1 \in Int
    BY <1>0, <1>5 DEF FD
  <2>2. n - 1 \notin Below(p, g, n - 1)
    BY <2>1 DEF Below
  <2>3. \A d \in FD : d < n <=> d < n - 1 \/ d = n - 1
    BY <1>0 DEF FD
  <2>4. CASE fdt[p][n - 1] = g
    <3>1. Below(p, g, n) = Below(p, g, n - 1) \cup {n - 1}
      BY <2>1, <2>3, <2>4 DEF Below
    <3>2. Cardinality(Below(p, g, n)) = Cardinality(Below(p, g, n - 1)) + 1
      BY <1>2, <2>1, <2>2, <3>1, FS_AddElement
    <3> QED BY <1>0, <1>2, <1>3, <1>5, <2>4, <3>2
  <2>5. CASE fdt[p][n - 1] # g
    <3>1. Below(p, g, n) = Below(p, g, n - 1)
      BY <2>1, <2>3, <2>5 DEF Below
    <3> QED BY <1>0, <1>2, <1>3, <1>5, <2>1, <2>5, <3>1
  <2> QED BY <2>4, <2>5
<1> QED BY <1>4, <1>5

\* What do_exit's loop leaves of the table: each entry has one less for every
\* descriptor of the caller that referred to it.
LEMMA DropAllEffect ==
  ASSUME NEW p, openft \in [Slot -> fdte_t \cup {NULL}], fdt[p] \in [FD -> Slot \cup {-1}],
         \A d \in FD : fdt[p][d] # -1 =>
           openft[fdt[p][d]] # NULL /\ openft[fdt[p][d]].type # "UNSET",
         \A g \in Slot : openft[g] # NULL /\ openft[g].type \notin {"UART", "UNSET"} =>
           /\ Cardinality(Below(p, g, NFD)) <= openft[g].open_count
           /\ openft[g].type = "PIPE" => Cardinality(Below(p, g, NFD)) < openft[g].open_count
  PROVE  drop_all(p) = [g \in Slot |-> Less(openft[g], Cardinality(Below(p, g, NFD)))]
<1> DEFINE n(g, d) == Cardinality(Below(p, g, d))
           tab(d)  == [g \in Slot |-> Less(openft[g], n(g, d))]
           f       == [d \in 0..NFD |-> tab(d)]
<1>0. NFD \in Nat /\ 0 \in 0..NFD /\ NFD \in 0..NFD
  BY FilesAssumption
<1>1. ASSUME NEW d \in 0..NFD
      PROVE  tab(d) = IF d = 0 THEN openft
                      ELSE IF fdt[p][d - 1] = -1 THEN tab(d - 1)
                      ELSE drop(tab(d - 1), fdt[p][d - 1])
  <2>1. CASE d = 0
    <3>1. \A g \in Slot : n(g, d) = 0
      BY <1>0, <2>1, BelowCount
    <3>2. \A g \in Slot : Less(openft[g], n(g, d)) = openft[g]
      BY <3>1 DEF Less
    <3> QED BY <2>1, <3>2
  <2>2. CASE d # 0
    <3>0. d - 1 \in FD /\ d - 1 \in 0..NFD
      BY <1>0, <2>2 DEF FD
    <3> DEFINE h == fdt[p][d - 1]
    <3>1. \A g \in Slot : n(g, d - 1) \in Nat /\ n(g, d) = n(g, d - 1) + (IF h = g THEN 1 ELSE 0)
      BY <2>2, <3>0, BelowCount
    <3>2. CASE h = -1
      <4>1. \A g \in Slot : g # -1
        BY DEF Slot
      <4>2. \A g \in Slot : n(g, d) = n(g, d - 1)
        BY <3>1, <3>2, <4>1
      <4>3. tab(d) = tab(d - 1)
        BY <4>2
      <4> QED BY <2>2, <3>2, <4>3
    <3>3. CASE h # -1
      <4> DEFINE e == openft[h]
                 m == n(h, d - 1)
      <4>1. /\ h \in Slot /\ e # NULL /\ e \in fdte_t /\ e.type # "UNSET" /\ e.open_count \in Int
            /\ m \in Nat /\ n(h, d) = m + 1 /\ n(h, d) <= n(h, NFD) /\ n(h, NFD) \in Nat
        BY <1>0, <3>0, <3>1, <3>3, BelowCount DEF fdte_t
      <4>2. /\ e.type # "UART" => e.open_count > m
            /\ e.type = "PIPE" => e.open_count > m + 1
        <5>1. e.type # "UART" => n(h, NFD) <= e.open_count /\ (e.type = "PIPE" => n(h, NFD) < e.open_count)
          BY <4>1
        <5> HIDE DEF n, m, e, h
        <5> QED BY <4>1, <5>1
      <4>3. /\ Less(e, m) \in fdte_t /\ Less(e, m).type = e.type /\ Less(e, m) # NULL
            /\ e.type # "UART" => Less(e, m).open_count = e.open_count - m
            /\ Less(Less(e, m), 1) = Less(e, m + 1)
        <5> HIDE DEF n, m, e, h
        <5> QED BY <4>1, <4>2, LessOnce, FilesAssumption
      <4>4. tab(d - 1) \in [Slot -> fdte_t \cup {NULL}] /\ tab(d - 1)[h] = Less(e, m)
        <5>1. \A g \in Slot : Less(openft[g], n(g, d - 1)) \in fdte_t \cup {NULL}
          <6> HIDE DEF n
          <6> QED BY <3>1, LessType
        <5> QED BY <4>1, <5>1
      <4>5. /\ Less(e, m).type # "UART" => Less(e, m).open_count > 0
            /\ Less(e, m).type = "PIPE" => Less(e, m).open_count > 1
        <5> HIDE DEF n, m, e, h
        <5> QED BY <4>1, <4>2, <4>3
      <4>6. drop(tab(d - 1), h) =
              [g \in Slot |-> IF g = h THEN Less(Less(e, m), 1) ELSE tab(d - 1)[g]]
        <5> HIDE DEF tab, n, m, e, h
        <5> QED BY <4>1, <4>3, <4>4, <4>5, DropEffect
      <4>7. \A g \in Slot : g # h => tab(d - 1)[g] = tab(d)[g]
        <5>1. \A g \in Slot : g # h => n(g, d) = n(g, d - 1)
          BY <3>1
        <5> HIDE DEF n
        <5> QED BY <5>1
      <4>8. tab(d)[h] = Less(e, m + 1)
        BY <4>1
      <4>9. drop(tab(d - 1), h) = tab(d)
        BY <4>3, <4>6, <4>7, <4>8
      <4> QED BY <2>2, <3>3, <4>9
    <3> QED BY <3>2, <3>3
  <2> QED BY <2>1, <2>2
<1>2. f = [d \in 0..NFD |-> IF d = 0 THEN openft
                            ELSE IF fdt[p][d - 1] = -1 THEN f[d - 1]
                            ELSE drop(f[d - 1], fdt[p][d - 1])]
  <2> HIDE DEF tab
  <2>1. \A d \in 0..NFD : d # 0 => d - 1 \in 0..NFD
    BY <1>0
  <2> QED BY <1>1, <2>1
<1>3. drop_all(p) = f[NFD]
  <2> HIDE DEF f
  <2> QED BY <1>0, <1>2, DropAllLoop
<1> QED BY <1>0, <1>3

-----------------------------------------------------------------------------
(* References *)

\* The references to a slot are finite in number, now and after a step.
LEMMA RefsFinite ==
  ASSUME NEW g
  PROVE  /\ pcballoc \subseteq PID => IsFiniteSet(Refs(g)) /\ Cardinality(Refs(g)) \in Nat
         /\ pcballoc' \subseteq PID => IsFiniteSet(Refs(g)') /\ Cardinality(Refs(g)') \in Nat
<1>1. IsFiniteSet(PID \X FD)
  <2>1. IsFiniteSet(PID) /\ IsFiniteSet(FD)
    BY ProcessAssumption, FilesAssumption, FS_Interval DEF PID, FD
  <2> QED BY <2>1, FS_Product
<1>2. pcballoc \subseteq PID => Refs(g) \in SUBSET (PID \X FD)
  BY DEF Refs
<1>3. pcballoc' \subseteq PID => Refs(g)' \in SUBSET (PID \X FD)
  BY DEF Refs
<1> QED BY <1>1, <1>2, <1>3, FS_Subset, FS_CardinalityType

\* Nobody refers to a free slot, or to one that was never set up.
LEMMA NoRefs ==
  ASSUME FilesInv, NEW g \in Slot, openft[g] = NULL \/ openft[g].type = "UNSET"
  PROVE  Refs(g) = {}
<1> SUFFICES ASSUME NEW r \in Refs(g) PROVE FALSE
  OBVIOUS
<1>1. r[1] \in pcballoc /\ r[2] \in FD /\ fdt[r[1]][r[2]] = g /\ g # -1
  BY DEF Refs, Slot
<1> QED BY <1>1 DEF FilesInv, Descriptors

\* The caller exists, and the tables have their types.
LEMMA FilesCaller ==
  ASSUME FilesInv, ~halted
  PROVE  /\ current \in pcballoc /\ current \in PID /\ pcballoc \subseteq PID
         /\ fdt \in [PID -> [FD -> Slot \cup {-1}]]
         /\ openft \in [Slot -> fdte_t \cup {NULL}]
         /\ lost \in [Slot -> Nat] /\ pipes \subseteq Pipes
BY DEF FilesInv, OrderlyInv, RunsOne, TypeOK, FilesTypeOK

\* One descriptor, d of c, is given another value.
LEMMA RefsSet ==
  ASSUME NEW c \in pcballoc, NEW d \in FD, NEW v, pcballoc' = pcballoc,
         \A p \in pcballoc, e \in FD : fdt'[p][e] = IF p = c /\ e = d THEN v ELSE fdt[p][e],
         NEW g
  PROVE  /\ v = g => Refs(g)' = Refs(g) \cup {<<c, d>>}
         /\ v # g => Refs(g)' = Refs(g) \ {<<c, d>>}
<1>1. Refs(g)' = {r \in pcballoc \X FD : fdt'[r[1]][r[2]] = g}
  BY DEF Refs
<1>2. \A r \in pcballoc \X FD : r = <<c, d>> <=> r[1] = c /\ r[2] = d
  OBVIOUS
<1>3. \A r \in pcballoc \X FD : fdt'[r[1]][r[2]] = IF r = <<c, d>> THEN v ELSE fdt[r[1]][r[2]]
  BY <1>2
<1>4. <<c, d>> \in pcballoc \X FD
  OBVIOUS
<1> QED BY <1>1, <1>3, <1>4 DEF Refs

\* A step that changes neither the tables nor the processes.
LEMMA FilesStay ==
  ASSUME FilesInv, OrderlyInv', UNCHANGED <<pcballoc, fdt, openft, pipes, lost>>
  PROVE  FilesInv'
<1>1. FilesTypeOK' /\ Descriptors' /\ AllLive' /\ NullClean' /\ Linked'
  BY DEF FilesInv, FilesTypeOK, Descriptors, AllLive, NullClean, Linked
<1>2. RefCounts'
  BY DEF FilesInv, RefCounts, Refs
<1> QED BY <1>1, <1>2 DEF FilesInv

\* A call on descriptors is nothing to the scheduler.
LEMMA FrameStep ==
  ASSUME OrderlyInv, FilesFrame
  PROVE  OrderlyInv' /\ pcballoc' = pcballoc /\ lost' = lost /\ ~halted /\ current' = current
BY DEF OrderlyInv, FilesFrame, TypeOK, RunsOne, OthersCanRun, PidIsIndex, StackOwnership

-----------------------------------------------------------------------------
(* Opening *)

\* The entries do_open and do_pipe make.
LEMMA EntryTypes ==
  /\ Unset \in fdte_t /\ Unset # NULL /\ Unset.type = "UNSET" /\ Unset.live
  /\ File \in fdte_t /\ File # NULL /\ File.type = "FILE" /\ File.live /\ File.open_count = 1
  /\ Uart \in fdte_t /\ Uart # NULL /\ Uart.type = "UART" /\ Uart.live
  /\ \A k \in Pipes, g \in Slot :
       /\ End(k, g) \in fdte_t /\ End(k, g) # NULL /\ End(k, g).type = "PIPE" /\ End(k, g).live
       /\ End(k, g).open_count = 1 /\ End(k, g).cursor = g /\ End(k, g).id = k
<1>1. Unset \in fdte_t /\ File \in fdte_t /\ Uart \in fdte_t
  BY DEF Unset, File, Uart, fdte_t
<1>2. \A k \in Pipes, g \in Slot : End(k, g) \in fdte_t
  BY DEF End, fdte_t
<1>3. Unset.type = "UNSET" /\ Unset.live
  BY DEF Unset
<1>4. File.type = "FILE" /\ File.live /\ File.open_count = 1
  BY DEF File
<1>5. Uart.type = "UART" /\ Uart.live
  BY DEF Uart
<1>6. \A k, g : /\ End(k, g).type = "PIPE" /\ End(k, g).live
               /\ End(k, g).open_count = 1 /\ End(k, g).cursor = g /\ End(k, g).id = k
  BY DEF End
<1> QED BY <1>1, <1>2, <1>3, <1>4, <1>5, <1>6, FilesAssumption

\* A refused open leaves an entry that no descriptor refers to.
LEMMA OpenRefusedStep ==
  ASSUME FilesInv, OpenRefused
  PROVE  FilesInv'
<1>0. OrderlyInv' /\ pcballoc' = pcballoc /\ lost' = lost /\ fdt' = fdt /\ pipes' = pipes /\ ~halted
  BY FrameStep DEF FilesInv, OpenRefused
<1>1. PICK g \in Slot : openft[g] = NULL /\ openft' = [openft EXCEPT ![g] = Unset]
  BY DEF OpenRefused, FirstFree, FreeSlots
<1>2. openft \in [Slot -> fdte_t \cup {NULL}]
  BY DEF FilesInv, FilesTypeOK
<1>3. Unset \in fdte_t /\ Unset # NULL /\ Unset.type = "UNSET" /\ Unset.live
  BY EntryTypes
<1>4. openft'[g] = Unset /\ \A h \in Slot \ {g} : openft'[h] = openft[h]
  BY <1>1, <1>2
<1>5. FilesTypeOK'
  BY <1>0, <1>1, <1>2, <1>3 DEF FilesInv, FilesTypeOK
<1>6. \A p \in pcballoc, d \in FD : fdt[p][d] # -1 => fdt[p][d] \in Slot \ {g}
  BY <1>1 DEF FilesInv, Descriptors, OrderlyInv, TypeOK, FilesTypeOK
<1>7. Descriptors'
  BY <1>0, <1>4, <1>6 DEF FilesInv, Descriptors
<1>8. AllLive' /\ NullClean'
  BY <1>0, <1>3, <1>4 DEF FilesInv, AllLive, NullClean
<1>9. RefCounts'
  <2>1. \A h : Refs(h)' = Refs(h)
    BY <1>0 DEF Refs
  <2> QED BY <1>0, <1>3, <1>4, <2>1 DEF FilesInv, RefCounts, Counted
<1>10. Linked'
  BY <1>0, <1>1, <1>3, <1>4 DEF FilesInv, Linked
<1> QED BY <1>0, <1>5, <1>7, <1>8, <1>9, <1>10 DEF FilesInv

\* The entries of the other slots and the references to them are the same.
LEMMA OtherSlots ==
  ASSUME FilesInv, NEW New \in SUBSET Slot, lost' = lost,
         \A g \in Slot \ New : openft'[g] = openft[g] /\ Refs(g)' = Refs(g)
  PROVE  \A g \in Slot \ New : Counted(openft'[g]) /\ openft'[g].type # "UNSET" =>
           /\ openft'[g].open_count = Cardinality(Refs(g)') + lost'[g]
           /\ openft'[g].open_count > 0
BY DEF FilesInv, RefCounts

\* An open takes a free slot, whose one descriptor is the caller's.
LEMMA OpenStep ==
  ASSUME FilesInv, OpenOk
  PROVE  FilesInv'
<1>0. OrderlyInv' /\ pcballoc' = pcballoc /\ lost' = lost /\ pipes' = pipes /\ ~halted
  BY FrameStep DEF FilesInv, OpenOk
<1>1. PICK d \in FD, g \in Slot :
        /\ fdt[current][d] = -1 /\ openft[g] = NULL
        /\ openft' = [openft EXCEPT ![g] = File]
        /\ fdt' = [fdt EXCEPT ![current][d] = g]
  BY DEF OpenOk, FirstFree, FreeSlots, FreeFds
<1>2. /\ current \in pcballoc /\ current \in PID /\ pcballoc \subseteq PID
      /\ fdt \in [PID -> [FD -> Slot \cup {-1}]]
      /\ openft \in [Slot -> fdte_t \cup {NULL}] /\ lost \in [Slot -> Nat] /\ pipes \subseteq Pipes
  BY <1>0, FilesCaller
<1> PICK c \in pcballoc : c = current
  BY <1>2
<1>3. /\ fdt' \in [PID -> [FD -> Slot \cup {-1}]]
      /\ \A p \in pcballoc, e \in FD : fdt'[p][e] = IF p = c /\ e = d THEN g ELSE fdt[p][e]
  BY <1>1, <1>2
<1>4. openft'[g] = File /\ \A h \in Slot \ {g} : openft'[h] = openft[h]
  BY <1>1, <1>2
<1>5. FilesTypeOK'
  BY <1>0, <1>1, <1>2, <1>3, EntryTypes DEF FilesTypeOK
<1>6. \A p \in pcballoc, e \in FD : fdt[p][e] # -1 => fdt[p][e] \in Slot \ {g}
  BY <1>1, <1>2 DEF FilesInv, Descriptors
<1>7. Descriptors'
  <2> SUFFICES ASSUME NEW p \in pcballoc, NEW e \in FD, fdt'[p][e] # -1
               PROVE  openft'[fdt'[p][e]] # NULL /\ openft'[fdt'[p][e]].type # "UNSET"
    BY <1>0 DEF Descriptors
  <2>1. CASE p = c /\ e = d
    BY <1>3, <1>4, <2>1, EntryTypes
  <2>2. CASE ~(p = c /\ e = d)
    BY <1>3, <1>4, <1>6, <2>2 DEF FilesInv, Descriptors
  <2> QED BY <2>1, <2>2
<1>8. AllLive' /\ NullClean'
  BY <1>0, <1>4, EntryTypes DEF FilesInv, AllLive, NullClean
<1>9. RefCounts'
  <2>1. Refs(g) = {} /\ lost[g] = 0
    BY <1>1, NoRefs DEF FilesInv, NullClean
  <2>2. Refs(g)' = {<<c, d>>}
    BY <1>0, <1>3, <2>1, RefsSet
  <2>3. Cardinality(Refs(g)') + lost'[g] = 1
    <3>1. Cardinality({<<c, d>>}) = 1
      BY FS_Singleton
    <3> QED BY <1>0, <2>1, <2>2, <3>1
  <2>4. ASSUME NEW h \in Slot \ {g} PROVE Refs(h)' = Refs(h)
    <3>1. Refs(h)' = Refs(h) \ {<<c, d>>}
      BY <1>0, <1>3, RefsSet
    <3>2. <<c, d>> \notin Refs(h)
      BY <1>1 DEF Refs, Slot
    <3> QED BY <3>1, <3>2
  <2>5. \A h \in Slot \ {g} : Counted(openft'[h]) /\ openft'[h].type # "UNSET" =>
           /\ openft'[h].open_count = Cardinality(Refs(h)') + lost'[h]
           /\ openft'[h].open_count > 0
    BY <1>0, <1>4, <2>4, OtherSlots
  <2>6. openft'[g].open_count = Cardinality(Refs(g)') + lost'[g] /\ openft'[g].open_count > 0
    BY <1>4, <2>3, EntryTypes
  <2> QED BY <2>5, <2>6 DEF RefCounts
<1>10. Linked'
  BY <1>0, <1>1, <1>4, EntryTypes DEF FilesInv, Linked
<1> QED BY <1>0, <1>5, <1>7, <1>8, <1>9, <1>10 DEF FilesInv

\* A pipe takes two free slots; each has one descriptor of the caller, and the
\* two name each other.
LEMMA PipeStep ==
  ASSUME FilesInv, PipeOk
  PROVE  FilesInv'
<1>0. OrderlyInv' /\ pcballoc' = pcballoc /\ lost' = lost /\ ~halted
  BY FrameStep DEF FilesInv, PipeOk
<1> PICK r, w \in FD, rg, wg \in Slot, k \in Pipes :
       /\ FirstFree(r, 0, FreeFds) /\ FirstFree(w, r + 1, FreeFds)
       /\ FirstFree(k, 0, FreePipes)
       /\ FirstFree(rg, 0, FreeSlots) /\ FirstFree(wg, rg + 1, FreeSlots)
       /\ pipes' = pipes \cup {k}
       /\ openft' = link(openft, k, rg, wg)
       /\ fdt' = [fdt EXCEPT ![current] = [@ EXCEPT ![r] = rg, ![w] = wg]]
  BY DEF PipeOk
<1>1. /\ fdt[current][r] = -1 /\ fdt[current][w] = -1 /\ w >= r + 1
      /\ openft[rg] = NULL /\ openft[wg] = NULL /\ wg >= rg + 1
      /\ pipes' = pipes \cup {k}
      /\ openft' = [openft EXCEPT ![rg] = End(k, wg), ![wg] = End(k, rg)]
      /\ fdt' = [fdt EXCEPT ![current] = [@ EXCEPT ![r] = rg, ![w] = wg]]
  BY DEF FirstFree, FreeSlots, FreeFds, link
<1>2. /\ current \in pcballoc /\ current \in PID /\ pcballoc \subseteq PID
      /\ fdt \in [PID -> [FD -> Slot \cup {-1}]]
      /\ openft \in [Slot -> fdte_t \cup {NULL}] /\ lost \in [Slot -> Nat] /\ pipes \subseteq Pipes
  BY <1>0, FilesCaller
<1> PICK c \in pcballoc : c = current
  BY <1>2
<1>3. r # w /\ rg # wg /\ rg # -1 /\ wg # -1
  BY <1>1 DEF FD, Slot
<1>4. /\ fdt' \in [PID -> [FD -> Slot \cup {-1}]]
      /\ \A p \in pcballoc, e \in FD :
           fdt'[p][e] = IF p = c /\ e = r THEN rg ELSE IF p = c /\ e = w THEN wg ELSE fdt[p][e]
  <2>1. fdt' = [fdt EXCEPT ![c] = [fdt[c] EXCEPT ![r] = rg, ![w] = wg]]
    BY <1>1
  <2> QED BY <1>2, <1>3, <2>1
<1>5. /\ openft'[rg] = End(k, wg) /\ openft'[wg] = End(k, rg)
      /\ \A h \in Slot \ {rg, wg} : openft'[h] = openft[h]
  BY <1>1, <1>2, <1>3
<1>6. FilesTypeOK'
  <2>1. End(k, wg) \in fdte_t /\ End(k, rg) \in fdte_t
    BY EntryTypes
  <2>2. openft' \in [Slot -> fdte_t \cup {NULL}]
    BY <1>1, <1>2, <2>1
  <2> QED BY <1>0, <1>1, <1>2, <1>4, <2>2 DEF FilesTypeOK
<1>7. \A p \in pcballoc, e \in FD : fdt[p][e] # -1 => fdt[p][e] \in Slot \ {rg, wg}
  BY <1>1, <1>2 DEF FilesInv, Descriptors
<1>8. Descriptors'
  <2> SUFFICES ASSUME NEW p \in pcballoc, NEW e \in FD, fdt'[p][e] # -1
               PROVE  openft'[fdt'[p][e]] # NULL /\ openft'[fdt'[p][e]].type # "UNSET"
    BY <1>0 DEF Descriptors
  <2>1. CASE p = c /\ e = r
    BY <1>4, <1>5, <2>1, EntryTypes
  <2>2. CASE p = c /\ e = w
    BY <1>3, <1>4, <1>5, <2>2, EntryTypes
  <2>3. CASE ~(p = c /\ e = r) /\ ~(p = c /\ e = w)
    BY <1>4, <1>5, <1>7, <2>3 DEF FilesInv, Descriptors
  <2> QED BY <2>1, <2>2, <2>3
<1>9. AllLive' /\ NullClean'
  BY <1>0, <1>5, EntryTypes DEF FilesInv, AllLive, NullClean
<1>10. RefCounts'
  <2>1. Refs(rg) = {} /\ Refs(wg) = {} /\ lost[rg] = 0 /\ lost[wg] = 0
    BY <1>1, NoRefs DEF FilesInv, NullClean
  <2>2. \A q \in pcballoc \X FD : (q = <<c, r>> <=> q[1] = c /\ q[2] = r) /\ (q = <<c, w>> <=> q[1] = c /\ q[2] = w)
    OBVIOUS
  <2>3. \A q \in pcballoc \X FD :
          fdt'[q[1]][q[2]] = IF q = <<c, r>> THEN rg ELSE IF q = <<c, w>> THEN wg ELSE fdt[q[1]][q[2]]
    BY <1>4, <2>2
  <2>4. \A g : Refs(g)' = {q \in pcballoc \X FD : fdt'[q[1]][q[2]] = g}
    BY <1>0 DEF Refs
  <2>5. <<c, r>> \in pcballoc \X FD /\ <<c, w>> \in pcballoc \X FD /\ <<c, r>> # <<c, w>>
    BY <1>3
  <2>6. Refs(rg)' = {<<c, r>>} /\ Refs(wg)' = {<<c, w>>}
    <3>1. \A q \in pcballoc \X FD : fdt[q[1]][q[2]] # rg /\ fdt[q[1]][q[2]] # wg
      BY <2>1 DEF Refs
    <3>2. \A q \in pcballoc \X FD : /\ fdt'[q[1]][q[2]] = rg <=> q = <<c, r>>
                                    /\ fdt'[q[1]][q[2]] = wg <=> q = <<c, w>>
      BY <1>3, <2>3, <2>5, <3>1
    <3>3. Refs(rg)' = {<<c, r>>}
      BY <2>4, <2>5, <3>2
    <3>4. Refs(wg)' = {<<c, w>>}
      BY <2>4, <2>5, <3>2
    <3> QED BY <3>3, <3>4
  <2>7. Cardinality(Refs(rg)') = 1 /\ Cardinality(Refs(wg)') = 1
    BY <2>6, FS_Singleton
  <2>8. ASSUME NEW h \in Slot \ {rg, wg} PROVE Refs(h)' = Refs(h)
    <3>1. fdt[c][r] # h /\ fdt[c][w] # h
      BY <1>1 DEF Slot
    <3> QED BY <2>3, <2>4, <3>1 DEF Refs
  <2>9. \A h \in Slot \ {rg, wg} : Counted(openft'[h]) /\ openft'[h].type # "UNSET" =>
           /\ openft'[h].open_count = Cardinality(Refs(h)') + lost'[h]
           /\ openft'[h].open_count > 0
    BY <1>0, <1>5, <2>8, OtherSlots
  <2>10. /\ openft'[rg].open_count = Cardinality(Refs(rg)') + lost'[rg] /\ openft'[rg].open_count > 0
         /\ openft'[wg].open_count = Cardinality(Refs(wg)') + lost'[wg] /\ openft'[wg].open_count > 0
    BY <1>0, <1>5, <2>1, <2>7, EntryTypes
  <2> QED BY <2>9, <2>10 DEF RefCounts
<1>11. Linked'
  <2> SUFFICES ASSUME NEW g \in Slot, openft'[g] # NULL, openft'[g].type = "PIPE"
               PROVE  LET other == openft'[g].cursor
                      IN  /\ other \in Slot /\ other # g /\ openft'[other] # NULL
                          /\ openft'[other].type = "PIPE"
                          /\ openft'[other].cursor = g /\ openft'[other].id = openft'[g].id
                          /\ openft'[g].id \in pipes'
    BY DEF Linked
  <2>0. /\ openft'[rg].cursor = wg /\ openft'[wg].cursor = rg /\ openft'[rg].id = k /\ openft'[wg].id = k
        /\ openft'[rg].type = "PIPE" /\ openft'[wg].type = "PIPE"
        /\ openft'[rg] # NULL /\ openft'[wg] # NULL
    BY <1>5, EntryTypes
  <2>1. CASE g = rg
    BY <1>1, <1>3, <2>0, <2>1
  <2>2. CASE g = wg
    <3>1. openft'[g].cursor = rg /\ openft'[g].id = k /\ k \in pipes' /\ rg # g
      BY <1>1, <1>3, <2>0, <2>2
    <3>2. openft'[rg].cursor = g
      BY <2>0, <2>2
    <3> QED BY <2>0, <3>1, <3>2
  <2>3. CASE g \notin {rg, wg}
    <3> DEFINE o == openft[g].cursor
    <3>1. openft'[g] = openft[g]
      BY <1>5, <2>3
    <3>2. /\ o \in Slot /\ o # g /\ openft[o] # NULL /\ openft[o].type = "PIPE"
          /\ openft[o].cursor = g /\ openft[o].id = openft[g].id /\ openft[g].id \in pipes
      BY <3>1 DEF FilesInv, Linked
    <3>3. o \notin {rg, wg}
      BY <1>1, <3>2
    <3>4. openft'[o] = openft[o] /\ pipes \subseteq pipes'
      BY <1>1, <1>5, <3>2, <3>3
    <3> QED BY <3>1, <3>2, <3>4
  <2> QED BY <2>1, <2>2, <2>3
<1> QED BY <1>0, <1>6, <1>8, <1>9, <1>10, <1>11 DEF FilesInv

-----------------------------------------------------------------------------
(* Moving, closing and sharing *)

\* Entries keep their places and nothing about the pipes changes.
LEMMA LinkedStep ==
  ASSUME FilesInv, pipes' = pipes,
         \A g \in Slot : openft'[g] # NULL => openft[g] # NULL /\ openft'[g].type = openft[g].type,
         \A g \in Slot : openft[g] # NULL /\ openft[g].type = "PIPE" =>
           /\ openft'[g] # NULL /\ openft'[g].type = "PIPE"
           /\ openft'[g].cursor = openft[g].cursor /\ openft'[g].id = openft[g].id
  PROVE  Linked'
<1> SUFFICES ASSUME NEW g \in Slot, openft'[g] # NULL, openft'[g].type = "PIPE"
             PROVE  LET other == openft'[g].cursor
                    IN  /\ other \in Slot /\ other # g /\ openft'[other] # NULL
                        /\ openft'[other].type = "PIPE"
                        /\ openft'[other].cursor = g /\ openft'[other].id = openft'[g].id
                        /\ openft'[g].id \in pipes'
  BY DEF Linked
<1> DEFINE o == openft[g].cursor
<1>1. openft[g] # NULL /\ openft[g].type = "PIPE" /\ openft'[g].cursor = o /\ openft'[g].id = openft[g].id
  OBVIOUS
<1>2. /\ o \in Slot /\ o # g /\ openft[o] # NULL /\ openft[o].type = "PIPE"
      /\ openft[o].cursor = g /\ openft[o].id = openft[g].id /\ openft[g].id \in pipes
  BY <1>1 DEF FilesInv, Linked
<1>3. /\ openft'[o] # NULL /\ openft'[o].type = "PIPE"
      /\ openft'[o].cursor = g /\ openft'[o].id = openft[g].id
  BY <1>2
<1> QED BY <1>1, <1>2, <1>3

\* fd_swap exchanges two references and makes or loses none.
LEMMA FdSwapStep ==
  ASSUME FilesInv, NEW a \in FD, NEW b \in FD, a # b, FdSwap(a, b)
  PROVE  FilesInv'
<1>0. /\ OrderlyInv' /\ pcballoc' = pcballoc /\ lost' = lost /\ ~halted
      /\ openft' = openft /\ pipes' = pipes
  BY FrameStep DEF FilesInv, FdSwap
<1>2. /\ current \in pcballoc /\ current \in PID /\ pcballoc \subseteq PID
      /\ fdt \in [PID -> [FD -> Slot \cup {-1}]]
      /\ openft \in [Slot -> fdte_t \cup {NULL}] /\ lost \in [Slot -> Nat] /\ pipes \subseteq Pipes
  BY <1>0, FilesCaller
<1> PICK c \in pcballoc : c = current
  BY <1>2
<1>3. /\ fdt' \in [PID -> [FD -> Slot \cup {-1}]]
      /\ \A p \in pcballoc, e \in FD :
           fdt'[p][e] = IF p = c /\ e = a THEN fdt[c][b]
                        ELSE IF p = c /\ e = b THEN fdt[c][a] ELSE fdt[p][e]
  <2>1. fdt' = [fdt EXCEPT ![c] = [fdt[c] EXCEPT ![a] = fdt[c][b], ![b] = fdt[c][a]]]
    BY DEF FdSwap
  <2> QED BY <1>2, <2>1
<1>4. FilesTypeOK' /\ AllLive' /\ NullClean'
  BY <1>0, <1>3 DEF FilesInv, FilesTypeOK, AllLive, NullClean
<1>5. Linked'
  BY <1>0 DEF FilesInv, Linked
<1>6. Descriptors'
  BY <1>0, <1>3 DEF FilesInv, Descriptors
<1>7. ASSUME NEW g \in Slot PROVE Cardinality(Refs(g)') = Cardinality(Refs(g))
  <2> DEFINE ra == <<c, a>>
             rb == <<c, b>>
             R  == Refs(g)
             R1 == Refs(g)'
  <2>1. \A q \in pcballoc \X FD : (q = ra <=> q[1] = c /\ q[2] = a) /\ (q = rb <=> q[1] = c /\ q[2] = b)
    OBVIOUS
  <2>2. ra \in pcballoc \X FD /\ rb \in pcballoc \X FD /\ ra # rb
    OBVIOUS
  <2>3. /\ R \subseteq pcballoc \X FD /\ R1 \subseteq pcballoc \X FD
        /\ \A q \in pcballoc \X FD : q \in R <=> fdt[q[1]][q[2]] = g
        /\ \A q \in pcballoc \X FD : q \in R1 <=> fdt'[q[1]][q[2]] = g
    BY <1>0 DEF Refs
  <2>4. /\ ra \in R1 <=> rb \in R
        /\ rb \in R1 <=> ra \in R
        /\ \A q \in pcballoc \X FD : q # ra /\ q # rb => (q \in R1 <=> q \in R)
    BY <1>3, <2>1, <2>2, <2>3
  <2>5. IsFiniteSet(R) /\ IsFiniteSet(R1) /\ Cardinality(R) \in Nat /\ Cardinality(R1) \in Nat
    BY <1>0, <1>2, RefsFinite
  <2> HIDE DEF R, R1, ra, rb
  <2>6. CASE ra \in R <=> rb \in R
    <3>1. R1 = R
      BY <2>2, <2>3, <2>4, <2>6
    <3> QED BY <3>1 DEF R, R1
  <2>7. CASE ra \in R /\ rb \notin R
    <3>1. R1 = (R \ {ra}) \cup {rb}
      BY <2>2, <2>3, <2>4, <2>7
    <3>2. IsFiniteSet(R \ {ra}) /\ Cardinality(R \ {ra}) = Cardinality(R) - 1
      BY <2>5, <2>7, FS_RemoveElement
    <3>3. Cardinality(R1) = Cardinality(R \ {ra}) + 1
      BY <2>7, <3>1, <3>2, FS_AddElement
    <3> QED BY <2>5, <3>2, <3>3 DEF R, R1
  <2>8. CASE ra \notin R /\ rb \in R
    <3>1. R1 = (R \ {rb}) \cup {ra}
      BY <2>2, <2>3, <2>4, <2>8
    <3>2. IsFiniteSet(R \ {rb}) /\ Cardinality(R \ {rb}) = Cardinality(R) - 1
      BY <2>5, <2>8, FS_RemoveElement
    <3>3. Cardinality(R1) = Cardinality(R \ {rb}) + 1
      BY <2>8, <3>1, <3>2, FS_AddElement
    <3> QED BY <2>5, <3>2, <3>3 DEF R, R1
  <2> QED BY <2>6, <2>7, <2>8
<1>8. RefCounts'
  BY <1>0, <1>7 DEF FilesInv, RefCounts, Counted
<1> QED BY <1>0, <1>4, <1>5, <1>6, <1>8 DEF FilesInv

\* N[g] references to each slot g are given up, and never the last one to an
\* end of a pipe.
LEMMA CloseMany ==
  ASSUME FilesInv, OrderlyInv', NEW N \in [Slot -> Nat], lost' = lost, pipes' = pipes,
         fdt' \in [PID -> [FD -> Slot \cup {-1}]],
         openft' = [g \in Slot |-> Less(openft[g], N[g])],
         \A g \in Slot : Cardinality(Refs(g)) = Cardinality(Refs(g)') + N[g],
         \A g \in Slot : openft[g] # NULL /\ openft[g].type = "PIPE" /\ N[g] # 0 => Refs(g)' # {}
  PROVE  FilesInv'
<1>0. /\ pcballoc \subseteq PID /\ pcballoc' \subseteq PID
      /\ openft \in [Slot -> fdte_t \cup {NULL}] /\ lost \in [Slot -> Nat] /\ pipes \subseteq Pipes
  BY DEF FilesInv, FilesTypeOK, OrderlyInv, TypeOK
<1>1. \A g \in Slot : /\ IsFiniteSet(Refs(g)') /\ Cardinality(Refs(g)') \in Nat
                      /\ Cardinality(Refs(g)') = 0 <=> Refs(g)' = {}
  BY <1>0, RefsFinite, FS_EmptySet
<1>2. FilesTypeOK'
  BY <1>0, LessType DEF FilesTypeOK
<1>3. ASSUME NEW g \in Slot, openft[g] = NULL \/ openft[g].type = "UNSET"
      PROVE  Refs(g)' = {} /\ openft'[g] = openft[g]
  <2>1. Cardinality(Refs(g)) = 0
    BY <1>3, NoRefs, FS_EmptySet
  <2>2. Cardinality(Refs(g)') = 0 /\ N[g] = 0
    BY <1>1, <2>1
  <2> QED BY <1>1, <2>2 DEF Less
<1>4. ASSUME NEW g \in Slot, openft[g] # NULL, openft[g].type = "UART"
      PROVE  openft'[g] = openft[g]
  BY <1>4 DEF Less
<1>5. ASSUME NEW g \in Slot, openft[g] # NULL, openft[g].type \notin {"UART", "UNSET"}
      PROVE  \/ /\ openft'[g] = NULL /\ lost[g] = 0 /\ Refs(g)' = {} /\ openft[g].type # "PIPE"
             \/ /\ openft'[g] # NULL /\ openft'[g].type = openft[g].type
                /\ openft'[g].cursor = openft[g].cursor /\ openft'[g].id = openft[g].id
                /\ openft'[g].live = openft[g].live
                /\ openft'[g].open_count = Cardinality(Refs(g)') + lost[g]
                /\ openft'[g].open_count > 0
  <2> DEFINE e == openft[g]
  <2>1. /\ e \in fdte_t /\ e.open_count \in Int /\ e.open_count > 0
        /\ e.open_count = Cardinality(Refs(g)') + N[g] + lost[g]
        /\ lost[g] \in Nat /\ N[g] \in Nat /\ Cardinality(Refs(g)') \in Nat
    BY <1>0, <1>1, <1>5 DEF FilesInv, RefCounts, Counted, fdte_t
  <2>2. openft'[g] = Less(e, N[g])
    OBVIOUS
  <2>3. CASE e.open_count = N[g]
    <3>1. openft'[g] = NULL
      BY <1>5, <2>1, <2>2, <2>3 DEF Less
    <3>2. lost[g] = 0 /\ Cardinality(Refs(g)') = 0 /\ N[g] # 0
      <4>1. \A x \in Int, k, m, l \in Nat : x > 0 /\ x = k + m + l /\ x = m => l = 0 /\ k = 0 /\ m # 0
        OBVIOUS
      <4> HIDE DEF e
      <4> QED BY <2>1, <2>3, <4>1
    <3> QED BY <1>1, <1>5, <3>1, <3>2
  <2>4. CASE e.open_count # N[g]
    <3>1. e.open_count > N[g]
      <4>1. \A x \in Int, k, m, l \in Nat : x = k + m + l /\ x # m => x > m
        OBVIOUS
      <4> QED BY <2>1, <2>4, <4>1
    <3>2. /\ Less(e, N[g]) \in fdte_t
          /\ Less(e, N[g]).type = e.type /\ Less(e, N[g]).cursor = e.cursor
          /\ Less(e, N[g]).id = e.id /\ Less(e, N[g]).live = e.live
          /\ Less(e, N[g]).open_count = e.open_count - N[g]
      BY <1>5, <2>1, <3>1, LessOnce
    <3>3. e.open_count - N[g] = Cardinality(Refs(g)') + lost[g] /\ e.open_count - N[g] > 0
      BY <2>1, <3>1
    <3> QED BY <2>2, <3>2, <3>3, FilesAssumption
  <2> QED BY <2>3, <2>4
<1>6. AllLive'
  BY <1>3, <1>4, <1>5 DEF FilesInv, AllLive
<1>7. NullClean'
  BY <1>3, <1>4, <1>5 DEF FilesInv, NullClean
<1>8. RefCounts'
  <2> SUFFICES ASSUME NEW g \in Slot, openft'[g] # NULL, openft'[g].type \notin {"UART", "UNSET"}
               PROVE  openft'[g].open_count = Cardinality(Refs(g)') + lost'[g] /\ openft'[g].open_count > 0
    BY DEF RefCounts, Counted
  <2> QED BY <1>3, <1>4, <1>5
<1>9. Linked'
  <2>1. \A g \in Slot : openft'[g] # NULL => openft[g] # NULL /\ openft'[g].type = openft[g].type
    BY <1>3, <1>4, <1>5
  <2>2. \A g \in Slot : openft[g] # NULL /\ openft[g].type = "PIPE" =>
           /\ openft'[g] # NULL /\ openft'[g].type = "PIPE"
           /\ openft'[g].cursor = openft[g].cursor /\ openft'[g].id = openft[g].id
    BY <1>5
  <2> QED BY <2>1, <2>2, LinkedStep
<1>10. Descriptors'
  <2> SUFFICES ASSUME NEW p \in pcballoc', NEW d \in FD, fdt'[p][d] # -1
               PROVE  openft'[fdt'[p][d]] # NULL /\ openft'[fdt'[p][d]].type # "UNSET"
    BY DEF Descriptors
  <2> PICK g \in Slot : g = fdt'[p][d]
    BY <1>0
  <2>1. <<p, d>> \in Refs(g)'
    BY DEF Refs
  <2> QED BY <1>3, <1>4, <1>5, <2>1
<1> QED BY <1>2, <1>6, <1>7, <1>8, <1>9, <1>10 DEF FilesInv

\* A reference that another process keeps.
LEMMA KeptElsewhere ==
  ASSUME NEW c, NEW g \in Slot, openft[g].type = "PIPE", MayDrop(c, g)
  PROVE  \E q \in pcballoc \ {c}, e \in FD : fdt[q][e] = g
BY DEF MayDrop, LastHolder, Slot

\* close gives up one reference.
LEMMA CloseStep ==
  ASSUME FilesInv, NEW d \in FD, MayDrop(current, fdt[current][d]), Close(d)
  PROVE  FilesInv'
<1>0. /\ OrderlyInv' /\ pcballoc' = pcballoc /\ lost' = lost /\ ~halted /\ pipes' = pipes
  BY FrameStep DEF FilesInv, Close
<1>2. /\ current \in pcballoc /\ current \in PID /\ pcballoc \subseteq PID
      /\ fdt \in [PID -> [FD -> Slot \cup {-1}]]
      /\ openft \in [Slot -> fdte_t \cup {NULL}] /\ lost \in [Slot -> Nat] /\ pipes \subseteq Pipes
  BY <1>0, FilesCaller
<1> PICK c \in pcballoc : c = current
  BY <1>2
<1> PICK g \in Slot : g = fdt[c][d]
  BY <1>2 DEF Close
<1>3. /\ fdt' \in [PID -> [FD -> Slot \cup {-1}]]
      /\ \A p \in pcballoc, e \in FD : fdt'[p][e] = IF p = c /\ e = d THEN -1 ELSE fdt[p][e]
  <2>1. fdt' = [fdt EXCEPT ![c][d] = -1]
    BY DEF Close
  <2> QED BY <1>2, <2>1
<1>4. \A h \in Slot : Refs(h)' = Refs(h) \ {<<c, d>>}
  <2>1. pcballoc' = pcballoc
    BY <1>0
  <2>2. \A p \in pcballoc, e \in FD : fdt'[p][e] = IF p = c /\ e = d THEN -1 ELSE fdt[p][e]
    BY <1>3
  <2>3. ASSUME NEW h \in Slot PROVE Refs(h)' = Refs(h) \ {<<c, d>>}
    <3>1. -1 # h
      BY DEF Slot
    <3>2. -1 # h => Refs(h)' = Refs(h) \ {<<c, d>>}
      BY <2>1, <2>2, RefsSet
    <3> QED BY <3>1, <3>2
  <2> QED BY <2>3
<1> DEFINE N == [h \in Slot |-> IF h = g THEN 1 ELSE 0]
<1>5. \A h \in Slot : /\ IsFiniteSet(Refs(h)) /\ Cardinality(Refs(h)) \in Nat
                      /\ IsFiniteSet(Refs(h)') /\ Cardinality(Refs(h)') \in Nat
  BY <1>0, <1>2, RefsFinite
<1>6. ASSUME NEW h \in Slot PROVE Cardinality(Refs(h)) = Cardinality(Refs(h)') + N[h]
  <2>1. CASE h = g
    <3>1. <<c, d>> \in Refs(h)
      BY <2>1 DEF Refs
    <3>2. Cardinality(Refs(h) \ {<<c, d>>}) = Cardinality(Refs(h)) - 1
      BY <1>5, <3>1, FS_RemoveElement
    <3>3. Cardinality(Refs(h)') = Cardinality(Refs(h)) - 1
      BY <1>4, <3>2
    <3> QED BY <1>5, <2>1, <3>3
  <2>2. CASE h # g
    <3>1. <<c, d>> \notin Refs(h)
      BY <2>2 DEF Refs
    <3>2. Refs(h)' = Refs(h)
      BY <1>4, <3>1
    <3> QED BY <1>5, <2>2, <3>2
  <2> QED BY <2>1, <2>2
<1>7. ASSUME openft[g].type = "PIPE" PROVE Refs(g)' # {}
  <2>1. PICK q \in pcballoc \ {c}, e \in FD : fdt[q][e] = g
    BY <1>7, KeptElsewhere
  <2>2. <<q, e>> \in Refs(g) /\ <<q, e>> # <<c, d>>
    BY <2>1 DEF Refs
  <2> QED BY <1>4, <2>2
<1>8. openft' = [h \in Slot |-> Less(openft[h], N[h])]
  <2> DEFINE e == openft[g]
  <2>1. e # NULL /\ e.type # "UNSET" /\ e \in fdte_t /\ e.open_count \in Int
    <3>1. fdt[c][d] # -1
      BY DEF Slot
    <3>2. e # NULL /\ e.type # "UNSET"
      BY <3>1 DEF FilesInv, Descriptors
    <3>3. e \in fdte_t
      BY <1>2, <3>2
    <3> QED BY <3>2, <3>3 DEF fdte_t
  <2>2. e.type # "UART" => e.open_count = Cardinality(Refs(g)') + 1 + lost[g]
    <3>1. N[g] = 1
      OBVIOUS
    <3> QED BY <1>6, <2>1, <3>1 DEF FilesInv, RefCounts, Counted
  <2>3. Cardinality(Refs(g)') = 0 => Refs(g)' = {}
    BY <1>5, FS_EmptySet
  <2>4. /\ e.type # "UART" => e.open_count > 0
        /\ e.type = "PIPE" => e.open_count > 1
    BY <1>2, <1>5, <1>7, <2>1, <2>2, <2>3
  <2>5. drop(openft, g) = [h \in Slot |-> IF h = g THEN Less(openft[g], 1) ELSE openft[h]]
    BY <1>2, <2>1, <2>4, DropEffect
  <2>6. openft' = drop(openft, g)
    BY DEF Close
  <2>7. \A h \in Slot : Less(openft[h], N[h]) = IF h = g THEN Less(openft[g], 1) ELSE openft[h]
    BY DEF Less
  <2> QED BY <2>5, <2>6, <2>7
<1>9. N \in [Slot -> Nat] /\ \A h \in Slot : N[h] # 0 => h = g
  OBVIOUS
<1> HIDE DEF N
<1> QED BY <1>0, <1>3, <1>6, <1>7, <1>8, <1>9, CloseMany

\* The references of one process c, through the descriptors in B, and the
\* references T of the others.
LEMMA PlusOwn ==
  ASSUME NEW T, IsFiniteSet(T), NEW B, IsFiniteSet(B), NEW c, NEW R,
         R = T \cup ({c} \X B), T \cap ({c} \X B) = {}
  PROVE  /\ Cardinality(R) = Cardinality(T) + Cardinality(B)
         /\ Cardinality(T) \in Nat /\ Cardinality(B) \in Nat
<1> DEFINE P == {c} \X B
<1>1. Cardinality(T) \in Nat /\ Cardinality(B) \in Nat
  BY FS_CardinalityType
<1>2. IsFiniteSet({c}) /\ Cardinality({c}) = 1
  BY FS_Singleton
<1>3. IsFiniteSet(P) /\ Cardinality(P) = 1 * Cardinality(B)
  BY <1>2, FS_Product
<1>4. Cardinality(T \cap P) = 0
  BY FS_EmptySet
<1>5. Cardinality(T \cup P) = Cardinality(T) + Cardinality(P) - Cardinality(T \cap P)
  <2> HIDE DEF P
  <2> QED BY <1>3, FS_Union
<1>6. R = T \cup P
  OBVIOUS
<1>7. Cardinality(R) = Cardinality(T) + Cardinality(P) - Cardinality(T \cap P)
  BY <1>5, <1>6
<1>8. \A t, b \in Nat : t + (1 * b) - 0 = t + b
  OBVIOUS
<1> HIDE DEF P
<1> QED BY <1>1, <1>3, <1>4, <1>7, <1>8

\* Those descriptors are the ones a copy of the table shares and an exit drops.
LEMMA OwnRefs ==
  ASSUME NEW c, NEW g
  PROVE  /\ Below(c, g, NFD) = {d \in FD : fdt[c][d] = g}
         /\ IsFiniteSet(Below(c, g, NFD)) /\ Cardinality(Below(c, g, NFD)) \in Nat
<1>1. NFD \in 0..NFD /\ \A d \in FD : d < NFD
  BY FilesAssumption DEF FD
<1>2. Below(c, g, NFD) = {d \in FD : fdt[c][d] = g}
  BY <1>1 DEF Below
<1>3. IsFiniteSet(Below(c, g, NFD)) /\ Cardinality(Below(c, g, NFD)) \in Nat
  BY <1>1, BelowCount
<1> QED BY <1>2, <1>3

\* exit gives up every reference the caller had.
LEMMA FilesExitStep ==
  ASSUME FilesInv, \A d \in FD : MayDrop(current, fdt[current][d]), FilesExit
  PROVE  FilesInv'
<1>0. /\ OrderlyInv' /\ pcballoc' = pcballoc \ {current} /\ ~halted /\ lost' = lost /\ pipes' = pipes
  BY ExitStep, OrderlyStep DEF FilesInv, FilesExit, OrderlyNext
<1>2. /\ current \in pcballoc /\ current \in PID /\ pcballoc \subseteq PID
      /\ fdt \in [PID -> [FD -> Slot \cup {-1}]]
      /\ openft \in [Slot -> fdte_t \cup {NULL}] /\ lost \in [Slot -> Nat] /\ pipes \subseteq Pipes
  BY <1>0, FilesCaller
<1> PICK c \in pcballoc : c = current
  BY <1>2
<1>3. /\ fdt' \in [PID -> [FD -> Slot \cup {-1}]] /\ pcballoc' = pcballoc \ {c}
      /\ \A p \in pcballoc' : fdt'[p] = fdt[p]
  <2>1. fdt' = [fdt EXCEPT ![c] = [d \in FD |-> -1]]
    BY DEF FilesExit
  <2> QED BY <1>0, <1>2, <2>1
<1> DEFINE B(h) == Below(c, h, NFD)
           N    == [h \in Slot |-> Cardinality(B(h))]
<1>4. \A h \in Slot : IsFiniteSet(B(h)) /\ Cardinality(B(h)) \in Nat
  BY OwnRefs
<1>5. \A h \in Slot : /\ IsFiniteSet(Refs(h)) /\ Cardinality(Refs(h)) \in Nat
                      /\ IsFiniteSet(Refs(h)') /\ Cardinality(Refs(h)') \in Nat
  BY <1>0, <1>2, RefsFinite
<1>6. ASSUME NEW h \in Slot PROVE Cardinality(Refs(h)) = Cardinality(Refs(h)') + N[h]
  <2>1. Refs(h) = Refs(h)' \cup ({c} \X B(h)) /\ Refs(h)' \cap ({c} \X B(h)) = {}
    <3>1. B(h) = {d \in FD : fdt[c][d] = h}
      BY OwnRefs
    <3>2. Refs(h)' = {r \in (pcballoc \ {c}) \X FD : fdt[r[1]][r[2]] = h}
      BY <1>3 DEF Refs
    <3>3. Refs(h)' \cap ({c} \X B(h)) = {}
      BY <3>2
    <3>4. {c} \X B(h) \subseteq Refs(h) /\ Refs(h)' \subseteq Refs(h)
      BY <3>1, <3>2 DEF Refs
    <3>5. ASSUME NEW r \in Refs(h), r \notin Refs(h)' PROVE r \in {c} \X B(h)
      <4>1. r = <<r[1], r[2]>> /\ r[1] \in pcballoc /\ r[2] \in FD /\ fdt[r[1]][r[2]] = h
        BY DEF Refs
      <4>2. r[1] = c
        BY <3>2, <3>5, <4>1
      <4>3. r[2] \in B(h)
        BY <3>1, <4>1, <4>2
      <4> HIDE DEF B
      <4> QED BY <4>1, <4>2, <4>3
    <3> QED BY <3>3, <3>4, <3>5
  <2>2. Cardinality(Refs(h)) = Cardinality(Refs(h)') + Cardinality(B(h))
    <3> HIDE DEF B
    <3> QED BY <1>4, <1>5, <2>1, PlusOwn
  <2> QED BY <2>2
<1>7. ASSUME NEW h \in Slot, openft[h] # NULL, openft[h].type = "PIPE", N[h] # 0
      PROVE  Refs(h)' # {}
  <2>1. B(h) # {}
    BY <1>7, FS_EmptySet
  <2>2. PICK d \in FD : fdt[c][d] = h
    BY <2>1 DEF Below
  <2>3. MayDrop(c, h)
    BY <2>2
  <2>4. PICK q \in pcballoc \ {c}, e \in FD : fdt[q][e] = h
    BY <1>7, <2>3, KeptElsewhere
  <2>5. <<q, e>> \in Refs(h)'
    BY <1>3, <2>4 DEF Refs
  <2> QED BY <2>5
<1>8. openft' = [h \in Slot |-> Less(openft[h], N[h])]
  <2>1. ASSUME NEW h \in Slot, openft[h] # NULL, openft[h].type \notin {"UART", "UNSET"}
        PROVE  /\ N[h] <= openft[h].open_count
               /\ openft[h].type = "PIPE" => N[h] < openft[h].open_count
    <3>1. /\ openft[h].open_count = Cardinality(Refs(h)) + lost[h]
          /\ openft[h].open_count > 0
      BY <2>1 DEF FilesInv, RefCounts, Counted
    <3>2. Cardinality(Refs(h)') = 0 => Refs(h)' = {}
      BY <1>5, FS_EmptySet
    <3>3. openft[h].type = "PIPE" => N[h] = 0 \/ Cardinality(Refs(h)') # 0
      BY <1>7, <2>1, <3>2
    <3>4. \A x, a, b, l, m \in Nat : x = a + l /\ x > 0 /\ a = b + m =>
            m <= x /\ (m = 0 \/ b # 0 => m < x)
      OBVIOUS
    <3>5. openft[h].open_count \in Nat /\ lost[h] \in Nat /\ N[h] \in Nat
      <4>1. openft[h].open_count \in Int
        BY <1>2, <2>1 DEF fdte_t
      <4> QED BY <1>2, <1>4, <3>1, <4>1
    <3> HIDE DEF N
    <3> QED BY <1>5, <1>6, <3>1, <3>3, <3>4, <3>5
  <2>2. openft' = drop_all(c)
    BY DEF FilesExit
  <2>3. fdt[c] \in [FD -> Slot \cup {-1}]
    BY <1>2
  <2>4. \A d \in FD : fdt[c][d] # -1 =>
           openft[fdt[c][d]] # NULL /\ openft[fdt[c][d]].type # "UNSET"
    BY DEF FilesInv, Descriptors
  <2>5. \A g \in Slot : openft[g] # NULL /\ openft[g].type \notin {"UART", "UNSET"} =>
           /\ Cardinality(Below(c, g, NFD)) <= openft[g].open_count
           /\ openft[g].type = "PIPE" => Cardinality(Below(c, g, NFD)) < openft[g].open_count
    BY <2>1
  <2>6. drop_all(c) = [g \in Slot |-> Less(openft[g], Cardinality(Below(c, g, NFD)))]
    BY <1>2, <2>3, <2>4, <2>5, DropAllEffect
  <2> QED BY <2>2, <2>6
<1>9. N \in [Slot -> Nat]
  BY <1>4
<1> HIDE DEF N
<1> QED BY <1>0, <1>3, <1>6, <1>7, <1>8, <1>9, CloseMany

\* Entries of the table after a step that only adds to their counts.
LEMMA CountMore ==
  ASSUME FilesInv, OrderlyInv', NEW N \in [Slot -> Nat],
         fdt' \in [PID -> [FD -> Slot \cup {-1}]], pipes' = pipes, lost' = lost,
         \A p \in pcballoc', d \in FD : \E q \in pcballoc : fdt'[p][d] = fdt[q][d],
         openft' = [g \in Slot |-> IF Counted(openft[g])
                                   THEN [openft[g] EXCEPT !.open_count = @ + N[g]]
                                   ELSE openft[g]],
         \A g \in Slot : Cardinality(Refs(g)') = Cardinality(Refs(g)) + N[g]
  PROVE  FilesInv'
<1>0. /\ pcballoc \subseteq PID /\ openft \in [Slot -> fdte_t \cup {NULL}]
      /\ fdt \in [PID -> [FD -> Slot \cup {-1}]]
      /\ lost \in [Slot -> Nat] /\ pipes \subseteq Pipes
  BY DEF FilesInv, FilesTypeOK, OrderlyInv, TypeOK
<1>1. ASSUME NEW g \in Slot, openft[g] = NULL
      PROVE  openft'[g] = NULL
  BY <1>1 DEF Counted
<1>2. ASSUME NEW g \in Slot, openft[g] # NULL
      PROVE  /\ openft'[g] \in fdte_t /\ openft'[g] # NULL
             /\ openft'[g].type = openft[g].type /\ openft'[g].cursor = openft[g].cursor
             /\ openft'[g].id = openft[g].id /\ openft'[g].live = openft[g].live
             /\ openft[g].type # "UART" => openft'[g].open_count = openft[g].open_count + N[g]
  <2>1. openft[g] \in fdte_t /\ openft[g].open_count \in Int
    BY <1>0, <1>2 DEF fdte_t
  <2>2. CASE openft[g].type = "UART"
    BY <1>2, <2>1, <2>2 DEF Counted
  <2>3. CASE openft[g].type # "UART"
    <3>1. openft'[g] = [openft[g] EXCEPT !.open_count = openft[g].open_count + N[g]]
      BY <1>2, <2>3 DEF Counted
    <3> DEFINE e == openft[g]
    <3>2. PICK n \in Int : n = e.open_count + N[g]
      BY <2>1
    <3> DEFINE x == [e EXCEPT !.open_count = n]
    <3>3. /\ x \in fdte_t /\ x.type = e.type /\ x.cursor = e.cursor
          /\ x.id = e.id /\ x.live = e.live /\ x.open_count = n
      BY <2>1 DEF fdte_t
    <3>4. openft'[g] = x
      BY <3>1, <3>2
    <3>5. NULL \notin fdte_t
      BY FilesAssumption
    <3> HIDE DEF x
    <3> QED BY <3>2, <3>3, <3>4, <3>5
  <2> QED BY <2>2, <2>3
<1>3. FilesTypeOK'
  <2>1. openft' \in [Slot -> fdte_t \cup {NULL}]
    <3>1. \A g \in Slot : openft'[g] \in fdte_t \cup {NULL}
      BY <1>1, <1>2
    <3> QED BY <3>1
  <2> QED BY <1>0, <2>1 DEF FilesTypeOK
<1>4. AllLive' /\ NullClean'
  BY <1>1, <1>2 DEF FilesInv, AllLive, NullClean
<1>5. Linked'
  BY <1>1, <1>2, LinkedStep
<1>6. Descriptors'
  <2> SUFFICES ASSUME NEW p \in pcballoc', NEW d \in FD, fdt'[p][d] # -1
               PROVE  openft'[fdt'[p][d]] # NULL /\ openft'[fdt'[p][d]].type # "UNSET"
    BY DEF Descriptors
  <2>1. PICK q \in pcballoc : fdt'[p][d] = fdt[q][d]
    OBVIOUS
  <2>2. fdt[q][d] \in Slot /\ openft[fdt[q][d]] # NULL /\ openft[fdt[q][d]].type # "UNSET"
    BY <1>0, <2>1 DEF FilesInv, Descriptors
  <2> QED BY <1>2, <2>1, <2>2
<1>7. RefCounts'
  <2> SUFFICES ASSUME NEW g \in Slot, openft'[g] # NULL, openft'[g].type \notin {"UART", "UNSET"}
               PROVE  openft'[g].open_count = Cardinality(Refs(g)') + lost'[g] /\ openft'[g].open_count > 0
    BY DEF RefCounts, Counted
  <2>1. openft[g] # NULL /\ openft[g].type \notin {"UART", "UNSET"}
    BY <1>1, <1>2
  <2>2. openft[g].open_count = Cardinality(Refs(g)) + lost[g] /\ openft[g].open_count > 0
    BY <2>1 DEF FilesInv, RefCounts, Counted
  <2>3. /\ Cardinality(Refs(g)) \in Nat /\ lost[g] \in Nat /\ N[g] \in Nat
        /\ openft'[g].open_count = openft[g].open_count + N[g]
    BY <1>0, <1>2, <2>1, RefsFinite
  <2>4. \A x, a, l, n \in Nat : x = a + l /\ x > 0 => x + n = (a + n) + l /\ x + n > 0
    OBVIOUS
  <2>5. openft[g].open_count \in Nat
    BY <2>2, <2>3
  <2> QED BY <2>2, <2>3, <2>4, <2>5
<1> QED BY <1>3, <1>4, <1>5, <1>6, <1>7 DEF FilesInv

\* The references to slot g of all processes but c, and those of c.
LEMMA RefsSplit ==
  ASSUME NEW A, NEW c, NEW f, NEW g
  PROVE  LET T == {r \in (A \ {c}) \X FD : f[r[1]][r[2]] = g}
             P == {c} \X {d \in FD : f[c][d] = g}
         IN  /\ {r \in (A \cup {c}) \X FD : f[r[1]][r[2]] = g} = T \cup P
             /\ T \cap P = {}
<1> DEFINE B == {d \in FD : f[c][d] = g}
           T == {r \in (A \ {c}) \X FD : f[r[1]][r[2]] = g}
           R == {r \in (A \cup {c}) \X FD : f[r[1]][r[2]] = g}
<1>1. T \cap ({c} \X B) = {}
  OBVIOUS
<1>2. T \subseteq R /\ {c} \X B \subseteq R
  OBVIOUS
<1>3. ASSUME NEW r \in R, r \notin T PROVE r \in {c} \X B
  <2>1. r = <<r[1], r[2]>> /\ r[1] \in A \cup {c} /\ r[2] \in FD /\ f[r[1]][r[2]] = g
    OBVIOUS
  <2>2. r[1] = c
    BY <1>3, <2>1
  <2>3. r[2] \in B
    BY <2>1, <2>2
  <2> HIDE DEF B
  <2> QED BY <2>1, <2>2, <2>3
<1> QED BY <1>1, <1>2, <1>3

\* fork makes one more reference for every descriptor of the caller.
LEMMA FilesForkStep ==
  ASSUME FilesInv, NEW c \in PID, NEW s \in Stacks, FilesForkOk(c, s)
  PROVE  FilesInv'
<1>0. /\ OrderlyInv' /\ pcballoc' = pcballoc \cup {c} /\ c \notin pcballoc
      /\ ~halted /\ lost' = lost /\ pipes' = pipes
  <2>1. OrderlyInv'
    BY OrderlyStep DEF FilesInv, FilesForkOk, OrderlyNext, Fork
  <2> QED BY <2>1 DEF FilesForkOk, ForkOk, new_pcb_entry, copy_pcb
<1>2. /\ current \in pcballoc /\ current \in PID /\ pcballoc \subseteq PID
      /\ fdt \in [PID -> [FD -> Slot \cup {-1}]]
      /\ openft \in [Slot -> fdte_t \cup {NULL}] /\ lost \in [Slot -> Nat] /\ pipes \subseteq Pipes
  BY <1>0, FilesCaller
<1> PICK m \in pcballoc : m = current
  BY <1>2
<1>3. /\ fdt' \in [PID -> [FD -> Slot \cup {-1}]] /\ fdt'[c] = fdt[m]
      /\ \A p \in pcballoc : fdt'[p] = fdt[p]
  <2>1. fdt' = [fdt EXCEPT ![c] = fdt[m]]
    BY DEF FilesForkOk
  <2> QED BY <1>0, <1>2, <2>1
<1> DEFINE B(h) == {d \in FD : fdt[m][d] = h}
           N    == [h \in Slot |-> Cardinality(B(h))]
<1>4. \A h \in Slot : IsFiniteSet(B(h)) /\ Cardinality(B(h)) \in Nat
  <2>1. \A h \in Slot : B(h) = Below(m, h, NFD)
    BY OwnRefs
  <2>2. \A h \in Slot : IsFiniteSet(Below(m, h, NFD)) /\ Cardinality(Below(m, h, NFD)) \in Nat
    BY OwnRefs
  <2> HIDE DEF B
  <2> QED BY <2>1, <2>2
<1>5. ASSUME NEW h \in Slot PROVE Cardinality(Refs(h)') = Cardinality(Refs(h)) + N[h]
  <2>1. Refs(h)' = {r \in (pcballoc \cup {c}) \X FD : fdt'[r[1]][r[2]] = h}
    BY <1>0 DEF Refs
  <2>2. Refs(h) = {r \in (pcballoc \ {c}) \X FD : fdt'[r[1]][r[2]] = h}
    BY <1>0, <1>3 DEF Refs
  <2>3. B(h) = {d \in FD : fdt'[c][d] = h}
    BY <1>3
  <2>4. Refs(h)' = Refs(h) \cup ({c} \X B(h)) /\ Refs(h) \cap ({c} \X B(h)) = {}
    BY <2>1, <2>2, <2>3, RefsSplit
  <2>5. IsFiniteSet(Refs(h))
    BY <1>2, RefsFinite
  <2>6. Cardinality(Refs(h)') = Cardinality(Refs(h)) + Cardinality(B(h))
    <3> HIDE DEF B
    <3> QED BY <1>4, <2>4, <2>5, PlusOwn
  <2> QED BY <2>6
<1>6. openft' = [g \in Slot |-> IF Counted(openft[g])
                                THEN [openft[g] EXCEPT !.open_count = @ + N[g]]
                                ELSE openft[g]]
  BY DEF FilesForkOk, count_fork
<1>7. \A p \in pcballoc', d \in FD : \E q \in pcballoc : fdt'[p][d] = fdt[q][d]
  BY <1>0, <1>3
<1>8. N \in [Slot -> Nat]
  BY <1>4
<1> HIDE DEF N
<1> QED BY <1>0, <1>3, <1>5, <1>6, <1>7, <1>8, CountMore

\* kill leaves the references of the process in the counts; they are lost.
LEMMA FilesKillStep ==
  ASSUME FilesInv, NEW p \in PID \ {current}, FilesKill(p)
  PROVE  FilesInv'
<1>0. /\ OrderlyInv' /\ pcballoc' = pcballoc \ {p} /\ p \in pcballoc
      /\ fdt' = fdt /\ openft' = openft /\ pipes' = pipes
  <2>1. OrderlyInv'
    BY OrderlyStep DEF FilesInv, FilesKill, OrderlyNext
  <2> QED BY <2>1 DEF FilesKill, Kill, process_exists
<1>1. /\ pcballoc \subseteq PID /\ openft \in [Slot -> fdte_t \cup {NULL}]
      /\ fdt \in [PID -> [FD -> Slot \cup {-1}]]
      /\ lost \in [Slot -> Nat] /\ pipes \subseteq Pipes
  BY DEF FilesInv, FilesTypeOK, OrderlyInv, TypeOK
<1> DEFINE B(h) == {d \in FD : fdt[p][d] = h}
<1>2. \A h \in Slot : IsFiniteSet(B(h)) /\ Cardinality(B(h)) \in Nat
  <2>1. \A h \in Slot : B(h) = Below(p, h, NFD)
    BY OwnRefs
  <2>2. \A h \in Slot : IsFiniteSet(Below(p, h, NFD)) /\ Cardinality(Below(p, h, NFD)) \in Nat
    BY OwnRefs
  <2> HIDE DEF B
  <2> QED BY <2>1, <2>2
<1>3. /\ lost' \in [Slot -> Nat]
      /\ \A h \in Slot : lost'[h] = IF Counted(openft[h]) THEN lost[h] + Cardinality(B(h)) ELSE lost[h]
  <2>1. lost' = [h \in Slot |-> IF Counted(openft[h]) THEN lost[h] + Cardinality(B(h)) ELSE lost[h]]
    BY DEF FilesKill
  <2>2. \A h \in Slot : lost[h] + Cardinality(B(h)) \in Nat
    <3> HIDE DEF B
    <3> QED BY <1>1, <1>2
  <2> HIDE DEF B
  <2> QED BY <1>1, <2>1, <2>2
<1>4. FilesTypeOK' /\ AllLive'
  BY <1>0, <1>1, <1>3 DEF FilesInv, FilesTypeOK, AllLive
<1>5. Linked'
  BY <1>0, LinkedStep
<1>6. Descriptors'
  BY <1>0 DEF FilesInv, Descriptors
<1>7. NullClean'
  BY <1>0, <1>3 DEF FilesInv, NullClean, Counted
<1>8. ASSUME NEW h \in Slot
      PROVE  /\ Cardinality(Refs(h)) = Cardinality(Refs(h)') + Cardinality(B(h))
             /\ Cardinality(Refs(h)') \in Nat
  <2>1. Refs(h)' = {r \in (pcballoc \ {p}) \X FD : fdt[r[1]][r[2]] = h}
    BY <1>0 DEF Refs
  <2>2. Refs(h) = {r \in (pcballoc \cup {p}) \X FD : fdt[r[1]][r[2]] = h}
    <3>1. pcballoc \cup {p} = pcballoc
      BY <1>0
    <3> QED BY <3>1 DEF Refs
  <2>3. Refs(h) = Refs(h)' \cup ({p} \X B(h)) /\ Refs(h)' \cap ({p} \X B(h)) = {}
    BY <2>1, <2>2, RefsSplit
  <2>4. IsFiniteSet(Refs(h)')
    <3>1. pcballoc' \subseteq PID
      BY <1>0, <1>1
    <3> QED BY <3>1, RefsFinite
  <2> HIDE DEF B
  <2> QED BY <1>2, <2>3, <2>4, PlusOwn
<1>9. RefCounts'
  <2> SUFFICES ASSUME NEW g \in Slot, Counted(openft[g]), openft[g].type # "UNSET"
               PROVE  openft[g].open_count = Cardinality(Refs(g)') + lost'[g] /\ openft[g].open_count > 0
    BY <1>0 DEF RefCounts
  <2>1. openft[g].open_count = Cardinality(Refs(g)) + lost[g] /\ openft[g].open_count > 0
    BY DEF FilesInv, RefCounts
  <2>2. lost'[g] = lost[g] + Cardinality(B(g)) /\ lost[g] \in Nat
    BY <1>1, <1>3
  <2>3. \A r, l, n \in Nat : (r + n) + l = r + (l + n)
    OBVIOUS
  <2> HIDE DEF B
  <2> QED BY <1>2, <1>8, <2>1, <2>2, <2>3
<1> QED BY <1>0, <1>4, <1>5, <1>6, <1>7, <1>9 DEF FilesInv

-----------------------------------------------------------------------------
(* The invariant holds *)

\* At the start only the boot process exists, and its descriptors are the
\* standard streams.
LEMMA FilesStart == FilesInit => FilesInv
<1> SUFFICES ASSUME FilesInit PROVE FilesInv
  OBVIOUS
<1>1. OrderlyInv
  BY OrderlyInit DEF FilesInit
<1>2. pcballoc = {BOOT} /\ BOOT \in PID
  BY ProcessAssumption DEF FilesInit, Init, PID, BOOT
<1>3. \A d \in FD : d < NSTD => d \in Slot
  BY FilesAssumption DEF FD, Slot
<1>4. 0 \in Slot
  BY FilesAssumption DEF Slot
<1>5. FilesTypeOK
  <2>1. fdt \in [PID -> [FD -> Slot \cup {-1}]]
    BY <1>3, <1>4 DEF FilesInit
  <2>2. openft \in [Slot -> fdte_t \cup {NULL}]
    BY EntryTypes DEF FilesInit
  <2> QED BY <2>1, <2>2 DEF FilesInit, FilesTypeOK
<1>6. \A g \in Slot : openft[g] = IF g < NSTD THEN Uart ELSE NULL
  BY DEF FilesInit
<1>7. \A g \in Slot : openft[g] # NULL => openft[g].type = "UART" /\ openft[g].live
  BY <1>6, EntryTypes
<1>8. AllLive /\ NullClean
  BY <1>7 DEF FilesInit, AllLive, NullClean
<1>9. RefCounts /\ Linked
  BY <1>7 DEF RefCounts, Counted, Linked
<1>10. Descriptors
  <2> SUFFICES ASSUME NEW d \in FD, fdt[BOOT][d] # -1
               PROVE  openft[fdt[BOOT][d]] # NULL /\ openft[fdt[BOOT][d]].type # "UNSET"
    BY <1>2 DEF Descriptors
  <2>1. fdt[BOOT][d] = d /\ d < NSTD /\ d \in Slot
    BY <1>2, <1>3 DEF FilesInit
  <2> QED BY <1>6, <2>1, EntryTypes
<1> QED BY <1>1, <1>5, <1>8, <1>9, <1>10 DEF FilesInv

\* Every call keeps the invariant.
LEMMA FilesStep == FilesInv /\ [FilesNext]_allVars => FilesInv'
<1> SUFFICES ASSUME FilesInv, [FilesNext]_allVars PROVE FilesInv'
  OBVIOUS
<1>1. CASE (Tick \/ Yield \/ ForkFull) /\ UNCHANGED fileVars
  <2>1. OrderlyInv'
    BY <1>1, OrderlyStep DEF FilesInv, OrderlyNext, Fork
  <2>2. pcballoc' = pcballoc
    BY <1>1 DEF Tick, Yield, ForkFull
  <2> QED BY <1>1, <2>1, <2>2, FilesStay DEF fileVars
<1>2. CASE \E c \in PID, s \in Stacks : FilesForkOk(c, s)
  BY <1>2, FilesForkStep
<1>3. CASE PipeOk
  BY <1>3, PipeStep
<1>4. CASE PipeFull \/ OpenFull
  <2>1. FilesFrame /\ UNCHANGED fileVars
    BY <1>4 DEF PipeFull, OpenFull
  <2>2. OrderlyInv' /\ pcballoc' = pcballoc
    BY <2>1, FrameStep DEF FilesInv
  <2> QED BY <2>1, <2>2, FilesStay DEF fileVars
<1>5. CASE OpenOk
  BY <1>5, OpenStep
<1>6. CASE OpenRefused
  BY <1>6, OpenRefusedStep
<1>7. CASE \E a, b \in FD : a < b /\ FdSwap(a, b)
  <2>1. PICK a, b \in FD : a < b /\ FdSwap(a, b)
    BY <1>7
  <2>2. a # b
    BY <2>1 DEF FD
  <2> QED BY <2>1, <2>2, FdSwapStep
<1>8. CASE \E p \in PID \ {current} : FilesKill(p)
  BY <1>8, FilesKillStep
<1>9. CASE \E d \in FD : MayDrop(current, fdt[current][d]) /\ Close(d)
  BY <1>9, CloseStep
<1>10. CASE (\A d \in FD : MayDrop(current, fdt[current][d])) /\ FilesExit
  BY <1>10, FilesExitStep
<1>11. CASE UNCHANGED allVars
  <2>1. OrderlyInv'
    BY <1>11, OrderlyStep DEF FilesInv, allVars
  <2> QED BY <1>11, <2>1, FilesStay DEF allVars, procVars, fileVars
<1> QED BY <1>1, <1>2, <1>3, <1>4, <1>5, <1>6, <1>7, <1>8, <1>9, <1>10, <1>11
        DEF FilesNext, CommonCalls

\* Together.
LEMMA FilesInvariant == FilesSpec => []FilesInv
BY FilesStart, FilesStep, PTL DEF FilesSpec

-----------------------------------------------------------------------------
(* What it gives *)

\* The tables keep their types: no descriptor leaves openft, and no count of a
\* lost reference goes below zero (hilevel.c, do_open, do_pipe, do_close).
THEOREM FilesTypes == FilesSpec => []FilesTypeOK
<1>1. FilesInv => FilesTypeOK
  BY DEF FilesInv
<1> QED BY <1>1, FilesInvariant, PTL

\* Across open, pipe, fd_swap, fork, close, exit and kill an entry's count is
\* the number of descriptors that refer to it and of those killed processes
\* left (do_fork, do_close, do_exit, do_kill).
THEOREM CountsAreExact == FilesSpec => []RefCounts
<1>1. FilesInv => RefCounts
  BY DEF FilesInv
<1> QED BY <1>1, FilesInvariant, PTL

\* While somebody keeps each end of every pipe, no descriptor of an existing
\* process finds a freed or empty entry (do_close, do_exit).
THEOREM DescriptorsFindEntries == FilesSpec => []NoFreedEntry
<1>1. FilesInv => NoFreedEntry
  <2> SUFFICES ASSUME FilesInv, NEW p \in pcballoc, NEW d \in FD, fdt[p][d] # -1
               PROVE  openft[fdt[p][d]] # NULL /\ openft[fdt[p][d]].live
    BY DEF NoFreedEntry
  <2>1. fdt[p][d] \in Slot
    BY DEF FilesInv, FilesTypeOK, OrderlyInv, TypeOK
  <2> QED BY <2>1 DEF FilesInv, Descriptors, AllLive
<1> QED BY <1>1, FilesInvariant, PTL

\* The cursors do_pipe uses for links always name the other end (do_pipe).
THEOREM EndsStayLinked == FilesSpec => []EndsLinked
<1>1. FilesInv => EndsLinked
  BY DEF FilesInv, Linked, EndsLinked
<1> QED BY <1>1, FilesInvariant, PTL
=============================================================================
