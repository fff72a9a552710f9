------------------------------- MODULE Files -------------------------------
(***************************************************************************)
(* Descriptor tables (kernel/hilevel.c, do_pipe, do_open, do_close, SVC    *)
(* 0x0B to 0x0E and what fork, exit and kill do to them): a table of       *)
(* descriptors per process, pointing into one global table of open files,  *)
(* whose entries count the descriptors that refer to them.                 *)
(*                                                                         *)
(* An entry of openft is a heap object.  The code may free one and leave   *)
(* the pointer in place; live is FALSE then, and the other fields are what *)
(* a read of the freed memory would find at best.  malloc does not fail    *)
(* here.  What reads and writes transfer is the subject of Pipe.           *)
(***************************************************************************)
EXTENDS Process

CONSTANTS
  NFD,     \* descriptors of a process (32)
  NFT,     \* entries of openft (64)
  NPIPE,   \* entries of pipes (PCB_SIZE)
  NSTD,    \* standard streams (3)
  MaxLost, \* bound on the references killed processes leave behind
  NULL     \* the null pointer

FD    == 0..(NFD - 1)
Slot  == 0..(NFT - 1)
Pipes == 0..(NPIPE - 1)
fdte_t == [type : {"UART", "PIPE", "FILE", "UNSET"}, open_count : Int,
           id : Pipes \cup {-1}, cursor : Slot \cup {-1}, live : BOOLEAN]

ASSUME FilesAssumption ==
  /\ NFD \in Nat /\ NFT \in Nat \ {0} /\ NPIPE \in Nat /\ MaxLost \in Nat
  /\ NSTD \in 0..NFD /\ NSTD <= NFT
  /\ NULL \notin fdte_t

VARIABLES
  fdt,      \* pcb[i].fdt, -1 where unused
  openft,   \* the global table
  pipes,    \* the set of indexes whose pointer is not NULL
  lost      \* history: references to each slot that killed processes held

fileVars == <<fdt, openft, pipes, lost>>
allVars  == <<procVars, fileVars>>

-----------------------------------------------------------------------------
(* Tables *)

\* n is the first unused index from m on: descriptor, slot or pipe.
FirstFree(n, m, free) == n \in free /\ n >= m /\ \A k \in free : k >= m => n <= k

FreeFds   == {d \in FD : fdt[current][d] = -1}
FreeSlots == {g \in Slot : openft[g] = NULL}
FreePipes == Pipes \ pipes

Uart == [type |-> "UART", open_count |-> 0, id |-> -1, cursor |-> -1, live |-> TRUE]
File == [type |-> "FILE", open_count |-> 1, id |-> -1, cursor |-> -1, live |-> TRUE]
End(k, other) == [type |-> "PIPE", open_count |-> 1, id |-> k, cursor |-> other, live |-> TRUE]
Unset == [type |-> "UNSET", open_count |-> 0, id |-> -1, cursor |-> -1, live |-> TRUE]

\* init_fs never sets open_count of the streams; close ignores it there.
Counted(e) == e # NULL /\ e.type # "UART"

drop_Early(ft, g) ==
  IF ft[g].type = "FILE" THEN [ft EXCEPT ![g] = NULL]
  ELSE IF Counted(ft[g]) THEN [ft EXCEPT ![g].open_count = @ - 1] ELSE ft

\* do_close on the global table: one descriptor less refers to slot g.  The
\* last one to a file frees the entry; the last one to an end of a pipe frees
\* the other end's entry and clears no pointer.
drop(ft, g) ==
  LET e    == ft[g]
      less == [ft EXCEPT ![g].open_count = @ - 1]
  IN  CASE e.type = "UART" -> ft
        [] e.type = "PIPE" /\ e.open_count <= 1 -> [less EXCEPT ![e.cursor].live = FALSE]
        [] e.type = "FILE" /\ e.open_count <= 1 -> [ft EXCEPT ![g] = NULL]
        [] e.type # "UART" /\ (e.open_count > 1 \/ e.type = "UNSET") -> less

\* The loop of do_exit: every descriptor in use is closed, in order.
drop_all(p) ==
  LET closed[d \in 0..NFD] ==
        IF d = 0 THEN openft
        ELSE IF fdt[p][d - 1] = -1 THEN closed[d - 1]
        ELSE drop(closed[d - 1], fdt[p][d - 1])
  IN  closed[NFD]

-----------------------------------------------------------------------------
(* Calls *)

FilesInit ==
  /\ Init
  /\ fdt = [p \in PID |-> [d \in FD |-> IF p = BOOT /\ d < NSTD THEN d
                                        ELSE IF p = BOOT THEN -1 ELSE 0]]
  /\ openft = [g \in Slot |-> IF g < NSTD THEN Uart ELSE NULL]
  /\ pipes = {}
  /\ lost = [g \in Slot |-> 0]

\* What a call on descriptors leaves alone.
FilesFrame ==
  /\ ~halted
  /\ fork_ret' = NoResult
  /\ UNCHANGED <<pcballoc, pid, status, base_priority, stack, heap, current,
                 current_runtime, halted, lost>>

link_OneWay(ft, k, rg, wg) == [ft EXCEPT ![rg] = End(k, wg), ![wg] = End(k, wg)]

\* The two ends of pipe k go to slots rg and wg; each one's cursor, which a
\* pipe has no other use for, is the other's slot.
link(ft, k, rg, wg) == [ft EXCEPT ![rg] = End(k, wg), ![wg] = End(k, rg)]

\* SVC 0x0E: the two lowest descriptors and slots, the lowest pipe.
PipeOk ==
  /\ FilesFrame
  /\ \E r, w \in FD, rg, wg \in Slot, k \in Pipes :
       /\ FirstFree(r, 0, FreeFds) /\ FirstFree(w, r + 1, FreeFds)
       /\ FirstFree(k, 0, FreePipes)
       /\ FirstFree(rg, 0, FreeSlots) /\ FirstFree(wg, rg + 1, FreeSlots)
       /\ pipes' = pipes \cup {k}
       /\ openft' = link(openft, k, rg, wg)
       /\ fdt' = [fdt EXCEPT ![current] = [@ EXCEPT ![r] = rg, ![w] = wg]]

\* A table is full: nothing happens, and SVC 0x0E discards the result.
PipeFull ==
  /\ FilesFrame
  /\ Cardinality(FreeFds) < 2 \/ FreePipes = {} \/ Cardinality(FreeSlots) < 2
  /\ UNCHANGED fileVars

\* SVC 0x0B of a file that is there or can be made.
OpenOk ==
  /\ FilesFrame
  /\ \E d \in FD, g \in Slot :
       /\ FirstFree(d, 0, FreeFds) /\ FirstFree(g, 0, FreeSlots)
       /\ openft' = [openft EXCEPT ![g] = File]
       /\ fdt' = [fdt EXCEPT ![current][d] = g]
  /\ UNCHANGED pipes

\* SVC 0x0B when the file system refuses: the entry is already in the table.
OpenRefused ==
  /\ FilesFrame
  /\ FreeFds # {}
  /\ \E g \in Slot :
       /\ FirstFree(g, 0, FreeSlots)
       /\ openft' = [openft EXCEPT ![g] = Unset]
  /\ UNCHANGED <<fdt, pipes>>

OpenFull_Unchecked ==
  /\ FilesFrame
  /\ FreeSlots = {}
  /\ \E d \in FD : FirstFree(d, 0, FreeFds) /\ fdt' = [fdt EXCEPT ![current][d] = NFT]
  /\ UNCHANGED <<openft, pipes>>

\* SVC 0x0B with a full table.
OpenFull ==
  /\ FilesFrame
  /\ FreeFds = {} \/ FreeSlots = {}
  /\ UNCHANGED fileVars

\* SVC 0x0C on a descriptor in use.  On another it is a no-op.
Close(d) ==
  /\ FilesFrame
  /\ fdt[current][d] # -1
  /\ openft' = drop(openft, fdt[current][d])
  /\ fdt' = [fdt EXCEPT ![current][d] = -1]
  /\ UNCHANGED pipes

\* SVC 0x0D.
FdSwap(a, b) ==
  /\ FilesFrame
  /\ fdt' = [fdt EXCEPT ![current] = [@ EXCEPT ![a] = fdt[current][b], ![b] = fdt[current][a]]]
  /\ UNCHANGED <<openft, pipes>>

count_fork_Skips(ft) == ft

\* do_fork: every descriptor of the caller now refers to its entry twice.
count_fork(ft) ==
  [g \in Slot |->
     IF Counted(ft[g])
     THEN [ft[g] EXCEPT !.open_count = @ + Cardinality({d \in FD : fdt[current][d] = g})]
     ELSE ft[g]]

FilesForkOk(c, s) ==
  /\ ForkOk(c, s)
  /\ fdt' = [fdt EXCEPT ![c] = fdt[current]]
  /\ openft' = count_fork(openft)
  /\ UNCHANGED <<pipes, lost>>

\* SVC 4: do_exit closes what the caller has open.
FilesExit ==
  /\ Exit
  /\ openft' = drop_all(current)
  /\ fdt' = [fdt EXCEPT ![current] = [d \in FD |-> -1]]
  /\ UNCHANGED <<pipes, lost>>

\* SVC 6 does not: what the process has open stays counted.
FilesKill(p) ==
  /\ Kill(p)
  /\ lost' = [g \in Slot |->
       IF Counted(openft[g]) THEN lost[g] + Cardinality({d \in FD : fdt[p][d] = g})
       ELSE lost[g]]
  /\ UNCHANGED <<fdt, openft, pipes>>

-----------------------------------------------------------------------------
(* Specifications *)

\* Slot g is an end of a pipe and process p alone refers to it.
LastHolder(p, g) ==
  /\ openft[g].type = "PIPE"
  /\ \A q \in pcballoc \ {p}, d \in FD : fdt[q][d] # g

\* p gives up a descriptor to g without closing the pipe for everybody.
MayDrop(p, g) == g # -1 => ~LastHolder(p, g)

CommonCalls ==
  \/ (Tick \/ Yield \/ ForkFull) /\ UNCHANGED fileVars
  \/ \E c \in PID, s \in Stacks : FilesForkOk(c, s)
  \/ PipeOk \/ PipeFull
  \/ OpenOk \/ OpenRefused \/ OpenFull
  \/ \E a, b \in FD : a < b /\ FdSwap(a, b)
  \/ \E p \in PID \ {current} :
       (\A g \in Slot : lost[g] < MaxLost) /\ FilesKill(p)

\* Some process keeps each end of a pipe.
FilesNext ==
  \/ CommonCalls
  \/ \E d \in FD : MayDrop(current, fdt[current][d]) /\ Close(d)
  \/ (\A d \in FD : MayDrop(current, fdt[current][d])) /\ FilesExit

FilesSpec == FilesInit /\ [][FilesNext]_allVars

\* Ends of pipes may be closed for good.
CloseNext == CommonCalls \/ (\E d \in FD : Close(d)) \/ FilesExit

CloseSpec == FilesInit /\ [][CloseNext]_allVars

-----------------------------------------------------------------------------
(* Properties *)

\* Types of the three tables.
FilesTypeOK ==
  /\ fdt \in [PID -> [FD -> Slot \cup {-1}]]
  /\ openft \in [Slot -> fdte_t \cup {NULL}]
  /\ pipes \subseteq Pipes
  /\ lost \in [Slot -> Nat]

\* The descriptors of existing processes that refer to slot g.
Refs(g) == {r \in pcballoc \X FD : fdt[r[1]][r[2]] = g}

\* An entry's count is the number of descriptors that refer to it, and one
\* nobody refers to is gone, but for what killed processes had open: across
\* fork, exit, close and fd_swap no open file is freed early or kept for ever
\* (do_fork, do_close, do_exit, do_kill).
RefCounts ==
  \A g \in Slot : Counted(openft[g]) /\ openft[g].type # "UNSET" =>
    /\ openft[g].open_count = Cardinality(Refs(g)) + lost[g]
    /\ openft[g].open_count > 0

\* The comment in do_close (hilevel.c:353): "Close pipe, and its counterpart.
\* Subsequent ops on the pipe will fail".  They fail when the descriptor
\* finds no entry; it never finds one that has been freed.
NoFreedEntry ==
  \A p \in pcballoc, d \in FD :
    fdt[p][d] # -1 => openft[fdt[p][d]] # NULL /\ openft[fdt[p][d]].live

\* The two ends of a pipe name each other and their pipe (do_pipe: "Use
\* cursor var to link FD entries for easy closing").
EndsLinked ==
  \A g \in Slot : openft[g] # NULL /\ openft[g].type = "PIPE" =>
    LET other == openft[g].cursor
    IN  /\ other # g /\ openft[other] # NULL
        /\ openft[other].cursor = g /\ openft[other].id = openft[g].id
        /\ openft[g].id \in pipes
=============================================================================
