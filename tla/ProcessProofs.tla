--------------------------- MODULE ProcessProofs ---------------------------
(***************************************************************************)
(* The process table is type correct whatever the processes do, and in an  *)
(* orderly system (OrderlySpec) exactly one existing process executes, pids*)
(* are table indexes, stacks are never shared or leaked and the scheduler  *)
(* is round robin: for every table size, priority bound and set of stacks. *)
(***************************************************************************)
EXTENDS Process, TLAPS

-----------------------------------------------------------------------------
(* The operators *)

\* The borrowing subtraction stays within the mask.
LEMMA ClearBitType ==
  ASSUME NEW mask, NEW i
  PROVE  ClearBit(mask, i) \in SUBSET PID
BY DEF ClearBit

\* Without a borrow it clears one bit (do_exit of an existing process).
LEMMA ClearBitRemoves ==
  ASSUME NEW mask \in SUBSET PID, NEW i \in mask
  PROVE  ClearBit(mask, i) = mask \ {i}
<1> SUFFICES ASSUME NEW j \in PID
             PROVE  ((j \in mask) # (j >= i /\ \A k \in i..(j - 1) : k \notin mask))
                      <=> (j \in mask /\ j # i)
  BY DEF ClearBit
<1>1. CASE j = i
  BY <1>1, ProcessAssumption DEF PID
<1>2. CASE j < i
  BY <1>2, ProcessAssumption DEF PID
<1>3. CASE j > i
  <2>1. i \in i..(j - 1)
    BY <1>3, ProcessAssumption DEF PID
  <2> QED BY <1>3, <2>1
<1> QED BY <1>1, <1>2, <1>3, ProcessAssumption DEF PID

\* What next() may do to the variables it writes, for any table passed in.
LEMMA NextType ==
  ASSUME TypeOK, NEW alloc \in SUBSET PID, NEW stat \in [PID -> Status],
         NEW cur_stat \in Status, NEW rt \in Nat, next(alloc, stat, cur_stat, rt)
  PROVE  /\ status' \in [PID -> Status]
         /\ current' \in PID
         /\ current_runtime' \in Nat
<1> DEFINE C == Candidates(alloc, stat)
<1>1. CASE C = {} /\ status' = stat /\ UNCHANGED current
  BY <1>1 DEF TypeOK, next
<1>2. CASE \E i \in C : FirstAfter(i, C) /\ context_switch(i, stat, cur_stat)
  <2> PICK i \in C : context_switch(i, stat, cur_stat)
    BY <1>2
  <2>1. i \in PID
    BY DEF Candidates
  <2> QED BY <2>1 DEF TypeOK, next, context_switch, Status
<1> QED BY <1>1, <1>2 DEF next

\* The state hilevel_handler_rst hands over is well typed.
LEMMA InitType == Init => TypeOK
<1> SUFFICES ASSUME Init PROVE TypeOK
  OBVIOUS
<1>1. BOOT \in PID /\ 0 \in PID
  BY ProcessAssumption DEF PID, BOOT
<1>2. base_priority \in [PID -> -1..MaxPriority]
  BY ProcessAssumption DEF Init
<1>3. stack \in [PID -> Stacks \cup {NoStack}] /\ heap \subseteq Stacks
  BY DEF Init
<1>4. pid \in [PID -> PID] /\ status \in [PID -> Status]
  BY <1>1 DEF Init, Status, CanRun
<1> QED BY <1>1, <1>2, <1>3, <1>4 DEF Init, TypeOK

-----------------------------------------------------------------------------
(* Type correctness, any program *)

\* One handler of kernel/hilevel.c, with any argument, keeps the types.
LEMMA TypeStep == TypeOK /\ [Next]_procVars => TypeOK'
<1> SUFFICES ASSUME TypeOK, [Next]_procVars PROVE TypeOK'
  OBVIOUS
<1> USE DEF TypeOK
<1>1. CASE Tick
  <2>1. CASE next(pcballoc, status, "READY", 1)
    BY <1>1, <2>1, NextType DEF Tick, Status, CanRun, NoResult
  <2>2. CASE current_runtime' = current_runtime + 1 /\ UNCHANGED <<status, current>>
    BY <1>1, <2>2 DEF Tick, NoResult
  <2> QED BY <1>1, <2>1, <2>2 DEF Tick, schedule
<1>2. CASE Yield
  BY <1>2, NextType DEF Yield, Status, CanRun, NoResult
<1>3. CASE Fork
  <2>1. CASE ForkFull
    BY <2>1 DEF ForkFull
  <2>2. ASSUME NEW c \in PID, NEW s \in Stacks, ForkOk(c, s) PROVE TypeOK'
    BY <2>2 DEF ForkOk, copy_pcb, Status, CanRun
  <2> QED BY <1>3, <2>1, <2>2 DEF Fork
<1>4. ASSUME NEW c \in PID, ForkNoMem(c) PROVE TypeOK'
  BY <1>4 DEF ForkNoMem, copy_pcb
<1>5. CASE Exit
  <2> DEFINE stat == [status EXCEPT ![current] = "TERMINATED"]
  <2>1. stat \in [PID -> Status]
    BY DEF Status
  <2>2. pcballoc' \in SUBSET PID
    BY <1>5, ClearBitType DEF Exit, do_exit
  <2>3. status' \in [PID -> Status] /\ current' \in PID /\ current_runtime' \in Nat
    <3>1. CASE status' = stat /\ UNCHANGED <<current, current_runtime>>
      BY <3>1, <2>1
    <3>2. CASE next(pcballoc', stat, "TERMINATED", 0)
      BY <3>2, <2>1, <2>2, NextType DEF Status
    <3> QED BY <1>5, <3>1, <3>2 DEF Exit
  <2>4. base_priority' \in [PID -> -1..MaxPriority]
    BY <1>5, ProcessAssumption DEF Exit, do_exit
  <2>5. halted' \in BOOLEAN
    BY <1>5 DEF Exit, do_exit
  <2> QED BY <1>5, <2>2, <2>3, <2>4, <2>5 DEF Exit, do_exit, NoResult
<1>6. ASSUME NEW p \in PID, Kill(p) PROVE TypeOK'
  BY <1>6 DEF Kill, NoResult
<1>7. ASSUME NEW p \in PID, NEW x \in 0..MaxPriority, Nice(p, x) PROVE TypeOK'
  BY <1>7, ProcessAssumption DEF Nice, NoResult
<1>8. CASE UNCHANGED procVars
  BY <1>8 DEF procVars
<1> QED BY <1>1, <1>2, <1>3, <1>4, <1>5, <1>6, <1>7, <1>8 DEF Next

\* Every call with every argument, from any program, keeps the table well
\* typed: no handler of kernel/hilevel.c stores a value its field cannot hold.
THEOREM TypeCorrect == Spec => []TypeOK
BY InitType, TypeStep, PTL DEF Spec

-----------------------------------------------------------------------------
(* The invariant of the orderly system *)

\* The kernel has halted exactly when nobody is left, and otherwise runs an
\* existing process marked EXECUTING.
RunsOne ==
  /\ halted <=> pcballoc = {}
  /\ ~halted => current \in pcballoc /\ status[current] = "EXECUTING"

\* Every other existing process is eligible for the processor: what lets
\* exit always find a successor.
OthersCanRun == \A i \in pcballoc \ {current} : status[i] \in CanRun

OrderlyInv ==
  TypeOK /\ RunsOne /\ OthersCanRun /\ PidIsIndex /\ StackOwnership

\* next() on a table whose other entries can all run: the processor moves to
\* the first of them, or stays if there is none.
LEMMA NextSwitch ==
  ASSUME OrderlyInv, NEW alloc \in SUBSET pcballoc, NEW stat \in [PID -> Status],
         NEW cur_stat \in CanRun \cup {"TERMINATED"}, NEW rt \in Nat,
         \A i \in alloc \ {current} : stat[i] \in CanRun,
         next(alloc, stat, cur_stat, rt)
  PROVE  \/ /\ alloc \subseteq {current}
            /\ status' = stat
            /\ current' = current
         \/ /\ current' \in alloc \ {current}
            /\ FirstAfter(current', alloc \ {current})
            /\ status' = [stat EXCEPT ![current] = cur_stat, ![current'] = "EXECUTING"]
<1>1. Candidates(alloc, stat) = alloc \ {current}
  BY DEF Candidates
<1>2. \A i \in alloc : pid[i] = i
  BY DEF OrderlyInv, PidIsIndex
<1> QED BY <1>1, <1>2 DEF next, context_switch

\* The table an orderly system boots with satisfies the invariant.
LEMMA OrderlyInit == Init => OrderlyInv
<1> SUFFICES ASSUME Init PROVE OrderlyInv
  OBVIOUS
<1>1. TypeOK
  BY InitType
<1>2. BOOT \in PID
  BY ProcessAssumption DEF PID, BOOT
<1>3. RunsOne /\ OthersCanRun
  BY <1>2 DEF Init, RunsOne, OthersCanRun
<1>4. PidIsIndex
  BY <1>2 DEF Init, PidIsIndex, BOOT
<1>5. StackOwnership
  BY <1>2 DEF Init, StackOwnership
<1> QED BY <1>1, <1>3, <1>4, <1>5 DEF OrderlyInv

\* A tick and a yield: only the scheduler's fields change.
LEMMA OrderlySchedule ==
  ASSUME OrderlyInv, ~halted, NEW rt \in Nat,
         \/ next(pcballoc, status, "READY", rt)
         \/ UNCHANGED <<status, current>>,
         TypeOK', UNCHANGED <<pcballoc, pid, stack, heap, halted>>
  PROVE  OrderlyInv'
<1> USE DEF OrderlyInv, RunsOne, OthersCanRun
<1>1. PidIsIndex' /\ StackOwnership'
  BY DEF PidIsIndex, StackOwnership
<1>2. CASE UNCHANGED <<status, current>>
  BY <1>1, <1>2
<1>3. CASE next(pcballoc, status, "READY", rt)
  <2>1. \/ UNCHANGED <<status, current>>
        \/ /\ current' \in pcballoc \ {current}
           /\ status' = [status EXCEPT ![current] = "READY", ![current'] = "EXECUTING"]
    BY <1>3, NextSwitch DEF TypeOK, CanRun
  <2>2. CASE /\ current' \in pcballoc \ {current}
             /\ status' = [status EXCEPT ![current] = "READY", ![current'] = "EXECUTING"]
    <3>1. status'[current'] = "EXECUTING" /\ status'[current] = "READY"
      BY <2>2 DEF TypeOK
    <3>2. \A i \in pcballoc \ {current, current'} : status'[i] = status[i]
      BY <2>2 DEF TypeOK
    <3> QED BY <1>1, <2>2, <3>1, <3>2 DEF CanRun
  <2> QED BY <1>2, <2>1, <2>2
<1> QED BY <1>2, <1>3

\* What exit leaves behind: the caller's bit and stack are gone, and the
\* processor is with another process unless there was none.
LEMMA ExitStep ==
  ASSUME OrderlyInv, Exit
  PROVE  /\ ~halted
         /\ pcballoc' = pcballoc \ {current}
         /\ heap' = heap \ {stack[current]}
         /\ UNCHANGED <<pid, stack>>
         /\ halted' <=> pcballoc' = {}
         /\ \/ /\ pcballoc' = {}
               /\ current' = current
            \/ /\ current' \in pcballoc'
               /\ FirstAfter(current', pcballoc')
               /\ status'[current'] = "EXECUTING"
               /\ \A i \in pcballoc' \ {current'} : status'[i] = status[i]
<1> DEFINE stat == [status EXCEPT ![current] = "TERMINATED"]
<1>1. ~halted /\ current \in pcballoc
  BY DEF OrderlyInv, RunsOne, Exit
<1>2. pcballoc' = pcballoc \ {current}
  BY <1>1, ClearBitRemoves DEF Exit, do_exit, OrderlyInv, TypeOK
<1>3. pcballoc' \ {current} = pcballoc' /\ pcballoc' \in SUBSET pcballoc
  BY <1>2
<1>4. stat \in [PID -> Status] /\ \A i \in pcballoc' : stat[i] = status[i]
  BY <1>2 DEF OrderlyInv, TypeOK, Status
<1>5. \/ halted' /\ current' = current
      \/ ~halted' /\ next(pcballoc', stat, "TERMINATED", 0)
  BY DEF Exit
<1>6. CASE ~halted' /\ next(pcballoc', stat, "TERMINATED", 0)
  <2>1. pcballoc' # {}
    BY <1>6 DEF Exit, do_exit
  <2>s. \A i \in pcballoc' \ {current} : stat[i] \in CanRun
    BY <1>2, <1>4 DEF OrderlyInv, OthersCanRun
  <2>n. 0 \in Nat /\ "TERMINATED" \in CanRun \cup {"TERMINATED"}
    OBVIOUS
  <2>2. /\ current' \in pcballoc'
        /\ FirstAfter(current', pcballoc')
        /\ status' = [stat EXCEPT ![current] = "TERMINATED", ![current'] = "EXECUTING"]
    <3> HIDE DEF stat
    <3>1. \/ pcballoc' \subseteq {current}
          \/ /\ current' \in pcballoc' \ {current}
             /\ FirstAfter(current', pcballoc' \ {current})
             /\ status' = [stat EXCEPT ![current] = "TERMINATED", ![current'] = "EXECUTING"]
      BY <1>3, <1>4, <1>6, <2>s, <2>n, NextSwitch
    <3> QED BY <1>2, <1>3, <2>1, <3>1
  <2>3. \A i \in pcballoc' : i # current /\ i \in PID
    BY <1>2 DEF OrderlyInv, TypeOK
  <2> QED BY <1>1, <1>2, <1>4, <2>1, <2>2, <2>3 DEF Exit, do_exit
<1>7. CASE halted' /\ current' = current
  BY <1>1, <1>2, <1>7 DEF Exit, do_exit
<1> QED BY <1>5, <1>6, <1>7

\* Each call of an orderly system preserves the invariant.
LEMMA OrderlyStep == OrderlyInv /\ [OrderlyNext]_procVars => OrderlyInv'
<1> SUFFICES ASSUME OrderlyInv, [OrderlyNext]_procVars PROVE OrderlyInv'
  OBVIOUS
<1>t. TypeOK'
  BY TypeStep DEF OrderlyInv, OrderlyNext, Next
<1>1. CASE Tick
  BY <1>1, <1>t, OrderlySchedule DEF Tick, schedule
<1>2. CASE Yield
  BY <1>2, <1>t, OrderlySchedule DEF Yield
<1>3. CASE ForkFull
  BY <1>3, <1>t DEF ForkFull, OrderlyInv, RunsOne, OthersCanRun, PidIsIndex, StackOwnership
<1>4. ASSUME NEW c \in PID, NEW s \in Stacks, ForkOk(c, s) PROVE OrderlyInv'
  <2>1. /\ c \notin pcballoc /\ s \notin heap /\ ~halted
        /\ pcballoc' = pcballoc \cup {c} /\ heap' = heap \cup {s}
        /\ UNCHANGED <<current, halted>>
    BY <1>4 DEF ForkOk, copy_pcb, new_pcb_entry
  <2>2. /\ pid'[c] = c /\ status'[c] = "CREATED" /\ stack'[c] = s
        /\ \A i \in pcballoc : pid'[i] = pid[i] /\ status'[i] = status[i] /\ stack'[i] = stack[i]
    BY <1>4, <2>1 DEF ForkOk, copy_pcb, OrderlyInv, TypeOK
  <2>3. RunsOne' /\ OthersCanRun'
    BY <2>1, <2>2 DEF OrderlyInv, RunsOne, OthersCanRun, CanRun
  <2>4. PidIsIndex'
    BY <2>1, <2>2 DEF OrderlyInv, PidIsIndex
  <2>5. \A i \in pcballoc : stack[i] \in heap
    BY DEF OrderlyInv, StackOwnership
  <2>6. StackOwnership'
    BY <2>1, <2>2, <2>5 DEF OrderlyInv, StackOwnership
  <2> QED BY <1>t, <2>3, <2>4, <2>6 DEF OrderlyInv
<1>5. CASE Exit
  <2> USE <1>5, ExitStep DEF OrderlyInv
  <2>1. RunsOne'
    BY DEF RunsOne
  <2>2. OthersCanRun'
    BY DEF OthersCanRun
  <2>3. PidIsIndex'
    BY DEF PidIsIndex
  <2>4. current \in pcballoc
    BY DEF RunsOne
  <2>5. StackOwnership'
    BY <2>4 DEF StackOwnership
  <2> QED BY <1>t, <2>1, <2>2, <2>3, <2>5
<1>6. ASSUME NEW p \in PID \ {current}, Kill(p) PROVE OrderlyInv'
  <2> USE <1>6 DEF Kill, process_exists, OrderlyInv
  <2>1. RunsOne' /\ OthersCanRun' /\ PidIsIndex'
    BY DEF RunsOne, OthersCanRun, PidIsIndex
  <2>2. StackOwnership'
    BY DEF StackOwnership
  <2> QED BY <1>t, <2>1, <2>2
<1>7. ASSUME NEW p \in PID, NEW x \in 0..MaxPriority, Nice(p, x) PROVE OrderlyInv'
  BY <1>7, <1>t DEF Nice, OrderlyInv, RunsOne, OthersCanRun, PidIsIndex, StackOwnership
<1>8. CASE UNCHANGED procVars
  BY <1>8, <1>t DEF procVars, OrderlyInv, RunsOne, OthersCanRun, PidIsIndex, StackOwnership
<1> QED BY <1>1, <1>2, <1>3, <1>4, <1>5, <1>6, <1>7, <1>8 DEF OrderlyNext, Fork

\* The invariant holds throughout every run of an orderly system.
LEMMA OrderlyInvariant == OrderlySpec => []OrderlyInv
BY OrderlyInit, OrderlyStep, PTL DEF OrderlySpec

-----------------------------------------------------------------------------
(* What it gives *)

\* Exactly one existing process executes until the kernel halts, across
\* ticks, yields, forks, exits and kills (kernel/hilevel.c, next and do_exit).
THEOREM ExecutingIsUnique == OrderlySpec => []OneExecuting
<1>1. OrderlyInv => OneExecuting
  BY DEF OrderlyInv, RunsOne, OthersCanRun, OneExecuting, process_exists, CanRun
<1> QED BY <1>1, OrderlyInvariant, PTL

\* A process is always filed under its own pid (do_fork, new_pcb_entry).
THEOREM PidsAreIndexes == OrderlySpec => []PidIsIndex
<1>1. OrderlyInv => PidIsIndex
  BY DEF OrderlyInv
<1> QED BY <1>1, OrderlyInvariant, PTL

\* Stacks are neither shared nor leaked nor used after free (do_fork,
\* do_exit, do_kill).
THEOREM StacksAreOwned == OrderlySpec => []StackOwnership
<1>1. OrderlyInv => StackOwnership
  BY DEF OrderlyInv
<1> QED BY <1>1, OrderlyInvariant, PTL

\* Going from a to the nearer of b and p brings the scan closer to p.
LEMMA DistShrinks ==
  ASSUME NEW a \in PID, NEW b \in PID, NEW p \in PID, a # b, b # p,
         Dist(a, b) <= Dist(a, p)
  PROVE  Dist(b, p) < Dist(a, p)
BY ProcessAssumption DEF PID, Dist

\* Each switch of the scheduler brings every process that can run closer to
\* the processor, so none is passed over twice (next).
THEOREM RoundRobin == OrderlySpec => NoOvertaking
<1> DEFINE Closer == \A p \in PID :
             process_can_run(p) /\ process_can_run(p)' /\ current' # current
               => Dist(current', p) < Dist(current, p)
<1>1. OrderlyInv /\ OrderlyInv' /\ [OrderlyNext]_procVars => [Closer]_procVars
  <2> SUFFICES ASSUME OrderlyInv, OrderlyInv', OrderlyNext, NEW p \in PID,
                      process_can_run(p), process_can_run(p)', current' # current
               PROVE  Dist(current', p) < Dist(current, p)
    OBVIOUS
  <2>1. p \in pcballoc /\ p \in pcballoc' /\ status'[p] \in CanRun
    BY DEF process_can_run, process_exists
  <2>2. /\ current' \in pcballoc \ {current} /\ current' \in PID /\ current \in PID
        /\ status'[current'] = "EXECUTING"
        /\ \/ FirstAfter(current', pcballoc \ {current})
           \/ current \notin pcballoc' /\ FirstAfter(current', pcballoc')
    <3>0. current' \in PID /\ current \in PID
      BY DEF OrderlyInv, TypeOK
    <3>1. CASE Tick \/ Yield
      <4>1. PICK rt \in Nat : next(pcballoc, status, "READY", rt)
        BY <3>1 DEF Tick, Yield, schedule
      <4> QED BY <3>0, <4>1, NextSwitch DEF OrderlyInv, TypeOK, OthersCanRun, CanRun
    <3>2. CASE Exit
      BY <3>0, <3>2, ExitStep
    <3>3. CASE \/ Fork
               \/ \E q \in PID \ {current} : Kill(q)
               \/ \E q \in PID, x \in 0..MaxPriority : Nice(q, x)
      BY <3>3 DEF Fork, ForkFull, ForkOk, Kill, Nice
    <3> QED BY <3>1, <3>2, <3>3 DEF OrderlyNext
  <2>3. p # current'
    BY <2>1, <2>2 DEF CanRun
  <2>4. ~halted /\ status[current] = "EXECUTING"
    BY <2>1 DEF OrderlyInv, RunsOne
  <2>5. p # current
    BY <2>4 DEF process_can_run, CanRun
  <2>6. Dist(current, current') <= Dist(current, p)
    BY <2>1, <2>2, <2>5 DEF FirstAfter
  <2> QED BY <2>2, <2>3, <2>6, DistShrinks
<1> QED BY <1>1, OrderlyInvariant, PTL DEF OrderlySpec, NoOvertaking
=============================================================================
