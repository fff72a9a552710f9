-------------------------- MODULE SemaphoreProofs --------------------------
(***************************************************************************)
(* Semaphores used as mutexes (MutexSpec) never lose a wakeup, and the     *)
(* scheduler never runs a waiter: for every number of processes and        *)
(* semaphores and every word size.                                         *)
(***************************************************************************)
EXTENDS Semaphore, ProcessProofs

-----------------------------------------------------------------------------
(* The invariant *)

\* The boot program exists and can run, so next() always has somewhere to go.
BootReady ==
  /\ ~halted
  /\ BOOT \in pcballoc
  /\ current # BOOT => status[BOOT] \in CanRun

\* The running process exists and is marked so; the others can run or wait.
RunsOneOfMany ==
  /\ current \in pcballoc
  /\ status[current] = "EXECUTING"
  /\ \A i \in pcballoc \ {current} : status[i] \in CanRun \cup {"WAITING"}

\* Every waiter waits for one unit of a semaphore that has none.
WaitsForOne ==
  \A i \in pcballoc : status[i] = "WAITING" =>
    /\ waiting[i] \in semwait_t
    /\ waiting[i].x = 1
    /\ sem[waiting[i].sem_id] = 0

SemTypes ==
  /\ TypeOK
  /\ sem \in [SEM -> Word]
  /\ waiting \in [PID -> semwait_t \cup {NoWait}]

MutexInv == SemTypes /\ BootReady /\ RunsOneOfMany /\ PidIsIndex /\ WaitsForOne

-----------------------------------------------------------------------------
(* The scheduler with waiters in the table *)

\* next() when the boot program can take over, or is the caller: the caller
\* gives way to some process that can run, or nobody else can.
LEMMA NextAmongWaiters ==
  ASSUME TypeOK, PidIsIndex, NEW alloc \in SUBSET pcballoc, NEW stat \in [PID -> Status],
         NEW cur_stat \in Status, NEW rt \in Nat,
         next(alloc, stat, cur_stat, rt)
  PROVE  \/ /\ Candidates(alloc, stat) = {}
            /\ status' = stat
            /\ current' = current
         \/ /\ current' \in alloc \ {current}
            /\ stat[current'] \in CanRun
            /\ status'[current'] = "EXECUTING"
            /\ status'[current] = cur_stat
            /\ \A i \in PID \ {current, current'} : status'[i] = stat[i]
<1>1. CASE Candidates(alloc, stat) = {}
  BY <1>1 DEF next
<1>2. CASE Candidates(alloc, stat) # {}
  <2>1. PICK i \in Candidates(alloc, stat) : context_switch(i, stat, cur_stat)
    BY <1>2 DEF next
  <2>2. /\ i \in alloc \ {current} /\ i \in PID /\ stat[i] \in CanRun /\ pid[i] = i
        /\ current \in PID
    BY DEF Candidates, PidIsIndex, TypeOK
  <2> QED BY <2>1, <2>2 DEF context_switch
<1> QED BY <1>1, <1>2

-----------------------------------------------------------------------------
(* What a post does *)

\* A post either hands one unit to a waiter, the semaphore being empty, or
\* nobody waits for this semaphore and it takes the units itself.
LEMMA PostEffect ==
  ASSUME MutexInv, NEW s \in SEM, NEW x \in Word, do_sem_post(s, x)
  PROVE  \/ \E i \in pcballoc \ {current} :
              /\ status[i] = "WAITING" /\ waiting[i].sem_id = s /\ sem[s] = 0 /\ x # 0
              /\ sem' = [sem EXCEPT ![s] = x - 1]
              /\ status' = [status EXCEPT ![i] = "READY"]
              /\ waiting' = [waiting EXCEPT ![i] = NoWait]
         \/ /\ x = 0 \/ \A i \in pcballoc : status[i] = "WAITING" => waiting[i].sem_id # s
            /\ sem' = [sem EXCEPT ![s] = Wrapped(sem[s] + x)]
            /\ UNCHANGED <<status, waiting>>
<1> USE DEF MutexInv
<1>1. CASE \E i \in Eligible(s, x) :
              /\ x # 0
              /\ sem' = [sem EXCEPT ![s] = Wrapped(@ + (x - waiting[i].x))]
              /\ status' = [status EXCEPT ![i] = "READY"]
              /\ waiting' = [waiting EXCEPT ![i] = NoWait]
  <2>1. PICK i \in Eligible(s, x) :
              /\ x # 0
              /\ sem' = [sem EXCEPT ![s] = Wrapped(@ + (x - waiting[i].x))]
              /\ status' = [status EXCEPT ![i] = "READY"]
              /\ waiting' = [waiting EXCEPT ![i] = NoWait]
    BY <1>1
  <2>2. /\ i \in pcballoc \ {current} /\ status[i] = "WAITING"
        /\ waiting[i].x = 1 /\ waiting[i].sem_id = s /\ sem[s] = 0
    BY DEF Eligible, WaitsForOne
  <2>3. Wrapped(sem[s] + (x - waiting[i].x)) = x - 1
    BY <2>1, <2>2, SemaphoreAssumption DEF Wrapped, Word
  <2>4. sem' = [sem EXCEPT ![s] = Wrapped(sem[s] + (x - waiting[i].x))]
    BY <2>1
  <2> QED BY <2>1, <2>2, <2>3, <2>4
<1>2. CASE /\ x = 0 \/ Eligible(s, x) = {}
           /\ sem' = [sem EXCEPT ![s] = Wrapped(@ + x)]
           /\ UNCHANGED <<status, waiting>>
  <2>1. CASE x = 0
    BY <1>2, <2>1
  <2>2. CASE x # 0 /\ Eligible(s, x) = {}
    <3>1. ASSUME NEW i \in pcballoc, status[i] = "WAITING", waiting[i].sem_id = s
          PROVE  FALSE
      <4>1. waiting[i].x = 1 /\ i # current
        BY <3>1 DEF WaitsForOne, RunsOneOfMany
      <4>2. waiting[i].x <= x
        BY <4>1, <2>2, SemaphoreAssumption DEF Word
      <4> QED BY <2>2, <3>1, <4>1, <4>2 DEF Eligible
    <3> QED BY <1>2, <3>1
  <2> QED BY <1>2, <2>1, <2>2
<1> QED BY <1>1, <1>2 DEF do_sem_post

\* A post of at most one unit to an empty semaphore keeps the invariant.
LEMMA PostStep ==
  ASSUME MutexInv, NEW s \in SEM, NEW x \in Word, sem[s] = 0 => x \in {0, 1},
         do_sem_post(s, x), SemFrame, UNCHANGED <<current, current_runtime>>
  PROVE  MutexInv'
<1> USE DEF MutexInv
<1>0. /\ sem[s] \in Word /\ sem \in [SEM -> Word]
      /\ UNCHANGED <<pcballoc, pid, base_priority, stack, heap, halted, current, current_runtime>>
      /\ fork_ret' = NoResult
  BY DEF SemTypes, SemFrame
<1>1. CASE \E i \in pcballoc \ {current} :
             /\ status[i] = "WAITING" /\ sem[s] = 0 /\ x # 0
             /\ sem' = [sem EXCEPT ![s] = x - 1]
             /\ status' = [status EXCEPT ![i] = "READY"]
             /\ waiting' = [waiting EXCEPT ![i] = NoWait]
  <2>1. PICK i \in pcballoc \ {current} :
             /\ status[i] = "WAITING" /\ sem[s] = 0 /\ x # 0
             /\ sem' = [sem EXCEPT ![s] = x - 1]
             /\ status' = [status EXCEPT ![i] = "READY"]
             /\ waiting' = [waiting EXCEPT ![i] = NoWait]
    BY <1>1
  <2>2. sem' = sem
    BY <1>0, <2>1
  <2>3. i \in PID /\ current \in PID /\ pcballoc \subseteq PID
    BY DEF SemTypes, TypeOK
  <2>4. SemTypes'
    BY <1>0, <2>1, <2>2 DEF SemTypes, TypeOK, Status, CanRun
  <2>5. status'[i] = "READY" /\ \A j \in PID \ {i} : status'[j] = status[j] /\ waiting'[j] = waiting[j]
    BY <2>1, <2>3 DEF SemTypes, TypeOK
  <2>6. BootReady' /\ RunsOneOfMany' /\ PidIsIndex'
    BY <1>0, <2>1, <2>3, <2>5 DEF BootReady, RunsOneOfMany, PidIsIndex, CanRun, BOOT
  <2>7. WaitsForOne'
    BY <1>0, <2>2, <2>3, <2>5 DEF WaitsForOne
  <2> QED BY <2>4, <2>6, <2>7
<1>2. CASE /\ x = 0 \/ \A i \in pcballoc : status[i] = "WAITING" => waiting[i].sem_id # s
           /\ sem' = [sem EXCEPT ![s] = Wrapped(sem[s] + x)]
           /\ UNCHANGED <<status, waiting>>
  <2>1. Wrapped(sem[s] + x) \in Word /\ (x = 0 => Wrapped(sem[s] + x) = sem[s])
    BY <1>0, SemaphoreAssumption DEF Wrapped, Word
  <2>2. SemTypes'
    BY <1>0, <1>2, <2>1 DEF SemTypes, TypeOK
  <2>3. BootReady' /\ RunsOneOfMany' /\ PidIsIndex'
    BY <1>0, <1>2 DEF BootReady, RunsOneOfMany, PidIsIndex
  <2>4. WaitsForOne'
    <3>1. \A i \in pcballoc : status[i] = "WAITING" => sem'[waiting[i].sem_id] = sem[waiting[i].sem_id]
      BY <1>0, <1>2, <2>1 DEF WaitsForOne, semwait_t
    <3> QED BY <1>0, <1>2, <3>1 DEF WaitsForOne
  <2> QED BY <2>2, <2>3, <2>4
<1> QED BY <1>1, <1>2, PostEffect

-----------------------------------------------------------------------------
(* What the scheduler does *)

\* The table after a call that ends in next(): the caller's entry has changed
\* to stat, it is kept or dropped by alloc, and the new fields fit its status.
LEMMA SwitchStep ==
  ASSUME MutexInv, NEW alloc \in SUBSET pcballoc, NEW stat \in [PID -> Status],
         NEW cur_stat \in Status, NEW rt \in Nat,
         pcballoc \ {current} \subseteq alloc, BOOT \in alloc,
         \A i \in PID \ {current} : stat[i] = status[i],
         next(alloc, stat, cur_stat, rt),
         pcballoc' = alloc, pid' = pid, halted' = halted, sem' = sem,
         SemTypes',
         \A i \in PID \ {current} : waiting'[i] = waiting[i],
         current = BOOT => stat = status,
         current \in alloc =>
           \/ cur_stat = "READY"
           \/ /\ cur_stat = "WAITING" /\ current # BOOT
              /\ waiting'[current] \in semwait_t /\ waiting'[current].x = 1
              /\ sem[waiting'[current].sem_id] = 0
  PROVE  MutexInv'
<1> USE DEF MutexInv
<1>0. /\ TypeOK /\ current \in PID /\ pcballoc \subseteq PID /\ BOOT \in PID
      /\ status[current] = "EXECUTING" /\ current \in pcballoc
  BY DEF SemTypes, TypeOK, RunsOneOfMany, BootReady
<1>1. PidIsIndex'
  BY DEF PidIsIndex
<1>2. CASE Candidates(alloc, stat) = {} /\ status' = stat /\ current' = current
  <2>1. current = BOOT
    BY <1>0, <1>2 DEF BootReady, Candidates
  <2>2. stat = status /\ current \in alloc
    BY <2>1
  <2>3. BootReady' /\ RunsOneOfMany'
    BY <1>0, <1>2, <2>2 DEF BootReady, RunsOneOfMany
  <2>4. WaitsForOne'
    BY <1>0, <1>2, <2>2 DEF WaitsForOne
  <2> QED BY <1>1, <2>3, <2>4
<1>3. CASE /\ current' \in alloc \ {current}
           /\ stat[current'] \in CanRun
           /\ status'[current'] = "EXECUTING"
           /\ status'[current] = cur_stat
           /\ \A i \in PID \ {current, current'} : status'[i] = stat[i]
  <2>0. \A i \in PID \ {current, current'} : status'[i] = status[i] /\ waiting'[i] = waiting[i]
    BY <1>3
  <2>1. BootReady'
    BY <1>0, <1>3, <2>0 DEF BootReady, CanRun
  <2>2. RunsOneOfMany'
    BY <1>0, <1>3, <2>0 DEF RunsOneOfMany, CanRun
  <2>3. WaitsForOne'
    BY <1>0, <1>3, <2>0 DEF WaitsForOne
  <2> QED BY <1>1, <2>1, <2>2, <2>3
<1> QED BY <1>0, <1>2, <1>3, NextAmongWaiters

\* A wait that blocks.
LEMMA BlockStep ==
  ASSUME MutexInv, NEW s \in SEM, current # BOOT, SemWaitBlocked(s, 1)
  PROVE  MutexInv'
<1> USE DEF MutexInv
<1> DEFINE stat == [status EXCEPT ![current] = "WAITING"]
           w    == [sem_id |-> s, x |-> 1]
<1>1. /\ TypeOK /\ current \in PID /\ pcballoc \subseteq PID
      /\ sem \in [SEM -> Word] /\ waiting \in [PID -> semwait_t \cup {NoWait}]
  BY DEF SemTypes, TypeOK
<1>2. stat \in [PID -> Status] /\ \A i \in PID \ {current} : stat[i] = status[i]
  BY <1>1 DEF TypeOK, Status
<1>3. w \in semwait_t /\ w.x = 1 /\ w.sem_id = s
  BY SemaphoreAssumption DEF semwait_t, Quantity
<1>4. sem[s] = 0
  BY <1>1 DEF SemWaitBlocked, Word
<1>5. next(pcballoc, stat, "WAITING", 0) /\ sem' = sem /\ SemFrame
  BY DEF SemWaitBlocked
<1>6. waiting' = [waiting EXCEPT ![current] = w]
  BY DEF SemWaitBlocked
<1>7. /\ waiting'[current] = w /\ \A i \in PID \ {current} : waiting'[i] = waiting[i]
      /\ waiting' \in [PID -> semwait_t \cup {NoWait}]
  BY <1>1, <1>3, <1>6
<1> HIDE DEF stat, w
<1>8. status' \in [PID -> Status] /\ current' \in PID /\ current_runtime' \in Nat
  <2>1. "WAITING" \in Status /\ pcballoc \in SUBSET PID /\ 0 \in Nat
    BY <1>1 DEF Status
  <2> QED BY <1>1, <1>2, <1>5, <2>1, NextType
<1>9. SemTypes'
  BY <1>1, <1>5, <1>7, <1>8 DEF SemTypes, TypeOK, SemFrame
<1>10. BOOT \in Candidates(pcballoc, stat)
  BY <1>1, <1>2 DEF Candidates, BootReady
<1>11. "WAITING" \in Status /\ 0 \in Nat /\ pcballoc \in SUBSET pcballoc
  BY DEF Status
<1>12. pcballoc' = pcballoc /\ pid' = pid /\ halted' = halted /\ BOOT \in pcballoc
  BY <1>5 DEF SemFrame, BootReady
<1> QED BY <1>2, <1>3, <1>4, <1>5, <1>7, <1>9, <1>10, <1>11, <1>12, SwitchStep

\* A tick and a yield.
LEMMA TickStep ==
  ASSUME MutexInv, Tick \/ Yield, UNCHANGED semVars
  PROVE  MutexInv'
<1> USE DEF MutexInv
<1>1. SemTypes'
  <2>1. TypeOK'
    BY TypeStep DEF SemTypes, Next
  <2> QED BY <2>1 DEF SemTypes, semVars
<1>2. /\ UNCHANGED <<pcballoc, pid, halted, sem, waiting>>
      /\ status \in [PID -> Status] /\ pcballoc \in SUBSET pcballoc /\ BOOT \in pcballoc
      /\ "READY" \in Status
  BY DEF Tick, Yield, semVars, SemTypes, TypeOK, BootReady, Status, CanRun
<1>3. CASE \E rt \in Nat : next(pcballoc, status, "READY", rt)
  BY <1>1, <1>2, <1>3, SwitchStep
<1>4. CASE UNCHANGED <<status, current>>
  BY <1>1, <1>2, <1>4 DEF BootReady, RunsOneOfMany, PidIsIndex, WaitsForOne
<1> QED BY <1>3, <1>4 DEF Tick, Yield, schedule

\* The exit of a process other than the boot program.
LEMMA MutexExitStep ==
  ASSUME MutexInv, current # BOOT, Exit, UNCHANGED semVars
  PROVE  MutexInv'
<1> USE DEF MutexInv
<1> DEFINE stat == [status EXCEPT ![current] = "TERMINATED"]
<1>1. SemTypes'
  <2>1. TypeOK'
    BY TypeStep DEF SemTypes, Next
  <2> QED BY <2>1 DEF SemTypes, semVars
<1>2. current \in pcballoc /\ pcballoc \in SUBSET PID /\ BOOT \in pcballoc /\ current \in PID
  BY DEF RunsOneOfMany, SemTypes, TypeOK, BootReady
<1>3. pcballoc' = pcballoc \ {current} /\ pid' = pid
  BY <1>2, ClearBitRemoves DEF Exit, do_exit
<1>4. BOOT \in pcballoc' /\ pcballoc' \in SUBSET pcballoc /\ current \notin pcballoc'
  BY <1>2, <1>3
<1>5. ~halted' /\ ~halted /\ halted' \in BOOLEAN /\ halted \in BOOLEAN
  BY <1>1, <1>4 DEF Exit, do_exit, SemTypes, TypeOK
<1>6. halted' = halted
  BY <1>5
<1>7. next(pcballoc', stat, "TERMINATED", 0)
  BY <1>5 DEF Exit
<1>8. /\ stat \in [PID -> Status] /\ \A i \in PID \ {current} : stat[i] = status[i]
      /\ "TERMINATED" \in Status /\ 0 \in Nat /\ sem' = sem /\ waiting' = waiting
  BY <1>2 DEF SemTypes, TypeOK, Status, semVars
<1> HIDE DEF stat
<1> QED BY <1>1, <1>3, <1>4, <1>6, <1>7, <1>8, SwitchStep

-----------------------------------------------------------------------------
(* Who waits after a step of the scheduler *)

\* A tick or a yield leaves every waiter waiting and makes no new one.
LEMMA TickKeepsWaiters ==
  ASSUME MutexInv, Tick \/ Yield
  PROVE  \A i \in pcballoc : status'[i] = "WAITING" <=> status[i] = "WAITING"
<1> USE DEF MutexInv
<1>1. /\ TypeOK /\ status \in [PID -> Status] /\ pcballoc \in SUBSET pcballoc /\ "READY" \in Status
      /\ pcballoc \subseteq PID /\ status[current] = "EXECUTING"
  BY DEF SemTypes, TypeOK, Status, CanRun, RunsOneOfMany
<1>2. CASE \E rt \in Nat : next(pcballoc, status, "READY", rt)
  <2>1. PICK rt \in Nat : next(pcballoc, status, "READY", rt)
    BY <1>2
  <2> QED BY <1>1, <2>1, NextAmongWaiters DEF CanRun
<1>3. CASE UNCHANGED <<status, current>>
  BY <1>3
<1> QED BY <1>2, <1>3 DEF Tick, Yield, schedule

\* A wait that blocks makes a waiter of the caller and of nobody else.
LEMMA BlockMakesWaiter ==
  ASSUME MutexInv, NEW s \in SEM, current # BOOT, SemWaitBlocked(s, 1)
  PROVE  /\ status'[current] = "WAITING"
         /\ \A i \in pcballoc \ {current} : status'[i] = "WAITING" <=> status[i] = "WAITING"
<1> USE DEF MutexInv
<1> DEFINE stat == [status EXCEPT ![current] = "WAITING"]
<1>1. /\ TypeOK /\ current \in PID /\ pcballoc \subseteq PID /\ pcballoc \in SUBSET pcballoc
      /\ "WAITING" \in Status /\ 0 \in Nat
  BY DEF SemTypes, TypeOK, Status
<1>2. /\ stat \in [PID -> Status] /\ stat[current] = "WAITING"
      /\ \A i \in PID \ {current} : stat[i] = status[i]
  BY <1>1 DEF TypeOK, Status
<1>3. next(pcballoc, stat, "WAITING", 0)
  BY DEF SemWaitBlocked
<1> HIDE DEF stat
<1> QED BY <1>1, <1>2, <1>3, NextAmongWaiters DEF CanRun

-----------------------------------------------------------------------------
(* Induction *)

\* The kernel boots with no semaphore set and nobody waiting.
LEMMA MutexInit == SemInitState => MutexInv
<1> SUFFICES ASSUME SemInitState PROVE MutexInv
  OBVIOUS
<1>1. TypeOK /\ BOOT \in PID
  BY InitType, ProcessAssumption DEF SemInitState, PID, BOOT
<1>2. SemTypes
  BY <1>1, SemaphoreAssumption DEF SemInitState, SemTypes, SEM, Word
<1>3. BootReady /\ RunsOneOfMany /\ PidIsIndex /\ WaitsForOne
  BY <1>1 DEF SemInitState, Init, BootReady, RunsOneOfMany, PidIsIndex, WaitsForOne, BOOT
<1> QED BY <1>2, <1>3 DEF MutexInv

\* Each call preserves the invariant.
LEMMA MutexStep == MutexInv /\ [MutexNext]_vars => MutexInv'
<1> SUFFICES ASSUME MutexInv, [MutexNext]_vars PROVE MutexInv'
  OBVIOUS
<1> USE DEF MutexInv
<1>1. CASE (Tick \/ Yield) /\ UNCHANGED semVars
  BY <1>1, TickStep
<1>2. CASE ForkFull /\ UNCHANGED semVars
  <2>1. TypeOK'
    BY <1>2, TypeStep DEF SemTypes, Next, Fork
  <2> QED BY <1>2, <2>1 DEF ForkFull, semVars, SemTypes, BootReady, RunsOneOfMany, PidIsIndex, WaitsForOne
<1>3. ASSUME NEW p \in PID, NEW x \in 0..MaxPriority, Nice(p, x), UNCHANGED semVars
      PROVE  MutexInv'
  <2>1. TypeOK'
    BY <1>3, TypeStep DEF SemTypes, Next
  <2> QED BY <1>3, <2>1 DEF Nice, semVars, SemTypes, BootReady, RunsOneOfMany, PidIsIndex, WaitsForOne
<1>4. ASSUME NEW c \in PID, NEW t \in Stacks, SemForkOk(c, t) PROVE MutexInv'
  <2>1. TypeOK'
    BY <1>4, TypeStep DEF SemTypes, Next, Fork, SemForkOk
  <2>2. /\ c \notin pcballoc /\ pcballoc' = pcballoc \cup {c}
        /\ UNCHANGED <<current, halted, sem>>
        /\ waiting' = [waiting EXCEPT ![c] = waiting[current]]
    BY <1>4 DEF SemForkOk, ForkOk, copy_pcb, new_pcb_entry
  <2>3. /\ current \in PID /\ pcballoc \subseteq PID
        /\ waiting \in [PID -> semwait_t \cup {NoWait}]
    BY DEF SemTypes, TypeOK
  <2>4. /\ pid'[c] = c /\ status'[c] = "CREATED"
        /\ \A i \in pcballoc : pid'[i] = pid[i] /\ status'[i] = status[i] /\ waiting'[i] = waiting[i]
    BY <1>4, <2>2, <2>3 DEF SemForkOk, ForkOk, copy_pcb, SemTypes, TypeOK
  <2>5. SemTypes'
    BY <2>1, <2>2, <2>3 DEF SemTypes
  <2>6. BootReady' /\ RunsOneOfMany'
    BY <2>2, <2>4 DEF BootReady, RunsOneOfMany, CanRun
  <2>7. PidIsIndex' /\ WaitsForOne'
    BY <2>2, <2>4 DEF PidIsIndex, WaitsForOne
  <2> QED BY <2>5, <2>6, <2>7
<1>5. CASE current # BOOT /\ Exit /\ UNCHANGED semVars
  BY <1>5, MutexExitStep
<1>6. ASSUME NEW p \in PID \ {BOOT, current}, Kill(p), UNCHANGED semVars PROVE MutexInv'
  <2>1. TypeOK'
    BY <1>6, TypeStep DEF SemTypes, Next
  <2>2. pcballoc' = pcballoc \ {p} /\ UNCHANGED <<pid, status, current, sem, waiting>>
    BY <1>6 DEF Kill, semVars
  <2>3. ~halted'
    BY <1>6, <2>2 DEF Kill, BootReady
  <2> QED BY <1>6, <2>1, <2>2, <2>3 DEF SemTypes, BootReady, RunsOneOfMany, PidIsIndex, WaitsForOne
<1>7. ASSUME NEW s \in SEM, SemInit(s, 1) \/ SemPost(s, 1) PROVE MutexInv'
  <2>1. sem[s] \in Word /\ 1 \in Word
    BY SemaphoreAssumption DEF SemTypes, Word
  <2>2. Wrapped(1 - sem[s]) \in Word /\ (sem[s] = 0 => Wrapped(1 - sem[s]) = 1)
    BY <2>1, SemaphoreAssumption DEF Wrapped, Word
  <2>3. CASE SemInit(s, 1)
    BY <2>2, <2>3, PostStep DEF SemInit
  <2>4. CASE SemPost(s, 1)
    BY <2>1, <2>4, PostStep DEF SemPost
  <2> QED BY <1>7, <2>3, <2>4
<1>8. ASSUME NEW s \in SEM, current # BOOT, SemWait(s, 1) PROVE MutexInv'
  <2>1. CASE SemWaitBlocked(s, 1)
    BY <1>8, <2>1, BlockStep
  <2>2. CASE SemWaitGranted(s, 1)
    <3>1. sem[s] \in Word /\ sem[s] >= 1 /\ sem[s] - 1 \in Word
      BY <2>2, SemaphoreAssumption DEF SemWaitGranted, SemTypes, Word
    <3>2. /\ sem' = [sem EXCEPT ![s] = sem[s] - 1] /\ sem \in [SEM -> Word]
          /\ UNCHANGED <<status, current, current_runtime, waiting>> /\ SemFrame
      BY <2>2 DEF SemWaitGranted, SemTypes
    <3>3. SemTypes'
      BY <3>1, <3>2 DEF SemTypes, TypeOK, SemFrame
    <3>4. BootReady' /\ RunsOneOfMany' /\ PidIsIndex'
      BY <3>2 DEF SemFrame, BootReady, RunsOneOfMany, PidIsIndex
    <3>5. WaitsForOne'
      <4>1. \A i \in pcballoc : status[i] = "WAITING" => waiting[i].sem_id # s
        BY <3>1 DEF WaitsForOne
      <4> QED BY <3>2, <4>1 DEF SemFrame, WaitsForOne, semwait_t
    <3> QED BY <3>3, <3>4, <3>5
  <2> QED BY <1>8, <2>1, <2>2 DEF SemWait
<1>9. CASE UNCHANGED vars
  BY <1>9 DEF vars, procVars, semVars, SemTypes, TypeOK, BootReady, RunsOneOfMany, PidIsIndex, WaitsForOne
<1> QED BY <1>1, <1>2, <1>3, <1>4, <1>5, <1>6, <1>7, <1>8, <1>9 DEF MutexNext, Others, SemFork

\* The invariant holds throughout.
LEMMA MutexInvariant == MutexSpec => []MutexInv
BY MutexInit, MutexStep, PTL DEF MutexSpec

-----------------------------------------------------------------------------
(* What it gives *)

\* Mutexes never lose a wakeup: whatever the order of waits, posts, kills and
\* exits, nobody waits for a unit that is there (do_sem_post, do_sem_wait).
THEOREM MutexNoLostWakeup == MutexSpec => []NoLostWakeup
<1>1. MutexInv => NoLostWakeup
  BY DEF MutexInv, WaitsForOne, NoLostWakeup
<1> QED BY <1>1, MutexInvariant, PTL

\* The semaphore words and the records of the waiters keep their types, and
\* whoever waits has a record to be woken by (do_sem_wait, do_fork's copy).
THEOREM MutexTypes == MutexSpec => []SemTypeOK
<1>1. MutexInv => SemTypeOK
  BY SemaphoreAssumption DEF MutexInv, SemTypes, WaitsForOne, SemTypeOK, semwait_t, SEM, Quantity
<1> QED BY <1>1, MutexInvariant, PTL

\* With waiters in the table the processor still belongs to exactly one
\* existing process, which is not waiting (next, context_switch).
THEOREM MutexOneExecuting == MutexSpec => []OneExecuting
<1>1. MutexInv => OneExecuting
  BY DEF MutexInv, RunsOneOfMany, OneExecuting, process_exists, CanRun
<1> QED BY <1>1, MutexInvariant, PTL

\* Setting a semaphore (SVC 8) leaves at most the value asked for: the
\* difference it posts never wraps around.
THEOREM MutexInitSets == MutexSpec => InitSets
<1> DEFINE Sets == \A s \in SEM, v \in Quantity : SemInit(s, v) => sem'[s] <= v
<1>1. MutexInv => [Sets]_vars
  <2> SUFFICES ASSUME MutexInv, NEW s \in SEM, NEW v \in Quantity, SemInit(s, v)
               PROVE  sem'[s] <= v
    OBVIOUS
  <2> DEFINE x == Wrapped(v - sem[s])
  <2>1. sem[s] \in Word /\ v \in Word /\ sem \in [SEM -> Word]
    BY SemaphoreAssumption DEF MutexInv, SemTypes, Word, Quantity
  <2>2. x \in Word /\ Wrapped(sem[s] + x) = v /\ (sem[s] = 0 => x = v)
    BY <2>1, SemaphoreAssumption DEF Wrapped, Word
  <2>3. do_sem_post(s, x)
    BY DEF SemInit
  <2> HIDE DEF x
  <2>4. sem'[s] = v \/ (sem[s] = 0 /\ sem'[s] = x - 1)
    BY <2>1, <2>2, <2>3, PostEffect
  <2> QED BY <2>1, <2>2, <2>4 DEF Word
<1> QED BY <1>1, MutexInvariant, PTL DEF InitSets
=============================================================================
