------------------------------ MODULE Process ------------------------------
(***************************************************************************)
(* The process table and the weighted round-robin scheduler of the kernel  *)
(* (kernel/hilevel.c).  Handlers run with interrupts masked, so every      *)
(* system call and every timer interrupt is one atomic action.             *)
(*                                                                         *)
(* Each field of pcb_t is a function on PCB indexes under the field's own  *)
(* name.  pcballoc, a 32-bit mask in the code, is the set of its one bits. *)
(* The initial state is the one hilevel_handler_rst hands to user mode.    *)
(*                                                                         *)
(* Two specifications share the actions.  Spec lets the processes issue    *)
(* any sequence of calls.  OrderlySpec leaves out a process that kills     *)
(* itself, where it should exit, and a heap too full for one more stack.   *)
(***************************************************************************)
EXTENDS Integers, FiniteSets

CONSTANTS
  PCB_SIZE,       \* number of PCB entries (32 in hilevel.h)
  INIT_PRIORITY,  \* priority given to the boot program (5)
  MaxPriority,    \* bound on the priorities user programs pass to nice
  Stacks,         \* the stack areas malloc can hand out
  NoStack         \* the null stack pointer of a PCB that was never used

ASSUME ProcessAssumption ==
  /\ PCB_SIZE \in Nat \ {0}
  /\ MaxPriority \in Nat
  /\ INIT_PRIORITY \in 0..MaxPriority
  /\ NoStack \notin Stacks
  /\ Stacks # {}

PID       == 0..(PCB_SIZE - 1)
BOOT      == 0                      \* PCB of INIT_PROGRAM, the first one made
CanRun    == {"CREATED", "READY"}   \* status < STATUS_EXECUTING
Status    == CanRun \cup {"EXECUTING", "WAITING", "TERMINATED"}
NoResult  == -3                     \* the last call was not a fork

VARIABLES
  pcballoc,         \* set of allocated PCB indexes
  pid,              \* pcb[i].pid
  status,           \* pcb[i].status
  base_priority,    \* pcb[i].base_priority
  stack,            \* pcb[i].stack
  heap,             \* stack areas malloc has handed out and nobody freed
  current,          \* index of the PCB whose registers are loaded
  current_runtime,  \* ticks since next() last ran
  halted,           \* halt() was entered: interrupts off, while (1)
  fork_ret          \* r0 of the caller if the last call was a fork

procVars == <<pcballoc, pid, status, base_priority, stack, heap, current,
              current_runtime, halted, fork_ret>>

-----------------------------------------------------------------------------
(* Helpers *)

process_exists(i) == i \in pcballoc

process_can_run(i) == process_exists(i) /\ status[i] \in CanRun

\* The processes next() may switch to, in a table with the given mask and
\* status fields: every runnable entry but the current one.
Candidates(alloc, stat) == {i \in alloc : stat[i] \in CanRun} \ {current}

\* How many steps the scan takes from entry i to entry j: (j - i) modulo
\* PCB_SIZE.
Dist(i, j) == IF j >= i THEN j - i ELSE j - i + PCB_SIZE

FirstAfter_LowestIndex(i, S) == i \in S /\ \A j \in S : i <= j

\* The scan starts at current + 1, wraps, and stops at its first hit.
FirstAfter(i, S) == i \in S /\ \A j \in S : Dist(current, i) <= Dist(current, j)

\* pcballoc -= (1 << i) on the mask: bit i flips, and with bit i clear the
\* borrow also flips every bit above it up to the next one set.
ClearBit(mask, i) ==
  {j \in PID : (j \in mask) # (j >= i /\ \A k \in i..(j - 1) : k \notin mask)}

context_switch_KeepsStatus(i, stat, from_stat) ==
  /\ status'  = [stat EXCEPT ![i] = "EXECUTING"]
  /\ current' = pid[i]

context_switch(i, stat, from_stat) ==
  /\ status'  = [stat EXCEPT ![current] = from_stat, ![i] = "EXECUTING"]
  /\ current' = pid[i]

\* next(): rt is the value current_runtime is left with.  When no other
\* process can run, the current one simply goes on.
next(alloc, stat, cur_stat, rt) ==
  /\ current_runtime' = rt
  /\ LET C == Candidates(alloc, stat)
     IN  \/ /\ C = {}
            /\ status' = stat /\ UNCHANGED current
         \/ \E i \in C : FirstAfter(i, C) /\ context_switch(i, stat, cur_stat)

\* schedule(): next() leaves current_runtime 0, the increment makes it 1.
schedule ==
  \/ /\ current_runtime >= base_priority[current]
     /\ next(pcballoc, status, "READY", 1)
  \/ /\ current_runtime < base_priority[current]
     /\ current_runtime' = current_runtime + 1
     /\ UNCHANGED <<status, current>>

\* new_pcb_entry() returns i: the lowest index whose bit is clear.
new_pcb_entry(i) ==
  /\ i \in PID \ pcballoc
  /\ \A j \in PID : j < i => process_exists(j)

-----------------------------------------------------------------------------
(* Actions *)

Init ==
  /\ pcballoc        = {BOOT}
  /\ pid             = [i \in PID |-> 0]
  /\ status          = [i \in PID |-> IF i = BOOT THEN "EXECUTING" ELSE "CREATED"]
  /\ base_priority   = [i \in PID |-> IF i = BOOT THEN INIT_PRIORITY ELSE 0]
  /\ \E s \in Stacks :
       /\ stack = [i \in PID |-> IF i = BOOT THEN s ELSE NoStack]
       /\ heap  = {s}
  /\ current         = BOOT
  /\ current_runtime = 0
  /\ halted          = FALSE
  /\ fork_ret        = NoResult

\* hilevel_handler_irq on GIC_SOURCE_TIMER0.
Tick ==
  /\ ~halted
  /\ schedule
  /\ fork_ret' = NoResult
  /\ UNCHANGED <<pcballoc, pid, base_priority, stack, heap, halted>>

\* SVC 0.
Yield ==
  /\ ~halted
  /\ next(pcballoc, status, "READY", 0)
  /\ fork_ret' = NoResult
  /\ UNCHANGED <<pcballoc, pid, base_priority, stack, heap, halted>>

copy_pcb_KeepsPid(c, p, stat, stk) ==
  /\ pcballoc'      = pcballoc \cup {c}
  /\ pid'           = [pid EXCEPT ![c] = pid[current]]
  /\ status'        = [status EXCEPT ![c] = stat]
  /\ base_priority' = [base_priority EXCEPT ![c] = base_priority[current]]
  /\ stack'         = [stack EXCEPT ![c] = stk]

\* Entry c becomes a copy of the caller's PCB with this pid, status and stack.
copy_pcb(c, p, stat, stk) ==
  /\ pcballoc'      = pcballoc \cup {c}
  /\ pid'           = [pid EXCEPT ![c] = p]
  /\ status'        = [status EXCEPT ![c] = stat]
  /\ base_priority' = [base_priority EXCEPT ![c] = base_priority[current]]
  /\ stack'         = [stack EXCEPT ![c] = stk]

\* do_fork with a free PCB c and a stack area s from malloc.
ForkOk(c, s) ==
  /\ ~halted
  /\ new_pcb_entry(c)
  /\ s \in Stacks \ heap
  /\ copy_pcb(c, c, "CREATED", s)
  /\ heap'          = heap \cup {s}
  /\ fork_ret'      = c
  /\ UNCHANGED <<current, current_runtime, halted>>

\* do_fork when malloc returns NULL: the PCB is already allocated and is a
\* copy of the caller's, stack pointer, pid and status included.
ForkNoMem(c) ==
  /\ ~halted
  /\ new_pcb_entry(c)
  /\ Stacks \subseteq heap
  /\ copy_pcb(c, pid[current], status[current], stack[current])
  /\ fork_ret'      = -2
  /\ UNCHANGED <<heap, current, current_runtime, halted>>

ForkFull_Unchecked ==
  /\ ~halted
  /\ PID \subseteq pcballoc
  /\ fork_ret' = PCB_SIZE
  /\ UNCHANGED <<pcballoc, pid, status, base_priority, stack, heap, current,
                 current_runtime, halted>>

\* do_fork with every PCB in use.
ForkFull ==
  /\ ~halted
  /\ PID \subseteq pcballoc
  /\ fork_ret' = -1
  /\ UNCHANGED <<pcballoc, pid, status, base_priority, stack, heap, current,
                 current_runtime, halted>>

\* do_exit(): everything but the scheduling that follows it.
do_exit ==
  /\ base_priority' = [base_priority EXCEPT ![current] = -1]
  /\ heap'          = heap \ {stack[current]}
  /\ pcballoc'      = ClearBit(pcballoc, current)
  /\ halted'        = (pcballoc' = {})
  /\ fork_ret'      = NoResult
  /\ UNCHANGED <<pid, stack>>

\* SVC 4: do_exit, then next unless do_exit halted the machine.
Exit ==
  LET stat == [status EXCEPT ![current] = "TERMINATED"]
  IN  /\ ~halted
      /\ do_exit
      /\ \/ /\ halted'
            /\ status' = stat
            /\ UNCHANGED <<current, current_runtime>>
         \/ /\ ~halted'
            /\ next(pcballoc', stat, "TERMINATED", 0)

Kill_Leak(p) ==
  /\ ~halted
  /\ process_exists(p)
  /\ pcballoc' = pcballoc \ {p}
  /\ halted'   = (pcballoc' = {})
  /\ fork_ret' = NoResult
  /\ UNCHANGED <<heap, pid, status, base_priority, stack, current, current_runtime>>

\* SVC 6 on an existing process.  A missing pid is a no-op.
Kill(p) ==
  /\ ~halted
  /\ process_exists(p)
  /\ pcballoc' = pcballoc \ {p}
  /\ heap'     = heap \ {stack[p]}
  /\ halted'   = (pcballoc' = {})
  /\ fork_ret' = NoResult
  /\ UNCHANGED <<pid, status, base_priority, stack, current, current_runtime>>

\* SVC 7: any PCB, allocated or not.
Nice(p, x) ==
  /\ ~halted
  /\ base_priority' = [base_priority EXCEPT ![p] = x]
  /\ fork_ret' = NoResult
  /\ UNCHANGED <<pcballoc, pid, status, stack, heap, current, current_runtime,
                 halted>>

-----------------------------------------------------------------------------
(* Specifications *)

Fork == ForkFull \/ \E c \in PID, s \in Stacks : ForkOk(c, s)

\* Any program: every call with every argument, whatever the heap holds.
Next ==
  \/ Tick
  \/ Yield
  \/ Fork
  \/ \E c \in PID : ForkNoMem(c)
  \/ Exit
  \/ \E p \in PID : Kill(p)
  \/ \E p \in PID, x \in 0..MaxPriority : Nice(p, x)

Spec == Init /\ [][Next]_procVars

\* No process kills itself and malloc always finds room for a stack.
OrderlyNext ==
  \/ Tick
  \/ Yield
  \/ Fork
  \/ Exit
  \/ \E p \in PID \ {current} : Kill(p)
  \/ \E p \in PID, x \in 0..MaxPriority : Nice(p, x)

OrderlySpec == Init /\ [][OrderlyNext]_procVars

\* SP804 timer 1 is periodic, so a tick is never put off for ever.
FairOrderlySpec == OrderlySpec /\ WF_procVars(Tick)

-----------------------------------------------------------------------------
(* Properties *)

\* Every variable has its C type, priorities within the bound.
TypeOK ==
  /\ pcballoc \subseteq PID
  /\ pid \in [PID -> PID]
  /\ status \in [PID -> Status]
  /\ base_priority \in [PID -> -1..MaxPriority]
  /\ stack \in [PID -> Stacks \cup {NoStack}]
  /\ heap \subseteq Stacks
  /\ current \in PID
  /\ current_runtime \in Nat
  /\ halted \in BOOLEAN
  /\ fork_ret \in PID \cup {-1, -2, NoResult}

\* The registers are those of an existing process marked EXECUTING, and no
\* other existing process is so marked or already over (context_switch,
\* do_exit, do_kill and do_fork between them).
OneExecuting ==
  ~halted =>
    /\ process_exists(current)
    /\ status[current] = "EXECUTING"
    /\ \A i \in pcballoc \ {current} : status[i] \notin {"EXECUTING", "TERMINATED"}

\* Every existing process is filed under its own pid: what fork returned is
\* what kill, nice and context_switch find.
PidIsIndex == \A i \in pcballoc : pid[i] = i

\* Each existing process has an allocated stack of its own, and an area is
\* allocated only while a process owns it: no sharing, no leak, no use after
\* free across fork, exit, kill and the reuse of a PCB.
StackOwnership ==
  /\ \A i, j \in pcballoc : stack[i] = stack[j] => i = j
  /\ heap = {stack[i] : i \in pcballoc}

\* Round robin: while a process can run, every switch to another process
\* brings the scan closer to it, so each of the others runs at most once
\* before it does (next(), whatever is forked or killed in between).
NoOvertaking ==
  [][\A p \in PID :
       process_can_run(p) /\ process_can_run(p)' /\ current' # current
         => Dist(current', p) < Dist(current, p)]_procVars

\* A process that can run gets the processor, unless it is killed first
\* (readme.md: a weighted round-robin scheduler based on timer interrupts).
RunnableRuns ==
  \A p \in PID : process_can_run(p) ~> (current = p \/ ~process_can_run(p))
=============================================================================
