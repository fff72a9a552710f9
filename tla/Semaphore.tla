----------------------------- MODULE Semaphore -----------------------------
(***************************************************************************)
(* The counting semaphores of the kernel (kernel/hilevel.c, do_sem_post,   *)
(* do_sem_wait and SVC 8 to 0xA) on top of the process table.  A waiter    *)
(* leaves the scheduler's rotation by its status alone; a post hands its   *)
(* units straight to one waiter and puts it back.                          *)
(*                                                                         *)
(* The code has PCB_SIZE semaphores of 32 bits; here their number and the  *)
(* size of a word are parameters.  pcb[i].waiting is NoWait once freed: no *)
(* handler reads it then.                                                  *)
(***************************************************************************)
EXTENDS Process

CONSTANTS
  NSEM,       \* number of semaphores (PCB_SIZE in the code)
  SEM_MOD,    \* values of a semaphore word (2^32)
  MaxUnits,   \* bound on the quantities programs ask for
  NoWait      \* no semwait_t

ASSUME SemaphoreAssumption ==
  /\ NSEM \in Nat \ {0}
  /\ SEM_MOD \in Nat \ {0}
  /\ MaxUnits \in 1..(SEM_MOD - 1)
  /\ NoWait \notin [sem_id : 0..(NSEM - 1), x : 0..MaxUnits]

SEM       == 0..(NSEM - 1)
Word      == 0..(SEM_MOD - 1)
Quantity  == 0..MaxUnits
semwait_t == [sem_id : SEM, x : Quantity]

VARIABLES
  sem,       \* sem[s]
  waiting    \* pcb[i].waiting

semVars == <<sem, waiting>>
vars    == <<procVars, semVars>>

-----------------------------------------------------------------------------
(* The calls *)

SemInitState ==
  /\ Init
  /\ sem = [s \in SEM |-> 0]
  /\ waiting = [i \in PID |-> NoWait]

\* Arithmetic on a semaphore word: n lies less than one word off the range.
Wrapped(n) == IF n < 0 THEN n + SEM_MOD ELSE IF n >= SEM_MOD THEN n - SEM_MOD ELSE n

\* The processes a post of x units of s may wake.
Eligible(s, x) ==
  {i \in pcballoc \ {current} :
     status[i] = "WAITING" /\ waiting[i].sem_id = s /\ waiting[i].x <= x}

do_sem_post_NoWake(s, x) ==
  /\ sem' = [sem EXCEPT ![s] = Wrapped(@ + x)]
  /\ UNCHANGED <<status, waiting>>

do_sem_post_KeepsUnits(s, x) ==
  \/ /\ x # 0
     /\ \E i \in Eligible(s, x) :
          /\ FirstAfter(i, Eligible(s, x))
          /\ sem' = [sem EXCEPT ![s] = Wrapped(@ + x)]
          /\ status' = [status EXCEPT ![i] = "READY"]
          /\ waiting' = [waiting EXCEPT ![i] = NoWait]
  \/ /\ x = 0 \/ Eligible(s, x) = {}
     /\ sem' = [sem EXCEPT ![s] = Wrapped(@ + x)]
     /\ UNCHANGED <<status, waiting>>

\* do_sem_post(): the first eligible process after current gets what it
\* waits for and the semaphore keeps the rest; with none, it keeps all.
do_sem_post(s, x) ==
  \/ /\ x # 0
     /\ \E i \in Eligible(s, x) :
          /\ FirstAfter(i, Eligible(s, x))
          /\ sem' = [sem EXCEPT ![s] = Wrapped(@ + (x - waiting[i].x))]
          /\ status' = [status EXCEPT ![i] = "READY"]
          /\ waiting' = [waiting EXCEPT ![i] = NoWait]
  \/ /\ x = 0 \/ Eligible(s, x) = {}
     /\ sem' = [sem EXCEPT ![s] = Wrapped(@ + x)]
     /\ UNCHANGED <<status, waiting>>

\* What a semaphore call leaves alone in the process table.
SemFrame ==
  /\ fork_ret' = NoResult
  /\ UNCHANGED <<pcballoc, pid, base_priority, stack, heap, halted>>

\* SVC 9.
SemPost(s, x) ==
  /\ ~halted
  /\ do_sem_post(s, x)
  /\ SemFrame
  /\ UNCHANGED <<current, current_runtime>>

SemInit_Adds(s, init) ==
  /\ ~halted
  /\ init < PCB_SIZE
  /\ do_sem_post(s, init)
  /\ SemFrame
  /\ UNCHANGED <<current, current_runtime>>

\* SVC 8: a post of the difference, modulo the word.  An init of PCB_SIZE or
\* more is refused and nothing changes.
SemInit(s, init) ==
  /\ ~halted
  /\ init < PCB_SIZE
  /\ do_sem_post(s, Wrapped(init - sem[s]))
  /\ SemFrame
  /\ UNCHANGED <<current, current_runtime>>

SemWaitGranted_NoTest(s, x) ==
  /\ ~halted
  /\ sem' = [sem EXCEPT ![s] = @ - x]
  /\ SemFrame
  /\ UNCHANGED <<status, current, current_runtime, waiting>>

\* SVC 0xA with units enough.
SemWaitGranted(s, x) ==
  /\ ~halted
  /\ sem[s] >= x
  /\ sem' = [sem EXCEPT ![s] = @ - x]
  /\ SemFrame
  /\ UNCHANGED <<status, current, current_runtime, waiting>>

\* SVC 0xA without: the caller waits, and next() runs.
SemWaitBlocked(s, x) ==
  /\ ~halted
  /\ sem[s] < x
  /\ waiting' = [waiting EXCEPT ![current] = [sem_id |-> s, x |-> x]]
  /\ next(pcballoc, [status EXCEPT ![current] = "WAITING"], "WAITING", 0)
  /\ SemFrame
  /\ UNCHANGED sem

SemWait(s, x) == SemWaitGranted(s, x) \/ SemWaitBlocked(s, x)

\* SVC 0xA with an id out of range, NSEM say: do_exit, then the test of the
\* word found beyond the array goes either way.  Granted, the call returns;
\* not, the caller is queued and next() runs.
SemWaitInvalid(x) ==
  /\ ~halted
  /\ do_exit
  /\ \/ /\ status' = [status EXCEPT ![current] = "TERMINATED"]
        /\ UNCHANGED <<current, current_runtime, waiting>>
     \/ /\ ~halted'
        /\ waiting' = [waiting EXCEPT ![current] = [sem_id |-> NSEM, x |-> x]]
        /\ next(pcballoc', [status EXCEPT ![current] = "WAITING"], "WAITING", 0)
  /\ UNCHANGED sem

\* do_fork copies waiting with the rest of the PCB.
SemForkOk(c, s) ==
  /\ ForkOk(c, s)
  /\ waiting' = [waiting EXCEPT ![c] = waiting[current]]
  /\ UNCHANGED sem

-----------------------------------------------------------------------------
(* Specifications *)

\* The other calls, as in Process.
Others ==
  /\ \/ Tick
     \/ Yield
     \/ ForkFull
     \/ \E p \in PID, x \in 0..MaxPriority : Nice(p, x)
  /\ UNCHANGED semVars

SemFork == \E c \in PID, s \in Stacks : SemForkOk(c, s)

\* The system as its programs use it.  The boot program stays and never
\* waits, nobody kills itself, and semaphores are mutexes: set to 1, and
\* taken and given back in units of one (philosophers.c, semtest.c).
MutexNext ==
  \/ Others
  \/ SemFork
  \/ current # BOOT /\ Exit /\ UNCHANGED semVars
  \/ \E p \in PID \ {BOOT, current} : Kill(p) /\ UNCHANGED semVars
  \/ \E s \in SEM : SemInit(s, 1)
  \/ \E s \in SEM : SemPost(s, 1)
  \/ \E s \in SEM : current # BOOT /\ SemWait(s, 1)

MutexSpec == SemInitState /\ [][MutexNext]_vars

\* The same discipline, with any quantities.
UnitsNext ==
  \/ Others
  \/ SemFork
  \/ current # BOOT /\ Exit /\ UNCHANGED semVars
  \/ \E s \in SEM, x \in Quantity : SemInit(s, x)
  \/ \E s \in SEM, x \in Quantity : SemPost(s, x)
  \/ \E s \in SEM, x \in Quantity : current # BOOT /\ SemWait(s, x)

UnitsSpec == SemInitState /\ [][UnitsNext]_vars

\* Any program: the boot program may wait and exit like any other, and ids may
\* be out of range.
AnyoneNext ==
  \/ Others
  \/ SemFork
  \/ Exit /\ UNCHANGED semVars
  \/ \E p \in PID : Kill(p) /\ UNCHANGED semVars
  \/ \E s \in SEM, x \in Quantity : SemInit(s, x) \/ SemPost(s, x) \/ SemWait(s, x)
  \/ \E x \in Quantity : SemWaitInvalid(x)

AnyoneSpec == SemInitState /\ [][AnyoneNext]_vars

-----------------------------------------------------------------------------
(* Properties *)

\* Types of the two new fields; whoever waits has something to wait for.
SemTypeOK ==
  /\ TypeOK
  /\ sem \in [SEM -> Word]
  /\ waiting \in [PID -> semwait_t \cup {NoWait}]
  /\ \A i \in pcballoc : status[i] = "WAITING" => waiting[i] # NoWait

\* xlibc.h:47: sem_wait waits "for semaphore sem_id to by >=x".  No process
\* is left waiting for units that are there (do_sem_post, do_sem_wait).
NoLostWakeup ==
  \A i \in pcballoc :
    status[i] = "WAITING" => sem[waiting[i].sem_id] < waiting[i].x

\* The comment on SVC 8 (hilevel.c:745): "Set semaphore sem_id to value init".
\* What is left of init after waking a waiter is never more than init.
InitSets ==
  [][\A s \in SEM, v \in Quantity : SemInit(s, v) => sem'[s] <= v]_vars
=============================================================================
