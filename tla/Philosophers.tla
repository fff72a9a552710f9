---------------------------- MODULE Philosophers ---------------------------
(***************************************************************************)
(* The dining philosophers (user/philosophers.c) on the kernel of          *)
(* Semaphore: one spawner, here the boot program, and PHIL_COUNT children. *)
(* Each step is one system call by the process that has the processor; the *)
(* timer may interrupt between any two.  The pipes that carry the drawing  *)
(* back to the spawner never block and are left out.                       *)
(***************************************************************************)
EXTENDS Semaphore

CONSTANT PHIL_COUNT   \* 16 in philosophers.c

ASSUME PhilosophersAssumption ==
  /\ PHIL_COUNT \in 2..(PCB_SIZE - 1)
  /\ PHIL_COUNT <= NSEM

VARIABLES
  pc,          \* where each process is in its program
  left_fork    \* phil_thinker's argument; the spawner's loop variable i

philVars == <<vars, pc, left_fork>>

PC == {"init", "spawn", "serve", "think", "one_fork", "eat", "put_down"}

-----------------------------------------------------------------------------
(* phil_thinker *)

right_fork(f) == IF f = PHIL_COUNT - 1 THEN 0 ELSE f + 1

left_first_Always(f) == TRUE

left_first(f) == f < right_fork(f)

FIRST_FORK(f)  == IF left_first(f) THEN f ELSE right_fork(f)
SECOND_FORK(f) == IF left_first(f) THEN right_fork(f) ELSE f

\* The caller at program point "from" goes to "to".  A process that blocks is
\* also taken to "to": that is where it resumes.
Goes(from, to) ==
  /\ pc[current] = from
  /\ pc' = [pc EXCEPT ![current] = to]
  /\ UNCHANGED left_fork

TakeFirst  == Goes("think", "one_fork") /\ SemWait(FIRST_FORK(left_fork[current]), 1)
TakeSecond == Goes("one_fork", "eat") /\ SemWait(SECOND_FORK(left_fork[current]), 1)
PutFirst   == Goes("eat", "put_down") /\ SemPost(FIRST_FORK(left_fork[current]), 1)

PutSecond_SameFork ==
  Goes("put_down", "think") /\ SemPost(FIRST_FORK(left_fork[current]), 1)

PutSecond  == Goes("put_down", "think") /\ SemPost(SECOND_FORK(left_fork[current]), 1)

phil_thinker == TakeFirst \/ TakeSecond \/ PutFirst \/ PutSecond

-----------------------------------------------------------------------------
(* phil_spawner *)

\* The loop variable moves on, and the loop ends in "to".
Loop(to) ==
  /\ left_fork' = [left_fork EXCEPT ![current] = (@ + 1) % PHIL_COUNT]
  /\ pc' = IF left_fork[current] + 1 = PHIL_COUNT THEN [pc EXCEPT ![current] = to]
           ELSE pc

InitFork ==
  /\ pc[current] = "init"
  /\ SemInit(left_fork[current], 1)
  /\ Loop("spawn")

\* The child starts in phil_thinker with the loop variable as argument.
\* Which stack malloc picks is immaterial.
Spawn ==
  LET i == left_fork[current]
      s == CHOOSE t \in Stacks \ heap : TRUE
  IN  /\ pc[current] = "spawn"
      /\ \E c \in PID :
           /\ SemForkOk(c, s)
           /\ left_fork' = [left_fork EXCEPT ![current] = (i + 1) % PHIL_COUNT, ![c] = i]
           /\ pc' = [pc EXCEPT ![current] = IF i + 1 = PHIL_COUNT THEN "serve" ELSE @,
                               ![c] = "think"]

\* Read what the philosophers drew, print it, yield.
Serve ==
  /\ pc[current] = "serve"
  /\ Yield
  /\ UNCHANGED <<semVars, pc, left_fork>>

phil_spawner == InitFork \/ Spawn \/ Serve

-----------------------------------------------------------------------------
(* Specification *)

PhilInit ==
  /\ SemInitState
  /\ pc = [p \in PID |-> "init"]
  /\ left_fork = [p \in PID |-> 0]

PhilTick == Tick /\ UNCHANGED <<semVars, pc, left_fork>>

\* Process p runs to its next system call.
Run(p) == current = p /\ (phil_thinker \/ phil_spawner)

PhilNext == PhilTick \/ \E p \in PID : Run(p)

PhilSpec == PhilInit /\ [][PhilNext]_philVars

\* Timer 1 is periodic, and a process that keeps getting time slices reaches
\* its next call: eat() is a finite loop and slices add up.
FairPhilSpec ==
  /\ PhilSpec
  /\ WF_philVars(PhilTick)
  /\ \A p \in PID : SF_philVars(Run(p))

-----------------------------------------------------------------------------
(* Properties *)

\* The philosophers at the table.
Philosophers == {p \in pcballoc \ {BOOT} : pc[p] \in {"think", "one_fork", "eat", "put_down"}}

\* The forks philosopher p has taken and not put down.
Held(p) ==
  LET f == left_fork[p]
  IN  CASE pc[p] = "one_fork" -> IF status[p] = "WAITING" THEN {} ELSE {FIRST_FORK(f)}
        [] pc[p] = "eat"      -> IF status[p] = "WAITING" THEN {FIRST_FORK(f)}
                                 ELSE {FIRST_FORK(f), SECOND_FORK(f)}
        [] pc[p] = "put_down" -> {SECOND_FORK(f)}
        [] OTHER              -> {}

\* A fork is on the table or in exactly one hand, so neighbours never eat
\* together: handing a unit to a waiter, taking it and putting it back add
\* up, wherever the timer strikes (philosophers.c:58, "semaphores as mutexes").
ForksConserved ==
  \A f \in 0..(PHIL_COUNT - 1) :
    LET holders == {p \in Philosophers : f \in Held(p)}
    IN  IF pc[BOOT] = "init" /\ left_fork[BOOT] <= f THEN sem[f] = 0 /\ holders = {}
        ELSE sem[f] + Cardinality(holders) = 1

\* philosophers.c:15: the last philosopher's order avoids "a situation in
\* which all philosophers have picked up their left fork and are waiting for
\* their right"; no situation has them all waiting.
NotAllWaiting ==
  pc[BOOT] = "serve" => \E p \in Philosophers : status[p] # "WAITING"

\* Once spawned, every philosopher eats again and again: no fork is given to
\* the same neighbour for ever.
EveryoneEats ==
  \A p \in PID \ {BOOT} :
    p <= PHIL_COUNT => []<>(pc[p] = "eat" /\ current = p)
=============================================================================
