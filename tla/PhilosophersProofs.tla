------------------------- MODULE PhilosophersProofs -------------------------
(***************************************************************************)
(* The dining philosophers (user/philosophers.c) for every number of seats *)
(* and every process table that has room for them: each fork is in one     *)
(* place, and the philosophers never all wait.                             *)
(***************************************************************************)
EXTENDS Philosophers, SemaphoreProofs, LeastElement

-----------------------------------------------------------------------------
(* The invariant *)

Forks == 0..(PHIL_COUNT - 1)
Seats == pcballoc \ {BOOT}

\* The spawner is alone, then seats one philosopher after the other in the
\* order of the forks, and then all sit.
Seated ==
  /\ pc \in [PID -> PC] /\ left_fork \in [PID -> Forks]
  /\ pc[BOOT] \in {"init", "spawn", "serve"}
  /\ pc[BOOT] = "init" => pcballoc = {BOOT}
  /\ pc[BOOT] = "spawn" => pcballoc = 0..left_fork[BOOT]
  /\ pc[BOOT] = "serve" => pcballoc = 0..PHIL_COUNT
  /\ \A p \in Seats : /\ pc[p] \in {"think", "one_fork", "eat", "put_down"}
                      /\ left_fork[p] = p - 1

\* A philosopher who waits does so for the fork its program point says.
WaitsForFork ==
  \A p \in Seats : status[p] = "WAITING" =>
    \/ pc[p] = "one_fork" /\ waiting[p].sem_id = FIRST_FORK(left_fork[p])
    \/ pc[p] = "eat" /\ waiting[p].sem_id = SECOND_FORK(left_fork[p])

\* Fork f has not been laid yet.
Unlaid(f) == pc[BOOT] = "init" /\ left_fork[BOOT] <= f

\* Every fork that has been laid is on the table or in one hand.
OnePlace ==
  \A f \in Forks :
    \/ Unlaid(f) /\ sem[f] = 0 /\ \A p \in Seats : f \notin Held(p)
    \/ ~Unlaid(f) /\ sem[f] = 1 /\ \A p \in Seats : f \notin Held(p)
    \/ /\ ~Unlaid(f) /\ sem[f] = 0
       /\ \E p \in Seats : f \in Held(p) /\ \A q \in Seats : f \in Held(q) => q = p

PhilInv == MutexInv /\ Seated /\ WaitsForFork /\ OnePlace

-----------------------------------------------------------------------------
(* Forks *)

\* A philosopher's two forks are two, and the first has the lower number: the
\* test of phil_thinker turns the last philosopher's order around.
LEMMA ForkOrder ==
  ASSUME NEW f \in Forks
  PROVE  /\ FIRST_FORK(f) \in Forks /\ SECOND_FORK(f) \in Forks
         /\ FIRST_FORK(f) < SECOND_FORK(f)
         /\ FIRST_FORK(f) \in SEM /\ SECOND_FORK(f) \in SEM
BY PhilosophersAssumption, SemaphoreAssumption, ProcessAssumption
   DEF Forks, SEM, FIRST_FORK, SECOND_FORK, left_first, right_fork

\* What a hand holds, by its owner's program point, status and place.
Hand(at, stat, f) ==
  {g \in {FIRST_FORK(f), SECOND_FORK(f)} :
     \/ g = FIRST_FORK(f) /\ (at = "eat" \/ (at = "one_fork" /\ stat # "WAITING"))
     \/ g = SECOND_FORK(f) /\ (at = "put_down" \/ (at = "eat" /\ stat # "WAITING"))}

\* Held is Hand of the three fields, in this state and in the next.
LEMMA HeldIsHand ==
  ASSUME NEW p
  PROVE  /\ Held(p) = Hand(pc[p], status[p], left_fork[p])
         /\ Held(p)' = Hand(pc'[p], status'[p], left_fork'[p])
<1>1. Held(p) = Hand(pc[p], status[p], left_fork[p])
  BY DEF Held, Hand
<1>2. Held(p)' = Hand(pc'[p], status'[p], left_fork'[p])
  BY DEF Held, Hand
<1> QED BY <1>1, <1>2

\* The contents of a hand at each program point of phil_thinker.
LEMMA HandAt ==
  ASSUME NEW f \in Forks, NEW stat
  PROVE  /\ Hand("think", stat, f) = {}
         /\ stat # "WAITING" => Hand("one_fork", stat, f) = {FIRST_FORK(f)}
         /\ stat = "WAITING" => Hand("one_fork", stat, f) = {}
         /\ stat = "WAITING" => Hand("eat", stat, f) = {FIRST_FORK(f)}
         /\ stat # "WAITING" => Hand("eat", stat, f) = {FIRST_FORK(f), SECOND_FORK(f)}
         /\ Hand("put_down", stat, f) = {SECOND_FORK(f)}
BY ForkOrder DEF Hand

\* Only whether its owner waits matters of a status.
LEMMA HandByWaiting ==
  ASSUME NEW at, NEW f, NEW s1, NEW s2, s1 = "WAITING" <=> s2 = "WAITING"
  PROVE  Hand(at, s1, f) = Hand(at, s2, f)
BY DEF Hand

\* The forks are among the semaphores.
LEMMA ForksAreSems == Forks \subseteq SEM
BY PhilosophersAssumption, SemaphoreAssumption, ProcessAssumption DEF Forks, SEM

\* Who the caller is follows from its program point.
LEMMA Caller ==
  ASSUME PhilInv
  PROVE  /\ pc[current] \in {"init", "spawn", "serve"} => current = BOOT
         /\ pc[current] \in {"think", "one_fork", "eat", "put_down"} => current \in Seats
         /\ current \in pcballoc /\ current \in PID /\ BOOT \in pcballoc /\ BOOT \in PID
         /\ pcballoc \subseteq PID /\ status[current] = "EXECUTING"
         /\ left_fork[current] \in Forks
BY DEF PhilInv, Seated, Seats, MutexInv, RunsOneOfMany, BootReady, SemTypes, TypeOK

-----------------------------------------------------------------------------
(* Steps that move no fork *)

\* The hands and the words are the same.
LEMMA HandsStay ==
  ASSUME OnePlace, sem' = sem, Seats' = Seats,
         \A g \in Forks : Unlaid(g)' = Unlaid(g), \A p \in Seats : Held(p)' = Held(p)
  PROVE  OnePlace'
<1> SUFFICES ASSUME NEW g \in Forks
             PROVE  \/ Unlaid(g)' /\ sem'[g] = 0 /\ \A p \in Seats : g \notin Held(p)'
                    \/ ~Unlaid(g)' /\ sem'[g] = 1 /\ \A p \in Seats : g \notin Held(p)'
                    \/ /\ ~Unlaid(g)' /\ sem'[g] = 0
                       /\ \E p \in Seats : g \in Held(p)' /\ \A q \in Seats : g \in Held(q)' => q = p
  BY DEF OnePlace
<1>1. \A p \in Seats : g \in Held(p)' <=> g \in Held(p)
  OBVIOUS
<1> QED BY <1>1 DEF OnePlace

\* Program points, waiters and words are the same: so are the hands.
LEMMA NothingMoves ==
  ASSUME PhilInv, MutexInv', UNCHANGED <<pcballoc, sem, waiting, pc, left_fork>>,
         \A i \in pcballoc : status'[i] = "WAITING" <=> status[i] = "WAITING"
  PROVE  PhilInv'
<1>1. Seated'
  BY DEF PhilInv, Seated, Seats
<1>2. WaitsForFork'
  BY DEF PhilInv, WaitsForFork, Seats
<1>3. \A p \in Seats : Held(p)' = Held(p)
  BY HeldIsHand, HandByWaiting DEF Seats
<1>4. OnePlace'
  BY <1>3 DEF PhilInv, OnePlace, Seats, Unlaid
<1> QED BY <1>1, <1>2, <1>4 DEF PhilInv

\* A philosopher's program moves on: the others and the table stay as they are.
LEMMA SeatedMoves ==
  ASSUME PhilInv, NEW from \in PC, NEW to \in {"think", "one_fork", "eat", "put_down"},
         current \in Seats, Goes(from, to), pcballoc' = pcballoc
  PROVE  /\ Seated' /\ Seats' = Seats /\ left_fork' = left_fork
         /\ pc'[current] = to /\ pc[current] = from
         /\ \A p \in Seats \ {current} : pc'[p] = pc[p]
         /\ \A f \in Forks : Unlaid(f)' = Unlaid(f)
<1>1. current \in PID /\ BOOT \in PID /\ pcballoc \subseteq PID /\ current # BOOT
  BY Caller DEF Seats
<1>2. /\ left_fork' = left_fork /\ pc' = [pc EXCEPT ![current] = to]
      /\ pc \in [PID -> PC] /\ left_fork \in [PID -> Forks]
      /\ pc[current] = from /\ to \in PC
  BY DEF Goes, PhilInv, Seated, PC
<1>3. pc'[current] = to /\ pc' \in [PID -> PC] /\ \A p \in PID \ {current} : pc'[p] = pc[p]
  BY <1>1, <1>2
<1>4. Seated'
  BY <1>1, <1>2, <1>3 DEF PhilInv, Seated, Seats
<1>5. \A f \in Forks : Unlaid(f)' = Unlaid(f)
  BY <1>1, <1>2, <1>3 DEF Unlaid
<1> QED BY <1>1, <1>2, <1>3, <1>4, <1>5 DEF Seats

-----------------------------------------------------------------------------
(* Taking a fork *)

\* Fork f goes from the table to the caller's hand.
LEMMA Taken ==
  ASSUME OnePlace, NEW f \in Forks, NEW c \in Seats, sem \in [SEM -> Word],
         sem[f] >= 1, sem' = [sem EXCEPT ![f] = @ - 1],
         Seats' = Seats, \A g \in Forks : Unlaid(g)' = Unlaid(g),
         Held(c)' = Held(c) \cup {f}, \A p \in Seats \ {c} : Held(p)' = Held(p)
  PROVE  OnePlace'
<1>1. sem[f] = 1 /\ sem'[f] = 0 /\ \A g \in Forks \ {f} : sem'[g] = sem[g]
  <2>1. sem[f] = 1
    BY DEF OnePlace
  <2> QED BY <2>1, ForksAreSems
<1> SUFFICES ASSUME NEW g \in Forks
             PROVE  \/ Unlaid(g)' /\ sem'[g] = 0 /\ \A p \in Seats : g \notin Held(p)'
                    \/ ~Unlaid(g)' /\ sem'[g] = 1 /\ \A p \in Seats : g \notin Held(p)'
                    \/ /\ ~Unlaid(g)' /\ sem'[g] = 0
                       /\ \E p \in Seats : g \in Held(p)' /\ \A q \in Seats : g \in Held(q)' => q = p
  BY DEF OnePlace
<1>2. CASE g = f
  <2>1. ~Unlaid(f) /\ \A p \in Seats : f \notin Held(p)
    BY <1>1 DEF OnePlace
  <2>2. f \in Held(c)' /\ \A q \in Seats : f \in Held(q)' => q = c
    BY <2>1
  <2> QED BY <1>1, <1>2, <2>1, <2>2
<1>3. CASE g # f
  <2>1. \A p \in Seats : g \in Held(p)' <=> g \in Held(p)
    BY <1>3
  <2> QED BY <1>1, <1>3, <2>1 DEF OnePlace
<1> QED BY <1>2, <1>3

\* TakeFirst and TakeSecond when the fork is there.
LEMMA TakeStep ==
  ASSUME PhilInv, MutexInv', NEW f \in Forks, SemWaitGranted(f, 1),
         \/ f = FIRST_FORK(left_fork[current]) /\ Goes("think", "one_fork")
         \/ f = SECOND_FORK(left_fork[current]) /\ Goes("one_fork", "eat")
  PROVE  PhilInv'
<1> DEFINE l == left_fork[current]
<1>0. /\ current \in PID /\ pcballoc \subseteq PID /\ status[current] = "EXECUTING" /\ l \in Forks
      /\ current \in Seats
  BY Caller DEF Goes
<1>1. pcballoc' = pcballoc /\ status' = status /\ waiting' = waiting
  BY DEF SemWaitGranted, SemFrame
<1>2. /\ Seated' /\ Seats' = Seats /\ left_fork' = left_fork
      /\ \A p \in Seats \ {current} : pc'[p] = pc[p]
      /\ \A g \in Forks : Unlaid(g)' = Unlaid(g)
      /\ \/ f = FIRST_FORK(l) /\ pc[current] = "think" /\ pc'[current] = "one_fork"
         \/ f = SECOND_FORK(l) /\ pc[current] = "one_fork" /\ pc'[current] = "eat"
  BY <1>0, <1>1, SeatedMoves DEF PC
<1>3. WaitsForFork'
  BY <1>0, <1>1, <1>2 DEF PhilInv, WaitsForFork
<1> PICK c \in Seats : c = current
  BY <1>0
<1>4. Held(c)' = Held(c) \cup {f}
  <2>1. /\ Held(c) = Hand(pc[current], "EXECUTING", l)
        /\ Held(c)' = Hand(pc'[current], "EXECUTING", l)
    BY <1>0, <1>1, <1>2, HeldIsHand
  <2>2. CASE f = FIRST_FORK(l) /\ pc[current] = "think" /\ pc'[current] = "one_fork"
    <3>1. Held(c) = {} /\ Held(c)' = {f}
      BY <1>0, <2>1, <2>2, HandAt
    <3> QED BY <3>1
  <2>3. CASE f = SECOND_FORK(l) /\ pc[current] = "one_fork" /\ pc'[current] = "eat"
    <3>1. Held(c) = {FIRST_FORK(l)} /\ Held(c)' = {FIRST_FORK(l), f}
      BY <1>0, <2>1, <2>3, HandAt
    <3> QED BY <3>1
  <2> QED BY <1>2, <2>2, <2>3
<1>5. \A p \in Seats \ {c} : Held(p)' = Held(p)
  BY <1>1, <1>2, HeldIsHand
<1>6. sem \in [SEM -> Word] /\ sem[f] >= 1 /\ sem' = [sem EXCEPT ![f] = @ - 1]
  BY DEF PhilInv, MutexInv, SemTypes, SemWaitGranted
<1>7. OnePlace'
  BY <1>2, <1>4, <1>5, <1>6, Taken DEF PhilInv
<1> QED BY <1>2, <1>3, <1>7 DEF PhilInv

\* TakeFirst and TakeSecond when it is not: the philosopher's hand stays as it
\* is, and its record names the fork.
LEMMA BlockedStep ==
  ASSUME PhilInv, MutexInv', NEW f \in Forks, SemWaitBlocked(f, 1),
         \/ f = FIRST_FORK(left_fork[current]) /\ Goes("think", "one_fork")
         \/ f = SECOND_FORK(left_fork[current]) /\ Goes("one_fork", "eat")
  PROVE  PhilInv'
<1> DEFINE l == left_fork[current]
<1>0. /\ current \in PID /\ pcballoc \subseteq PID /\ status[current] = "EXECUTING" /\ l \in Forks
      /\ current \in Seats /\ current # BOOT
  BY Caller DEF Goes, Seats
<1>1. /\ pcballoc' = pcballoc /\ sem' = sem
      /\ waiting' = [waiting EXCEPT ![current] = [sem_id |-> f, x |-> 1]]
  BY DEF SemWaitBlocked, SemFrame
<1>2. /\ Seated' /\ Seats' = Seats /\ left_fork' = left_fork
      /\ \A p \in Seats \ {current} : pc'[p] = pc[p]
      /\ \A g \in Forks : Unlaid(g)' = Unlaid(g)
      /\ \/ f = FIRST_FORK(l) /\ pc[current] = "think" /\ pc'[current] = "one_fork"
         \/ f = SECOND_FORK(l) /\ pc[current] = "one_fork" /\ pc'[current] = "eat"
  BY <1>0, <1>1, SeatedMoves DEF PC
<1>3. /\ status'[current] = "WAITING"
      /\ \A p \in Seats \ {current} : status'[p] = "WAITING" <=> status[p] = "WAITING"
  BY <1>0, ForksAreSems, BlockMakesWaiter DEF PhilInv, Seats
<1>4. waiting'[current].sem_id = f /\ \A p \in Seats \ {current} : waiting'[p] = waiting[p]
  BY <1>0, <1>1 DEF PhilInv, MutexInv, SemTypes, Seats
<1>5. WaitsForFork'
  <2>1. ASSUME NEW p \in Seats, p # current, status'[p] = "WAITING"
        PROVE  \/ pc'[p] = "one_fork" /\ waiting'[p].sem_id = FIRST_FORK(left_fork'[p])
               \/ pc'[p] = "eat" /\ waiting'[p].sem_id = SECOND_FORK(left_fork'[p])
    BY <1>2, <1>3, <1>4, <2>1 DEF PhilInv, WaitsForFork
  <2> QED BY <1>2, <1>4, <2>1 DEF WaitsForFork
<1> PICK c \in Seats : c = current
  BY <1>0
<1>6. Held(c)' = Held(c)
  <2>1. /\ Held(c) = Hand(pc[current], "EXECUTING", l)
        /\ Held(c)' = Hand(pc'[current], "WAITING", l)
    BY <1>0, <1>2, <1>3, HeldIsHand
  <2> QED BY <1>0, <1>2, <2>1, HandAt
<1>7. ASSUME NEW p \in Seats \ {c} PROVE Held(p)' = Held(p)
  <2>1. Held(p) = Hand(pc[p], status[p], left_fork[p]) /\ Held(p)' = Hand(pc[p], status'[p], left_fork[p])
    BY <1>2, HeldIsHand
  <2>2. status'[p] = "WAITING" <=> status[p] = "WAITING"
    BY <1>3
  <2> QED BY <2>1, <2>2, HandByWaiting
<1>8. \A p \in Seats : Held(p)' = Held(p)
  BY <1>6, <1>7
<1>9. OnePlace'
  BY <1>1, <1>2, <1>8, HandsStay DEF PhilInv
<1> QED BY <1>2, <1>5, <1>9 DEF PhilInv

-----------------------------------------------------------------------------
(* Putting a fork down *)

\* Fork f goes from hand c back to the table.
LEMMA PutBack ==
  ASSUME OnePlace, NEW f \in Forks, NEW c \in Seats, f \in Held(c), sem \in [SEM -> Word],
         sem' = [sem EXCEPT ![f] = 1],
         Seats' = Seats, \A g \in Forks : Unlaid(g)' = Unlaid(g),
         Held(c)' = Held(c) \ {f}, \A p \in Seats \ {c} : Held(p)' = Held(p)
  PROVE  OnePlace'
<1>1. sem'[f] = 1 /\ \A g \in Forks \ {f} : sem'[g] = sem[g]
  BY ForksAreSems
<1> SUFFICES ASSUME NEW g \in Forks
             PROVE  \/ Unlaid(g)' /\ sem'[g] = 0 /\ \A p \in Seats : g \notin Held(p)'
                    \/ ~Unlaid(g)' /\ sem'[g] = 1 /\ \A p \in Seats : g \notin Held(p)'
                    \/ /\ ~Unlaid(g)' /\ sem'[g] = 0
                       /\ \E p \in Seats : g \in Held(p)' /\ \A q \in Seats : g \in Held(q)' => q = p
  BY DEF OnePlace
<1>2. CASE g = f
  <2>1. ~Unlaid(f) /\ \A q \in Seats : f \in Held(q) => q = c
    BY DEF OnePlace
  <2>2. \A q \in Seats : f \notin Held(q)'
    BY <2>1
  <2> QED BY <1>1, <1>2, <2>1, <2>2
<1>3. CASE g # f
  <2>1. \A p \in Seats : g \in Held(p)' <=> g \in Held(p)
    BY <1>3
  <2> QED BY <1>1, <1>3, <2>1 DEF OnePlace
<1> QED BY <1>2, <1>3

\* Fork f goes from hand c straight to hand d.
LEMMA HandedOver ==
  ASSUME OnePlace, NEW f \in Forks, NEW c \in Seats, f \in Held(c),
         NEW d \in Seats \ {c}, sem' = sem,
         Seats' = Seats, \A g \in Forks : Unlaid(g)' = Unlaid(g),
         Held(c)' = Held(c) \ {f}, Held(d)' = Held(d) \cup {f},
         \A p \in Seats \ {c, d} : Held(p)' = Held(p)
  PROVE  OnePlace'
<1> SUFFICES ASSUME NEW g \in Forks
             PROVE  \/ Unlaid(g)' /\ sem'[g] = 0 /\ \A p \in Seats : g \notin Held(p)'
                    \/ ~Unlaid(g)' /\ sem'[g] = 1 /\ \A p \in Seats : g \notin Held(p)'
                    \/ /\ ~Unlaid(g)' /\ sem'[g] = 0
                       /\ \E p \in Seats : g \in Held(p)' /\ \A q \in Seats : g \in Held(q)' => q = p
  BY DEF OnePlace
<1>1. CASE g = f
  <2>1. ~Unlaid(f) /\ sem[f] = 0 /\ \A q \in Seats : f \in Held(q) => q = c
    BY DEF OnePlace
  <2>2. f \in Held(d)' /\ \A q \in Seats : f \in Held(q)' => q = d
    BY <2>1
  <2> QED BY <1>1, <2>1, <2>2
<1>2. CASE g # f
  <2>1. \A p \in Seats : g \in Held(p)' <=> g \in Held(p)
    BY <1>2
  <2> QED BY <1>2, <2>1 DEF OnePlace
<1> QED BY <1>1, <1>2

\* A waiter that is made ready has the fork it waited for in its hand.
LEMMA WaiterGets ==
  ASSUME Seated, WaitsForFork, NEW i \in Seats, status[i] = "WAITING", status'[i] # "WAITING",
         pc'[i] = pc[i], left_fork'[i] = left_fork[i], left_fork[i] \in Forks
  PROVE  Held(i)' = Held(i) \cup {waiting[i].sem_id}
<1> DEFINE l == left_fork[i]
           f == waiting[i].sem_id
<1>1. Held(i) = Hand(pc[i], "WAITING", l) /\ Held(i)' = Hand(pc[i], status'[i], l)
  BY HeldIsHand
<1>2. CASE pc[i] = "one_fork" /\ f = FIRST_FORK(l)
  <2>1. Held(i) = {} /\ Held(i)' = {f}
    BY <1>1, <1>2, HandAt
  <2> QED BY <2>1
<1>3. CASE pc[i] = "eat" /\ f = SECOND_FORK(l)
  <2>1. Held(i) = {FIRST_FORK(l)} /\ Held(i)' = {FIRST_FORK(l), f}
    BY <1>1, <1>3, HandAt
  <2> QED BY <2>1
<1> QED BY <1>2, <1>3 DEF WaitsForFork

\* PutFirst and PutSecond: to the neighbour who waits, or to the table.
LEMMA PutStep ==
  ASSUME PhilInv, MutexInv', NEW f \in Forks, SemPost(f, 1),
         \/ f = FIRST_FORK(left_fork[current]) /\ Goes("eat", "put_down")
         \/ f = SECOND_FORK(left_fork[current]) /\ Goes("put_down", "think")
  PROVE  PhilInv'
<1> DEFINE l == left_fork[current]
<1>0. /\ current \in PID /\ pcballoc \subseteq PID /\ status[current] = "EXECUTING" /\ l \in Forks
      /\ current \in Seats
  BY Caller DEF Goes
<1>1. /\ pcballoc' = pcballoc /\ current' = current /\ status'[current] = "EXECUTING"
      /\ Seats \subseteq PID /\ do_sem_post(f, 1)
  BY <1>0 DEF SemPost, SemFrame, Seats, MutexInv, RunsOneOfMany
<1>2. /\ Seated' /\ Seats' = Seats /\ left_fork' = left_fork
      /\ \A p \in Seats \ {current} : pc'[p] = pc[p]
      /\ \A g \in Forks : Unlaid(g)' = Unlaid(g)
      /\ \/ f = FIRST_FORK(l) /\ pc[current] = "eat" /\ pc'[current] = "put_down"
         \/ f = SECOND_FORK(l) /\ pc[current] = "put_down" /\ pc'[current] = "think"
  BY <1>0, <1>1, SeatedMoves DEF PC
<1> PICK c \in Seats : c = current
  BY <1>0
<1>3. f \in Held(c) /\ Held(c)' = Held(c) \ {f}
  <2>1. /\ Held(c) = Hand(pc[current], "EXECUTING", l)
        /\ Held(c)' = Hand(pc'[current], "EXECUTING", l)
    BY <1>0, <1>1, <1>2, HeldIsHand
  <2>2. CASE f = FIRST_FORK(l) /\ pc[current] = "eat" /\ pc'[current] = "put_down"
    <3>1. Held(c) = {f, SECOND_FORK(l)} /\ Held(c)' = {SECOND_FORK(l)}
      BY <1>0, <2>1, <2>2, HandAt
    <3>2. f # SECOND_FORK(l)
      BY <1>0, <2>2, ForkOrder DEF Forks
    <3> QED BY <3>1, <3>2
  <2>3. CASE f = SECOND_FORK(l) /\ pc[current] = "put_down" /\ pc'[current] = "think"
    <3>1. Held(c) = {f} /\ Held(c)' = {}
      BY <1>0, <2>1, <2>3, HandAt
    <3> QED BY <3>1
  <2> QED BY <1>2, <2>2, <2>3
<1>4. /\ sem \in [SEM -> Word] /\ f \in SEM /\ sem[f] = 0 /\ 1 \in Word
      /\ waiting \in [PID -> semwait_t \cup {NoWait}] /\ status \in [PID -> Status]
      /\ left_fork \in [PID -> Forks]
  <2>1. sem[f] = 0
    BY <1>3 DEF PhilInv, OnePlace
  <2>2. 1 \in Word
    BY SemaphoreAssumption DEF Word
  <2> QED BY <2>1, <2>2, ForksAreSems DEF PhilInv, MutexInv, SemTypes, TypeOK, Seated
<1>5. CASE \E i \in pcballoc \ {current} :
             /\ status[i] = "WAITING" /\ waiting[i].sem_id = f
             /\ sem' = [sem EXCEPT ![f] = 1 - 1]
             /\ status' = [status EXCEPT ![i] = "READY"]
             /\ waiting' = [waiting EXCEPT ![i] = NoWait]
  <2>1. PICK i \in pcballoc \ {current} :
             /\ status[i] = "WAITING" /\ waiting[i].sem_id = f
             /\ sem' = [sem EXCEPT ![f] = 1 - 1]
             /\ status' = [status EXCEPT ![i] = "READY"]
             /\ waiting' = [waiting EXCEPT ![i] = NoWait]
    BY <1>5
  <2>2. sem' = sem
    <3>1. sem' = [sem EXCEPT ![f] = 0]
      BY <2>1
    <3> QED BY <1>4, <3>1
  <2>3. /\ i \in Seats \ {c} /\ status'[i] = "READY"
        /\ \A p \in Seats \ {i} : status'[p] = status[p] /\ waiting'[p] = waiting[p]
    <3>1. i # BOOT
      BY <1>0, <1>2, <2>1 DEF PhilInv, MutexInv, BootReady, CanRun, Seats
    <3> QED BY <1>0, <1>1, <1>4, <2>1, <3>1 DEF Seats
  <2>4. WaitsForFork'
    BY <1>1, <1>2, <2>3 DEF PhilInv, WaitsForFork
  <2>5. Held(i)' = Held(i) \cup {f}
    BY <1>1, <1>2, <1>4, <2>1, <2>3, WaiterGets DEF PhilInv
  <2>6. ASSUME NEW p \in Seats \ {c, i} PROVE Held(p)' = Held(p)
    <3>1. pc'[p] = pc[p] /\ status'[p] = status[p] /\ left_fork'[p] = left_fork[p]
      BY <1>2, <2>3
    <3> QED BY <3>1, HeldIsHand
  <2>7. OnePlace'
    BY <1>2, <1>3, <2>2, <2>3, <2>5, <2>6, HandedOver DEF PhilInv
  <2> QED BY <1>2, <2>4, <2>7 DEF PhilInv
<1>6. CASE /\ sem' = [sem EXCEPT ![f] = Wrapped(sem[f] + 1)]
           /\ UNCHANGED <<status, waiting>>
  <2>1. sem' = [sem EXCEPT ![f] = 1]
    <3>1. Wrapped(sem[f] + 1) = 1
      BY <1>4, SemaphoreAssumption DEF Wrapped
    <3> QED BY <1>6, <3>1
  <2>2. WaitsForFork'
    BY <1>0, <1>1, <1>2, <1>6 DEF PhilInv, WaitsForFork
  <2>3. \A p \in Seats \ {c} : Held(p)' = Held(p)
    BY <1>2, <1>6, HeldIsHand
  <2>4. OnePlace'
    BY <1>2, <1>3, <1>4, <2>1, <2>3, PutBack DEF PhilInv
  <2> QED BY <1>2, <2>2, <2>4 DEF PhilInv
<1> QED BY <1>1, <1>4, <1>5, <1>6, PostEffect DEF PhilInv

-----------------------------------------------------------------------------
(* The spawner *)

\* The loop variable of phil_spawner wraps at the number of philosophers.
LEMMA LoopVariable ==
  ASSUME NEW i \in Forks
  PROVE  (i + 1) % PHIL_COUNT = IF i + 1 = PHIL_COUNT THEN 0 ELSE i + 1
BY PhilosophersAssumption, ProcessAssumption DEF Forks

\* A fork is laid: its semaphore goes from 0 to 1 and nobody waits for it.
LEMMA InitForkStep ==
  ASSUME PhilInv, MutexInv', InitFork
  PROVE  PhilInv'
<1> DEFINE i == left_fork[BOOT]
<1>0. /\ current = BOOT /\ BOOT \in PID /\ pcballoc = {BOOT} /\ Seats = {} /\ i \in Forks
      /\ pc[BOOT] = "init" /\ pc \in [PID -> PC] /\ left_fork \in [PID -> Forks]
      /\ PHIL_COUNT \in Nat /\ 0 \in Forks
  BY Caller, PhilosophersAssumption, ProcessAssumption DEF InitFork, PhilInv, Seated, Seats, Forks
<1>1. sem \in [SEM -> Word] /\ sem[i] = 0 /\ i \in SEM /\ 1 \in Word
  <2>1. sem[i] = 0
    BY <1>0 DEF PhilInv, OnePlace, Unlaid, Forks
  <2>2. 1 \in Word
    BY SemaphoreAssumption DEF Word
  <2> QED BY <1>0, <2>1, <2>2, ForksAreSems DEF PhilInv, MutexInv, SemTypes
<1>2. pcballoc' = pcballoc /\ sem' = [sem EXCEPT ![i] = 1]
  <2>1. Wrapped(1 - sem[i]) = 1 /\ Wrapped(sem[i] + 1) = 1
    BY <1>1, SemaphoreAssumption DEF Wrapped
  <2>2. do_sem_post(i, 1) /\ SemFrame
    BY <1>0, <2>1 DEF InitFork, SemInit
  <2>3. sem' = [sem EXCEPT ![i] = Wrapped(sem[i] + 1)]
    BY <1>0, <1>1, <2>2, PostEffect DEF PhilInv
  <2> QED BY <2>1, <2>2, <2>3 DEF SemFrame
<1>3. left_fork' = [left_fork EXCEPT ![BOOT] = IF i + 1 = PHIL_COUNT THEN 0 ELSE i + 1]
  BY <1>0, LoopVariable DEF InitFork, Loop
<1>4. pc' = IF i + 1 = PHIL_COUNT THEN [pc EXCEPT ![BOOT] = "spawn"] ELSE pc
  BY <1>0 DEF InitFork, Loop
<1>5. Seats' = {}
  BY <1>0, <1>2 DEF Seats
<1>6. CASE i + 1 = PHIL_COUNT
  <2>1. pc'[BOOT] = "spawn" /\ left_fork'[BOOT] = 0 /\ pc' \in [PID -> PC] /\ left_fork' \in [PID -> Forks]
    BY <1>0, <1>3, <1>4, <1>6 DEF PC
  <2>2. {BOOT} = 0..0
    BY DEF BOOT
  <2>3. Seated' /\ WaitsForFork'
    BY <1>0, <1>2, <1>5, <2>1, <2>2 DEF Seated, WaitsForFork
  <2>4. \A g \in Forks : ~Unlaid(g)' /\ sem'[g] = 1
    <3>1. \A g \in Forks \ {i} : g < i
      BY <1>0, <1>6 DEF Forks
    <3>2. \A g \in Forks \ {i} : sem[g] = 1
      BY <1>0, <3>1 DEF PhilInv, OnePlace, Unlaid, Forks
    <3> QED BY <1>0, <1>1, <1>2, <2>1, <3>2, ForksAreSems DEF Unlaid
  <2> QED BY <1>5, <2>3, <2>4 DEF PhilInv, OnePlace
<1>7. CASE i + 1 # PHIL_COUNT
  <2>1. i + 1 \in Forks
    BY <1>0, <1>7 DEF Forks
  <2>2. pc'[BOOT] = "init" /\ left_fork'[BOOT] = i + 1 /\ pc' \in [PID -> PC] /\ left_fork' \in [PID -> Forks]
    BY <1>0, <1>3, <1>4, <1>7, <2>1
  <2>3. Seated' /\ WaitsForFork'
    BY <1>0, <1>2, <1>5, <2>2 DEF Seated, WaitsForFork
  <2>4. ASSUME NEW g \in Forks
        PROVE  (Unlaid(g)' /\ sem'[g] = 0) \/ (~Unlaid(g)' /\ sem'[g] = 1)
    <3>1. Unlaid(g)' <=> i + 1 <= g
      BY <2>2 DEF Unlaid
    <3>2. CASE g = i
      BY <1>0, <1>1, <1>2, <3>1, <3>2 DEF Forks
    <3>3. CASE g # i
      <4>1. sem'[g] = sem[g]
        BY <1>1, <1>2, <3>3, ForksAreSems
      <4>2. i + 1 <= g <=> i <= g
        BY <1>0, <3>3 DEF Forks
      <4> QED BY <1>0, <3>1, <4>1, <4>2 DEF PhilInv, OnePlace, Unlaid
    <3> QED BY <3>2, <3>3
  <2> QED BY <1>5, <2>3, <2>4 DEF PhilInv, OnePlace
<1> QED BY <1>6, <1>7

\* The next philosopher sits down with empty hands, at the lowest free entry
\* of the process table, which is the next seat.
LEMMA SpawnStep ==
  ASSUME PhilInv, MutexInv', Spawn
  PROVE  PhilInv'
<1> DEFINE i == left_fork[BOOT]
<1>0. /\ current = BOOT /\ BOOT \in PID /\ pcballoc = 0..i /\ i \in Forks
      /\ pc[BOOT] = "spawn" /\ pc \in [PID -> PC] /\ left_fork \in [PID -> Forks]
      /\ PHIL_COUNT \in Nat /\ 0 \in Forks /\ Forks \subseteq Int
  BY Caller, PhilosophersAssumption, ProcessAssumption DEF Spawn, PhilInv, Seated, Forks
<1>1. PICK c \in PID :
        /\ \E s : SemForkOk(c, s)
        /\ left_fork' = [left_fork EXCEPT ![BOOT] = (i + 1) % PHIL_COUNT, ![c] = i]
        /\ pc' = [pc EXCEPT ![BOOT] = IF i + 1 = PHIL_COUNT THEN "serve" ELSE @, ![c] = "think"]
  BY <1>0 DEF Spawn
<1>2. /\ new_pcb_entry(c) /\ pcballoc' = pcballoc \cup {c}
      /\ status' = [status EXCEPT ![c] = "CREATED"]
      /\ waiting' = [waiting EXCEPT ![c] = waiting[current]] /\ sem' = sem
  BY <1>1 DEF SemForkOk, ForkOk, copy_pcb
<1>3. c = i + 1
  <2>1. i + 1 \in PID
    BY <1>0, PhilosophersAssumption, ProcessAssumption DEF Forks, PID
  <2>2. c \notin 0..i /\ c \in Nat /\ \A j \in PID : j < c => j \in 0..i
    BY <1>0, <1>2, ProcessAssumption DEF new_pcb_entry, process_exists, PID
  <2>3. i \in Nat
    BY <1>0 DEF Forks
  <2>4. ~ (i + 1 < c)
    BY <2>1, <2>2, <2>3
  <2> QED BY <2>2, <2>3, <2>4
<1>4. /\ pcballoc' = 0..(i + 1) /\ c # BOOT /\ c \notin pcballoc
      /\ Seats' = Seats \cup {c} /\ c \notin Seats /\ pcballoc \subseteq PID
  BY <1>0, <1>2, <1>3, Caller DEF Forks, BOOT, Seats
<1>5. /\ left_fork'[BOOT] = IF i + 1 = PHIL_COUNT THEN 0 ELSE i + 1
      /\ left_fork'[c] = i /\ \A p \in Seats : left_fork'[p] = left_fork[p]
      /\ left_fork' \in [PID -> Forks]
  <2>1. (i + 1) % PHIL_COUNT = IF i + 1 = PHIL_COUNT THEN 0 ELSE i + 1
    BY <1>0, LoopVariable
  <2>2. (IF i + 1 = PHIL_COUNT THEN 0 ELSE i + 1) \in Forks
    BY <1>0 DEF Forks
  <2>3. \A p \in Seats : p \in PID /\ p # BOOT /\ p # c
    BY <1>4 DEF Seats
  <2> QED BY <1>0, <1>1, <1>4, <2>1, <2>2, <2>3
<1>6. /\ pc'[BOOT] = IF i + 1 = PHIL_COUNT THEN "serve" ELSE "spawn"
      /\ pc'[c] = "think" /\ \A p \in Seats : pc'[p] = pc[p]
      /\ pc' \in [PID -> PC]
  BY <1>0, <1>1, <1>4 DEF Seats, PC
<1>7. status'[c] = "CREATED" /\ \A p \in Seats : status'[p] = status[p] /\ waiting'[p] = waiting[p]
  BY <1>2, <1>4 DEF Seats, PhilInv, MutexInv, SemTypes, TypeOK
<1>8. Seated'
  <2>1. pc'[BOOT] = "spawn" => pcballoc' = 0..left_fork'[BOOT]
    BY <1>4, <1>5, <1>6
  <2>2. pc'[BOOT] = "serve" => pcballoc' = 0..PHIL_COUNT
    BY <1>4, <1>6
  <2>3. \A p \in Seats' : pc'[p] \in {"think", "one_fork", "eat", "put_down"} /\ left_fork'[p] = p - 1
    <3>1. \A p \in Seats : pc'[p] \in {"think", "one_fork", "eat", "put_down"} /\ left_fork'[p] = p - 1
      BY <1>5, <1>6 DEF PhilInv, Seated
    <3>2. left_fork'[c] = c - 1
      <4>1. \A k \in Int : k = (k + 1) - 1
        OBVIOUS
      <4> QED BY <1>0, <1>3, <1>5, <4>1
    <3> QED BY <1>4, <1>6, <3>1, <3>2
  <2> QED BY <1>5, <1>6, <2>1, <2>2, <2>3 DEF Seated
<1>9. WaitsForFork'
  BY <1>4, <1>5, <1>6, <1>7 DEF PhilInv, WaitsForFork
<1>10. Held(c)' = {}
  <2>1. Held(c)' = Hand("think", status'[c], i)
    BY <1>5, <1>6, HeldIsHand
  <2> QED BY <1>0, <2>1, HandAt
<1>11. ASSUME NEW p \in Seats PROVE Held(p)' = Held(p)
  BY <1>5, <1>6, <1>7, HeldIsHand
<1>12. OnePlace'
  <2> SUFFICES ASSUME NEW g \in Forks
               PROVE  \/ sem'[g] = 1 /\ \A p \in Seats' : g \notin Held(p)'
                      \/ /\ sem'[g] = 0
                         /\ \E p \in Seats' : g \in Held(p)' /\ \A q \in Seats' : g \in Held(q)' => q = p
    BY <1>6 DEF OnePlace, Unlaid
  <2>1. ~Unlaid(g)
    BY <1>0 DEF Unlaid
  <2>2. CASE sem[g] = 1 /\ \A p \in Seats : g \notin Held(p)
    BY <1>2, <1>4, <1>10, <1>11, <2>2
  <2>3. CASE sem[g] = 0 /\ \E p \in Seats : g \in Held(p) /\ \A q \in Seats : g \in Held(q) => q = p
    BY <1>2, <1>4, <1>10, <1>11, <2>3
  <2> QED BY <2>1, <2>2, <2>3 DEF PhilInv, OnePlace
<1> QED BY <1>8, <1>9, <1>12 DEF PhilInv

-----------------------------------------------------------------------------
(* Induction *)

\* Boot: no fork is laid and nobody sits.
LEMMA PhilStart == PhilInit => PhilInv
<1> SUFFICES ASSUME PhilInit PROVE PhilInv
  OBVIOUS
<1>1. MutexInv
  BY MutexInit DEF PhilInit
<1>2. 0 \in Forks /\ BOOT \in PID /\ pcballoc = {BOOT} /\ Seats = {}
  BY PhilosophersAssumption, ProcessAssumption
     DEF Forks, PID, BOOT, PhilInit, SemInitState, Init, Seats
<1>3. Seated
  BY <1>2 DEF PhilInit, Seated, PC
<1>4. WaitsForFork
  BY <1>2 DEF WaitsForFork
<1>5. \A f \in Forks : Unlaid(f) /\ sem[f] = 0
  BY <1>2, ForksAreSems DEF PhilInit, SemInitState, Unlaid, Forks
<1>6. OnePlace
  BY <1>2, <1>5 DEF OnePlace
<1> QED BY <1>1, <1>3, <1>4, <1>6 DEF PhilInv

\* The philosophers use the semaphores as mutexes.
LEMMA PhilIsMutex == PhilInv /\ PhilNext => MutexNext
<1> SUFFICES ASSUME PhilInv, PhilNext PROVE MutexNext
  OBVIOUS
<1>1. current \in PID /\ left_fork[current] \in Forks
  BY Caller
<1>2. FIRST_FORK(left_fork[current]) \in SEM /\ SECOND_FORK(left_fork[current]) \in SEM /\ left_fork[current] \in SEM
  BY <1>1, ForkOrder, ForksAreSems
<1>3. CASE PhilTick \/ Serve
  BY <1>3 DEF PhilTick, Serve, MutexNext, Others
<1>4. CASE TakeFirst \/ TakeSecond
  <2>1. current # BOOT
    BY <1>4, Caller DEF TakeFirst, TakeSecond, Goes, Seats
  <2> QED BY <1>2, <1>4, <2>1 DEF TakeFirst, TakeSecond, MutexNext
<1>5. CASE PutFirst \/ PutSecond
  BY <1>2, <1>5 DEF PutFirst, PutSecond, MutexNext
<1>6. CASE InitFork
  BY <1>2, <1>6 DEF InitFork, MutexNext
<1>7. CASE Spawn
  <2>1. PICK c \in PID : SemForkOk(c, CHOOSE t \in Stacks \ heap : TRUE)
    BY <1>7 DEF Spawn
  <2>2. (CHOOSE t \in Stacks \ heap : TRUE) \in Stacks
    BY <2>1 DEF SemForkOk, ForkOk
  <2> QED BY <2>1, <2>2 DEF SemFork, MutexNext
<1> QED BY <1>3, <1>4, <1>5, <1>6, <1>7 DEF PhilNext, Run, phil_thinker, phil_spawner

\* Each system call of a philosopher or the spawner, and each tick, keeps every
\* fork in one place.
LEMMA PhilStep == PhilInv /\ [PhilNext]_philVars => PhilInv'
<1> SUFFICES ASSUME PhilInv, [PhilNext]_philVars PROVE PhilInv'
  OBVIOUS
<1>1. CASE UNCHANGED philVars
  <2>1. UNCHANGED vars /\ UNCHANGED <<pc, left_fork>>
    BY <1>1 DEF philVars
  <2>2. MutexInv'
    BY <2>1, MutexStep DEF PhilInv
  <2> QED BY <2>1, <2>2, NothingMoves DEF vars, procVars, semVars
<1>2. CASE PhilNext
  <2>1. MutexInv' /\ MutexInv
    BY <1>2, PhilIsMutex, MutexStep DEF PhilInv
  <2>2. /\ FIRST_FORK(left_fork[current]) \in Forks /\ SECOND_FORK(left_fork[current]) \in Forks
    BY Caller, ForkOrder
  <2>3. CASE PhilTick \/ Serve
    <3>1. /\ Tick \/ Yield
          /\ UNCHANGED <<pcballoc, sem, waiting, pc, left_fork>>
      BY <2>3 DEF PhilTick, Serve, Tick, Yield, semVars
    <3> QED BY <2>1, <3>1, TickKeepsWaiters, NothingMoves
  <2>4. CASE TakeFirst
    BY <2>1, <2>2, <2>4, TakeStep, BlockedStep DEF TakeFirst, SemWait
  <2>5. CASE TakeSecond
    BY <2>1, <2>2, <2>5, TakeStep, BlockedStep DEF TakeSecond, SemWait
  <2>6. CASE PutFirst
    BY <2>1, <2>2, <2>6, PutStep DEF PutFirst
  <2>7. CASE PutSecond
    BY <2>1, <2>2, <2>7, PutStep DEF PutSecond
  <2>8. CASE InitFork
    BY <2>1, <2>8, InitForkStep
  <2>9. CASE Spawn
    BY <2>1, <2>9, SpawnStep
  <2> QED BY <1>2, <2>3, <2>4, <2>5, <2>6, <2>7, <2>8, <2>9
          DEF PhilNext, Run, phil_thinker, phil_spawner
<1> QED BY <1>1, <1>2

\* The invariant holds throughout.
LEMMA PhilInvariant == PhilSpec => []PhilInv
BY PhilStart, PhilStep, PTL DEF PhilSpec

-----------------------------------------------------------------------------
(* What it gives *)

\* Under the invariant everybody at the table has sat down there.
LEMMA AllSeated == PhilInv => Philosophers = Seats
BY DEF PhilInv, Seated, Seats, Philosophers

\* However the timer interleaves the philosophers, a fork is on the table or in
\* exactly one hand, so that neighbours never eat at the same time (phil_thinker,
\* do_sem_wait, do_sem_post).
THEOREM EveryForkInOnePlace == PhilSpec => []ForksConserved
<1>1. PhilInv => ForksConserved
  <2> SUFFICES ASSUME PhilInv, NEW f \in Forks
               PROVE  LET holders == {p \in Philosophers : f \in Held(p)}
                      IN  IF Unlaid(f) THEN sem[f] = 0 /\ holders = {}
                          ELSE sem[f] + Cardinality(holders) = 1
    BY DEF ForksConserved, Forks, Unlaid
  <2> DEFINE holders == {p \in Seats : f \in Held(p)}
  <2>1. CASE Unlaid(f) /\ sem[f] = 0 /\ \A p \in Seats : f \notin Held(p)
    BY <2>1, AllSeated
  <2>2. CASE ~Unlaid(f) /\ sem[f] = 1 /\ \A p \in Seats : f \notin Held(p)
    <3>1. holders = {}
      BY <2>2
    <3>2. sem[f] + Cardinality(holders) = 1
      BY <2>2, <3>1, FS_EmptySet
    <3> QED BY <2>2, <3>2, AllSeated
  <2>3. CASE /\ ~Unlaid(f) /\ sem[f] = 0
             /\ \E p \in Seats : f \in Held(p) /\ \A q \in Seats : f \in Held(q) => q = p
    <3>1. PICK p \in Seats : f \in Held(p) /\ \A q \in Seats : f \in Held(q) => q = p
      BY <2>3
    <3>2. holders = {p}
      BY <3>1
    <3>3. sem[f] + Cardinality(holders) = 1
      BY <2>3, <3>2, FS_Singleton
    <3> QED BY <2>3, <3>3, AllSeated
  <2> QED BY <2>1, <2>2, <2>3 DEF PhilInv, OnePlace
<1> QED BY <1>1, PhilInvariant, PTL

\* The philosophers never all wait, for any number of them: of the forks that
\* are waited for take the highest.  Whoever holds it and waits has it as the
\* first fork and waits for a higher one (phil_thinker's test of the order).
THEOREM SomebodyCanEat == PhilSpec => []NotAllWaiting
<1>1. PhilInv => NotAllWaiting
  <2> SUFFICES ASSUME PhilInv, pc[BOOT] = "serve", \A p \in Seats : status[p] = "WAITING"
               PROVE  FALSE
    BY AllSeated DEF NotAllWaiting
  <2> DEFINE Wanted == {waiting[p].sem_id : p \in Seats}
  <2>1. /\ PHIL_COUNT - 1 \in Nat /\ Seats \subseteq PID
        /\ \A p \in Seats : left_fork[p] \in Forks
    BY PhilosophersAssumption, ProcessAssumption, Caller DEF PhilInv, Seated, Seats
  <2>2. Wanted \in SUBSET (0..(PHIL_COUNT - 1))
    <3>1. \A p \in Seats : waiting[p].sem_id \in Forks
      BY <2>1, ForkOrder DEF PhilInv, WaitsForFork
    <3> QED BY <3>1 DEF Forks
  <2>3. Wanted # {}
    <3>1. 1 \in Seats
      BY PhilosophersAssumption, ProcessAssumption DEF PhilInv, Seated, Seats, BOOT
    <3> QED BY <3>1
  <2>4. PICK f \in Wanted : \A g \in Wanted : g <= f
    <3> HIDE DEF Wanted
    <3> QED BY <2>1, <2>2, <2>3, GreatestOf
  <2>5. f \in Forks /\ sem[f] = 0 /\ ~Unlaid(f)
    BY <2>2 DEF Forks, PhilInv, MutexInv, WaitsForOne, Seats, Unlaid
  <2>6. PICK p \in Seats : f \in Held(p)
    BY <2>5 DEF PhilInv, OnePlace
  <2>7. /\ pc[p] = "eat" /\ waiting[p].sem_id = SECOND_FORK(left_fork[p])
        /\ f = FIRST_FORK(left_fork[p])
    <3>1. Held(p) = Hand(pc[p], "WAITING", left_fork[p])
      BY HeldIsHand
    <3>2. pc[p] # "one_fork"
      BY <2>1, <2>6, <3>1, HandAt
    <3>3. pc[p] = "eat" /\ waiting[p].sem_id = SECOND_FORK(left_fork[p])
      BY <3>2 DEF PhilInv, WaitsForFork
    <3> QED BY <2>1, <2>6, <3>1, <3>3, HandAt
  <2>8. waiting[p].sem_id <= f
    BY <2>4
  <2> QED BY <2>1, <2>7, <2>8, ForkOrder DEF Forks
<1> QED BY <1>1, PhilInvariant, PTL
=============================================================================
