---------------------------- MODULE LeastElement ----------------------------
(***************************************************************************)
(* The least-number principle for sets.  It is what the proofs about loops *)
(* use for induction: take the set of the iterations at which the claim    *)
(* fails, and look at the first one.                                       *)
(***************************************************************************)
EXTENDS Integers, FiniteSetTheorems, TLAPS

\* A set of natural numbers that is not empty has a least element.
LEMMA LeastOf ==
  ASSUME NEW T \in SUBSET Nat, T # {}
  PROVE  \E x \in T : \A y \in T : x <= y
<1> DEFINE R == {ss \in Nat \X Nat : ss[1] < ss[2]}
<1>1. IsWellFoundedOn(R, Nat)
  BY NatLessThanWellFounded DEF OpToRel
<1>2. PICK x \in T : \A y \in T : ~ (<<y, x>> \in R)
  <2> HIDE DEF R
  <2> QED BY <1>1, WFMin
<1>3. \A y \in T : ~ (y < x)
  BY <1>2
<1> QED BY <1>3

\* A set of numbers from 0 to n that is not empty has a greatest element.
LEMMA GreatestOf ==
  ASSUME NEW n \in Nat, NEW T \in SUBSET (0..n), T # {}
  PROVE  \E x \in T : \A y \in T : y <= x
<1> DEFINE U == {k \in Nat : n - k \in T}
<1>1. U # {}
  <2>1. PICK t \in T : TRUE
    OBVIOUS
  <2>2. n - t \in Nat /\ n - (n - t) = t
    BY <2>1
  <2> QED BY <2>1, <2>2
<1>2. PICK k \in U : \A j \in U : k <= j
  <2> HIDE DEF U
  <2>1. U \in SUBSET Nat
    BY DEF U
  <2> QED BY <1>1, <2>1, LeastOf
<1>3. \A y \in T : n - y \in U
  BY SMT
<1>4. k \in Nat /\ n - k \in T
  OBVIOUS
<1>5. \A y \in T : k <= n - y
  BY <1>2, <1>3
<1>6. \A y \in T : y <= n - k
  <2> HIDE DEF U
  <2> QED BY <1>4, <1>5
<1> QED BY <1>4, <1>6

\* What holds at 0, and at every number up to n whose predecessor it holds at,
\* holds up to n: S is the set of the numbers at which it holds.
LEMMA UpTo ==
  ASSUME NEW n \in Nat, NEW S, 0 \in S, \A k \in 1..n : k - 1 \in S => k \in S
  PROVE  0..n \subseteq S
<1> DEFINE T == {k \in 0..n : k \notin S}
<1> SUFFICES ASSUME T # {} PROVE FALSE
  OBVIOUS
<1>1. PICK k \in T : \A j \in T : k <= j
  <2>1. T \in SUBSET Nat
    OBVIOUS
  <2> HIDE DEF T
  <2> QED BY <2>1, LeastOf
<1>2. k \in 1..n /\ k \notin S
  OBVIOUS
<1>3. k - 1 \in 0..n /\ ~ (k <= k - 1)
  BY <1>2
<1>4. k - 1 \in S
  BY <1>1, <1>3
<1> QED BY <1>2, <1>4

\* The values f[0] to f[n] that a loop goes through: it starts with base, and
\* its round i makes step[<<x, i>>] of x.
IsRun(f, n, V, base, step) ==
  /\ f \in [0..n -> V] /\ f[0] = base
  /\ \A i \in 1..n : f[i] = step[<<f[i - 1], i>>]

\* A loop of n rounds has a run.  This is what makes the recursive functions of
\* the models what they say.
LEMMA LoopRuns ==
  ASSUME NEW n \in Nat, NEW V, NEW base \in V, NEW step \in [V \X (1..n) -> V]
  PROVE  \E f : IsRun(f, n, V, base, step)
<1> DEFINE Run(f, k) == /\ f \in [0..n -> V] /\ f[0] = base
                        /\ \A i \in 1..k : f[i] = step[<<f[i - 1], i>>]
           S == {k \in 0..n : \E f : Run(f, k)}
<1>1. 0 \in S
  <2> DEFINE g == [i \in 0..n |-> base]
  <2>1. Run(g, 0)
    OBVIOUS
  <2> HIDE DEF Run, g
  <2> QED BY <2>1
<1>2. ASSUME NEW k \in 1..n, k - 1 \in S PROVE k \in S
  <2>1. PICK f : Run(f, k - 1)
    BY <1>2
  <2> DEFINE g == [f EXCEPT ![k] = step[<<f[k - 1], k>>]]
  <2>2. k - 1 \in 0..n /\ step[<<f[k - 1], k>>] \in V
    BY <2>1
  <2>3. g \in [0..n -> V] /\ g[0] = base /\ g[k] = step[<<f[k - 1], k>>]
        /\ \A i \in 0..n : i # k => g[i] = f[i]
    BY <2>1, <2>2
  <2>4. ASSUME NEW i \in 1..k PROVE g[i] = step[<<g[i - 1], i>>]
    <3>1. i - 1 \in 0..n /\ i - 1 # k /\ g[i - 1] = f[i - 1]
      BY <2>3
    <3>2. CASE i = k
      BY <2>3, <3>1, <3>2
    <3>3. CASE i # k
      <4>1. i \in 1..(k - 1) /\ i \in 0..n
        BY <3>3
      <4> QED BY <2>1, <2>3, <3>1, <3>3, <4>1
    <3> QED BY <3>2, <3>3
  <2> HIDE DEF g
  <2>5. Run(g, k)
    BY <2>3, <2>4
  <2> QED BY <2>5
<1>3. 0..n \subseteq S
  <2> HIDE DEF S
  <2> QED BY <1>1, <1>2, UpTo
<1>4. n \in S
  <2> HIDE DEF S
  <2> QED BY <1>3
<1> QED BY <1>4 DEF IsRun
=============================================================================
