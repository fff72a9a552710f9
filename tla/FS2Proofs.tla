----------------------------- MODULE FS2Proofs -----------------------------
(***************************************************************************)
(* Theorems about the CWFS2 volume (module FS2).                           *)
(*                                                                         *)
(* A volume is a record, and most operators change a few of its fields.    *)
(* The set of the fields an operator changes is stated with Only; what     *)
(* the invariant says of the other fields carries over.                    *)
(***************************************************************************)
EXTENDS FS2, LeastElement, SequenceTheorems

-----------------------------------------------------------------------------
(* Fields of a volume *)

Fields == {"disk", "hblock", "outcome", "ret", "par", "log", "icindex", "icaddr",
           "icache", "dcaddr", "dcache", "xcaddr", "xcache"}

IsVol(v) == v = [f \in Fields |-> v[f]]

\* w is v but for some of the fields in F.
Only(w, v, F) == IsVol(v) /\ IsVol(w) /\ \A f \in Fields \ F : w[f] = v[f]

\* The fields that hold results and what the call has done so far.
Results == {"outcome", "ret", "par", "log"}

Set(v, f, e) == [v EXCEPT ![f] = e]

LEMMA SetIs ==
  ASSUME NEW v, IsVol(v), NEW f \in Fields, NEW e
  PROVE  Only(Set(v, f, e), v, {f}) /\ Set(v, f, e)[f] = e
BY DEF IsVol, Only, Set

LEMMA OnlyTrans ==
  ASSUME NEW u, NEW v, NEW w, NEW F, NEW G, Only(v, u, F), Only(w, v, G)
  PROVE  Only(w, u, F \cup G)
BY DEF Only

LEMMA OnlyMore ==
  ASSUME NEW v, NEW w, NEW F, NEW G, Only(w, v, F), F \subseteq G
  PROVE  Only(w, v, G)
BY DEF Only

LEMMA OnlySame == ASSUME NEW v, IsVol(v) PROVE Only(v, v, {})
BY DEF Only

LEMMA OutcomeFields ==
  ASSUME NEW v, IsVol(v), NEW o
  PROVE  Only(Outcome(v, o), v, {"outcome"}) /\ Outcome(v, o).outcome = o
<1>1. Outcome(v, o) = Set(v, "outcome", o)
  BY DEF Outcome, Set
<1>2. "outcome" \in Fields
  BY DEF Fields
<1> QED BY <1>1, <1>2, SetIs

LEMMA ResultFields ==
  ASSUME NEW v, IsVol(v), NEW o, NEW r
  PROVE  /\ Only(Result(v, o, r), v, {"outcome", "ret"})
         /\ Result(v, o, r).outcome = o /\ Result(v, o, r).ret = r
<1> DEFINE u == Set(v, "outcome", o)
           w == Set(u, "ret", r)
<1>1. Result(v, o, r) = w
  BY DEF Result, Set
<1>2. "outcome" \in Fields /\ "ret" \in Fields \ {"outcome"}
  BY DEF Fields
<1>3. Only(u, v, {"outcome"}) /\ u["outcome"] = o
  BY <1>2, SetIs
<1>4. IsVol(u)
  BY <1>3 DEF Only
<1> HIDE DEF u
<1>5. Only(w, u, {"ret"}) /\ w["ret"] = r
  BY <1>2, <1>4, SetIs
<1> HIDE DEF w
<1> QED BY <1>1, <1>2, <1>3, <1>5 DEF Only

-----------------------------------------------------------------------------
(* Region tables *)

\* The least element of a set of numbers.
LEMMA MinIs ==
  ASSUME NEW S \in SUBSET Nat, S # {}
  PROVE  Min(S) \in S /\ \A x \in S : Min(S) <= x
BY LeastOf DEF Min

RegT == [start : Nat, len : Nat]

LEMMA UsedIs ==
  ASSUME NEW n \in Nat, NEW regs \in [0..(n - 1) -> RegT]
  PROVE  /\ Used(regs) \in 0..n
         /\ \A i \in 0..(Used(regs) - 1) : i \in 0..(n - 1) /\ regs[i].start # 0
         /\ Used(regs) < n => regs[Used(regs)].start = 0
<1> DEFINE S == {i \in 0..Cardinality(DOMAIN regs) : i \notin DOMAIN regs \/ regs[i].start = 0}
<1>1. Cardinality(DOMAIN regs) = n
  <2>1. DOMAIN regs = 0..(n - 1)
    OBVIOUS
  <2>2. Cardinality(0..(n - 1)) = n
    BY FS_Interval
  <2> QED BY <2>1, <2>2
<1>2. S = {i \in 0..n : i = n \/ regs[i].start = 0}
  BY <1>1
<1>3. Used(regs) = Min(S)
  BY DEF Used
<1>4. S \in SUBSET Nat /\ S # {}
  BY <1>2
<1>5. Used(regs) \in S /\ \A x \in S : Used(regs) <= x
  <2> HIDE DEF S
  <2> QED BY <1>3, <1>4, MinIs
<1>6. ASSUME NEW i \in 0..(Used(regs) - 1) PROVE i \in 0..(n - 1) /\ regs[i].start # 0
  <2>1. i \notin S /\ i \in 0..(n - 1)
    BY <1>2, <1>5
  <2> QED BY <1>2, <2>1
<1> QED BY <1>2, <1>5, <1>6

Sums(f, regs, i) ==
  /\ f \in [0..i -> Nat] /\ f[0] = 0
  /\ \A j \in 1..i : f[j] = f[j - 1] + regs[j - 1].len

LEMMA BeforeSums ==
  ASSUME NEW n \in Nat, NEW regs \in [0..(n - 1) -> RegT], NEW i \in 0..n
  PROVE  \E f : Sums(f, regs, i) /\ Before(regs, i) = f[i]
<1> DEFINE step == [x \in Nat \X (1..i) |-> x[1] + regs[x[2] - 1].len]
           body(f, j) == IF j = 0 THEN 0 ELSE f[j - 1] + regs[j - 1].len
           v == CHOOSE g : g = [j \in 0..i |-> body(g, j)]
<1>1. i \in Nat /\ \A j \in 1..i : j - 1 \in 0..i /\ j - 1 \in 0..(n - 1) /\ regs[j - 1].len \in Nat
  BY DEF RegT
<1>2. ASSUME NEW x \in Nat, NEW j \in 1..i
      PROVE  x + regs[j - 1].len \in Nat /\ step[<<x, j>>] = x + regs[j - 1].len
  BY <1>1
<1>3. step \in [Nat \X (1..i) -> Nat]
  <2>1. \A x \in Nat \X (1..i) : x[1] + regs[x[2] - 1].len \in Nat
    BY <1>2
  <2> QED BY <2>1
<1> HIDE DEF step
<1>4. PICK f : IsRun(f, i, Nat, 0, step)
  BY <1>1, <1>3, LoopRuns
<1>5. Sums(f, regs, i)
  <2>1. f \in [0..i -> Nat] /\ f[0] = 0
    BY <1>4 DEF IsRun
  <2>2. ASSUME NEW j \in 1..i PROVE f[j] = f[j - 1] + regs[j - 1].len
    <3>1. f[j - 1] \in Nat /\ f[j] = step[<<f[j - 1], j>>]
      BY <1>1, <1>4 DEF IsRun
    <3> QED BY <1>2, <3>1
  <2> QED BY <2>1, <2>2 DEF Sums
<1>6. f = [j \in 0..i |-> body(f, j)]
  BY <1>1, <1>5 DEF Sums
<1>7. v = [j \in 0..i |-> body(v, j)]
  <2> HIDE DEF body
  <2> QED BY <1>6
<1>8. Before(regs, i) = v[i]
  BY DEF Before
<1> HIDE DEF v
<1>9. v[0] = 0 /\ \A j \in 1..i : v[j] = v[j - 1] + regs[j - 1].len
  BY <1>1, <1>7
<1> DEFINE S == {k \in 0..i : v[k] = f[k]}
<1>10. 0..i \subseteq S
  <2>1. 0 \in S
    BY <1>5, <1>9 DEF Sums
  <2>2. \A k \in 1..i : k - 1 \in S => k \in S
    BY <1>5, <1>9 DEF Sums
  <2> HIDE DEF S
  <2> QED BY <1>1, <2>1, <2>2, UpTo
<1>11. i \in S
  BY <1>1, <1>10
<1> QED BY <1>5, <1>8, <1>11

LEMMA SumsAgree ==
  ASSUME NEW i \in Nat, NEW j \in Nat, i <= j, NEW f, NEW g, NEW r, NEW s,
         Sums(f, r, i), Sums(g, s, j), \A k \in 0..(i - 1) : r[k].len = s[k].len
  PROVE  f[i] = g[i]
<1> DEFINE S == {k \in 0..i : f[k] = g[k]}
<1>1. 0 \in S
  BY DEF Sums
<1>2. ASSUME NEW k \in 1..i, k - 1 \in S PROVE k \in S
  <2>1. k \in 1..j /\ k - 1 \in 0..(i - 1) /\ r[k - 1].len = s[k - 1].len
    OBVIOUS
  <2>2. f[k] = f[k - 1] + r[k - 1].len /\ g[k] = g[k - 1] + s[k - 1].len
    BY <2>1 DEF Sums
  <2> QED BY <1>2, <2>1, <2>2
<1>3. 0..i \subseteq S
  <2> HIDE DEF S
  <2> QED BY <1>1, <1>2, UpTo
<1>4. i \in 0..i
  OBVIOUS
<1> QED BY <1>3, <1>4

\* How many blocks the regions before one hold.
LEMMA BeforeIs ==
  ASSUME NEW n \in Nat, NEW regs \in [0..(n - 1) -> RegT]
  PROVE  /\ Before(regs, 0) = 0
         /\ \A i \in 0..n : Before(regs, i) \in Nat
         /\ \A i \in 0..(n - 1) : Before(regs, i + 1) = Before(regs, i) + regs[i].len
<1>1. ASSUME NEW i \in 0..n PROVE Before(regs, i) \in Nat
  <2>1. PICK f : Sums(f, regs, i) /\ Before(regs, i) = f[i]
    BY BeforeSums
  <2> QED BY <2>1 DEF Sums
<1>2. Before(regs, 0) = 0
  <2>1. PICK f : Sums(f, regs, 0) /\ Before(regs, 0) = f[0]
    <3>1. 0 \in 0..n
      OBVIOUS
    <3> QED BY <3>1, BeforeSums
  <2> QED BY <2>1 DEF Sums
<1>3. ASSUME NEW i \in 0..(n - 1) PROVE Before(regs, i + 1) = Before(regs, i) + regs[i].len
  <2>1. i \in 0..n /\ i + 1 \in 0..n /\ i \in Nat /\ i + 1 \in Nat
    OBVIOUS
  <2>2. PICK f : Sums(f, regs, i) /\ Before(regs, i) = f[i]
    BY <2>1, BeforeSums
  <2>3. PICK g : Sums(g, regs, i + 1) /\ Before(regs, i + 1) = g[i + 1]
    BY <2>1, BeforeSums
  <2>4. f[i] = g[i]
    BY <2>1, <2>2, <2>3, SumsAgree
  <2>5. g[i + 1] = g[i] + regs[i].len
    <3>1. i + 1 \in 1..(i + 1) /\ (i + 1) - 1 = i
      BY <2>1
    <3> QED BY <2>3, <3>1 DEF Sums
  <2> QED BY <2>2, <2>3, <2>4, <2>5
<1> QED BY <1>1, <1>2, <1>3

\* It does not depend on the starts of the regions, nor on those after.
LEMMA BeforeSame ==
  ASSUME NEW n \in Nat, NEW r \in [0..(n - 1) -> RegT], NEW s \in [0..(n - 1) -> RegT],
         NEW i \in 0..n, \A k \in 0..(i - 1) : r[k].len = s[k].len
  PROVE  Before(r, i) = Before(s, i)
<1>1. PICK f : Sums(f, r, i) /\ Before(r, i) = f[i]
  BY BeforeSums
<1>2. PICK g : Sums(g, s, i) /\ Before(s, i) = g[i]
  BY BeforeSums
<1>3. i \in Nat /\ i <= i
  OBVIOUS
<1> QED BY <1>1, <1>2, <1>3, SumsAgree

LEMMA BeforeGrows ==
  ASSUME NEW n \in Nat, NEW regs \in [0..(n - 1) -> RegT], NEW i \in 0..n, NEW j \in 0..n, i <= j
  PROVE  Before(regs, i) <= Before(regs, j)
<1> DEFINE S == {k \in 0..(j - i) : Before(regs, i) <= Before(regs, i + k)}
<1>1. j - i \in Nat /\ i + 0 = i /\ i + (j - i) = j
  OBVIOUS
<1>2. 0 \in S
  BY <1>1, BeforeIs
<1>3. ASSUME NEW k \in 1..(j - i), k - 1 \in S PROVE k \in S
  <2>1. PICK x \in 0..(n - 1) : x = i + (k - 1)
    OBVIOUS
  <2>2. x + 1 = i + k /\ x \in 0..n /\ x + 1 \in 0..n
    BY <2>1
  <2>3. Before(regs, x + 1) = Before(regs, x) + regs[x].len /\ regs[x].len \in Nat
        /\ Before(regs, x) \in Nat /\ Before(regs, i) \in Nat
    BY <2>2, BeforeIs DEF RegT
  <2>4. Before(regs, i) <= Before(regs, x)
    BY <1>3, <2>1
  <2> QED BY <2>2, <2>3, <2>4
<1>4. 0..(j - i) \subseteq S
  <2> HIDE DEF S
  <2> QED BY <1>1, <1>2, <1>3, UpTo
<1>5. j - i \in S
  BY <1>1, <1>4
<1> QED BY <1>1, <1>5

\* The same lengths and more regions in use: the blocks found stay found.
Found(regs, b) == {i \in 0..(Used(regs) - 1) : b < Before(regs, i + 1)}

\* A block that is found is in a region in use, at its place in the table.
LEMMA FindBlk ==
  ASSUME NEW n \in Nat, NEW regs \in [0..(n - 1) -> RegT], NEW b \in Nat, Found(regs, b) # {}
  PROVE  \E i \in 0..(Used(regs) - 1) :
           /\ i \in Found(regs, b) /\ \A j \in Found(regs, b) : i <= j
           /\ i \in 0..(n - 1) /\ regs[i].start # 0
           /\ Before(regs, i) \in Nat /\ Before(regs, i) <= b /\ b < Before(regs, i) + regs[i].len
           /\ find_blk(regs, b) = regs[i].start + b - Before(regs, i)
           /\ find_blk(regs, b) \in Extent(regs[i])
<1> DEFINE S == Found(regs, b)
           i == Min(S)
<1>1. Used(regs) \in 0..n
  BY UsedIs
<1>2. S \in SUBSET Nat
  BY <1>1 DEF Found
<1>3. i \in S /\ \A j \in S : i <= j
  BY <1>2, MinIs
<1>4. find_blk(regs, b) = regs[i].start + b - Before(regs, i)
  BY DEF find_blk, Found
<1> HIDE DEF i
<1>5. i \in 0..(Used(regs) - 1) /\ b < Before(regs, i + 1)
  BY <1>3 DEF Found
<1>6. i \in 0..(n - 1) /\ regs[i].start # 0
  BY <1>5, UsedIs
<1>7. Before(regs, i) \in Nat /\ Before(regs, i + 1) = Before(regs, i) + regs[i].len
  <2>1. i \in 0..n
    BY <1>6
  <2> QED BY <1>6, <2>1, BeforeIs
<1>8. Before(regs, i) <= b
  <2>1. CASE i = 0
    BY <2>1, BeforeIs
  <2>2. CASE i # 0
    <3>1. PICK j \in 0..(Used(regs) - 1) : i = j + 1
      BY <1>1, <1>5, <2>2
    <3>2. ~(j \in S)
      BY <1>1, <1>3, <3>1
    <3> QED BY <1>7, <3>1, <3>2 DEF Found
  <2> QED BY <2>1, <2>2
<1>9. regs[i].start \in Nat /\ regs[i].len \in Nat
  BY <1>6 DEF RegT
<1>10. find_blk(regs, b) \in Extent(regs[i])
  <2>1. \A s, l, x, y \in Nat : x <= y /\ y < x + l => s + y - x \in s..(s + l - 1)
    OBVIOUS
  <2> QED BY <1>4, <1>5, <1>7, <1>8, <1>9, <2>1 DEF Extent
<1> QED BY <1>3, <1>4, <1>5, <1>6, <1>7, <1>8, <1>10

LEMMA FoundIff ==
  ASSUME NEW n \in Nat, NEW regs \in [0..(n - 1) -> RegT], NEW b \in Nat
  PROVE  Found(regs, b) # {} <=> b < Before(regs, Used(regs))
<1>1. Used(regs) \in 0..n
  BY UsedIs
<1>2. ASSUME NEW i \in Found(regs, b) PROVE b < Before(regs, Used(regs))
  <2>1. i \in 0..(Used(regs) - 1) /\ b < Before(regs, i + 1)
    BY DEF Found
  <2>2. PICK j \in 0..n : j = i + 1
    BY <1>1, <2>1
  <2>3. j <= Used(regs)
    BY <1>1, <2>1, <2>2
  <2>4. Before(regs, j) \in Nat /\ Before(regs, Used(regs)) \in Nat
    BY <1>1, BeforeIs
  <2>5. Before(regs, j) <= Before(regs, Used(regs))
    BY <1>1, <2>3, BeforeGrows
  <2> QED BY <2>1, <2>2, <2>4, <2>5
<1>3. ASSUME b < Before(regs, Used(regs)) PROVE Found(regs, b) # {}
  <2>1. Used(regs) # 0
    BY <1>3, BeforeIs
  <2>2. PICK i \in 0..(Used(regs) - 1) : i + 1 = Used(regs)
    BY <1>1, <2>1
  <2> QED BY <1>3, <2>2 DEF Found
<1> QED BY <1>2, <1>3

\* Putting a region after those in use changes none of the blocks found, and
\* the first index that had no block gets the region's first.
NewRegion(regs, st, l) == [regs EXCEPT ![Used(regs)] = [start |-> st, len |-> l]]

LEMMA FindNew ==
  ASSUME NEW n \in Nat, NEW r \in [0..(n - 1) -> RegT], Used(r) < n,
         NEW st \in Nat, st # 0, NEW l \in Nat, l # 0
  PROVE  /\ NewRegion(r, st, l) \in [0..(n - 1) -> RegT]
         /\ \A c \in Nat : Found(r, c) # {} => find_blk(NewRegion(r, st, l), c) = find_blk(r, c)
         /\ find_blk(NewRegion(r, st, l), Before(r, Used(r))) = st
<1> DEFINE u == Used(r)
           s == NewRegion(r, st, l)
<1>1. u \in 0..(n - 1) /\ u \in 0..n
  BY UsedIs
<1>2. s \in [0..(n - 1) -> RegT] /\ s[u] = [start |-> st, len |-> l]
      /\ \A i \in 0..(n - 1) : i # u => s[i] = r[i]
  BY <1>1 DEF RegT, NewRegion
<1> HIDE DEF s
<1>3. Used(s) \in 0..n /\ u < Used(s)
  <2>1. /\ Used(s) \in 0..n
        /\ Used(s) < n => s[Used(s)].start = 0
    BY <1>2, UsedIs
  <2>2. \A i \in 0..u : s[i].start # 0
    <3>1. \A i \in 0..(u - 1) : i \in 0..(n - 1) /\ r[i].start # 0
      BY UsedIs
    <3> QED BY <1>1, <1>2, <3>1
  <2> QED BY <1>1, <2>1, <2>2
<1>4. ASSUME NEW i \in 0..u PROVE Before(s, i) = Before(r, i)
  <2>1. i \in 0..n /\ \A k \in 0..(i - 1) : k \in 0..(n - 1) /\ k # u
    BY <1>1
  <2>2. \A k \in 0..(i - 1) : s[k].len = r[k].len
    BY <1>2, <2>1
  <2>3. s \in [0..(n - 1) -> RegT] /\ i \in 0..n
    BY <1>2, <2>1
  <2> QED BY <2>2, <2>3, BeforeSame
<1> HIDE DEF u
<1>5. ASSUME NEW c \in Nat, NEW i \in 0..(u - 1) PROVE i \in Found(s, c) <=> i \in Found(r, c)
  <2>1. i + 1 \in 0..u /\ i \in 0..(Used(s) - 1)
    BY <1>1, <1>3
  <2>2. Before(s, i + 1) = Before(r, i + 1)
    BY <1>4, <2>1
  <2> QED BY <2>1, <2>2 DEF Found, u
<1>6. ASSUME NEW c \in Nat, Found(r, c) # {} PROVE find_blk(s, c) = find_blk(r, c)
  <2>1. PICK i \in 0..(u - 1) :
          /\ i \in Found(r, c) /\ \A j \in Found(r, c) : i <= j
          /\ i \in 0..(n - 1) /\ find_blk(r, c) = r[i].start + c - Before(r, i)
    BY <1>6, FindBlk DEF u
  <2>2. i \in Found(s, c)
    BY <1>5, <2>1
  <2>3. PICK k \in 0..(Used(s) - 1) :
          /\ k \in Found(s, c) /\ \A j \in Found(s, c) : k <= j
          /\ k \in 0..(n - 1) /\ find_blk(s, c) = s[k].start + c - Before(s, k)
    <3>1. s \in [0..(n - 1) -> RegT]
      BY <1>2
    <3> QED BY <2>2, <3>1, FindBlk
  <2>4. k <= i /\ k \in 0..(u - 1)
    BY <1>1, <1>3, <2>1, <2>2, <2>3
  <2>5. k \in Found(r, c)
    BY <1>5, <2>3, <2>4
  <2>6. k = i
    BY <2>1, <2>4, <2>5
  <2>7. s[i] = r[i] /\ Before(s, i) = Before(r, i)
    BY <1>1, <1>2, <1>4, <2>1
  <2> QED BY <2>1, <2>3, <2>6, <2>7
<1> DEFINE b == Before(r, u)
<1>7. b \in Nat
  BY <1>1, BeforeIs
<1>8. Before(s, u) = b /\ Before(s, u + 1) = b + l
  <2>1. Before(s, u) = b
    BY <1>1, <1>4
  <2>2. Before(s, u + 1) = Before(s, u) + s[u].len
    BY <1>1, <1>2, BeforeIs
  <2> QED BY <1>2, <2>1, <2>2
<1>9. u \in Found(s, b)
  BY <1>1, <1>3, <1>7, <1>8 DEF Found
<1>10. PICK k \in 0..(Used(s) - 1) :
         /\ k \in Found(s, b) /\ \A j \in Found(s, b) : k <= j
         /\ find_blk(s, b) = s[k].start + b - Before(s, k)
  BY <1>2, <1>7, <1>9, FindBlk
<1>11. k = u
  <2>1. k <= u /\ k \in Nat
    BY <1>1, <1>3, <1>9, <1>10
  <2>2. ASSUME k # u PROVE FALSE
    <3>1. k \in 0..(u - 1)
      BY <1>1, <2>1, <2>2
    <3>2. k \in Found(r, b)
      BY <1>5, <1>7, <1>10, <3>1
    <3>3. b < Before(r, u)
      BY <1>7, <3>2, FoundIff DEF u
    <3> QED BY <1>7, <3>3
  <2> QED BY <2>2
<1>12. find_blk(s, b) = st
  <2>1. find_blk(s, b) = s[u].start + b - Before(s, u)
    BY <1>10, <1>11
  <2>2. s[u].start = st
    BY <1>2
  <2> HIDE DEF b
  <2> QED BY <1>7, <1>8, <2>1, <2>2
<1>13. find_blk(s, Before(r, Used(r))) = st
  BY <1>12 DEF u
<1>14. \A c \in Nat : Found(r, c) # {} => find_blk(s, c) = find_blk(r, c)
  BY <1>6
<1> QED BY <1>2, <1>13, <1>14 DEF s

-----------------------------------------------------------------------------
(* Owners of blocks *)

\* The blocks of region i of o are o's: below nb, and so marked in ow.
Mine(regs, o, nb, ow) ==
  \A i \in DOMAIN regs : regs[i].start # 0 =>
    \A a \in Extent(regs[i]) : a \in 1..(nb - 1) /\ ow[a] = <<o, i>>

\* A block that is found is the owner's, and no two indices find the same.
LEMMA FindMine ==
  ASSUME NEW n \in Nat, NEW regs \in [0..(n - 1) -> RegT], NEW o, NEW nb, NEW ow,
         Mine(regs, o, nb, ow), NEW b \in Nat
  PROVE  /\ find_blk(regs, b) # 0 => find_blk(regs, b) \in 1..(nb - 1)
         /\ find_blk(regs, b) # 0 <=> Found(regs, b) # {}
         /\ find_blk(regs, b) # 0 =>
              \A c \in Nat : find_blk(regs, c) = find_blk(regs, b) => c = b
<1>1. ASSUME NEW c \in Nat, Found(regs, c) # {}
      PROVE  \E i \in 0..(n - 1) :
               /\ find_blk(regs, c) \in 1..(nb - 1) /\ ow[find_blk(regs, c)] = <<o, i>>
               /\ regs[i].start \in Nat /\ Before(regs, i) \in Nat
               /\ find_blk(regs, c) = regs[i].start + c - Before(regs, i)
  <2>1. PICK i \in 0..(Used(regs) - 1) :
           /\ i \in 0..(n - 1) /\ regs[i].start # 0 /\ Before(regs, i) \in Nat
           /\ find_blk(regs, c) = regs[i].start + c - Before(regs, i)
           /\ find_blk(regs, c) \in Extent(regs[i])
    BY <1>1, FindBlk
  <2>2. find_blk(regs, c) \in 1..(nb - 1) /\ ow[find_blk(regs, c)] = <<o, i>>
    BY <2>1 DEF Mine
  <2>3. regs[i].start \in Nat
    BY <2>1 DEF RegT
  <2> QED BY <2>1, <2>2, <2>3
<1>2. ASSUME NEW c \in Nat PROVE find_blk(regs, c) # 0 <=> Found(regs, c) # {}
  <2>1. Found(regs, c) = {} => find_blk(regs, c) = 0
    BY DEF find_blk, Found
  <2>2. Found(regs, c) # {} => find_blk(regs, c) # 0
    BY <1>1
  <2> QED BY <2>1, <2>2
<1>3. find_blk(regs, b) # 0 => find_blk(regs, b) \in 1..(nb - 1)
  BY <1>1, <1>2
<1>4. ASSUME find_blk(regs, b) # 0, NEW c \in Nat, find_blk(regs, c) = find_blk(regs, b)
      PROVE  c = b
  <2>1. PICK i \in 0..(n - 1) :
               /\ ow[find_blk(regs, b)] = <<o, i>>
               /\ regs[i].start \in Nat /\ Before(regs, i) \in Nat
               /\ find_blk(regs, b) = regs[i].start + b - Before(regs, i)
    BY <1>1, <1>2, <1>4
  <2>2. PICK j \in 0..(n - 1) :
               /\ ow[find_blk(regs, c)] = <<o, j>>
               /\ find_blk(regs, c) = regs[j].start + c - Before(regs, j)
    BY <1>1, <1>2, <1>4
  <2>3. i = j
    BY <1>4, <2>1, <2>2
  <2> QED BY <1>4, <2>1, <2>2, <2>3
<1> QED BY <1>2, <1>3, <1>4

\* The owners stay when more blocks get one.
Grows(nb, nb2, ow, ow2) == nb \in Nat /\ nb2 \in Nat /\ nb <= nb2 /\ \A a \in 1..(nb - 1) : ow2[a] = ow[a]

LEMMA MineGrows ==
  ASSUME NEW regs, NEW o, NEW nb, NEW nb2, NEW ow, NEW ow2,
         Mine(regs, o, nb, ow), Grows(nb, nb2, ow, ow2)
  PROVE  Mine(regs, o, nb2, ow2)
BY DEF Mine, Grows

\* The owners once the l blocks from a on are given to x.
Given(ow, a, l, x) == [b \in Nat |-> IF b \in a..(a + l - 1) THEN x ELSE ow[b]]

LEMMA GivenGrows ==
  ASSUME NEW ow, NEW a \in Nat, NEW l \in Nat, NEW x
  PROVE  Grows(a, a + l, ow, Given(ow, a, l, x))
BY DEF Grows, Given

LEMMA MineGiven ==
  ASSUME NEW n \in Nat, NEW r \in [0..(n - 1) -> RegT], NEW o, NEW ow, NEW nb \in Nat, nb # 0,
         NEW l \in Nat, NEW i \in 0..(n - 1),
         Mine(r, o, nb, ow)
  PROVE  Mine([r EXCEPT ![i] = [start |-> nb, len |-> l]], o, nb + l, Given(ow, nb, l, <<o, i>>))
<1> DEFINE s == [r EXCEPT ![i] = [start |-> nb, len |-> l]]
           ow2 == Given(ow, nb, l, <<o, i>>)
<1>1. Mine(r, o, nb + l, ow2)
  BY MineGrows, GivenGrows
<1>2. DOMAIN s = 0..(n - 1) /\ s[i] = [start |-> nb, len |-> l]
      /\ \A j \in 0..(n - 1) : j # i => s[j] = r[j]
  OBVIOUS
<1>3. ASSUME NEW a \in Extent(s[i]) PROVE a \in 1..(nb + l - 1) /\ ow2[a] = <<o, i>>
  BY <1>2 DEF Extent, Given
<1> HIDE DEF s, ow2
<1>4. Mine(s, o, nb + l, ow2)
  BY <1>1, <1>2, <1>3 DEF Mine
<1> QED BY <1>4 DEF s, ow2

\* The first index that no region holds.
LEMMA FirstFree ==
  ASSUME NEW n \in Nat, NEW regs \in [0..(n - 1) -> RegT], NEW o, NEW nb, NEW ow,
         Mine(regs, o, nb, ow), NEW b \in Nat, find_blk(regs, b) = 0,
         b # 0 => find_blk(regs, b - 1) # 0
  PROVE  Before(regs, Used(regs)) = b
<1>1. Used(regs) \in 0..n
  BY UsedIs
<1>2. Before(regs, Used(regs)) \in Nat
  BY <1>1, BeforeIs
<1>3. Found(regs, b) = {}
  BY FindMine
<1>4. ~(b < Before(regs, Used(regs)))
  BY <1>3, FoundIff
<1>5. CASE b = 0
  BY <1>2, <1>4, <1>5
<1>6. CASE b # 0
  <2>1. b - 1 \in Nat
    BY <1>6
  <2>2. Found(regs, b - 1) # {}
    BY <1>6, <2>1, FindMine
  <2>3. b - 1 < Before(regs, Used(regs))
    BY <2>1, <2>2, FoundIff
  <2> QED BY <1>2, <1>4, <2>3
<1> QED BY <1>5, <1>6

-----------------------------------------------------------------------------
(* Numbers of inodes and of their blocks *)

LEMMA Division ==
  ASSUME NEW k \in Nat, k # 0, NEW m \in Nat
  PROVE  m \div k \in Nat /\ m % k \in 0..(k - 1) /\ m = k * (m \div k) + (m % k)
OBVIOUS

\* The place of an inode in its block tells it from the others there.
LEMMA PlaceOf ==
  ASSUME NEW k \in Nat, k # 0, NEW m \in Nat, NEW j \in Nat, m \div k = j \div k, m % k = j % k
  PROVE  m = j
<1>1. m = k * (m \div k) + (m % k)
  BY Division
<1>2. j = k * (j \div k) + (j % k)
  BY Division
<1> QED BY <1>1, <1>2

LEMMA DivStep ==
  ASSUME NEW k \in Nat, k # 0, NEW m \in Nat, m # 0
  PROVE  (m - 1) \div k = m \div k \/ (m - 1) \div k = m \div k - 1
OBVIOUS

\* Every block of a count of blocks rounded up starts with an inode.
LEMMA RoundUp ==
  ASSUME NEW k \in Nat, k # 0, NEW n \in Nat
  PROVE  /\ (n + k - 1) \div k \in Nat
         /\ \A i \in 1..((n + k - 1) \div k) : \E m \in 0..(n - 1) : m \div k = i - 1
<1> DEFINE q == (n + k - 1) \div k
<1>1. q \in Nat /\ k * q <= n + k - 1
  <2>1. n + k - 1 \in Nat
    OBVIOUS
  <2>2. q \in Nat /\ (n + k - 1) % k \in 0..(k - 1) /\ n + k - 1 = k * q + ((n + k - 1) % k)
    BY <2>1, Division
  <2> QED BY <2>1, <2>2
<1> HIDE DEF q
<1>2. ASSUME NEW i \in 1..q PROVE \E m \in 0..(n - 1) : m \div k = i - 1
  <2> DEFINE m == k * (i - 1)
  <2>1. \A x, y \in Nat : x <= y => k * x <= k * y
    OBVIOUS
  <2>2. i \in Nat /\ i - 1 \in Nat /\ i <= q
    BY <1>1
  <2>3. m \in Nat /\ m = k * i - k
    BY <2>2
  <2>4. k * i <= k * q
    BY <1>1, <2>1, <2>2
  <2>5. m \in 0..(n - 1)
    BY <1>1, <2>2, <2>3, <2>4
  <2>6. m \div k = i - 1
    BY <2>2
  <2> QED BY <2>5, <2>6
<1> QED BY <1>1, <1>2 DEF q

-----------------------------------------------------------------------------
(* What a volume holds *)

Addr    == 0..(BLOCK_NUM - 1)
InodeT  == [ftype : {"DIR", "FILE"}, eof : Nat, regs : [0..(NREG - 1) -> RegT]]
IBlockT == [0..(IPB - 1) -> InodeT]
HeadT   == [nblocks : Nat, next_block : Nat, next_inode : Nat, regs : [0..(HREG - 1) -> RegT]]

\* Directory entries of inodes below n.
IsDBlock(b, n) == b = [k \in 0..(DPB - 1) |-> b[k]] /\ \A k \in 0..(DPB - 1) : b[k].ino \in 0..(n - 1)

BlockOK(b, n) == (b.kind = "I" => b.data \in IBlockT) /\ (b.kind = "D" => IsDBlock(b.data, n))

DiskOK(D, n) == D = [a \in Addr |-> D[a]] /\ D[0].kind = "H" /\ \A a \in Addr : BlockOK(D[a], n)

HeadOK(H, ow) ==
  /\ H \in HeadT /\ H.next_block \in 1..H.nblocks /\ H.nblocks <= BLOCK_NUM
  /\ Mine(H.regs, -1, H.next_block, ow)

\* The inodes below n have blocks.
HasTable(H, n) == \A m \in 0..(n - 1) : find_blk(H.regs, m \div IPB) # 0

OnDisk(D, H, m) == AsI(D[find_blk(H.regs, m \div IPB)])[m % IPB]

DiskOwn(D, H, n, ow) == \A m \in 0..(n - 1) : Mine(OnDisk(D, H, m).regs, m, H.next_block, ow)

\* The caches of inodes and of directory entries.
ICOK(ci, ca, C, H, n, ow) ==
  /\ C \in IBlockT
  /\ \A m \in 0..(n - 1) : m \div IPB = ci =>
       ca = find_blk(H.regs, ci) /\ Mine(C[m % IPB].regs, m, H.next_block, ow)

DCOK(da, DC, n) == IsDBlock(DC, n) /\ (da = 0 => DC = ZeroDBlock)

\* The inodes from nd on, not on the disk yet, are in the cache.
Pending(ci, nd, nc) == \A m \in nd..(nc - 1) : m \div IPB = ci

\* The inodes in use are those below nc, of which the disk holds those below nd;
\* both versions of an inode own its regions.
VInv(v, nd, nc, ow) ==
  /\ IsVol(v) /\ nd \in Nat /\ nd # 0 /\ nc \in Nat /\ nd <= nc
  /\ DiskOK(v.disk, nc) /\ HeadOK(v.hblock, ow) /\ HasTable(v.hblock, nc)
  /\ DiskOwn(v.disk, v.hblock, nd, ow)
  /\ ICOK(v.icindex, v.icaddr, v.icache, v.hblock, nc, ow)
  /\ DCOK(v.dcaddr, v.dcache, nc) /\ BlockOK(v.xcache, nc) /\ Pending(v.icindex, nd, nc)

LEMMA Consts ==
  /\ BLOCK_NUM \in Nat /\ NBLOCKS \in Nat /\ IREG \in Nat /\ DREG \in Nat /\ FREG \in Nat
  /\ IPB \in Nat /\ DPB \in Nat /\ UNL \in Nat /\ NREG \in Nat /\ HREG \in Nat
  /\ BLOCK_NUM # 0 /\ IREG # 0 /\ DREG # 0 /\ FREG # 0 /\ IPB # 0 /\ DPB # 0 /\ UNL # 0
  /\ NREG # 0 /\ HREG # 0
BY FS2Assumption

LEMMA ZeroTypes ==
  /\ \A n \in Nat : Regions(n) \in [0..(n - 1) -> RegT]
  /\ ZeroInode \in InodeT /\ ZeroIBlock \in IBlockT /\ ZeroHBlock \in HeadT
  /\ \A n \in Nat : n # 0 => IsDBlock(ZeroDBlock, n)
<1>1. \A n \in Nat : Regions(n) \in [0..(n - 1) -> RegT]
  BY DEF Regions, RegT
<1>2. ZeroInode \in InodeT
  BY <1>1, Consts DEF ZeroInode, InodeT
<1>3. ZeroIBlock \in IBlockT
  BY <1>2 DEF ZeroIBlock, IBlockT
<1>4. ZeroHBlock \in HeadT
  BY <1>1, Consts DEF ZeroHBlock, HeadT
<1>5. \A n \in Nat : n # 0 => IsDBlock(ZeroDBlock, n)
  BY DEF ZeroDBlock, IsDBlock
<1> QED BY <1>1, <1>2, <1>3, <1>4, <1>5

LEMMA AsTypes ==
  ASSUME NEW n \in Nat, n # 0, NEW b, BlockOK(b, n)
  PROVE  AsI(b) \in IBlockT /\ IsDBlock(AsD(b), n)
BY ZeroTypes DEF BlockOK, AsI, AsD

LEMMA IBlockAt ==
  ASSUME NEW C \in IBlockT, NEW s \in 0..(IPB - 1)
  PROVE  /\ C[s] \in InodeT /\ C[s].eof \in Nat /\ C[s].regs \in [0..(NREG - 1) -> RegT]
         /\ C[s].ftype \in {"DIR", "FILE"}
BY DEF IBlockT, InodeT

\* The place of an inode in its block.
LEMMA PlaceIn == ASSUME NEW m \in Nat PROVE m \div IPB \in Nat /\ m % IPB \in 0..(IPB - 1)
BY Consts, Division

\* What is not in the results does not depend on them.
LEMMA InvSame ==
  ASSUME NEW v, NEW w, NEW nd, NEW nc, NEW ow, VInv(v, nd, nc, ow), Only(w, v, Results)
  PROVE  VInv(w, nd, nc, ow)
<1>1. /\ w["disk"] = v["disk"] /\ w["hblock"] = v["hblock"] /\ w["icindex"] = v["icindex"]
      /\ w["icaddr"] = v["icaddr"] /\ w["icache"] = v["icache"] /\ w["dcaddr"] = v["dcaddr"]
      /\ w["dcache"] = v["dcache"] /\ w["xcache"] = v["xcache"] /\ IsVol(w)
  BY DEF Only, Fields, Results
<1> QED BY <1>1 DEF VInv

\* The blocks of the inode table are blocks of the disk.
LEMMA TableBlk ==
  ASSUME NEW H, NEW ow, HeadOK(H, ow), NEW b \in Nat, find_blk(H.regs, b) # 0
  PROVE  /\ find_blk(H.regs, b) \in Addr
         /\ \A c \in Nat : find_blk(H.regs, c) = find_blk(H.regs, b) => c = b
<1>1. H.regs \in [0..(HREG - 1) -> RegT] /\ Mine(H.regs, -1, H.next_block, ow) /\ HREG \in Nat
  BY Consts DEF HeadOK, HeadT
<1>2. find_blk(H.regs, b) \in 1..(H.next_block - 1)
  BY <1>1, FindMine
<1>3. \A c \in Nat : find_blk(H.regs, c) = find_blk(H.regs, b) => c = b
  BY <1>1, FindMine
<1>4. find_blk(H.regs, b) \in Addr
  <2>1. H.next_block \in Nat /\ H.nblocks \in Nat /\ H.next_block <= H.nblocks
        /\ H.nblocks <= BLOCK_NUM /\ BLOCK_NUM \in Nat
    BY Consts DEF HeadOK, HeadT
  <2> QED BY <1>2, <2>1 DEF Addr
<1> QED BY <1>3, <1>4

\* The blocks that hold inodes in use.
LEMMA TableAt ==
  ASSUME NEW H, NEW ow, HeadOK(H, ow), NEW n \in Nat, HasTable(H, n), NEW m \in 0..(n - 1)
  PROVE  /\ m \div IPB \in Nat
         /\ find_blk(H.regs, m \div IPB) \in Addr /\ find_blk(H.regs, m \div IPB) # 0
         /\ \A c \in Nat : find_blk(H.regs, c) = find_blk(H.regs, m \div IPB) => c = m \div IPB
<1>1. m \div IPB \in Nat
  BY PlaceIn
<1>2. find_blk(H.regs, m \div IPB) # 0
  BY DEF HasTable
<1> QED BY <1>1, <1>2, TableBlk

-----------------------------------------------------------------------------
(* Loading and saving *)

LEMMA WriteFields ==
  ASSUME NEW v, IsVol(v), NEW a, NEW b, a \in DOMAIN v.disk
  PROVE  /\ Only(fs2_wblk(v, a, b), v, {"disk", "log", "outcome"})
         /\ fs2_wblk(v, a, b).disk = [v.disk EXCEPT ![a] = b]
         /\ Ok(fs2_wblk(v, a, b))
<1> DEFINE w1 == Set(v, "disk", [v.disk EXCEPT ![a] = b])
           w2 == Set(w1, "outcome", "SUCCESS")
           w3 == Set(w2, "log", Append(v.log, [addr |-> a, block |-> b]))
<1>1. fs2_wblk(v, a, b) = w3
  <2>1. "disk" \in Fields /\ "log" \in Fields /\ "outcome" \in Fields
    BY DEF Fields
  <2>2. w2["log"] = v["log"]
    BY <2>1 DEF IsVol, Set
  <2> QED BY DEF fs2_wblk, Set
<1>2. "disk" \in Fields /\ "log" \in Fields /\ "outcome" \in Fields
  BY DEF Fields
<1>3. Only(w1, v, {"disk"}) /\ w1["disk"] = [v.disk EXCEPT ![a] = b]
  BY <1>2, SetIs
<1>4. IsVol(w1)
  BY <1>3 DEF Only
<1> HIDE DEF w1
<1>5. Only(w2, w1, {"outcome"}) /\ w2["outcome"] = "SUCCESS"
  BY <1>2, <1>4, SetIs
<1>6. IsVol(w2)
  BY <1>5 DEF Only
<1> HIDE DEF w2
<1>7. Only(w3, w2, {"log"})
  BY <1>2, <1>6, SetIs
<1> HIDE DEF w3
<1> QED BY <1>1, <1>2, <1>3, <1>5, <1>7 DEF Only, Ok

LEMMA WriteFails ==
  ASSUME NEW v, IsVol(v), NEW a, NEW b, a \notin DOMAIN v.disk
  PROVE  Only(fs2_wblk(v, a, b), v, {"outcome"}) /\ fs2_wblk(v, a, b).outcome = "DISK_WR_ERR"
<1>1. fs2_wblk(v, a, b) = Outcome(v, "DISK_WR_ERR")
  BY DEF fs2_wblk
<1> QED BY <1>1, OutcomeFields

\* What a call may do to a volume without creating a file: the header stays.
Keeping(w, v, nd, nc, ow) == VInv(w, nd, nc, ow) /\ w.hblock = v.hblock /\ w.disk[0] = v.disk[0]

\* Writing a block of entries anywhere but over the header.
LEMMA SaveD ==
  ASSUME NEW v, NEW nd, NEW nc, NEW ow, VInv(v, nd, nc, ow), v.dcaddr # 0
  PROVE  /\ Keeping(fs2_save_dblock_c(v), v, nd, nc, ow)
         /\ Only(fs2_save_dblock_c(v), v, {"disk", "log", "outcome"})
         /\ fs2_save_dblock_c(v).outcome # "LOOP"
<1> DEFINE blk == [kind |-> "D", data |-> v.dcache]
           w == fs2_save_dblock_c(v)
<1>1. w = fs2_wblk(v, v.dcaddr, blk)
  BY DEF fs2_save_dblock_c
<1>2. IsVol(v) /\ DiskOK(v.disk, nc) /\ DOMAIN v.disk = Addr
  BY DEF VInv, DiskOK
<1>3. CASE v.dcaddr \notin Addr
  <2>1. Only(w, v, {"outcome"}) /\ w.outcome = "DISK_WR_ERR"
    BY <1>1, <1>2, <1>3, WriteFails
  <2>2. Only(w, v, Results) /\ Only(w, v, {"disk", "log", "outcome"})
    BY <2>1, OnlyMore DEF Results
  <2>3. w["hblock"] = v["hblock"] /\ w["disk"] = v["disk"]
    BY <2>1 DEF Only, Fields
  <2> QED BY <2>1, <2>2, <2>3, InvSame DEF Keeping
<1>4. CASE v.dcaddr \in Addr
  <2>1. Only(w, v, {"disk", "log", "outcome"}) /\ w.disk = [v.disk EXCEPT ![v.dcaddr] = blk]
        /\ w.outcome = "SUCCESS"
    BY <1>1, <1>2, <1>4, WriteFields DEF Ok
  <2>2. BlockOK(blk, nc)
    BY DEF VInv, DCOK, BlockOK
  <2>3. /\ w["hblock"] = v["hblock"] /\ w["icindex"] = v["icindex"]
        /\ w["icaddr"] = v["icaddr"] /\ w["icache"] = v["icache"] /\ w["dcaddr"] = v["dcaddr"]
        /\ w["dcache"] = v["dcache"] /\ w["xcache"] = v["xcache"] /\ IsVol(w)
    BY <2>1 DEF Only, Fields
  <2>4. w.disk[0] = v.disk[0] /\ \A a \in Addr : w.disk[a] = v.disk[a] \/ w.disk[a] = blk
    BY <1>2, <2>1 DEF DiskOK, Addr
  <2>5. DiskOK(w.disk, nc)
    <3>1. w.disk = [a \in Addr |-> w.disk[a]]
      BY <1>2, <2>1 DEF DiskOK
    <3> QED BY <1>2, <2>2, <2>4, <3>1 DEF DiskOK
  <2>6. DiskOwn(w.disk, w.hblock, nd, ow)
    <3> SUFFICES ASSUME NEW m \in 0..(nd - 1)
                 PROVE  Mine(OnDisk(w.disk, v.hblock, m).regs, m, v.hblock.next_block, ow)
      BY <2>3 DEF DiskOwn
    <3>1. Mine(OnDisk(v.disk, v.hblock, m).regs, m, v.hblock.next_block, ow)
      BY DEF VInv, DiskOwn
    <3>2. m \in 0..(nc - 1) /\ HeadOK(v.hblock, ow) /\ HasTable(v.hblock, nc) /\ nc \in Nat
      BY DEF VInv
    <3>3. find_blk(v.hblock.regs, m \div IPB) \in Addr
      BY <3>2, TableAt
    <3> DEFINE a == find_blk(v.hblock.regs, m \div IPB)
    <3>4. CASE w.disk[a] = v.disk[a]
      BY <3>1, <3>4 DEF OnDisk
    <3>5. CASE w.disk[a] = blk
      <4>1. OnDisk(w.disk, v.hblock, m) = ZeroIBlock[m % IPB]
        BY <3>5 DEF OnDisk, AsI
      <4>2. m % IPB \in 0..(IPB - 1)
        <5>1. m \in Nat
          OBVIOUS
        <5> QED BY <5>1, PlaceIn
      <4>3. OnDisk(w.disk, v.hblock, m).regs = Regions(NREG)
        BY <4>1, <4>2 DEF ZeroIBlock, ZeroInode
      <4> QED BY <4>3 DEF Mine, Regions
    <3> QED BY <2>4, <3>3, <3>4, <3>5
  <2>7. VInv(w, nd, nc, ow)
    BY <2>3, <2>5, <2>6 DEF VInv
  <2> QED BY <2>1, <2>3, <2>4, <2>7 DEF Keeping
<1> QED BY <1>3, <1>4

\* Fields set one after the other.
Set3(v, f, d, g, e, h, c) == Set(Set(Set(v, f, d), g, e), h, c)

LEMMA Set3Is ==
  ASSUME NEW v, IsVol(v), NEW f \in Fields, NEW g \in Fields, NEW h \in Fields,
         f # g, f # h, g # h, NEW d, NEW e, NEW c
  PROVE  /\ Only(Set3(v, f, d, g, e, h, c), v, {f, g, h})
         /\ Set3(v, f, d, g, e, h, c)[f] = d
         /\ Set3(v, f, d, g, e, h, c)[g] = e
         /\ Set3(v, f, d, g, e, h, c)[h] = c
<1> DEFINE w1 == Set(v, f, d)
           w2 == Set(w1, g, e)
           w3 == Set(w2, h, c)
<1>1. Only(w1, v, {f}) /\ w1[f] = d
  BY SetIs
<1>2. IsVol(w1)
  BY <1>1 DEF Only
<1> HIDE DEF w1
<1>3. Only(w2, w1, {g}) /\ w2[g] = e
  BY <1>2, SetIs
<1>4. IsVol(w2)
  BY <1>3 DEF Only
<1> HIDE DEF w2
<1>5. Only(w3, w2, {h}) /\ w3[h] = c
  BY <1>4, SetIs
<1> HIDE DEF w3
<1>6. Only(w3, v, {f, g, h}) /\ w3[f] = d /\ w3[g] = e /\ w3[h] = c
  BY <1>1, <1>3, <1>5 DEF Only
<1> QED BY <1>6 DEF w1, w2, w3, Set3

LEMMA LoadD ==
  ASSUME NEW v, NEW nd, NEW nc, NEW ow, VInv(v, nd, nc, ow),
         NEW da, NEW dry \in BOOLEAN, dry => da # 0
  PROVE  /\ VInv(fs2_load_dblock_c(v, da, dry), nd, nc, ow)
         /\ Only(fs2_load_dblock_c(v, da, dry), v, {"dcache", "dcaddr", "outcome"})
         /\ Ok(fs2_load_dblock_c(v, da, dry)) => fs2_load_dblock_c(v, da, dry).dcaddr = da
         /\ dry => Ok(fs2_load_dblock_c(v, da, dry))
<1> DEFINE w == fs2_load_dblock_c(v, da, dry)
           new == IF da = v.dcaddr \/ dry THEN v.dcache ELSE AsD(v.disk[da])
<1>1. IsVol(v) /\ DiskOK(v.disk, nc) /\ DOMAIN v.disk = Addr
  BY DEF VInv, DiskOK
<1>2. CASE da # v.dcaddr /\ ~dry /\ da \notin DOMAIN v.disk
  <2>1. w = Outcome(v, "DISK_RD_ERR")
    BY <1>2 DEF fs2_load_dblock_c
  <2>2. Only(w, v, {"outcome"}) /\ ~Ok(w)
    BY <1>1, <2>1, OutcomeFields DEF Ok
  <2>3. Only(w, v, Results) /\ Only(w, v, {"dcache", "dcaddr", "outcome"})
    BY <2>2, OnlyMore DEF Results
  <2> QED BY <1>2, <2>2, <2>3, InvSame
<1>3. CASE ~(da # v.dcaddr /\ ~dry /\ da \notin DOMAIN v.disk)
  <2>1. w = Set3(v, "dcache", new, "dcaddr", da, "outcome", "SUCCESS")
    BY <1>3 DEF fs2_load_dblock_c, Set, Set3
  <2>2. "dcache" \in Fields /\ "dcaddr" \in Fields /\ "outcome" \in Fields
    BY DEF Fields
  <2> HIDE DEF new
  <2>3. Only(w, v, {"dcache", "dcaddr", "outcome"})
        /\ w["dcache"] = new /\ w["dcaddr"] = da /\ w["outcome"] = "SUCCESS"
    <3> DEFINE u == Set3(v, "dcache", new, "dcaddr", da, "outcome", "SUCCESS")
    <3>1. Only(u, v, {"dcache", "dcaddr", "outcome"})
            /\ u["dcache"] = new /\ u["dcaddr"] = da /\ u["outcome"] = "SUCCESS"
      BY <1>1, <2>2, Set3Is
    <3> HIDE DEF w
    <3> QED BY <2>1, <3>1
  <2>4. DCOK(da, new, nc)
    <3>1. DCOK(v.dcaddr, v.dcache, nc) /\ nc \in Nat /\ nc # 0
      BY DEF VInv
    <3>2. CASE da = v.dcaddr \/ dry
      BY <3>1, <3>2 DEF DCOK, new
    <3>3. CASE ~(da = v.dcaddr \/ dry)
      <4>1. da \in Addr /\ new = AsD(v.disk[da])
        BY <1>1, <1>3, <3>3 DEF new
      <4>2. BlockOK(v.disk[da], nc) /\ (da = 0 => v.disk[da].kind = "H")
        BY <1>1, <4>1 DEF DiskOK
      <4>3. IsDBlock(new, nc)
        BY <3>1, <4>1, <4>2, AsTypes
      <4> QED BY <4>1, <4>2, <4>3 DEF DCOK, AsD
    <3> QED BY <3>2, <3>3
  <2>5. /\ w["hblock"] = v["hblock"] /\ w["icindex"] = v["icindex"] /\ w["disk"] = v["disk"]
        /\ w["icaddr"] = v["icaddr"] /\ w["icache"] = v["icache"]
        /\ w["xcache"] = v["xcache"] /\ IsVol(w)
    BY <2>3 DEF Only, Fields
  <2>6. VInv(w, nd, nc, ow)
    BY <2>3, <2>4, <2>5 DEF VInv
  <2> QED BY <2>3, <2>6 DEF Ok
<1> QED BY <1>2, <1>3

LEMMA LoadX ==
  ASSUME NEW v, NEW nd, NEW nc, NEW ow, VInv(v, nd, nc, ow), NEW a
  PROVE  /\ VInv(fs2_load_gp_c(v, a, FALSE), nd, nc, ow)
         /\ Only(fs2_load_gp_c(v, a, FALSE), v, {"xcache", "xcaddr", "outcome"})
<1> DEFINE w == fs2_load_gp_c(v, a, FALSE)
           new == IF a = v.xcaddr THEN v.xcache ELSE v.disk[a]
<1>1. IsVol(v) /\ DiskOK(v.disk, nc) /\ DOMAIN v.disk = Addr
  BY DEF VInv, DiskOK
<1>2. CASE a # v.xcaddr /\ a \notin DOMAIN v.disk
  <2>1. w = Outcome(v, "DISK_RD_ERR")
    BY <1>2 DEF fs2_load_gp_c
  <2>2. Only(w, v, {"outcome"})
    BY <1>1, <2>1, OutcomeFields
  <2>3. Only(w, v, Results) /\ Only(w, v, {"xcache", "xcaddr", "outcome"})
    BY <2>2, OnlyMore DEF Results
  <2> QED BY <2>3, InvSame
<1>3. CASE ~(a # v.xcaddr /\ a \notin DOMAIN v.disk)
  <2>1. w = Set3(v, "xcache", new, "xcaddr", a, "outcome", "SUCCESS")
    BY <1>3 DEF fs2_load_gp_c, Set, Set3
  <2>2. "xcache" \in Fields /\ "xcaddr" \in Fields /\ "outcome" \in Fields
    BY DEF Fields
  <2> HIDE DEF new
  <2>3. Only(w, v, {"xcache", "xcaddr", "outcome"}) /\ w["xcache"] = new
    <3> DEFINE u == Set3(v, "xcache", new, "xcaddr", a, "outcome", "SUCCESS")
    <3>1. Only(u, v, {"xcache", "xcaddr", "outcome"}) /\ u["xcache"] = new
      BY <1>1, <2>2, Set3Is
    <3> HIDE DEF w
    <3> QED BY <2>1, <3>1
  <2>4. BlockOK(new, nc)
    BY <1>1, <1>3 DEF VInv, DiskOK, new
  <2>5. /\ w["hblock"] = v["hblock"] /\ w["icindex"] = v["icindex"] /\ w["disk"] = v["disk"]
        /\ w["icaddr"] = v["icaddr"] /\ w["icache"] = v["icache"]
        /\ w["dcache"] = v["dcache"] /\ w["dcaddr"] = v["dcaddr"] /\ IsVol(w)
    BY <2>3 DEF Only, Fields
  <2>6. VInv(w, nd, nc, ow)
    BY <2>3, <2>4, <2>5 DEF VInv
  <2> QED BY <2>3, <2>6
<1> QED BY <1>2, <1>3

\* Putting an entry into the cached block, of a directory.
LEMMA SetEntry ==
  ASSUME NEW v, NEW nd, NEW nc, NEW ow, VInv(v, nd, nc, ow), v.dcaddr # 0,
         NEW k, NEW e, e.ino \in 0..(nc - 1)
  PROVE  /\ VInv([v EXCEPT !.dcache[k] = e], nd, nc, ow)
         /\ Only([v EXCEPT !.dcache[k] = e], v, {"dcache"})
<1> DEFINE b == v.dcache
           w == Set(v, "dcache", [b EXCEPT ![k] = e])
<1>1. [v EXCEPT !.dcache[k] = e] = w
  BY DEF Set
<1>2. IsVol(v) /\ "dcache" \in Fields
  BY DEF VInv, Fields
<1>3. Only(w, v, {"dcache"}) /\ w["dcache"] = [b EXCEPT ![k] = e]
  BY <1>2, SetIs
<1> HIDE DEF w
<1>4. IsDBlock([b EXCEPT ![k] = e], nc)
  <2>1. IsDBlock(b, nc)
    BY DEF VInv, DCOK
  <2> QED BY <2>1 DEF IsDBlock
<1>5. /\ w["hblock"] = v["hblock"] /\ w["icindex"] = v["icindex"] /\ w["disk"] = v["disk"]
      /\ w["icaddr"] = v["icaddr"] /\ w["icache"] = v["icache"]
      /\ w["xcache"] = v["xcache"] /\ w["dcaddr"] = v["dcaddr"] /\ IsVol(w)
  BY <1>3 DEF Only, Fields
<1>6. VInv(w, nd, nc, ow)
  BY <1>3, <1>4, <1>5 DEF VInv, DCOK
<1> QED BY <1>1, <1>3, <1>6

\* Changing an inode of the cached block.
PutInode(v, s, e) == Set(v, "icache", [v.icache EXCEPT ![s] = e])

LEMMA PutInodeIs ==
  ASSUME NEW v, NEW nd, NEW nc, NEW ow, VInv(v, nd, nc, ow),
         NEW s \in 0..(IPB - 1), NEW e \in InodeT,
         \A m \in 0..(nc - 1) : m \div IPB = v.icindex /\ m % IPB = s =>
            Mine(e.regs, m, v.hblock.next_block, ow)
  PROVE  /\ VInv(PutInode(v, s, e), nd, nc, ow)
         /\ Only(PutInode(v, s, e), v, {"icache"})
         /\ PutInode(v, s, e).icache[s] = e
<1> DEFINE w == PutInode(v, s, e)
           C == [v.icache EXCEPT ![s] = e]
<1>1. IsVol(v) /\ "icache" \in Fields /\ v.icache \in IBlockT
  BY DEF VInv, ICOK, Fields
<1>2. Only(w, v, {"icache"}) /\ w["icache"] = C
  BY <1>1, SetIs DEF PutInode
<1> HIDE DEF w
<1>3. C \in IBlockT /\ C[s] = e
  BY <1>1 DEF IBlockT
<1>4. ICOK(v.icindex, v.icaddr, C, v.hblock, nc, ow)
  <2> SUFFICES ASSUME NEW m \in 0..(nc - 1), m \div IPB = v.icindex
               PROVE  /\ v.icaddr = find_blk(v.hblock.regs, v.icindex)
                      /\ Mine(C[m % IPB].regs, m, v.hblock.next_block, ow)
    BY <1>3 DEF ICOK
  <2>1. /\ v.icaddr = find_blk(v.hblock.regs, v.icindex)
        /\ Mine(v.icache[m % IPB].regs, m, v.hblock.next_block, ow)
    BY DEF VInv, ICOK
  <2>2. C[m % IPB] = IF m % IPB = s THEN e ELSE v.icache[m % IPB]
    <3>1. m \in Nat
      OBVIOUS
    <3>2. m % IPB \in 0..(IPB - 1)
      BY <3>1, PlaceIn
    <3> QED BY <1>1, <3>2 DEF IBlockT
  <2> HIDE DEF C
  <2>3. CASE m % IPB = s
    BY <2>1, <2>2, <2>3
  <2>4. CASE m % IPB # s
    BY <2>1, <2>2, <2>4
  <2> QED BY <2>3, <2>4
<1>5. /\ w["hblock"] = v["hblock"] /\ w["icindex"] = v["icindex"] /\ w["disk"] = v["disk"]
      /\ w["icaddr"] = v["icaddr"] /\ w["dcache"] = v["dcache"]
      /\ w["xcache"] = v["xcache"] /\ w["dcaddr"] = v["dcaddr"] /\ IsVol(w)
  BY <1>2 DEF Only, Fields
<1>6. VInv(w, nd, nc, ow)
  <2> HIDE DEF C
  <2> QED BY <1>2, <1>4, <1>5 DEF VInv
<1> QED BY <1>2, <1>3, <1>6 DEF w

\* Writing the cached block of inodes, where it holds one in use.
LEMMA SaveI ==
  ASSUME NEW v, NEW nd, NEW nc, NEW ow, VInv(v, nd, nc, ow),
         NEW x \in 0..(nc - 1), x \div IPB = v.icindex
  PROVE  /\ Keeping(fs2_save_iblock_c(v), v, nc, nc, ow)
         /\ Only(fs2_save_iblock_c(v), v, {"disk", "log", "outcome"})
         /\ Ok(fs2_save_iblock_c(v))
<1> DEFINE blk == [kind |-> "I", data |-> v.icache]
           w == fs2_save_iblock_c(v)
           R == v.hblock.regs
<1>1. w = fs2_wblk(v, v.icaddr, blk)
  BY DEF fs2_save_iblock_c
<1>2. IsVol(v) /\ DiskOK(v.disk, nc) /\ DOMAIN v.disk = Addr /\ nc \in Nat /\ nd \in Nat
      /\ nd # 0 /\ nd <= nc /\ HeadOK(v.hblock, ow) /\ HasTable(v.hblock, nc)
  BY DEF VInv, DiskOK
<1>3. v.icaddr = find_blk(R, v.icindex)
  BY DEF VInv, ICOK
<1>4. /\ v.icaddr \in Addr /\ v.icaddr # 0
      /\ \A c \in Nat : find_blk(R, c) = v.icaddr => c = v.icindex
  BY <1>2, <1>3, TableAt
<1>5. Only(w, v, {"disk", "log", "outcome"}) /\ w.disk = [v.disk EXCEPT ![v.icaddr] = blk] /\ Ok(w)
  BY <1>1, <1>2, <1>4, WriteFields
<1> HIDE DEF w
<1>6. /\ w["hblock"] = v["hblock"] /\ w["icindex"] = v["icindex"]
      /\ w["icaddr"] = v["icaddr"] /\ w["icache"] = v["icache"] /\ w["dcaddr"] = v["dcaddr"]
      /\ w["dcache"] = v["dcache"] /\ w["xcache"] = v["xcache"] /\ IsVol(w)
  BY <1>5 DEF Only, Fields
<1>7. v.icache \in IBlockT
  BY DEF VInv, ICOK
<1>8. BlockOK(blk, nc)
  BY <1>7 DEF BlockOK
<1>9. w.disk[v.icaddr] = blk /\ \A a \in Addr : a # v.icaddr => w.disk[a] = v.disk[a]
  BY <1>2, <1>4, <1>5 DEF DiskOK
<1>10. DiskOK(w.disk, nc) /\ w.disk[0] = v.disk[0]
  <2>1. w.disk = [a \in Addr |-> w.disk[a]]
    BY <1>2, <1>5 DEF DiskOK
  <2>2. 0 \in Addr
    BY Consts DEF Addr
  <2> QED BY <1>2, <1>4, <1>8, <1>9, <2>1, <2>2 DEF DiskOK
<1>11. DiskOwn(w.disk, v.hblock, nc, ow)
  <2> SUFFICES ASSUME NEW m \in 0..(nc - 1)
               PROVE  Mine(OnDisk(w.disk, v.hblock, m).regs, m, v.hblock.next_block, ow)
    BY DEF DiskOwn
  <2>1. m \div IPB \in Nat /\ find_blk(R, m \div IPB) \in Addr
    BY <1>2, TableAt
  <2>2. CASE m \div IPB = v.icindex
    <3>1. OnDisk(w.disk, v.hblock, m) = v.icache[m % IPB]
      BY <1>3, <1>9, <2>2 DEF OnDisk, AsI
    <3>2. Mine(v.icache[m % IPB].regs, m, v.hblock.next_block, ow)
      BY <2>2 DEF VInv, ICOK
    <3> QED BY <3>1, <3>2
  <2>3. CASE m \div IPB # v.icindex
    <3>1. find_blk(R, m \div IPB) # v.icaddr
      BY <1>4, <2>1, <2>3
    <3>2. w.disk[find_blk(R, m \div IPB)] = v.disk[find_blk(R, m \div IPB)]
      BY <1>9, <2>1, <3>1
    <3>3. OnDisk(w.disk, v.hblock, m) = OnDisk(v.disk, v.hblock, m)
      BY <3>2 DEF OnDisk
    <3>4. m \in 0..(nd - 1)
      <4>1. m \in nd..(nc - 1) => m \div IPB = v.icindex
        BY DEF VInv, Pending
      <4> QED BY <1>2, <2>3, <4>1
    <3> QED BY <3>3, <3>4 DEF VInv, DiskOwn
  <2> QED BY <2>2, <2>3
<1>12. Pending(v.icindex, nc, nc) /\ nc # 0 /\ nc <= nc
  BY <1>2 DEF Pending
<1>13. VInv(w, nc, nc, ow)
  BY <1>2, <1>6, <1>10, <1>11, <1>12 DEF VInv
<1> QED BY <1>5, <1>6, <1>10, <1>13 DEF w, Keeping

\* Reading a block of the inode table.
LEMMA LoadI ==
  ASSUME NEW v, NEW n, NEW ow, VInv(v, n, n, ow), NEW b \in Nat, find_blk(v.hblock.regs, b) # 0,
         NEW sh, Ok(v)
  PROVE  /\ Keeping(cache_iblock(v, b, sh), v, n, n, ow)
         /\ Only(cache_iblock(v, b, sh), v, {"outcome", "ret", "icindex", "icaddr", "icache"})
         /\ Ok(cache_iblock(v, b, sh)) /\ cache_iblock(v, b, sh).icindex = b
         /\ cache_iblock(v, b, sh).icaddr = find_blk(v.hblock.regs, b)
<1> DEFINE a == find_blk(v.hblock.regs, b)
           u == Set(v, "icindex", b)
           u1 == Result(u, "SUCCESS", a)
           u2 == Set(u1, "icache", AsI(v.disk[a]))
           w == Set(u2, "icaddr", a)
<1>1. {"outcome", "ret", "icindex", "icaddr", "icache"} \subseteq Fields
  BY DEF Fields
<1>2. IsVol(v) /\ DiskOK(v.disk, n) /\ DOMAIN v.disk = Addr /\ n \in Nat /\ n # 0
      /\ HeadOK(v.hblock, ow) /\ HasTable(v.hblock, n)
  BY DEF VInv, DiskOK
<1>3. b \in Nat /\ a \in Addr /\ a # 0
  BY <1>2, TableBlk
<1>4. Only(u, v, {"icindex"}) /\ u["icindex"] = b
  BY <1>1, <1>2, SetIs
<1>5. IsVol(u) /\ u["hblock"] = v["hblock"] /\ u["disk"] = v["disk"]
  BY <1>4 DEF Only, Fields
<1>6. cache_iblock(v, b, sh) = set_icaddr(fs2_get_iblock(u, TRUE, b, sh))
  BY DEF cache_iblock, Set
<1>7. fs2_get_iblock(u, TRUE, b, sh) = load_iblock(u, TRUE, a)
  BY <1>3, <1>5 DEF fs2_get_iblock
<1>8. load_iblock(u, TRUE, a) = u2
  <2>1. load_iblock(u, TRUE, a) = [u1 EXCEPT !.icache = AsI(u.disk[a])]
    BY <1>2, <1>3, <1>5 DEF load_iblock
  <2> QED BY <1>5, <2>1 DEF Set
<1> HIDE DEF u
<1>9. Only(u1, u, {"outcome", "ret"}) /\ u1.outcome = "SUCCESS" /\ u1.ret = a
  BY <1>5, ResultFields
<1>10. IsVol(u1)
  BY <1>9 DEF Only
<1> HIDE DEF u1
<1>11. Only(u2, u1, {"icache"}) /\ u2["icache"] = AsI(v.disk[a])
  BY <1>1, <1>10, SetIs
<1>12. IsVol(u2) /\ u2["ret"] = a
  BY <1>1, <1>9, <1>11 DEF Only
<1> HIDE DEF u2
<1>13. set_icaddr(u2) = w
  BY <1>12 DEF set_icaddr, Set
<1>14. Only(w, u2, {"icaddr"}) /\ w["icaddr"] = a
  BY <1>1, <1>12, SetIs
<1> HIDE DEF w
<1>15. cache_iblock(v, b, sh) = w
  BY <1>6, <1>7, <1>8, <1>13
<1>16. /\ Only(w, v, {"outcome", "ret", "icindex", "icaddr", "icache"})
       /\ w["icindex"] = b /\ w["icaddr"] = a /\ w["icache"] = AsI(v.disk[a])
       /\ w["outcome"] = "SUCCESS"
  BY <1>1, <1>4, <1>9, <1>11, <1>14 DEF Only
<1>17. ICOK(b, a, AsI(v.disk[a]), v.hblock, n, ow)
  <2>1. BlockOK(v.disk[a], n)
    BY <1>2, <1>3 DEF DiskOK
  <2>2. AsI(v.disk[a]) \in IBlockT
    BY <1>2, <2>1, AsTypes
  <2>3. ASSUME NEW j \in 0..(n - 1), j \div IPB = b
        PROVE  Mine(AsI(v.disk[a])[j % IPB].regs, j, v.hblock.next_block, ow)
    <3>1. OnDisk(v.disk, v.hblock, j) = AsI(v.disk[a])[j % IPB]
      BY <2>3 DEF OnDisk
    <3>2. Mine(OnDisk(v.disk, v.hblock, j).regs, j, v.hblock.next_block, ow)
      BY DEF VInv, DiskOwn
    <3> QED BY <3>1, <3>2
  <2> QED BY <2>2, <2>3 DEF ICOK
<1>18. w["hblock"] = v["hblock"] /\ w["disk"] = v["disk"] /\ w["dcaddr"] = v["dcaddr"]
       /\ w["dcache"] = v["dcache"] /\ w["xcache"] = v["xcache"] /\ IsVol(w)
  BY <1>16 DEF Only, Fields
<1>19. Pending(b, n, n) /\ n <= n
  BY <1>2 DEF Pending
<1>20. VInv(w, n, n, ow)
  BY <1>16, <1>17, <1>18, <1>19 DEF VInv
<1> QED BY <1>15, <1>16, <1>18, <1>20 DEF Keeping, Ok

LEMMA KeepingTrans ==
  ASSUME NEW u, NEW v, NEW w, NEW nd, NEW k, NEW nc, NEW ow,
         Keeping(v, u, nd, nc, ow), Keeping(w, v, k, nc, ow)
  PROVE  Keeping(w, u, k, nc, ow)
BY DEF Keeping

LEMMA KeepingSame ==
  ASSUME NEW v, NEW w, NEW nd, NEW nc, NEW ow, VInv(v, nd, nc, ow), Only(w, v, Results)
  PROVE  Keeping(w, v, nd, nc, ow)
<1>1. w["hblock"] = v["hblock"] /\ w["disk"] = v["disk"]
  BY DEF Only, Fields, Results
<1> QED BY <1>1, InvSame DEF Keeping

\* What a step may change that caches another block of inodes.
CacheFields == {"disk", "log", "outcome", "ret", "icindex", "icaddr", "icache"}

\* The block of an inode in use can be cached; if the other one is not saved
\* first, the disk holds all of it already.
LEMMA GetLive ==
  ASSUME NEW v, NEW nd, NEW nc, NEW ow, VInv(v, nd, nc, ow), NEW m \in 0..(nc - 1),
         NEW sh, NEW save \in BOOLEAN, save \/ nd = nc,
         save => \E x \in 0..(nc - 1) : x \div IPB = v.icindex
  PROVE  /\ \E k \in {nd, nc} : Keeping(fs2_get_iblock_c(v, m \div IPB, sh, save), v, k, nc, ow)
         /\ Only(fs2_get_iblock_c(v, m \div IPB, sh, save), v, CacheFields)
         /\ Ok(fs2_get_iblock_c(v, m \div IPB, sh, save))
         /\ fs2_get_iblock_c(v, m \div IPB, sh, save).icindex = m \div IPB
<1> DEFINE b == m \div IPB
           w == fs2_get_iblock_c(v, b, sh, save)
           u == IF save THEN fs2_save_iblock_c(v) ELSE Outcome(v, "SUCCESS")
<1>1. IsVol(v)
  BY DEF VInv
<1>2. Only(Outcome(v, "SUCCESS"), v, {"outcome"}) /\ Ok(Outcome(v, "SUCCESS"))
  BY <1>1, OutcomeFields DEF Ok
<1>3. Keeping(Outcome(v, "SUCCESS"), v, nd, nc, ow)
  <2>1. Only(Outcome(v, "SUCCESS"), v, Results)
    BY <1>2, OnlyMore DEF Results
  <2> QED BY <2>1, KeepingSame
<1>4. CASE b = v.icindex
  <2>1. w = Outcome(v, "SUCCESS")
    BY <1>4 DEF fs2_get_iblock_c
  <2>2. w["icindex"] = v["icindex"] /\ Only(w, v, CacheFields)
    BY <1>2, <2>1 DEF Only, Fields, CacheFields
  <2> QED BY <1>2, <1>3, <1>4, <2>1, <2>2
<1>5. CASE b # v.icindex
  <2>1. w = cache_iblock(u, b, sh)
    BY <1>5 DEF fs2_get_iblock_c
  <2>2. Keeping(u, v, nc, nc, ow) /\ Ok(u) /\ Only(u, v, {"disk", "log", "outcome"})
    <3>1. CASE save
      <4>1. PICK x \in 0..(nc - 1) : x \div IPB = v.icindex
        BY <3>1
      <4>2. u = fs2_save_iblock_c(v)
        BY <3>1
      <4> QED BY <4>1, <4>2, SaveI
    <3>2. CASE ~save
      <4>1. u = Outcome(v, "SUCCESS") /\ nd = nc
        BY <3>2
      <4>2. Only(u, v, {"disk", "log", "outcome"})
        BY <1>2, <4>1, OnlyMore
      <4> QED BY <1>2, <1>3, <4>1, <4>2
    <3> QED BY <3>1, <3>2
  <2> HIDE DEF u
  <2>3. VInv(u, nc, nc, ow)
    BY <2>2 DEF Keeping
  <2>4. /\ Keeping(cache_iblock(u, b, sh), u, nc, nc, ow)
        /\ Only(cache_iblock(u, b, sh), u, {"outcome", "ret", "icindex", "icaddr", "icache"})
        /\ Ok(cache_iblock(u, b, sh)) /\ cache_iblock(u, b, sh).icindex = b
    <3>1. b \in Nat /\ find_blk(u.hblock.regs, b) # 0
      <4>1. nc \in Nat /\ HeadOK(u.hblock, ow) /\ HasTable(u.hblock, nc)
        BY <2>3 DEF VInv
      <4> QED BY <4>1, TableAt
    <3> HIDE DEF b
    <3> QED BY <2>2, <2>3, <3>1, LoadI
  <2> HIDE DEF w
  <2>5. Keeping(w, v, nc, nc, ow)
    BY <2>1, <2>2, <2>4, KeepingTrans
  <2>6. Only(w, v, CacheFields)
    BY <2>1, <2>2, <2>4 DEF Only, CacheFields
  <2> QED BY <2>1, <2>4, <2>5, <2>6 DEF w
<1> QED BY <1>4, <1>5

Gets(w, v, nd, nc, ow, b) ==
  /\ \E k \in {nd, nc} : Keeping(w, v, k, nc, ow)
  /\ Only(w, v, CacheFields) /\ Ok(w) /\ w.icindex = b

\* Where the cached block is saved first.
LEMMA GetSaved ==
  ASSUME NEW v, NEW nd, NEW nc, NEW ow, VInv(v, nd, nc, ow), NEW m \in 0..(nc - 1),
         \E x \in 0..(nc - 1) : x \div IPB = v.icindex
  PROVE  Gets(fs2_get_iblock_c(v, m \div IPB, FALSE, TRUE), v, nd, nc, ow, m \div IPB)
<1>1. ASSUME NEW sh, NEW save \in BOOLEAN, save
      PROVE  Gets(fs2_get_iblock_c(v, m \div IPB, sh, save), v, nd, nc, ow, m \div IPB)
  <2>1. (save \/ nd = nc) /\ (save => \E y \in 0..(nc - 1) : y \div IPB = v.icindex)
    BY <1>1
  <2> QED BY <2>1, GetLive DEF Gets
<1>2. TRUE \in BOOLEAN
  OBVIOUS
<1> QED BY <1>1, <1>2

\* Where the cached block is not saved first.
LEMMA GetClean ==
  ASSUME NEW v, NEW n, NEW ow, VInv(v, n, n, ow), NEW m \in 0..(n - 1)
  PROVE  /\ Keeping(fs2_get_iblock_c(v, m \div IPB, FALSE, FALSE), v, n, n, ow)
         /\ Only(fs2_get_iblock_c(v, m \div IPB, FALSE, FALSE), v, CacheFields)
         /\ Ok(fs2_get_iblock_c(v, m \div IPB, FALSE, FALSE))
         /\ fs2_get_iblock_c(v, m \div IPB, FALSE, FALSE).icindex = m \div IPB
<1> DEFINE Got(w) == /\ \E k \in {n, n} : Keeping(w, v, k, n, ow)
                      /\ Only(w, v, CacheFields) /\ Ok(w) /\ w.icindex = m \div IPB
<1>1. ASSUME NEW sh, NEW save \in BOOLEAN, ~save
      PROVE  Got(fs2_get_iblock_c(v, m \div IPB, sh, save))
  <2>1. n = n /\ (save \/ n = n) /\ (save => \E x \in 0..(n - 1) : x \div IPB = v.icindex)
    BY <1>1
  <2> QED BY <2>1, GetLive
<1>2. FALSE \in BOOLEAN /\ ~FALSE
  OBVIOUS
<1> HIDE DEF Got
<1>3. Got(fs2_get_iblock_c(v, m \div IPB, FALSE, FALSE))
  BY <1>1, <1>2
<1> QED BY <1>3 DEF Got

-----------------------------------------------------------------------------
(* Loops *)

\* Round i of each of the loops: the two walks along a path, the dump of the
\* blocks of inodes, and the three loops over the blocks of a directory.  The
\* record t says which loop it is and what it does not change.
Round(t, w, i) ==
  LET blk(r) == fs2_load_dblock_c(w, find_blk(r, i - 1), FALSE)
  IN  CASE t.loop = "path"   -> find_component(w, t.path[i])
        [] t.loop = "follow" -> Follow(t.vol, w, t.path[i])
        [] t.loop = "dump"   -> fs2_get_iblock(w, FALSE, i - 1, FALSE)
        [] t.loop = "search" -> IF w.outcome = "LOOP"
                                THEN search_block(blk(t.d.regs), t.d, i - 1, t.name) ELSE w
        [] t.loop = "unlink" -> IF w.outcome = "LOOP"
                                THEN unlink_in_block(blk(t.d.regs), t.s, t.d, i - 1, t.x) ELSE w
        [] t.loop = "list"   -> IF w.outcome = "LOOP"
                                THEN list_block(blk(t.d.regs), i - 1, t.fit) ELSE w

Rounds(f, n, base, t) ==
  f = [j \in 0..n |-> IF j = 0 THEN base ELSE Round(t, f[j - 1], j)]

LEMMA RoundsExist == ASSUME NEW n \in Nat, NEW base, NEW t PROVE \E f : Rounds(f, n, base, t)
<1> DEFINE step(f, j) == Round(t, f[j - 1], j)
           Run(f, k) == f[0] = base /\ \A j \in 1..k : f[j] = step(f, j)
           S == {k \in 0..n : \E f : Run(f, k)}
<1> HIDE DEF step
<1>1. 0 \in S
  <2> DEFINE g == [j \in 0..n |-> base]
  <2>1. Run(g, 0)
    OBVIOUS
  <2> HIDE DEF Run, g
  <2> QED BY <2>1
<1>2. ASSUME NEW k \in 1..n, k - 1 \in S PROVE k \in S
  <2>1. PICK f : Run(f, k - 1)
    BY <1>2
  <2> DEFINE e == step(f, k)
             g == [j \in 0..n |-> IF j = k THEN e ELSE f[j]]
  <2> HIDE DEF e
  <2>2. g[k] = e /\ \A j \in 0..(k - 1) : g[j] = f[j]
    OBVIOUS
  <2> HIDE DEF g
  <2>3. g[0] = base
    BY <2>1, <2>2
  <2>4. ASSUME NEW j \in 1..k PROVE g[j] = step(g, j)
    <3>1. g[j - 1] = f[j - 1]
      BY <2>2
    <3>2. step(g, j) = step(f, j)
      BY <3>1 DEF step
    <3>3. CASE j = k
      BY <2>2, <3>2, <3>3 DEF e
    <3>4. CASE j # k
      <4>1. j \in 1..(k - 1) /\ j \in 0..(k - 1)
        BY <3>4
      <4> QED BY <2>1, <2>2, <3>2, <4>1
    <3> QED BY <3>3, <3>4
  <2>5. Run(g, k)
    BY <2>3, <2>4
  <2> HIDE DEF Run
  <2> QED BY <2>5
<1>3. n \in S
  <2>1. 0..n \subseteq S
    <3> HIDE DEF S
    <3> QED BY <1>1, <1>2, UpTo
  <2> QED BY <2>1
<1>4. PICK f : Run(f, n)
  BY <1>3
<1> DEFINE h == [j \in 0..n |-> f[j]]
<1>5. h[0] = base /\ \A j \in 1..n : h[j] = step(h, j)
  <2>1. \A j \in 1..n : h[j] = f[j] /\ h[j - 1] = f[j - 1]
    OBVIOUS
  <2>2. h[0] = f[0]
    OBVIOUS
  <2> HIDE DEF h
  <2> QED BY <1>4, <2>1, <2>2 DEF step
<1>6. h = [j \in 0..n |-> IF j = 0 THEN base ELSE step(h, j)]
  <2>1. h = [j \in 0..n |-> h[j]]
    OBVIOUS
  <2>2. \A j \in 0..n : h[j] = IF j = 0 THEN base ELSE step(h, j)
    BY <1>5
  <2> HIDE DEF h
  <2> QED BY <2>1, <2>2
<1> QED BY <1>6 DEF Rounds, step

LEMMA RoundsAre ==
  ASSUME NEW n \in Nat, NEW base, NEW t, NEW f, Rounds(f, n, base, t)
  PROVE  f[0] = base /\ \A j \in 1..n : f[j] = Round(t, f[j - 1], j)
<1> DEFINE step(j) == Round(t, f[j - 1], j)
<1> HIDE DEF step
<1>1. f = [j \in 0..n |-> IF j = 0 THEN base ELSE step(j)]
  BY DEF Rounds, step
<1>2. f[0] = base /\ \A j \in 1..n : f[j] = step(j)
  BY <1>1
<1> QED BY <1>2 DEF step

LEMMA PathLoop ==
  ASSUME NEW v, NEW path, path \in Seq(Range(path)), path # <<>>
  PROVE  \E f : /\ Rounds(f, Len(path), [fs2_get_iblock_c(v, 0, FALSE, FALSE) EXCEPT !.ret = 0],
                          [loop |-> "path", path |-> path])
                /\ fs2_find_file(v, path) = f[Len(path)]
<1> DEFINE n == Len(path)
           base == [fs2_get_iblock_c(v, 0, FALSE, FALSE) EXCEPT !.ret = 0]
           t == [loop |-> "path", path |-> path]
           body(g, i) == IF i = 0 THEN base ELSE find_component(g[i - 1], path[i])
           walk == CHOOSE g : g = [i \in 0..n |-> body(g, i)]
<1>1. fs2_find_file(v, path) = walk[n]
  BY DEF fs2_find_file
<1>2. ASSUME NEW g PROVE Rounds(g, n, base, t) <=> g = [i \in 0..n |-> body(g, i)]
  <2>1. ASSUME NEW i PROVE Round(t, g[i - 1], i) = find_component(g[i - 1], path[i])
    BY DEF Round
  <2> HIDE DEF base
  <2> QED BY <2>1 DEF Rounds
<1>3. n \in Nat
  OBVIOUS
<1> HIDE DEF base, t, n
<1>4. PICK f : Rounds(f, n, base, t)
  BY <1>3, RoundsExist
<1>5. Rounds(walk, n, base, t)
  <2>1. f = [i \in 0..n |-> body(f, i)]
    BY <1>2, <1>4
  <2>2. walk = [i \in 0..n |-> body(walk, i)]
    <3> HIDE DEF body
    <3> QED BY <2>1
  <2> QED BY <1>2, <2>2
<1> HIDE DEF walk
<1>6. \E g : Rounds(g, n, base, t) /\ fs2_find_file(v, path) = g[n]
  BY <1>1, <1>5
<1> QED BY <1>6 DEF n, base, t

LEMMA FollowLoop ==
  ASSUME NEW v, NEW path, path \in Seq(Range(path))
  PROVE  \E f : /\ Rounds(f, Len(path), 0, [loop |-> "follow", path |-> path, vol |-> v])
                /\ Lookup(v, path) = f[Len(path)]
<1> DEFINE n == Len(path)
           t == [loop |-> "follow", path |-> path, vol |-> v]
           body(g, i) == IF i = 0 THEN 0 ELSE Follow(v, g[i - 1], path[i])
           walk == CHOOSE g : g = [i \in 0..n |-> body(g, i)]
<1>1. Lookup(v, path) = walk[n]
  BY DEF Lookup
<1>2. ASSUME NEW g PROVE Rounds(g, n, 0, t) <=> g = [i \in 0..n |-> body(g, i)]
  <2>1. ASSUME NEW i PROVE Round(t, g[i - 1], i) = Follow(v, g[i - 1], path[i])
    BY DEF Round
  <2> QED BY <2>1 DEF Rounds
<1>3. n \in Nat
  OBVIOUS
<1> HIDE DEF t, n
<1>4. PICK f : Rounds(f, n, 0, t)
  BY <1>3, RoundsExist
<1>5. Rounds(walk, n, 0, t)
  <2>1. f = [i \in 0..n |-> body(f, i)]
    BY <1>2, <1>4
  <2>2. walk = [i \in 0..n |-> body(walk, i)]
    <3> HIDE DEF body
    <3> QED BY <2>1
  <2> QED BY <1>2, <2>2
<1> HIDE DEF walk
<1>6. \E g : Rounds(g, n, 0, t) /\ Lookup(v, path) = g[n]
  BY <1>1, <1>5
<1> QED BY <1>6 DEF n, t

Dumps(v) == (v.hblock.next_inode + IPB - 1) \div IPB

LEMMA DumpLoop ==
  ASSUME NEW v, Dumps(v) \in Nat
  PROVE  \E f : /\ Rounds(f, Dumps(v), v, [loop |-> "dump"])
                /\ fs2_block_dump(v) = f[Dumps(v)]
<1> DEFINE n == Dumps(v)
           t == [loop |-> "dump"]
           body(g, i) == IF i = 0 THEN v ELSE fs2_get_iblock(g[i - 1], FALSE, i - 1, FALSE)
           dump == CHOOSE g : g = [i \in 0..n |-> body(g, i)]
<1>1. fs2_block_dump(v) = dump[n]
  BY DEF fs2_block_dump, Dumps
<1>2. ASSUME NEW g PROVE Rounds(g, n, v, t) <=> g = [i \in 0..n |-> body(g, i)]
  <2>1. ASSUME NEW i
        PROVE  Round(t, g[i - 1], i) = fs2_get_iblock(g[i - 1], FALSE, i - 1, FALSE)
    BY DEF Round
  <2> QED BY <2>1 DEF Rounds
<1> HIDE DEF t, n
<1>4. PICK f : Rounds(f, n, v, t)
  BY RoundsExist DEF n
<1>5. Rounds(dump, n, v, t)
  <2>1. f = [i \in 0..n |-> body(f, i)]
    BY <1>2, <1>4
  <2>2. dump = [i \in 0..n |-> body(dump, i)]
    <3> HIDE DEF body
    <3> QED BY <2>1
  <2> QED BY <1>2, <2>2
<1> HIDE DEF dump
<1>6. \E g : Rounds(g, n, v, t) /\ fs2_block_dump(v) = g[n]
  BY <1>1, <1>5
<1> QED BY <1>6 DEF n, t

\* What a loop over blocks makes of its last round.
After(w, o) == IF w.outcome = "LOOP" THEN Outcome(w, o) ELSE w

LEMMA SearchLoop ==
  ASSUME NEW v, NEW d, NEW name, BlocksFor(d.eof) \in Nat, Ok(v), d.ftype = "DIR"
  PROVE  \E f : /\ Rounds(f, BlocksFor(d.eof), Outcome([v EXCEPT !.ret = -1], "LOOP"),
                          [loop |-> "search", d |-> d, name |-> name])
                /\ search_dir(v, d, name) = After(f[BlocksFor(d.eof)], "NO_FILE")
<1> DEFINE n == BlocksFor(d.eof)
           base == Outcome([v EXCEPT !.ret = -1], "LOOP")
           t == [loop |-> "search", d |-> d, name |-> name]
           step(w, b) == IF w.outcome = "LOOP"
                         THEN search_block(fs2_load_dblock_c(w, find_blk(d.regs, b), FALSE), d, b, name)
                         ELSE w
           body(g, b) == IF b = 0 THEN base ELSE step(g[b - 1], b - 1)
           loop == CHOOSE g : g = [b \in 0..n |-> body(g, b)]
<1>1. search_dir(v, d, name) = After(loop[n], "NO_FILE")
  BY DEF search_dir, OverBlocks, After
<1>2. ASSUME NEW g PROVE Rounds(g, n, base, t) <=> g = [b \in 0..n |-> body(g, b)]
  <2>1. ASSUME NEW i PROVE Round(t, g[i - 1], i) = step(g[i - 1], i - 1)
    BY DEF Round
  <2> HIDE DEF base, step
  <2> QED BY <2>1 DEF Rounds
<1> HIDE DEF base, t, n, step
<1>4. PICK f : Rounds(f, n, base, t)
  BY RoundsExist DEF n
<1>5. Rounds(loop, n, base, t)
  <2>1. f = [i \in 0..n |-> body(f, i)]
    BY <1>2, <1>4
  <2>2. loop = [i \in 0..n |-> body(loop, i)]
    <3> HIDE DEF body
    <3> QED BY <2>1
  <2> QED BY <1>2, <2>2
<1> HIDE DEF loop
<1>6. \E g : Rounds(g, n, base, t) /\ search_dir(v, d, name) = After(g[n], "NO_FILE")
  BY <1>1, <1>5
<1> QED BY <1>6 DEF n, base, t

LEMMA UnlinkLoop ==
  ASSUME NEW v, NEW s, NEW d, NEW x, BlocksFor(d.eof) \in Nat
  PROVE  \E f : /\ Rounds(f, BlocksFor(d.eof), Outcome(v, "LOOP"),
                          [loop |-> "unlink", s |-> s, d |-> d, x |-> x])
                /\ fs2_unlink(v, s, d, x) = After(f[BlocksFor(d.eof)], "NO_FILE")
<1> DEFINE n == BlocksFor(d.eof)
           base == Outcome(v, "LOOP")
           t == [loop |-> "unlink", s |-> s, d |-> d, x |-> x]
           step(w, b) == IF w.outcome = "LOOP"
                         THEN unlink_in_block(fs2_load_dblock_c(w, find_blk(d.regs, b), FALSE), s, d, b, x)
                         ELSE w
           body(g, b) == IF b = 0 THEN base ELSE step(g[b - 1], b - 1)
           loop == CHOOSE g : g = [b \in 0..n |-> body(g, b)]
<1>1. fs2_unlink(v, s, d, x) = After(loop[n], "NO_FILE")
  BY DEF fs2_unlink, OverBlocks, After
<1>2. ASSUME NEW g PROVE Rounds(g, n, base, t) <=> g = [b \in 0..n |-> body(g, b)]
  <2>1. ASSUME NEW i PROVE Round(t, g[i - 1], i) = step(g[i - 1], i - 1)
    BY DEF Round
  <2> HIDE DEF base, step
  <2> QED BY <2>1 DEF Rounds
<1> HIDE DEF base, t, n, step
<1>4. PICK f : Rounds(f, n, base, t)
  BY RoundsExist DEF n
<1>5. Rounds(loop, n, base, t)
  <2>1. f = [i \in 0..n |-> body(f, i)]
    BY <1>2, <1>4
  <2>2. loop = [i \in 0..n |-> body(loop, i)]
    <3> HIDE DEF body
    <3> QED BY <2>1
  <2> QED BY <1>2, <2>2
<1> HIDE DEF loop
<1>6. \E g : Rounds(g, n, base, t) /\ fs2_unlink(v, s, d, x) = After(g[n], "NO_FILE")
  BY <1>1, <1>5
<1> QED BY <1>6 DEF n, base, t

LEMMA ListLoop ==
  ASSUME NEW v, NEW d, NEW space, BlocksFor(Min({space + 1, d.eof})) \in Nat
  PROVE  \E f : /\ Rounds(f, BlocksFor(Min({space + 1, d.eof})), Outcome([v EXCEPT !.ret = {}], "LOOP"),
                          [loop |-> "list", d |-> d, fit |-> Min({space, d.eof})])
                /\ list_dir(v, d, space) = After(f[BlocksFor(Min({space + 1, d.eof}))], "SUCCESS")
<1> DEFINE n == BlocksFor(Min({space + 1, d.eof}))
           base == Outcome([v EXCEPT !.ret = {}], "LOOP")
           t == [loop |-> "list", d |-> d, fit |-> Min({space, d.eof})]
           step(w, b) == IF w.outcome = "LOOP"
                         THEN list_block(fs2_load_dblock_c(w, find_blk(d.regs, b), FALSE), b,
                                         Min({space, d.eof}))
                         ELSE w
           body(g, b) == IF b = 0 THEN base ELSE step(g[b - 1], b - 1)
           loop == CHOOSE g : g = [b \in 0..n |-> body(g, b)]
<1>1. list_dir(v, d, space) = After(loop[n], "SUCCESS")
  BY DEF list_dir, OverBlocks, After
<1>2. ASSUME NEW g PROVE Rounds(g, n, base, t) <=> g = [b \in 0..n |-> body(g, b)]
  <2>1. ASSUME NEW i PROVE Round(t, g[i - 1], i) = step(g[i - 1], i - 1)
    BY DEF Round
  <2> HIDE DEF base, step
  <2> QED BY <2>1 DEF Rounds
<1> HIDE DEF base, t, n, step
<1>4. PICK f : Rounds(f, n, base, t)
  BY RoundsExist DEF n
<1>5. Rounds(loop, n, base, t)
  <2>1. f = [i \in 0..n |-> body(f, i)]
    BY <1>2, <1>4
  <2>2. loop = [i \in 0..n |-> body(loop, i)]
    <3> HIDE DEF body
    <3> QED BY <2>1
  <2> QED BY <1>2, <2>2
<1> HIDE DEF loop
<1>6. \E g : Rounds(g, n, base, t) /\ list_dir(v, d, space) = After(g[n], "SUCCESS")
  BY <1>1, <1>5
<1> QED BY <1>6 DEF n, base, t

-----------------------------------------------------------------------------
(* Finding a file *)

\* v has found an inode in use, or has failed and returns -1.
HasFound(v, n) == IF v.outcome = "SUCCESS" THEN v.ret \in 0..(n - 1) ELSE v.ret = -1

Searched(w, v, n, ow) ==
  Keeping(w, v, n, n, ow) /\ w.par = v.par /\ w.icindex = v.icindex /\ HasFound(w, n)

LEMMA OutcomeKeeps ==
  ASSUME NEW v, NEW nd, NEW nc, NEW ow, VInv(v, nd, nc, ow), NEW o
  PROVE  /\ Keeping(Outcome(v, o), v, nd, nc, ow)
         /\ Outcome(v, o).outcome = o /\ Outcome(v, o).ret = v.ret /\ Outcome(v, o).par = v.par
         /\ Outcome(v, o).icindex = v.icindex
         /\ Only(Outcome(v, o), v, {"outcome"})
<1>1. IsVol(v)
  BY DEF VInv
<1>2. Only(Outcome(v, o), v, {"outcome"}) /\ Outcome(v, o).outcome = o
  BY <1>1, OutcomeFields
<1>3. Only(Outcome(v, o), v, Results)
  BY <1>2, OnlyMore DEF Results
<1>4. Outcome(v, o)["ret"] = v["ret"] /\ Outcome(v, o)["par"] = v["par"]
      /\ Outcome(v, o)["icindex"] = v["icindex"]
  BY <1>2 DEF Only, Fields
<1> QED BY <1>2, <1>3, <1>4, KeepingSame

LEMMA ResultKeeps ==
  ASSUME NEW v, NEW nd, NEW nc, NEW ow, VInv(v, nd, nc, ow), NEW o, NEW r
  PROVE  /\ Keeping(Result(v, o, r), v, nd, nc, ow)
         /\ Result(v, o, r).outcome = o /\ Result(v, o, r).ret = r /\ Result(v, o, r).par = v.par
         /\ Result(v, o, r).icindex = v.icindex
<1>1. IsVol(v)
  BY DEF VInv
<1>2. /\ Only(Result(v, o, r), v, {"outcome", "ret"})
      /\ Result(v, o, r).outcome = o /\ Result(v, o, r).ret = r
  BY <1>1, ResultFields
<1>3. Only(Result(v, o, r), v, Results)
  BY <1>2, OnlyMore DEF Results
<1>4. Result(v, o, r)["par"] = v["par"] /\ Result(v, o, r)["icindex"] = v["icindex"]
  BY <1>2 DEF Only, Fields
<1> QED BY <1>2, <1>3, <1>4, KeepingSame

LEMMA SetKeeps ==
  ASSUME NEW v, NEW nd, NEW nc, NEW ow, VInv(v, nd, nc, ow), NEW f \in Results, NEW e
  PROVE  /\ Keeping(Set(v, f, e), v, nd, nc, ow) /\ Only(Set(v, f, e), v, {f})
         /\ Set(v, f, e)[f] = e
<1>1. IsVol(v) /\ f \in Fields
  BY DEF VInv, Fields, Results
<1>2. Only(Set(v, f, e), v, {f}) /\ Set(v, f, e)[f] = e
  BY <1>1, SetIs
<1>3. Only(Set(v, f, e), v, Results)
  BY <1>2, OnlyMore
<1> QED BY <1>2, <1>3, KeepingSame

LEMMA LoadDKeeps ==
  ASSUME NEW v, NEW nd, NEW nc, NEW ow, VInv(v, nd, nc, ow), NEW da
  PROVE  /\ Keeping(fs2_load_dblock_c(v, da, FALSE), v, nd, nc, ow)
         /\ fs2_load_dblock_c(v, da, FALSE).ret = v.ret /\ fs2_load_dblock_c(v, da, FALSE).par = v.par
         /\ fs2_load_dblock_c(v, da, FALSE).icache = v.icache
         /\ fs2_load_dblock_c(v, da, FALSE).icindex = v.icindex
         /\ Ok(fs2_load_dblock_c(v, da, FALSE)) => fs2_load_dblock_c(v, da, FALSE).dcaddr = da
<1> DEFINE P(w) == /\ Keeping(w, v, nd, nc, ow) /\ w.ret = v.ret /\ w.par = v.par
                   /\ w.icache = v.icache /\ w.icindex = v.icindex /\ (Ok(w) => w.dcaddr = da)
<1>1. ASSUME NEW dry \in BOOLEAN, ~dry PROVE P(fs2_load_dblock_c(v, da, dry))
  <2> DEFINE w == fs2_load_dblock_c(v, da, dry)
  <2>1. dry => da # 0
    BY <1>1
  <2>2. VInv(w, nd, nc, ow) /\ Only(w, v, {"dcache", "dcaddr", "outcome"}) /\ (Ok(w) => w.dcaddr = da)
    BY <2>1, LoadD
  <2> HIDE DEF w
  <2>3. w["hblock"] = v["hblock"] /\ w["disk"] = v["disk"] /\ w["ret"] = v["ret"]
        /\ w["par"] = v["par"] /\ w["icache"] = v["icache"] /\ w["icindex"] = v["icindex"]
    BY <2>2 DEF Only, Fields
  <2>4. P(w)
    BY <2>2, <2>3 DEF Keeping
  <2> QED BY <2>4 DEF w
<1>2. FALSE \in BOOLEAN /\ ~FALSE
  OBVIOUS
<1> HIDE DEF P
<1>3. P(fs2_load_dblock_c(v, da, FALSE))
  BY <1>1, <1>2
<1> QED BY <1>3 DEF P

LEMMA SearchBlock ==
  ASSUME NEW u, NEW n, NEW ow, VInv(u, n, n, ow), u.ret = -1, NEW d, NEW b, NEW name
  PROVE  Searched(search_block(u, d, b, name), u, n, ow)
<1> DEFINE hits == {k \in 0..(DPB - 1) : b * DPB + k < d.eof /\ IsPrefix(name, u.dcache[k].name)}
           x == search_block(u, d, b, name)
<1>1. CASE ~Ok(u)
  <2>1. x = u
    BY <1>1 DEF search_block
  <2>2. Keeping(u, u, n, n, ow)
    BY DEF Keeping
  <2> QED BY <1>1, <2>1, <2>2 DEF Searched, HasFound, Ok
<1>2. ASSUME NEW o \in {"NO_FILE", "LOOP"}, x = Outcome(u, o) PROVE Searched(x, u, n, ow)
  BY <1>2, OutcomeKeeps DEF Searched, HasFound
<1>3. CASE Ok(u) /\ hits # {}
  <2>1. x = Outcome(u, "NO_FILE") \/ x = Result(u, "SUCCESS", u.dcache[Min(hits)].ino)
    BY <1>3 DEF search_block
  <2>2. CASE x = Outcome(u, "NO_FILE")
    BY <1>2, <2>2
  <2>3. CASE x = Result(u, "SUCCESS", u.dcache[Min(hits)].ino)
    <3>1. hits \in SUBSET Nat /\ hits \subseteq 0..(DPB - 1)
      BY Consts
    <3> HIDE DEF hits
    <3>2. Min(hits) \in 0..(DPB - 1)
      BY <1>3, <3>1, MinIs
    <3>3. u.dcache[Min(hits)].ino \in 0..(n - 1)
      BY <3>2 DEF VInv, DCOK, IsDBlock
    <3> DEFINE r == u.dcache[Min(hits)].ino
    <3> HIDE DEF r, x
    <3>4. x = Result(u, "SUCCESS", r) /\ r \in 0..(n - 1)
      BY <2>3, <3>3 DEF r
    <3> QED BY <3>4, ResultKeeps DEF Searched, HasFound, x
  <2> QED BY <2>1, <2>2, <2>3
<1>4. CASE Ok(u) /\ hits = {}
  <2>1. x = Outcome(u, "NO_FILE") \/ x = Outcome(u, "LOOP")
    BY <1>4 DEF search_block
  <2> QED BY <1>2, <2>1
<1> QED BY <1>1, <1>3, <1>4

LEMMA SearchedTrans ==
  ASSUME NEW u, NEW v, NEW w, NEW n, NEW ow, Keeping(u, v, n, n, ow), u.par = v.par,
         u.icindex = v.icindex, Searched(w, u, n, ow)
  PROVE  Searched(w, v, n, ow)
BY KeepingTrans DEF Searched

LEMMA BlocksNat == ASSUME NEW e \in Nat PROVE BlocksFor(e) \in Nat
<1>1. e + DPB - 1 \in Nat
  BY Consts
<1>2. (e + DPB - 1) \div DPB \in Nat
  BY <1>1, Consts, Division
<1> QED BY <1>2 DEF BlocksFor

LEMMA SearchDir ==
  ASSUME NEW v, NEW n, NEW ow, VInv(v, n, n, ow), NEW d, d.eof \in Nat, NEW name
  PROVE  Searched(search_dir(v, d, name), v, n, ow)
<1> DEFINE w == search_dir(v, d, name)
<1>1. ASSUME NEW o, o # "SUCCESS", w = Result(v, o, -1) PROVE Searched(w, v, n, ow)
  BY <1>1, ResultKeeps DEF Searched, HasFound
<1>2. CASE ~Ok(v)
  <2>1. w = Result(v, v.outcome, -1)
    BY <1>2 DEF search_dir
  <2>2. v.outcome # "SUCCESS"
    BY <1>2 DEF Ok
  <2> QED BY <1>1, <2>1, <2>2
<1>3. CASE Ok(v) /\ d.ftype # "DIR"
  <2>1. w = Result(v, "BAD_FTYPE", -1)
    BY <1>3 DEF search_dir
  <2> QED BY <1>1, <2>1
<1>4. CASE Ok(v) /\ d.ftype = "DIR"
  <2> DEFINE m == BlocksFor(d.eof)
             base == Outcome([v EXCEPT !.ret = -1], "LOOP")
             t == [loop |-> "search", d |-> d, name |-> name]
  <2>1. m \in Nat
    BY BlocksNat
  <2>2. PICK f : Rounds(f, m, base, t) /\ w = After(f[m], "NO_FILE")
    BY <1>4, <2>1, SearchLoop
  <2>3. f[0] = base /\ \A j \in 1..m : f[j] = Round(t, f[j - 1], j)
    <3> HIDE DEF base, t, m
    <3> QED BY <2>1, <2>2, RoundsAre
  <2>4. Searched(base, v, n, ow)
    <3> DEFINE u == Set(v, "ret", -1)
    <3>1. [v EXCEPT !.ret = -1] = u
      BY DEF Set
    <3>2. Keeping(u, v, n, n, ow) /\ Only(u, v, {"ret"}) /\ u["ret"] = -1
      BY SetKeeps DEF Results
    <3> HIDE DEF u
    <3>3. u["par"] = v["par"] /\ u["icindex"] = v["icindex"] /\ VInv(u, n, n, ow)
      BY <3>2 DEF Only, Fields, Keeping
    <3>4. Keeping(base, u, n, n, ow) /\ base.outcome = "LOOP" /\ base.ret = -1 /\ base.par = v.par
          /\ base.icindex = v.icindex
      BY <3>1, <3>2, <3>3, OutcomeKeeps
    <3>5. Keeping(base, v, n, n, ow)
      BY <3>2, <3>4, KeepingTrans
    <3> QED BY <3>4, <3>5 DEF Searched, HasFound
  <2> HIDE DEF base, m
  <2> DEFINE S == {j \in 0..m : Searched(f[j], v, n, ow)}
  <2>5. 0 \in S
    BY <2>1, <2>3, <2>4
  <2>6. ASSUME NEW j \in 1..m, j - 1 \in S PROVE j \in S
    <3> DEFINE x == f[j - 1]
               u == fs2_load_dblock_c(x, find_blk(d.regs, j - 1), FALSE)
    <3>1. Searched(x, v, n, ow)
      BY <2>6
    <3>2. f[j] = IF x.outcome = "LOOP" THEN search_block(u, d, j - 1, name) ELSE x
      <4>1. f[j] = Round(t, x, j)
        BY <2>3
      <4> QED BY <4>1 DEF Round
    <3> HIDE DEF x
    <3>3. CASE x.outcome # "LOOP"
      BY <3>1, <3>2, <3>3
    <3>4. CASE x.outcome = "LOOP"
      <4>1. VInv(x, n, n, ow) /\ x.ret = -1 /\ x.par = v.par /\ Keeping(x, v, n, n, ow)
            /\ x.icindex = v.icindex
        BY <3>1, <3>4 DEF Searched, HasFound, Keeping
      <4>2. Keeping(u, x, n, n, ow) /\ u.ret = x.ret /\ u.par = x.par /\ u.icindex = x.icindex
        BY <4>1, LoadDKeeps
      <4> HIDE DEF u
      <4>3. VInv(u, n, n, ow) /\ u.ret = -1
        BY <4>1, <4>2 DEF Keeping
      <4>4. Searched(search_block(u, d, j - 1, name), u, n, ow)
        BY <4>3, SearchBlock
      <4>5. Searched(search_block(u, d, j - 1, name), x, n, ow)
        BY <4>2, <4>4, SearchedTrans
      <4>6. Searched(search_block(u, d, j - 1, name), v, n, ow)
        BY <4>1, <4>5, SearchedTrans
      <4> QED BY <3>2, <3>4, <4>6
    <3> QED BY <3>3, <3>4
  <2>7. 0..m \subseteq S
    <3> HIDE DEF S
    <3> QED BY <2>1, <2>5, <2>6, UpTo
  <2>8. Searched(f[m], v, n, ow)
    BY <2>1, <2>7
  <2>9. Searched(After(f[m], "NO_FILE"), v, n, ow)
    <3> DEFINE x == f[m]
    <3> HIDE DEF x
    <3>1. Searched(x, v, n, ow)
      BY <2>8 DEF x
    <3>2. CASE x.outcome = "LOOP"
      <4>1. VInv(x, n, n, ow) /\ x.ret = -1 /\ x.par = v.par /\ Keeping(x, v, n, n, ow)
            /\ x.icindex = v.icindex
        BY <3>1, <3>2 DEF Searched, HasFound, Keeping
      <4>2. Searched(Outcome(x, "NO_FILE"), x, n, ow)
        BY <4>1, OutcomeKeeps DEF Searched, HasFound
      <4>3. Searched(Outcome(x, "NO_FILE"), v, n, ow)
        BY <4>1, <4>2, SearchedTrans
      <4> QED BY <3>2, <4>3 DEF After, x
    <3>3. CASE x.outcome # "LOOP"
      BY <3>1, <3>3 DEF After, x
    <3> QED BY <3>2, <3>3
  <2> QED BY <2>2, <2>9
<1> QED BY <1>2, <1>3, <1>4

\* The cached block of inodes holds one in use.  This is not so after a creation
\* for which no block of inodes could be had, but every call that writes the
\* cached block has looked a path up before.
Warm(v, n) == \E x \in 0..(n - 1) : x \div IPB = v.icindex

Walked(w, v, n, ow) == Keeping(w, v, n, n, ow) /\ w.par \in 0..(n - 1) /\ HasFound(w, n)

LEMMA FindComponent ==
  ASSUME NEW x, NEW v, NEW n, NEW ow, Walked(x, v, n, ow), NEW name
  PROVE  Walked(find_component(x, name), v, n, ow)
         /\ (Warm(x, n) => Warm(find_component(x, name), n))
<1> DEFINE w == find_component(x, name)
<1>1. VInv(x, n, n, ow) /\ Keeping(x, v, n, n, ow)
  BY DEF Walked, Keeping
<1>2. CASE x.ret = -1
  BY <1>2 DEF find_component
<1>3. CASE x.ret # -1 /\ Len(name) > NAME_LEN
  <2>1. w = Result(x, "INVALID_PATH", -1)
    BY <1>3 DEF find_component
  <2>2. Keeping(w, x, n, n, ow) /\ w.outcome = "INVALID_PATH" /\ w.ret = -1 /\ w.par = x.par
        /\ w.icindex = x.icindex
    BY <1>1, <2>1, ResultKeeps
  <2> HIDE DEF w
  <2>3. Keeping(w, v, n, n, ow)
    BY <1>1, <2>2, KeepingTrans
  <2>4. w.par \in 0..(n - 1)
    BY <2>2 DEF Walked
  <2>5. Walked(w, v, n, ow)
    BY <2>2, <2>3, <2>4 DEF Walked, HasFound
  <2>6. Warm(x, n) => Warm(w, n)
    BY <2>2 DEF Warm
  <2> QED BY <2>5, <2>6 DEF w
<1>4. CASE x.ret # -1 /\ ~(Len(name) > NAME_LEN)
  <2> DEFINE r == x.ret
             u == Set(x, "par", r)
             g == fs2_get_iblock_c(u, r \div IPB, FALSE, FALSE)
  <2>1. r \in 0..(n - 1)
    BY <1>4 DEF Walked, HasFound
  <2>2. w = search_dir(g, g.icache[r % IPB], name)
    BY <1>4 DEF find_component, fs2_find_in_dir_r, search_cached, cached_inode, Set
  <2> HIDE DEF r
  <2>3. Keeping(u, x, n, n, ow) /\ Only(u, x, {"par"}) /\ u["par"] = r
    BY <1>1, SetKeeps DEF Results
  <2> HIDE DEF u
  <2>4. VInv(u, n, n, ow)
    BY <2>3 DEF Keeping
  <2>5. Keeping(g, u, n, n, ow) /\ Only(g, u, CacheFields) /\ g.icindex = r \div IPB
    BY <2>1, <2>4, GetClean
  <2> HIDE DEF g
  <2>6. g["par"] = r /\ VInv(g, n, n, ow)
    BY <2>3, <2>5 DEF Only, Fields, CacheFields, Keeping
  <2>7. g.icache[r % IPB].eof \in Nat
    <3>1. r \in Nat
      BY <2>1
    <3>2. r % IPB \in 0..(IPB - 1)
      BY <3>1, PlaceIn
    <3>3. g.icache \in IBlockT
      BY <2>6 DEF VInv, ICOK
    <3> QED BY <3>2, <3>3, IBlockAt
  <2>8. Searched(search_dir(g, g.icache[r % IPB], name), g, n, ow)
    BY <2>6, <2>7, SearchDir
  <2> HIDE DEF w
  <2>9. Keeping(w, g, n, n, ow) /\ w.par = r /\ HasFound(w, n) /\ w.icindex = r \div IPB
    BY <2>2, <2>5, <2>6, <2>8 DEF Searched
  <2>10. Keeping(w, u, n, n, ow)
    BY <2>5, <2>9, KeepingTrans
  <2>11. Keeping(w, x, n, n, ow)
    BY <2>3, <2>10, KeepingTrans
  <2>12. Keeping(w, v, n, n, ow)
    BY <1>1, <2>11, KeepingTrans
  <2>13. Warm(w, n)
    BY <2>1, <2>9 DEF Warm
  <2> QED BY <2>1, <2>9, <2>12, <2>13 DEF Walked, w
<1> QED BY <1>2, <1>3, <1>4

LEMMA FindFile ==
  ASSUME NEW v, NEW n, NEW ow, VInv(v, n, n, ow), v.par \in 0..(n - 1),
         NEW path, path \in Seq(Range(path))
  PROVE  /\ Walked(fs2_find_file(v, path), v, n, ow)
         /\ path # <<>> \/ Warm(v, n) => Warm(fs2_find_file(v, path), n)
<1>1. n \in Nat /\ n # 0 /\ 0 \in 0..(n - 1)
  <2>1. n \in Nat /\ n # 0
    BY DEF VInv
  <2> QED BY <2>1
<1>2. CASE path = <<>>
  <2>1. fs2_find_file(v, path) = Result(v, "SUCCESS", 0)
    BY <1>2 DEF fs2_find_file
  <2> DEFINE w == Result(v, "SUCCESS", 0)
  <2>2. Keeping(w, v, n, n, ow) /\ w.outcome = "SUCCESS" /\ w.ret = 0 /\ w.par = v.par
        /\ w.icindex = v.icindex
    BY ResultKeeps
  <2> HIDE DEF w
  <2>3. Walked(w, v, n, ow) /\ (Warm(v, n) => Warm(w, n))
    BY <1>1, <2>2 DEF Walked, HasFound, Warm
  <2> QED BY <1>2, <2>1, <2>3 DEF w
<1>3. CASE path # <<>>
  <2> DEFINE m == Len(path)
             g == fs2_get_iblock_c(v, 0, FALSE, FALSE)
             base == [g EXCEPT !.ret = 0]
             t == [loop |-> "path", path |-> path]
  <2>1. PICK f : Rounds(f, m, base, t) /\ fs2_find_file(v, path) = f[m]
    BY <1>3, PathLoop
  <2>2. m \in Nat
    OBVIOUS
  <2>3. f[0] = base /\ \A j \in 1..m : f[j] = Round(t, f[j - 1], j)
    <3> HIDE DEF base, t, m
    <3> QED BY <2>1, <2>2, RoundsAre
  <2>4. Walked(base, v, n, ow) /\ Warm(base, n)
    <3>1. 0 \div IPB = 0
      BY Consts
    <3>2. Keeping(g, v, n, n, ow) /\ Only(g, v, CacheFields) /\ Ok(g) /\ g.icindex = 0
      BY <1>1, <3>1, GetClean
    <3> HIDE DEF g
    <3> DEFINE u == Set(g, "ret", 0)
    <3>3. base = u
      BY DEF Set
    <3>4. VInv(g, n, n, ow) /\ g["par"] = v["par"]
      BY <3>2 DEF Keeping, Only, Fields, CacheFields
    <3>5. Keeping(u, g, n, n, ow) /\ Only(u, g, {"ret"}) /\ u["ret"] = 0
      BY <3>4, SetKeeps DEF Results
    <3> HIDE DEF u
    <3>6. Keeping(u, v, n, n, ow) /\ u["par"] = v["par"] /\ u["outcome"] = g["outcome"]
          /\ u["icindex"] = g["icindex"]
      BY <3>2, <3>4, <3>5, KeepingTrans DEF Only, Fields
    <3>7. Walked(u, v, n, ow)
      BY <1>1, <3>2, <3>5, <3>6 DEF Walked, HasFound, Ok
    <3>8. Warm(u, n)
      BY <1>1, <3>1, <3>2, <3>6 DEF Warm
    <3> QED BY <3>3, <3>7, <3>8
  <2> HIDE DEF base, m
  <2> DEFINE S == {j \in 0..m : Walked(f[j], v, n, ow) /\ Warm(f[j], n)}
  <2>5. 0 \in S
    BY <2>2, <2>3, <2>4
  <2>6. ASSUME NEW j \in 1..m, j - 1 \in S PROVE j \in S
    <3>1. Walked(f[j - 1], v, n, ow) /\ Warm(f[j - 1], n)
      BY <2>6
    <3>2. f[j] = find_component(f[j - 1], path[j])
      <4>1. f[j] = Round(t, f[j - 1], j)
        BY <2>3
      <4> QED BY <4>1 DEF Round
    <3>3. Walked(find_component(f[j - 1], path[j]), v, n, ow)
          /\ Warm(find_component(f[j - 1], path[j]), n)
      BY <3>1, FindComponent
    <3> QED BY <3>2, <3>3
  <2>7. 0..m \subseteq S
    <3> HIDE DEF S
    <3> QED BY <2>2, <2>5, <2>6, UpTo
  <2>8. Walked(f[m], v, n, ow) /\ Warm(f[m], n)
    BY <2>2, <2>7
  <2> QED BY <2>1, <2>8
<1> QED BY <1>2, <1>3

LEMMA LoadFound ==
  ASSUME NEW x, NEW v, NEW n, NEW ow, Walked(x, v, n, ow)
  PROVE  /\ Keeping(load_found(x), v, n, n, ow)
         /\ Ok(load_found(x)) => load_found(x).ret \in 0..(n - 1)
<1>1. VInv(x, n, n, ow) /\ Keeping(x, v, n, n, ow)
  BY DEF Walked, Keeping
<1>2. CASE ~Ok(x)
  <2>1. load_found(x) = x
    BY <1>2 DEF load_found
  <2> QED BY <1>1, <1>2, <2>1
<1>3. CASE Ok(x)
  <2> DEFINE r == x.ret
             g == fs2_get_iblock_c(x, r \div IPB, FALSE, FALSE)
             w == Set(g, "ret", r)
  <2>1. r \in 0..(n - 1)
    BY <1>3 DEF Walked, HasFound, Ok
  <2> HIDE DEF r
  <2>2. Keeping(g, x, n, n, ow) /\ Ok(g)
    BY <1>1, <2>1, GetClean
  <2>3. load_found(x) = w
    BY <1>3, <2>2 DEF load_found, with_inode, Set, r
  <2> HIDE DEF g
  <2>4. VInv(g, n, n, ow)
    BY <2>2 DEF Keeping
  <2>5. Keeping(w, g, n, n, ow) /\ w["ret"] = r
    BY <2>4, SetKeeps DEF Results
  <2> HIDE DEF w
  <2>6. Keeping(w, x, n, n, ow)
    BY <2>2, <2>5, KeepingTrans
  <2>7. Keeping(w, v, n, n, ow)
    BY <1>1, <2>6, KeepingTrans
  <2> QED BY <2>1, <2>3, <2>5, <2>7
<1> QED BY <1>2, <1>3

\* The cached inode of a file found.
LEMMA CachedInode ==
  ASSUME NEW v, NEW nd, NEW nc, NEW ow, VInv(v, nd, nc, ow), NEW m \in Nat
  PROVE  /\ cached_inode(v, m) \in InodeT /\ cached_inode(v, m).eof \in Nat
         /\ cached_inode(v, m).regs \in [0..(NREG - 1) -> RegT]
         /\ cached_inode(v, m).ftype \in {"DIR", "FILE"}
         /\ m % IPB \in 0..(IPB - 1) /\ cached_inode(v, m) = v.icache[m % IPB]
<1>1. m % IPB \in 0..(IPB - 1)
  BY PlaceIn
<1>2. v.icache \in IBlockT
  BY DEF VInv, ICOK
<1> QED BY <1>1, <1>2, IBlockAt DEF cached_inode

LEMMA MinOfTwo == ASSUME NEW a \in Nat, NEW b \in Nat PROVE Min({a, b}) \in Nat
<1>1. {a, b} \in SUBSET Nat /\ {a, b} # {}
  OBVIOUS
<1> QED BY <1>1, MinIs

LEMMA ListDir ==
  ASSUME NEW v, NEW n, NEW ow, VInv(v, n, n, ow), NEW d, d.eof \in Nat, NEW space \in Nat
  PROVE  Keeping(list_dir(v, d, space), v, n, n, ow)
<1> DEFINE m == BlocksFor(Min({space + 1, d.eof}))
           base == Outcome([v EXCEPT !.ret = {}], "LOOP")
           fit == Min({space, d.eof})
           t == [loop |-> "list", d |-> d, fit |-> fit]
<1>1. m \in Nat
  <2>1. space + 1 \in Nat
    OBVIOUS
  <2> QED BY <2>1, MinOfTwo, BlocksNat
<1>2. PICK f : Rounds(f, m, base, t) /\ list_dir(v, d, space) = After(f[m], "SUCCESS")
  BY <1>1, ListLoop
<1> HIDE DEF fit
<1>3. f[0] = base /\ \A j \in 1..m : f[j] = Round(t, f[j - 1], j)
  <2> HIDE DEF base, t, m
  <2> QED BY <1>1, <1>2, RoundsAre
<1>4. Keeping(base, v, n, n, ow)
  <2> DEFINE u == Set(v, "ret", {})
  <2>1. [v EXCEPT !.ret = {}] = u
    BY DEF Set
  <2>2. Keeping(u, v, n, n, ow)
    BY SetKeeps DEF Results
  <2> HIDE DEF u
  <2>3. VInv(u, n, n, ow)
    BY <2>2 DEF Keeping
  <2>4. Keeping(base, u, n, n, ow)
    BY <2>1, <2>3, OutcomeKeeps
  <2> QED BY <2>2, <2>4, KeepingTrans
<1> HIDE DEF base, m
<1> DEFINE S == {j \in 0..m : Keeping(f[j], v, n, n, ow)}
<1>5. 0 \in S
  BY <1>1, <1>3, <1>4
<1>6. ASSUME NEW j \in 1..m, j - 1 \in S PROVE j \in S
  <2> DEFINE x == f[j - 1]
             u == fs2_load_dblock_c(x, find_blk(d.regs, j - 1), FALSE)
  <2>1. Keeping(x, v, n, n, ow)
    BY <1>6
  <2>2. f[j] = IF x.outcome = "LOOP" THEN list_block(u, j - 1, fit) ELSE x
    <3>1. f[j] = Round(t, x, j)
      BY <1>3
    <3> QED BY <3>1 DEF Round
  <2> HIDE DEF x
  <2>3. VInv(x, n, n, ow)
    BY <2>1 DEF Keeping
  <2>4. Keeping(u, x, n, n, ow)
    BY <2>3, LoadDKeeps
  <2> HIDE DEF u
  <2>5. VInv(u, n, n, ow) /\ Keeping(u, v, n, n, ow)
    BY <2>1, <2>4, KeepingTrans DEF Keeping
  <2> DEFINE y == list_block(u, j - 1, fit)
             names == u.ret \cup
                {u.dcache[k].name : k \in {k \in 0..(DPB - 1) : (j - 1) * DPB + k < fit}}
  <2>6. y = u \/ y = Result(u, "LOOP", names)
    BY DEF list_block
  <2> HIDE DEF y, names
  <2>7. Keeping(Result(u, "LOOP", names), u, n, n, ow)
    BY <2>5, ResultKeeps
  <2>8. Keeping(Result(u, "LOOP", names), v, n, n, ow)
    BY <2>5, <2>7, KeepingTrans
  <2>9. Keeping(y, v, n, n, ow)
    BY <2>5, <2>6, <2>8
  <2> QED BY <2>1, <2>2, <2>9 DEF y
<1>7. 0..m \subseteq S
  <2> HIDE DEF S
  <2> QED BY <1>1, <1>5, <1>6, UpTo
<1>8. Keeping(f[m], v, n, n, ow)
  BY <1>1, <1>7
<1>9. Keeping(After(f[m], "SUCCESS"), v, n, n, ow)
  <2>1. Keeping(Outcome(f[m], "SUCCESS"), f[m], n, n, ow)
    BY <1>8, OutcomeKeeps DEF Keeping
  <2>2. Keeping(Outcome(f[m], "SUCCESS"), v, n, n, ow)
    BY <1>8, <2>1, KeepingTrans
  <2> QED BY <1>8, <2>2 DEF After
<1> QED BY <1>2, <1>9

LEMMA LsKeeps ==
  ASSUME NEW v, NEW n, NEW ow, VInv(v, n, n, ow), v.par \in 0..(n - 1),
         NEW path, path \in Seq(Range(path)), NEW space \in Nat
  PROVE  Keeping(fs2_ls(v, path, space), v, n, n, ow)
<1> DEFINE x == fs2_find_file(v, path)
           y == load_found(x)
<1>1. Keeping(y, v, n, n, ow) /\ (Ok(y) => y.ret \in 0..(n - 1))
  <2>1. Walked(x, v, n, ow)
    BY FindFile
  <2> HIDE DEF x
  <2> QED BY <2>1, LoadFound
<1>2. fs2_ls(v, path, space) = list_found(y, space)
  BY DEF fs2_ls
<1> HIDE DEF y
<1>3. VInv(y, n, n, ow)
  BY <1>1 DEF Keeping
<1>4. ASSUME NEW u, Keeping(u, v, n, n, ow), NEW e PROVE Keeping(Set(u, "ret", e), v, n, n, ow)
  <2>1. VInv(u, n, n, ow)
    BY <1>4 DEF Keeping
  <2>2. Keeping(Set(u, "ret", e), u, n, n, ow)
    BY <2>1, SetKeeps DEF Results
  <2> QED BY <1>4, <2>2, KeepingTrans
<1>5. CASE ~Ok(y)
  <2>1. list_found(y, space) = Set(y, "ret", [ok |-> FALSE, names |-> {}])
    BY <1>5 DEF list_found, Set
  <2> QED BY <1>1, <1>2, <1>4, <2>1
<1>6. CASE Ok(y)
  <2> DEFINE d == cached_inode(y, y.ret)
             w == list_dir(y, d, space)
  <2>1. y.ret \in Nat
    BY <1>1, <1>6
  <2>2. d.eof \in Nat
    BY <1>3, <2>1, CachedInode
  <2>3. list_found(y, space) = listed(w, d.eof <= space)
    BY <1>6 DEF list_found
  <2> HIDE DEF d
  <2>4. Keeping(w, y, n, n, ow)
    BY <1>3, <2>2, ListDir
  <2> HIDE DEF w
  <2>5. Keeping(w, v, n, n, ow)
    BY <1>1, <2>4, KeepingTrans
  <2>6. ASSUME NEW ok PROVE listed(w, ok) = Set(w, "ret", [ok |-> ok /\ Ok(w), names |-> IF Ok(w) THEN w.ret ELSE {}])
    BY DEF listed, Set
  <2> QED BY <1>2, <1>4, <2>3, <2>5, <2>6
<1> QED BY <1>5, <1>6

LEMMA IsftypeKeeps ==
  ASSUME NEW v, NEW n, NEW ow, VInv(v, n, n, ow), v.par \in 0..(n - 1),
         NEW path, path \in Seq(Range(path)), NEW ftype
  PROVE  Keeping(fs2_isftype(v, path, ftype), v, n, n, ow)
<1> DEFINE x == fs2_find_file(v, path)
           y == load_found(x)
           e == Ok(y) /\ cached_inode(y, y.ret).ftype = ftype
           w == Set(y, "ret", e)
<1>1. Keeping(y, v, n, n, ow)
  <2>1. Walked(x, v, n, ow)
    BY FindFile
  <2> HIDE DEF x
  <2> QED BY <2>1, LoadFound
<1>2. fs2_isftype(v, path, ftype) = w
  BY DEF fs2_isftype, has_type, Set
<1> HIDE DEF y, e
<1>3. VInv(y, n, n, ow)
  BY <1>1 DEF Keeping
<1>4. Keeping(w, y, n, n, ow)
  BY <1>3, SetKeeps DEF Results
<1>5. Keeping(w, v, n, n, ow)
  BY <1>1, <1>4, KeepingTrans
<1> QED BY <1>2, <1>5

-----------------------------------------------------------------------------
(* Removing *)

\* Counting the entries of a cached directory.
LEMMA PutEof ==
  ASSUME NEW v, NEW nd, NEW nc, NEW ow, VInv(v, nd, nc, ow),
         NEW s \in 0..(IPB - 1), NEW e \in Nat
  PROVE  /\ VInv(PutInode(v, s, [v.icache[s] EXCEPT !.eof = e]), nd, nc, ow)
         /\ Only(PutInode(v, s, [v.icache[s] EXCEPT !.eof = e]), v, {"icache"})
         /\ PutInode(v, s, [v.icache[s] EXCEPT !.eof = e]).icache[s] = [v.icache[s] EXCEPT !.eof = e]
<1> DEFINE i == [v.icache[s] EXCEPT !.eof = e]
<1>1. v.icache \in IBlockT
  BY DEF VInv, ICOK
<1>2. v.icache[s] \in InodeT
  BY <1>1, IBlockAt
<1>3. i \in InodeT /\ i.regs = v.icache[s].regs
  BY <1>2 DEF InodeT
<1>4. ASSUME NEW m \in 0..(nc - 1), m \div IPB = v.icindex, m % IPB = s
      PROVE  Mine(i.regs, m, v.hblock.next_block, ow)
  BY <1>3, <1>4 DEF VInv, ICOK
<1> HIDE DEF i
<1>5. /\ VInv(PutInode(v, s, i), nd, nc, ow)
      /\ Only(PutInode(v, s, i), v, {"icache"})
      /\ PutInode(v, s, i).icache[s] = i
  BY <1>3, <1>4, PutInodeIs
<1> QED BY <1>5 DEF i

LEMMA ReplaceEntry ==
  ASSUME NEW v, NEW n, NEW ow, VInv(v, n, n, ow), NEW s \in 0..(IPB - 1), v.icache[s].eof # 0,
         NEW b, NEW k \in 0..(DPB - 1), NEW le, le.ino \in 0..(n - 1), v.dcaddr # 0
  PROVE  /\ Keeping(replace_entry(v, s, b, k, le), v, n, n, ow)
         /\ replace_entry(v, s, b, k, le).icindex = v.icindex
         /\ \/ replace_entry(v, s, b, k, le).outcome # "LOOP"
            \/ replace_entry(v, s, b, k, le) = v
<1> DEFINE w == replace_entry(v, s, b, k, le)
<1>1. CASE ~Ok(v)
  <2>1. w = v
    BY <1>1 DEF replace_entry
  <2> QED BY <2>1 DEF Keeping
<1>2. CASE Ok(v)
  <2> DEFINE last == v.icache[s].eof - 1
             u == PutInode(v, s, [v.icache[s] EXCEPT !.eof = last])
             e == IF b * DPB + k = last THEN v.dcache[k] ELSE le
             x == [u EXCEPT !.dcache[k] = e]
  <2>1. last \in Nat
    <3>1. v.icache \in IBlockT
      BY DEF VInv, ICOK
    <3>2. v.icache[s].eof \in Nat
      BY <3>1, IBlockAt
    <3> QED BY <3>2
  <2>2. VInv(u, n, n, ow) /\ Only(u, v, {"icache"})
    BY <2>1, PutEof
  <2>3. w = fs2_save_dblock_c(x)
    <3>1. "icache" \in Fields /\ "dcache" \in Fields /\ IsVol(v)
      BY DEF VInv, Fields
    <3>2. [v EXCEPT !.icache[s].eof = last, !.dcache[k] = IF b * DPB + k = last THEN @ ELSE le]
            = [u EXCEPT !.dcache[k] = IF b * DPB + k = last THEN @ ELSE le]
      BY DEF PutInode, Set
    <3>3. u["dcache"] = v["dcache"]
      BY <2>2 DEF Only, Fields
    <3> HIDE DEF u, last
    <3>4. [u EXCEPT !.dcache[k] = IF b * DPB + k = last THEN @ ELSE le] = x
      BY <3>3
    <3> QED BY <1>2, <3>2, <3>4 DEF replace_entry, last
  <2> HIDE DEF last, u, w
  <2>4. e.ino \in 0..(n - 1)
    BY DEF VInv, DCOK, IsDBlock
  <2> HIDE DEF e
  <2>5. u["dcaddr"] = v["dcaddr"] /\ u["icindex"] = v["icindex"] /\ u["hblock"] = v["hblock"]
        /\ u["disk"] = v["disk"]
    BY <2>2 DEF Only, Fields
  <2>6. VInv(x, n, n, ow) /\ Only(x, u, {"dcache"})
    BY <2>2, <2>4, <2>5, SetEntry
  <2> HIDE DEF x
  <2>7. x["dcaddr"] = v["dcaddr"] /\ x["icindex"] = v["icindex"] /\ x["hblock"] = v["hblock"]
        /\ x["disk"] = v["disk"]
    BY <2>5, <2>6 DEF Only, Fields
  <2>8. Keeping(w, x, n, n, ow) /\ Only(w, x, {"disk", "log", "outcome"}) /\ w.outcome # "LOOP"
    BY <2>3, <2>6, <2>7, SaveD
  <2>9. w["icindex"] = x["icindex"]
    BY <2>8 DEF Only, Fields
  <2>10. Keeping(w, v, n, n, ow)
    BY <2>7, <2>8 DEF Keeping
  <2> QED BY <2>7, <2>8, <2>9, <2>10 DEF w
<1> QED BY <1>1, <1>2

Unlinked(w, v, n, ow) ==
  /\ Keeping(w, v, n, n, ow) /\ w.icindex = v.icindex
  /\ w.outcome = "LOOP" => w.icache = v.icache

LEMMA UnlinkedTrans ==
  ASSUME NEW u, NEW v, NEW w, NEW n, NEW ow, Unlinked(u, v, n, ow), u.icache = v.icache,
         Unlinked(w, u, n, ow)
  PROVE  Unlinked(w, v, n, ow)
BY KeepingTrans DEF Unlinked

LEMMA RemoveEntry ==
  ASSUME NEW v, NEW n, NEW ow, VInv(v, n, n, ow), NEW s \in 0..(IPB - 1), NEW d,
         v.icache[s] = d, d.eof # 0, NEW b, NEW k \in 0..(DPB - 1), v.dcaddr # 0
  PROVE  Unlinked(remove_entry(v, s, d, b, k), v, n, ow)
<1> DEFINE last == d.eof - 1
           w == remove_entry(v, s, d, b, k)
<1>1. last \in Nat
  <2>1. v.icache \in IBlockT
    BY DEF VInv, ICOK
  <2>2. d.eof \in Nat
    BY <2>1, IBlockAt
  <2> QED BY <2>2
<1>2. last % DPB \in 0..(DPB - 1)
  BY <1>1, Consts, Division
<1>3. n \in Nat /\ n # 0
  BY DEF VInv
<1>4. ASSUME NEW u, Keeping(u, v, n, n, ow), u.icindex = v.icindex, u.icache = v.icache,
             u.dcaddr = v.dcaddr, NEW le, le.ino \in 0..(n - 1)
      PROVE  Unlinked(replace_entry(u, s, b, k, le), v, n, ow)
  <2> DEFINE y == replace_entry(u, s, b, k, le)
  <2>1. VInv(u, n, n, ow) /\ u.icache[s].eof # 0 /\ u.dcaddr # 0
    BY <1>4 DEF Keeping
  <2>2. Keeping(y, u, n, n, ow) /\ y.icindex = u.icindex /\ (y.outcome # "LOOP" \/ y = u)
    BY <1>4, <2>1, ReplaceEntry
  <2> HIDE DEF y
  <2>3. Keeping(y, v, n, n, ow)
    BY <1>4, <2>2, KeepingTrans
  <2>4. Unlinked(y, v, n, ow)
    BY <1>4, <2>2, <2>3 DEF Unlinked
  <2> QED BY <2>4 DEF y
<1>5. CASE b = last \div DPB
  <2> DEFINE le == v.dcache[last % DPB]
  <2>1. w = replace_entry(v, s, b, k, le)
    BY <1>5 DEF remove_entry
  <2>2. le.ino \in 0..(n - 1)
    BY <1>2 DEF VInv, DCOK, IsDBlock
  <2> HIDE DEF le
  <2>3. Keeping(v, v, n, n, ow)
    BY DEF Keeping
  <2> QED BY <1>4, <2>1, <2>2, <2>3
<1>6. CASE b # last \div DPB
  <2> DEFINE u == fs2_load_gp_c(v, find_blk(d.regs, last \div DPB), FALSE)
             le == AsD(u.xcache)[last % DPB]
  <2>1. w = replace_entry(u, s, b, k, le)
    BY <1>6 DEF remove_entry
  <2>2. VInv(u, n, n, ow) /\ Only(u, v, {"xcache", "xcaddr", "outcome"})
    BY LoadX
  <2> HIDE DEF u
  <2>3. IsDBlock(AsD(u.xcache), n)
    BY <1>3, <2>2, AsTypes DEF VInv
  <2>4. le.ino \in 0..(n - 1)
    BY <1>2, <2>3 DEF IsDBlock
  <2> HIDE DEF le
  <2>5. u["icindex"] = v["icindex"] /\ u["icache"] = v["icache"] /\ u["dcaddr"] = v["dcaddr"]
        /\ u["hblock"] = v["hblock"] /\ u["disk"] = v["disk"]
    BY <2>2 DEF Only, Fields
  <2>6. Keeping(u, v, n, n, ow)
    BY <2>2, <2>5 DEF Keeping
  <2> QED BY <1>4, <2>1, <2>4, <2>5, <2>6
<1> QED BY <1>5, <1>6

LEMMA UnlinkBlock ==
  ASSUME NEW u, NEW n, NEW ow, VInv(u, n, n, ow), NEW s \in 0..(IPB - 1), NEW d,
         u.icache[s] = d, NEW b \in Nat, NEW x, x # 0
  PROVE  Unlinked(unlink_in_block(u, s, d, b, x), u, n, ow)
<1> DEFINE hits == {k \in 0..(DPB - 1) : /\ b * DPB + k < d.eof
                                         /\ u.dcache[(b * DPB + k) % UNL].ino = x}
           w == unlink_in_block(u, s, d, b, x)
<1>1. CASE ~Ok(u)
  <2>1. w = u
    BY <1>1 DEF unlink_in_block
  <2> QED BY <2>1 DEF Unlinked, Keeping
<1>2. CASE Ok(u) /\ hits = {}
  <2>1. w = Outcome(u, "LOOP")
    BY <1>2 DEF unlink_in_block
  <2>2. Keeping(w, u, n, n, ow) /\ Only(w, u, {"outcome"})
    BY <2>1, OutcomeKeeps
  <2>3. w["icindex"] = u["icindex"] /\ w["icache"] = u["icache"]
    BY <2>2 DEF Only, Fields
  <2> QED BY <2>2, <2>3 DEF Unlinked
<1>3. CASE Ok(u) /\ hits # {}
  <2>1. w = remove_entry(u, s, d, b, Min(hits))
    BY <1>3 DEF unlink_in_block
  <2>2. hits \in SUBSET Nat
    OBVIOUS
  <2>3. Min(hits) \in hits
    <3> HIDE DEF hits
    <3> QED BY <1>3, <2>2, MinIs
  <2>4. PICK k : k = Min(hits)
    OBVIOUS
  <2>5. k \in 0..(DPB - 1) /\ b * DPB + k < d.eof /\ u.dcache[(b * DPB + k) % UNL].ino = x
    BY <2>3, <2>4
  <2>6. w = remove_entry(u, s, d, b, k)
    BY <2>1, <2>4
  <2> HIDE DEF hits, w
  <2>7. b * DPB + k \in Nat
    <3>1. DPB \in Nat /\ k \in Nat
      BY <2>5, Consts
    <3>2. b * DPB \in Nat
      BY <3>1
    <3> QED BY <3>1, <3>2
  <2>8. d.eof # 0
    BY <2>5, <2>7
  <2>9. (b * DPB + k) % UNL \in 0..(DPB - 1)
    <3>1. (b * DPB + k) % UNL \in 0..(UNL - 1)
      BY <2>7, Consts, Division
    <3>2. UNL <= DPB /\ UNL \in Nat /\ DPB \in Nat
      BY FS2Assumption
    <3> QED BY <3>1, <3>2
  <2>10. u.dcaddr # 0
    <3>1. u.dcaddr = 0 => u.dcache = ZeroDBlock
      BY DEF VInv, DCOK
    <3>2. ZeroDBlock[(b * DPB + k) % UNL].ino = 0
      BY <2>9 DEF ZeroDBlock
    <3> QED BY <2>5, <3>1, <3>2
  <2>11. Unlinked(remove_entry(u, s, d, b, k), u, n, ow)
    BY <2>5, <2>8, <2>10, RemoveEntry
  <2> QED BY <2>6, <2>11 DEF w
<1> QED BY <1>1, <1>2, <1>3

LEMMA Unlink ==
  ASSUME NEW v, NEW n, NEW ow, VInv(v, n, n, ow), NEW s \in 0..(IPB - 1), NEW x, x # 0
  PROVE  /\ Keeping(fs2_unlink(v, s, v.icache[s], x), v, n, n, ow)
         /\ fs2_unlink(v, s, v.icache[s], x).icindex = v.icindex
<1> DEFINE d == v.icache[s]
           m == BlocksFor(d.eof)
           base == Outcome(v, "LOOP")
           t == [loop |-> "unlink", s |-> s, d |-> d, x |-> x]
<1>1. m \in Nat
  <2>1. v.icache \in IBlockT
    BY DEF VInv, ICOK
  <2>2. d.eof \in Nat
    BY <2>1, IBlockAt
  <2> QED BY <2>2, BlocksNat
<1>2. PICK f : Rounds(f, m, base, t) /\ fs2_unlink(v, s, d, x) = After(f[m], "NO_FILE")
  BY <1>1, UnlinkLoop
<1>3. f[0] = base /\ \A j \in 1..m : f[j] = Round(t, f[j - 1], j)
  <2> HIDE DEF base, t, m
  <2> QED BY <1>1, <1>2, RoundsAre
<1>4. Unlinked(base, v, n, ow)
  <2>1. Keeping(base, v, n, n, ow) /\ Only(base, v, {"outcome"})
    BY OutcomeKeeps
  <2>2. base["icindex"] = v["icindex"] /\ base["icache"] = v["icache"]
    BY <2>1 DEF Only, Fields
  <2> QED BY <2>1, <2>2 DEF Unlinked
<1> HIDE DEF base, m
<1> DEFINE S == {j \in 0..m : Unlinked(f[j], v, n, ow)}
<1>5. 0 \in S
  BY <1>1, <1>3, <1>4
<1>6. ASSUME NEW j \in 1..m, j - 1 \in S PROVE j \in S
  <2> DEFINE y == f[j - 1]
             u == fs2_load_dblock_c(y, find_blk(d.regs, j - 1), FALSE)
             z == unlink_in_block(u, s, d, j - 1, x)
  <2>1. Unlinked(y, v, n, ow)
    BY <1>6
  <2>2. f[j] = IF y.outcome = "LOOP" THEN z ELSE y
    <3>1. f[j] = Round(t, y, j)
      BY <1>3
    <3> QED BY <3>1 DEF Round
  <2> HIDE DEF y
  <2>3. CASE y.outcome # "LOOP"
    BY <2>1, <2>2, <2>3
  <2>4. CASE y.outcome = "LOOP"
    <3>1. VInv(y, n, n, ow) /\ y.icache = v.icache
      BY <2>1, <2>4 DEF Unlinked, Keeping
    <3>2. Keeping(u, y, n, n, ow) /\ u.icache = y.icache /\ u.icindex = y.icindex
      BY <3>1, LoadDKeeps
    <3> HIDE DEF u
    <3>3. VInv(u, n, n, ow) /\ u.icache[s] = d /\ j - 1 \in Nat
      BY <3>1, <3>2 DEF Keeping
    <3>4. Unlinked(z, u, n, ow)
      BY <3>3, UnlinkBlock
    <3> HIDE DEF z
    <3>5. Unlinked(u, y, n, ow)
      BY <3>2 DEF Unlinked
    <3>6. Unlinked(z, y, n, ow)
      BY <3>2, <3>4, <3>5, UnlinkedTrans
    <3>7. Unlinked(z, v, n, ow)
      BY <2>1, <3>1, <3>6, UnlinkedTrans
    <3> QED BY <2>2, <2>4, <3>7
  <2> QED BY <2>3, <2>4
<1>7. 0..m \subseteq S
  <2> HIDE DEF S
  <2> QED BY <1>1, <1>5, <1>6, UpTo
<1>8. Unlinked(f[m], v, n, ow)
  BY <1>1, <1>7
<1> DEFINE w == After(f[m], "NO_FILE")
<1>9. Keeping(w, v, n, n, ow) /\ w.icindex = v.icindex
  <2> DEFINE y == f[m]
             o == Outcome(y, "NO_FILE")
  <2>1. Keeping(y, v, n, n, ow) /\ y.icindex = v.icindex /\ VInv(y, n, n, ow)
    BY <1>8 DEF Unlinked, Keeping
  <2> HIDE DEF y
  <2>2. Keeping(o, y, n, n, ow) /\ Only(o, y, {"outcome"})
    BY <2>1, OutcomeKeeps
  <2> HIDE DEF o
  <2>3. o["icindex"] = y["icindex"]
    BY <2>2 DEF Only, Fields
  <2>4. Keeping(o, v, n, n, ow)
    BY <2>1, <2>2, KeepingTrans
  <2>5. w = o \/ w = y
    BY DEF After, o, y
  <2> HIDE DEF w
  <2> QED BY <2>1, <2>3, <2>4, <2>5
<1> HIDE DEF w
<1> QED BY <1>2, <1>9 DEF w

LEMMA UnlinkCached ==
  ASSUME NEW v, NEW n, NEW ow, VInv(v, n, n, ow), NEW p \in 0..(n - 1), p \div IPB = v.icindex,
         NEW x, x # 0
  PROVE  Keeping(unlink_cached(v, p, x), v, n, n, ow)
<1> DEFINE d == cached_inode(v, p)
           u == fs2_unlink(v, p % IPB, d, x)
<1>1. p \in Nat
  OBVIOUS
<1>2. p % IPB \in 0..(IPB - 1) /\ d = v.icache[p % IPB]
  BY <1>1, CachedInode
<1>3. Keeping(u, v, n, n, ow) /\ u.icindex = v.icindex
  <2> DEFINE s == p % IPB
             w == fs2_unlink(v, s, v.icache[s], x)
  <2>1. s \in 0..(IPB - 1)
    BY <1>2
  <2>2. u = w
    BY <1>2
  <2> HIDE DEF d, s, u
  <2>3. Keeping(w, v, n, n, ow) /\ w.icindex = v.icindex
    BY <2>1, Unlink
  <2> HIDE DEF w
  <2> QED BY <2>2, <2>3 DEF u
<1>4. unlink_cached(v, p, x) \in {v, u, fs2_save_iblock_c(u)}
  BY DEF unlink_cached, save_unlinked
<1> HIDE DEF u
<1>5. Keeping(fs2_save_iblock_c(u), u, n, n, ow)
  BY <1>3, SaveI DEF Keeping
<1>6. Keeping(fs2_save_iblock_c(u), v, n, n, ow)
  BY <1>3, <1>5, KeepingTrans
<1>7. Keeping(v, v, n, n, ow)
  BY DEF Keeping
<1> QED BY <1>3, <1>4, <1>6, <1>7

LEMMA ClearedMine ==
  ASSUME NEW k \in Nat, NEW regs \in [0..(k - 1) -> RegT], NEW o, NEW nb, NEW ow
  PROVE  Cleared(regs) \in [0..(k - 1) -> RegT] /\ Mine(Cleared(regs), o, nb, ow)
<1>1. ASSUME NEW i \in 0..(k - 1) PROVE Cleared(regs)[i] \in RegT /\ Cleared(regs)[i].start = 0
  BY DEF Cleared, RegT
<1>2. Cleared(regs) \in [0..(k - 1) -> RegT]
  BY <1>1 DEF Cleared
<1> QED BY <1>1, <1>2 DEF Mine

LEMMA RmCached ==
  ASSUME NEW v, NEW n, NEW ow, VInv(v, n, n, ow), NEW x \in 0..(n - 1), x # 0,
         v.icindex = x \div IPB, NEW p \in 0..(n - 1)
  PROVE  Keeping(rm_cached(v, x, p), v, n, n, ow)
<1> DEFINE s == x % IPB
           i == [v.icache[s] EXCEPT !.regs = Cleared(v.icache[s].regs)]
           c == PutInode(v, s, i)
           gT == fs2_get_iblock_c(c, p \div IPB, FALSE, TRUE)
           gF == fs2_get_iblock_c(v, p \div IPB, FALSE, FALSE)
<1>2. rm_cached(v, x, p) \in {v, Outcome(v, "BAD_FTYPE"), unlink_cached(gT, p, x),
                              unlink_cached(gF, p, x)}
  <2>1. [v EXCEPT !.icache[s].regs = Cleared(@)] = c
    BY DEF PutInode, Set
  <2> HIDE DEF c
  <2>2. CASE x < v.hblock.next_inode - 1
    BY <2>1, <2>2 DEF rm_cached, fs2_get_iblock_c
  <2>3. CASE ~(x < v.hblock.next_inode - 1)
    BY <2>3 DEF rm_cached, fs2_get_iblock_c
  <2> QED BY <2>2, <2>3
<1>3. s \in 0..(IPB - 1) /\ v.icache[s] \in InodeT
  <2>1. x \in Nat
    OBVIOUS
  <2> QED BY <2>1, CachedInode
<1>4. i \in InodeT /\ \A m \in Int : Mine(i.regs, m, v.hblock.next_block, ow)
  <2>1. v.icache[s].regs \in [0..(NREG - 1) -> RegT] /\ NREG \in Nat
    BY <1>3, Consts DEF InodeT
  <2> DEFINE r == Cleared(v.icache[s].regs)
  <2>2. r \in [0..(NREG - 1) -> RegT] /\ \A m \in Int : Mine(r, m, v.hblock.next_block, ow)
    BY <2>1, ClearedMine
  <2>3. i.regs = r
    BY <1>3 DEF InodeT
  <2> HIDE DEF r, s
  <2>4. i \in InodeT
    BY <1>3, <2>2 DEF InodeT, r
  <2> HIDE DEF i
  <2> QED BY <2>2, <2>3, <2>4
<1> HIDE DEF i
<1>5. VInv(c, n, n, ow) /\ Only(c, v, {"icache"})
  <2>1. \A m \in 0..(n - 1) : m \div IPB = v.icindex /\ m % IPB = s =>
           Mine(i.regs, m, v.hblock.next_block, ow)
    BY <1>4
  <2> HIDE DEF s
  <2> QED BY <1>3, <1>4, <2>1, PutInodeIs
<1> HIDE DEF c
<1>6. Keeping(c, v, n, n, ow) /\ c.icindex = v.icindex
  <2>1. c["icindex"] = v["icindex"] /\ c["hblock"] = v["hblock"] /\ c["disk"] = v["disk"]
    BY <1>5 DEF Only, Fields
  <2> QED BY <1>5, <2>1 DEF Keeping
<1>7. Keeping(gT, c, n, n, ow) /\ gT.icindex = p \div IPB
  <2>1. \E y \in 0..(n - 1) : y \div IPB = c.icindex
    BY <1>6
  <2>2. VInv(c, n, n, ow)
    BY <1>5
  <2>3. Gets(gT, c, n, n, ow, p \div IPB)
    BY <2>1, <2>2, GetSaved
  <2> HIDE DEF gT
  <2> QED BY <2>3 DEF Gets
<1>8. Keeping(gT, v, n, n, ow)
  BY <1>6, <1>7, KeepingTrans
<1>9. Keeping(gF, v, n, n, ow) /\ gF.icindex = p \div IPB
  BY GetClean
<1>10. ASSUME NEW g, Keeping(g, v, n, n, ow), g.icindex = p \div IPB
       PROVE  Keeping(unlink_cached(g, p, x), v, n, n, ow)
  <2>1. VInv(g, n, n, ow)
    BY <1>10 DEF Keeping
  <2>2. Keeping(unlink_cached(g, p, x), g, n, n, ow)
    BY <1>10, <2>1, UnlinkCached
  <2> QED BY <1>10, <2>2, KeepingTrans
<1> HIDE DEF gT, gF
<1>11. Keeping(v, v, n, n, ow) /\ Keeping(Outcome(v, "BAD_FTYPE"), v, n, n, ow)
  BY OutcomeKeeps DEF Keeping
<1> QED BY <1>2, <1>7, <1>8, <1>9, <1>10, <1>11

LEMMA RmKeeps ==
  ASSUME NEW v, NEW n, NEW ow, VInv(v, n, n, ow), v.par \in 0..(n - 1),
         NEW path, path \in Seq(Range(path))
  PROVE  Keeping(fs2_rm(v, path), v, n, n, ow)
<1> DEFINE x == fs2_find_file(v, path)
           r == x.ret
           p == x.par
           g == fs2_get_iblock_c(x, r \div IPB, FALSE, FALSE)
<1>1. Walked(x, v, n, ow)
  BY FindFile
<1>2. fs2_rm(v, path) = rm_found(x)
  BY DEF fs2_rm
<1>3. rm_found(x) \in {x, Outcome(x, "BAD_PERMISSIONS")}
      \/ (Ok(x) /\ r # 0 /\ rm_found(x) = rm_cached(g, r, p))
  BY DEF rm_found
<1> HIDE DEF x
<1>4. VInv(x, n, n, ow) /\ Keeping(x, v, n, n, ow) /\ p \in 0..(n - 1)
  BY <1>1 DEF Walked, Keeping
<1>5. Keeping(Outcome(x, "BAD_PERMISSIONS"), v, n, n, ow)
  <2>1. Keeping(Outcome(x, "BAD_PERMISSIONS"), x, n, n, ow)
    BY <1>4, OutcomeKeeps
  <2> QED BY <1>4, <2>1, KeepingTrans
<1>6. CASE Ok(x) /\ r # 0 /\ rm_found(x) = rm_cached(g, r, p)
  <2>1. r \in 0..(n - 1)
    BY <1>1, <1>6 DEF Walked, HasFound, Ok
  <2> HIDE DEF r, p
  <2>2. Keeping(g, x, n, n, ow) /\ g.icindex = r \div IPB
    BY <1>4, <2>1, GetClean
  <2> HIDE DEF g
  <2>3. VInv(g, n, n, ow) /\ Keeping(g, v, n, n, ow)
    BY <1>4, <2>2, KeepingTrans DEF Keeping
  <2>4. Keeping(rm_cached(g, r, p), g, n, n, ow)
    BY <1>4, <1>6, <2>1, <2>2, <2>3, RmCached
  <2>5. Keeping(rm_cached(g, r, p), v, n, n, ow)
    BY <2>3, <2>4, KeepingTrans
  <2> QED BY <1>2, <1>6, <2>5
<1> QED BY <1>2, <1>3, <1>4, <1>5, <1>6

-----------------------------------------------------------------------------
(* Taking regions *)

\* What an inode may be is not narrowed by one more inode.
LEMMA OneMore ==
  ASSUME NEW n \in Nat
  PROVE  /\ \A b : IsDBlock(b, n) => IsDBlock(b, n + 1)
         /\ \A b : BlockOK(b, n) => BlockOK(b, n + 1)
         /\ \A D : DiskOK(D, n) => DiskOK(D, n + 1)
         /\ \A da, DC : DCOK(da, DC, n) => DCOK(da, DC, n + 1)
<1>1. \A k : k \in 0..(n - 1) => k \in 0..((n + 1) - 1)
  OBVIOUS
<1>2. ASSUME NEW b, IsDBlock(b, n) PROVE IsDBlock(b, n + 1)
  BY <1>1, <1>2 DEF IsDBlock
<1>3. ASSUME NEW b, BlockOK(b, n) PROVE BlockOK(b, n + 1)
  BY <1>2, <1>3 DEF BlockOK
<1>4. ASSUME NEW D, DiskOK(D, n) PROVE DiskOK(D, n + 1)
  BY <1>3, <1>4 DEF DiskOK
<1>5. ASSUME NEW da, NEW DC, DCOK(da, DC, n) PROVE DCOK(da, DC, n + 1)
  BY <1>2, <1>5 DEF DCOK
<1> QED BY <1>2, <1>3, <1>4, <1>5

\* The header with the next rsz blocks taken.
TakenHead(H, rsz) == [H EXCEPT !.next_block = @ + rsz]

LEMMA TakeFits ==
  ASSUME NEW v, IsVol(v), NEW rsz, ~(v.hblock.next_block + rsz > v.hblock.nblocks)
  PROVE  LET w == fs2_find_free_region(v, rsz, FALSE)
         IN  /\ Only(w, v, {"outcome", "ret", "hblock"}) /\ w.outcome = "SUCCESS"
             /\ w.ret = v.hblock.next_block /\ w.hblock = TakenHead(v.hblock, rsz)
<1> DEFINE w == fs2_find_free_region(v, rsz, FALSE)
           u == Result(v, "SUCCESS", v.hblock.next_block)
           x == Set(u, "hblock", TakenHead(v.hblock, rsz))
<1>1. Only(u, v, {"outcome", "ret"}) /\ u.outcome = "SUCCESS" /\ u.ret = v.hblock.next_block
  BY ResultFields
<1> HIDE DEF u
<1>2. IsVol(u) /\ "hblock" \in Fields /\ u["hblock"] = v["hblock"]
  BY <1>1 DEF Only, Fields
<1>3. w = x
  <2>1. w = take_region(v, rsz)
    BY DEF fs2_find_free_region
  <2>2. take_region(v, rsz) = [u EXCEPT !.hblock.next_block = @ + rsz]
    BY DEF take_region, u
  <2>3. [u EXCEPT !.hblock.next_block = @ + rsz] = Set(u, "hblock", TakenHead(u.hblock, rsz))
    BY DEF Set, TakenHead
  <2>4. u.hblock = v.hblock
    BY <1>2
  <2> HIDE DEF w
  <2> QED BY <2>1, <2>2, <2>3, <2>4
<1>4. Only(x, u, {"hblock"}) /\ x["hblock"] = TakenHead(v.hblock, rsz)
  BY <1>2, SetIs
<1> HIDE DEF x, w
<1>5. Only(x, v, {"outcome", "ret", "hblock"})
  BY <1>1, <1>4 DEF Only
<1>6. x["outcome"] = u["outcome"] /\ x["ret"] = u["ret"]
  BY <1>4 DEF Only, Fields
<1> QED BY <1>1, <1>3, <1>4, <1>5, <1>6 DEF w

LEMMA TakeRegion ==
  ASSUME NEW v, IsVol(v), NEW rsz
  PROVE  LET w == fs2_find_free_region(v, rsz, FALSE)
         IN  \/ w = Result(v, "DISK_FULL", 0)
             \/ /\ ~(v.hblock.next_block + rsz > v.hblock.nblocks)
                /\ Only(w, v, {"outcome", "ret", "hblock"}) /\ w.outcome = "SUCCESS"
                /\ w.ret = v.hblock.next_block /\ w.hblock = TakenHead(v.hblock, rsz)
<1>1. CASE v.hblock.next_block + rsz > v.hblock.nblocks
  BY <1>1 DEF fs2_find_free_region
<1>2. CASE ~(v.hblock.next_block + rsz > v.hblock.nblocks)
  BY <1>2, TakeFits
<1> QED BY <1>1, <1>2

\* The invariant with more blocks taken, whoever they are given to.
LEMMA TakenKeeps ==
  ASSUME NEW v, NEW nd, NEW nc, NEW ow, VInv(v, nd, nc, ow), NEW rsz \in Nat, NEW ow2,
         ~(v.hblock.next_block + rsz > v.hblock.nblocks),
         Grows(v.hblock.next_block, v.hblock.next_block + rsz, ow, ow2),
         NEW w, Only(w, v, {"outcome", "ret", "hblock"}), w.hblock = TakenHead(v.hblock, rsz)
  PROVE  VInv(w, nd, nc, ow2)
<1> DEFINE H == v.hblock
           G == w.hblock
<1>1. /\ w["disk"] = v["disk"] /\ w["icindex"] = v["icindex"]
      /\ w["icaddr"] = v["icaddr"] /\ w["icache"] = v["icache"] /\ w["dcaddr"] = v["dcaddr"]
      /\ w["dcache"] = v["dcache"] /\ w["xcache"] = v["xcache"] /\ IsVol(w)
  BY DEF Only, Fields
<1>2. HeadOK(H, ow)
  BY DEF VInv
<1>3. /\ G \in HeadT /\ G.next_block = H.next_block + rsz /\ G.nblocks = H.nblocks
      /\ G.regs = H.regs /\ H.next_block \in Nat /\ H.nblocks \in Nat /\ H.next_block >= 1
      /\ H.nblocks <= BLOCK_NUM
  BY <1>2 DEF HeadOK, HeadT, TakenHead
<1>4. ASSUME NEW r, NEW o, Mine(r, o, H.next_block, ow) PROVE Mine(r, o, G.next_block, ow2)
  BY <1>3, <1>4, MineGrows
<1>5. HeadOK(G, ow2)
  <2>1. G.next_block \in 1..G.nblocks
    BY <1>3
  <2>2. Mine(G.regs, -1, G.next_block, ow2)
    <3>1. Mine(H.regs, -1, H.next_block, ow)
      BY <1>2 DEF HeadOK
    <3>2. Mine(H.regs, -1, G.next_block, ow2)
      BY <1>4, <3>1
    <3> QED BY <1>3, <3>2
  <2> QED BY <1>3, <2>1, <2>2 DEF HeadOK
<1> HIDE DEF G
<1>6. HasTable(G, nc)
  BY <1>3 DEF VInv, HasTable
<1>7. DiskOwn(w.disk, G, nd, ow2)
  <2> SUFFICES ASSUME NEW m \in 0..(nd - 1)
               PROVE  Mine(OnDisk(v.disk, G, m).regs, m, G.next_block, ow2)
    BY <1>1 DEF DiskOwn
  <2>1. Mine(OnDisk(v.disk, H, m).regs, m, H.next_block, ow)
    BY DEF VInv, DiskOwn
  <2>2. OnDisk(v.disk, G, m) = OnDisk(v.disk, H, m)
    BY <1>3 DEF OnDisk
  <2> QED BY <1>4, <2>1, <2>2
<1>8. ICOK(v.icindex, v.icaddr, v.icache, G, nc, ow2)
  <2>1. v.icache \in IBlockT
    BY DEF VInv, ICOK
  <2>2. ASSUME NEW m \in 0..(nc - 1), m \div IPB = v.icindex
        PROVE  /\ v.icaddr = find_blk(G.regs, v.icindex)
               /\ Mine(v.icache[m % IPB].regs, m, G.next_block, ow2)
    <3>1. /\ v.icaddr = find_blk(H.regs, v.icindex)
          /\ Mine(v.icache[m % IPB].regs, m, H.next_block, ow)
      BY <2>2 DEF VInv, ICOK
    <3> QED BY <1>3, <1>4, <3>1
  <2> QED BY <2>1, <2>2 DEF ICOK
<1> QED BY <1>1, <1>5, <1>6, <1>7, <1>8 DEF VInv, G

\* Region i of the cached inode m is taken.
Extended(w, v, nd, nc, s, i) ==
  /\ \E ow2 : VInv(w, nd, nc, ow2)
  /\ Ok(w) /\ w.ret # 0 /\ w.disk = v.disk /\ w.hblock = TakenHead(v.hblock, DREG)
  /\ w.icindex = v.icindex /\ w.icache[s].regs[i].start # 0

LEMMA NewDRegion ==
  ASSUME NEW v, NEW nd, NEW nc, NEW ow, VInv(v, nd, nc, ow),
         NEW m \in 0..(nc - 1), m \div IPB = v.icindex, NEW i \in 0..(NREG - 1)
  PROVE  LET w == new_dregion(fs2_find_free_region(v, DREG, FALSE), m % IPB, i)
         IN  w = Result(v, "DISK_FULL", 0) \/ Extended(w, v, nd, nc, m % IPB, i)
<1> DEFINE x == fs2_find_free_region(v, DREG, FALSE)
           s == m % IPB
           w == new_dregion(x, s, i)
           nb == v.hblock.next_block
<1>1. IsVol(v)
  BY DEF VInv
<1>2. CASE x = Result(v, "DISK_FULL", 0)
  <2>1. x.ret = 0
    <3>1. Result(v, "DISK_FULL", 0).ret = 0
      BY <1>1, ResultFields
    <3> HIDE DEF x
    <3> QED BY <1>2, <3>1
  <2>2. w = x
    BY <2>1 DEF new_dregion
  <2> QED BY <1>2, <2>2
<1>3. CASE /\ ~(nb + DREG > v.hblock.nblocks)
           /\ Only(x, v, {"outcome", "ret", "hblock"}) /\ x.outcome = "SUCCESS"
           /\ x.ret = nb /\ x.hblock = TakenHead(v.hblock, DREG)
  <2> HIDE DEF x
  <2> DEFINE r == v.icache[s].regs
             q == [r EXCEPT ![i] = [start |-> nb, len |-> DREG]]
             e == [v.icache[s] EXCEPT !.regs = q]
             y == PutInode(x, s, e)
             ow2 == Given(ow, nb, DREG, <<m, i>>)
  <2>1. m \in Nat /\ s \in 0..(IPB - 1) /\ v.icache[s] \in InodeT
        /\ r \in [0..(NREG - 1) -> RegT]
    <3>1. m \in Nat
      OBVIOUS
    <3> QED BY <3>1, CachedInode
  <2>2. nb \in Nat /\ nb # 0 /\ v.hblock \in HeadT /\ DREG \in Nat /\ DREG # 0 /\ NREG \in Nat
        /\ IPB \in Nat /\ IPB # 0
    BY Consts DEF VInv, HeadOK, HeadT
  <2>3. x["icache"] = v["icache"] /\ x["icindex"] = v["icindex"] /\ x["disk"] = v["disk"]
    BY <1>3 DEF Only, Fields
  <2>4. w = y
    <3>1. x.ret = nb /\ nb # 0
      BY <1>3, <2>2
    <3>2. w = [x EXCEPT !.icache[s].regs[i] = [start |-> nb, len |-> DREG]]
      BY <3>1 DEF new_dregion
    <3> HIDE DEF s, w, nb
    <3>3. [x EXCEPT !.icache[s].regs[i] = [start |-> nb, len |-> DREG]]
            = PutInode(x, s, [x.icache[s] EXCEPT !.regs = [x.icache[s].regs EXCEPT ![i] = [start |-> nb, len |-> DREG]]])
      BY DEF PutInode, Set
    <3> QED BY <2>3, <3>2, <3>3
  <2> HIDE DEF nb, w
  <2>5. VInv(x, nd, nc, ow2)
    <3>1. Grows(nb, nb + DREG, ow, ow2)
      BY <2>2, GivenGrows
    <3> HIDE DEF ow2
    <3> QED BY <1>3, <2>2, <3>1, TakenKeeps DEF nb
  <2>6. q \in [0..(NREG - 1) -> RegT] /\ q[i].start = nb
    BY <2>1, <2>2 DEF RegT
  <2>7. Mine(q, m, nb + DREG, ow2)
    <3>1. Mine(r, m, nb, ow)
      BY DEF VInv, ICOK, nb
    <3> HIDE DEF r, s
    <3> QED BY <2>1, <2>2, <3>1, MineGiven
  <2>8. e \in InodeT /\ e.regs = q
    <3> HIDE DEF q, s
    <3> QED BY <2>1, <2>6 DEF InodeT
  <2>9. x.hblock.next_block = nb + DREG
    BY <1>3, <2>2 DEF TakenHead, HeadT, nb
  <2> HIDE DEF q, ow2
  <2>10. ASSUME NEW j \in 0..(nc - 1), j \div IPB = x.icindex, j % IPB = s
         PROVE  Mine(e.regs, j, x.hblock.next_block, ow2)
    <3>1. j \in Nat /\ j \div IPB = m \div IPB /\ j % IPB = m % IPB
      BY <2>3, <2>10
    <3>2. j = m
      BY <2>1, <2>2, <3>1, PlaceOf
    <3> QED BY <2>7, <2>8, <2>9, <3>2
  <2> HIDE DEF e, s
  <2>11. VInv(y, nd, nc, ow2) /\ Only(y, x, {"icache"}) /\ y.icache[s] = e
    BY <2>1, <2>5, <2>8, <2>10, PutInodeIs
  <2> HIDE DEF y
  <2>12. y["disk"] = x["disk"] /\ y["hblock"] = x["hblock"] /\ y["icindex"] = x["icindex"]
         /\ y["ret"] = x["ret"] /\ y["outcome"] = x["outcome"]
    BY <2>11 DEF Only, Fields
  <2>13. Extended(y, v, nd, nc, s, i)
    <3>1. \E o : VInv(y, nd, nc, o)
      BY <2>11
    <3>2. y.icache[s].regs[i].start # 0
      BY <2>2, <2>6, <2>8, <2>11
    <3> QED BY <1>3, <2>2, <2>3, <2>12, <3>1, <3>2 DEF Extended, Ok
  <2> QED BY <2>4, <2>13 DEF s, w, x
<1>4. \/ x = Result(v, "DISK_FULL", 0)
      \/ /\ ~(nb + DREG > v.hblock.nblocks)
         /\ Only(x, v, {"outcome", "ret", "hblock"}) /\ x.outcome = "SUCCESS"
         /\ x.ret = nb /\ x.hblock = TakenHead(v.hblock, DREG)
  BY <1>1, TakeRegion
<1> QED BY <1>2, <1>3, <1>4

-----------------------------------------------------------------------------
(* Creating *)

\* What a creation does to the header before it counts the inode.
Later(G, H) == G.next_inode = H.next_inode /\ G.next_block >= H.next_block

LEMMA LaterHead ==
  ASSUME NEW H \in HeadT
  PROVE  Later(H, H) /\ \A k \in Nat : Later(TakenHead(H, k), H) /\ TakenHead(H, k) \in HeadT
BY DEF Later, TakenHead, HeadT

LEMMA LaterTrans ==
  ASSUME NEW H \in HeadT, NEW G \in HeadT, NEW F \in HeadT, Later(G, H), Later(F, G)
  PROVE  Later(F, H)
BY DEF Later, HeadT

\* An inode more is in use: it has a block and is in the cache.
LEMMA Admit ==
  ASSUME NEW v, NEW n, NEW ow, VInv(v, n, n, ow), v.icindex = n \div IPB,
         find_blk(v.hblock.regs, n \div IPB) # 0, v.icaddr = find_blk(v.hblock.regs, n \div IPB),
         Mine(v.icache[n % IPB].regs, n, v.hblock.next_block, ow)
  PROVE  VInv(v, n, n + 1, ow)
<1>1. n \in Nat /\ n # 0 /\ n + 1 \in Nat /\ n <= n + 1
  BY DEF VInv
<1>2. \A m \in 0..((n + 1) - 1) : m \in 0..(n - 1) \/ m = n
  BY <1>1
<1>3. DiskOK(v.disk, n + 1) /\ DCOK(v.dcaddr, v.dcache, n + 1) /\ BlockOK(v.xcache, n + 1)
  BY <1>1, OneMore DEF VInv
<1>4. HasTable(v.hblock, n + 1)
  BY <1>2 DEF VInv, HasTable
<1>5. ICOK(v.icindex, v.icaddr, v.icache, v.hblock, n + 1, ow)
  BY <1>2 DEF VInv, ICOK
<1>6. Pending(v.icindex, n, n + 1)
  <2>1. \A m \in n..((n + 1) - 1) : m = n
    BY <1>1
  <2> QED BY <2>1 DEF Pending
<1> QED BY <1>1, <1>3, <1>4, <1>5, <1>6 DEF VInv

\* Inode n has got its place in the cached block.
Placed(v, n) ==
  /\ v.icindex = n \div IPB /\ find_blk(v.hblock.regs, n \div IPB) # 0
  /\ v.icaddr = find_blk(v.hblock.regs, n \div IPB)

LEMMA InitInode ==
  ASSUME NEW v, NEW n, NEW ow, VInv(v, n, n, ow), Ok(v), Placed(v, n), NEW ftype \in {"DIR", "FILE"}
  PROVE  LET w == fs2_init_inode(v, n % IPB, ftype)
         IN  \/ ~Ok(w) /\ Keeping(w, v, n, n, ow)
             \/ /\ Ok(w) /\ \E ow2 : VInv(w, n, n + 1, ow2)
                /\ w.disk = v.disk /\ Later(w.hblock, v.hblock) /\ w.icindex = n \div IPB
                /\ ftype = "DIR" => w.icache[n % IPB].regs[0].start # 0
<1> DEFINE s == n % IPB
           e == [ftype |-> ftype, eof |-> 0, regs |-> Cleared(v.icache[s].regs)]
           u == PutInode(v, s, e)
           w == fs2_init_inode(v, s, ftype)
           x == new_dregion(fs2_find_free_region(u, DREG, FALSE), s, 0)
<1>1. n \in Nat /\ v.hblock \in HeadT
  BY DEF VInv, HeadOK
<1>2. s \in 0..(IPB - 1) /\ v.icache[s].regs \in [0..(NREG - 1) -> RegT] /\ NREG \in Nat /\ NREG # 0
      /\ IPB \in Nat /\ IPB # 0
  BY <1>1, CachedInode, Consts
<1>3. w = IF ftype # "DIR" THEN u ELSE x
  <2>1. [v EXCEPT !.icache[s] = [ftype |-> ftype, eof |-> 0, regs |-> Cleared(@.regs)]] = u
    BY DEF PutInode, Set
  <2> HIDE DEF u
  <2> QED BY <2>1 DEF fs2_init_inode
<1>4. e \in InodeT /\ \A m \in Int : \A nb, o : Mine(e.regs, m, nb, o)
  <2> DEFINE r == Cleared(v.icache[s].regs)
  <2>1. r \in [0..(NREG - 1) -> RegT] /\ \A m \in Int : \A nb, o : Mine(r, m, nb, o)
    BY <1>2, ClearedMine
  <2> HIDE DEF r
  <2>2. e.regs = r /\ e \in InodeT
    BY <2>1 DEF InodeT, r
  <2> HIDE DEF e
  <2> QED BY <2>1, <2>2
<1> HIDE DEF e
<1>5. \A m \in 0..(n - 1) : m \div IPB = v.icindex /\ m % IPB = s =>
         Mine(e.regs, m, v.hblock.next_block, ow)
  BY <1>4
<1>6. VInv(u, n, n, ow) /\ Only(u, v, {"icache"}) /\ u.icache[s] = e
  <2> HIDE DEF s
  <2> QED BY <1>2, <1>4, <1>5, PutInodeIs
<1> HIDE DEF u
<1>7. u["disk"] = v["disk"] /\ u["hblock"] = v["hblock"] /\ u["icindex"] = v["icindex"]
      /\ u["icaddr"] = v["icaddr"] /\ u["outcome"] = v["outcome"]
  BY <1>6 DEF Only, Fields
<1>8. VInv(u, n, n + 1, ow)
  <2>1. n \in Int
    BY <1>1
  <2>2. Mine(u.icache[s].regs, n, u.hblock.next_block, ow)
    BY <1>4, <1>6, <2>1
  <2> QED BY <1>6, <1>7, <2>2, Admit DEF Placed
<1>9. CASE ftype # "DIR"
  <2>1. w = u /\ Ok(u) /\ Later(u.hblock, v.hblock)
    BY <1>1, <1>3, <1>7, <1>9, LaterHead DEF Ok
  <2> QED BY <1>7, <1>8, <1>9, <2>1 DEF Placed
<1>10. CASE ftype = "DIR"
  <2>1. w = x
    BY <1>3, <1>10
  <2>2. x = Result(u, "DISK_FULL", 0) \/ Extended(x, u, n, n + 1, s, 0)
    <3>1. n \in 0..((n + 1) - 1) /\ n \div IPB = u.icindex /\ 0 \in 0..(NREG - 1)
      BY <1>1, <1>2, <1>7 DEF Placed
    <3> QED BY <1>8, <3>1, NewDRegion
  <2> HIDE DEF x, w
  <2>3. CASE x = Result(u, "DISK_FULL", 0)
    <3>1. Keeping(Result(u, "DISK_FULL", 0), u, n, n, ow) /\ Result(u, "DISK_FULL", 0).outcome = "DISK_FULL"
      BY <1>6, ResultKeeps
    <3>2. Keeping(x, v, n, n, ow) /\ ~Ok(x)
      BY <1>7, <2>3, <3>1 DEF Keeping, Ok
    <3> QED BY <2>1, <3>2 DEF w
  <2>4. CASE Extended(x, u, n, n + 1, s, 0)
    <3>1. Later(x.hblock, v.hblock)
      <4>1. x.hblock = TakenHead(v.hblock, DREG) /\ DREG \in Nat
        BY <1>7, <2>4, Consts DEF Extended
      <4> QED BY <1>1, <4>1, LaterHead
    <3>2. \E ow2 : VInv(x, n, n + 1, ow2)
      BY <2>4 DEF Extended
    <3>3. Ok(x) /\ x.disk = v.disk /\ x.icindex = n \div IPB /\ x.icache[s].regs[0].start # 0
      BY <1>7, <2>4 DEF Extended, Placed
    <3> QED BY <2>1, <3>1, <3>2, <3>3 DEF w
  <2> QED BY <2>2, <2>3, <2>4
<1> QED BY <1>9, <1>10

\* A block of the inode table that does not exist holds no inode in use.
LEMMA NoneThere ==
  ASSUME NEW v, NEW n, NEW ow, VInv(v, n, n, ow), NEW w,
         Only(w, v, {"outcome", "ret", "icindex", "icaddr"}),
         find_blk(v.hblock.regs, w.icindex) = 0
  PROVE  VInv(w, n, n, ow) /\ w.hblock = v.hblock /\ w.disk = v.disk
<1>1. /\ w["disk"] = v["disk"] /\ w["hblock"] = v["hblock"] /\ w["icache"] = v["icache"]
      /\ w["dcaddr"] = v["dcaddr"] /\ w["dcache"] = v["dcache"] /\ w["xcache"] = v["xcache"]
      /\ IsVol(w)
  BY DEF Only, Fields
<1>2. n \in Nat
  BY DEF VInv
<1>3. \A m \in 0..(n - 1) : m \div IPB # w.icindex
  BY DEF VInv, HasTable
<1>4. ICOK(w.icindex, w.icaddr, v.icache, v.hblock, n, ow)
  BY <1>3 DEF VInv, ICOK
<1>5. Pending(w.icindex, n, n)
  BY <1>2 DEF Pending
<1> QED BY <1>1, <1>4, <1>5 DEF VInv

\* The header with another region of the inode table.
WithRegion(H, st) == [H EXCEPT !.regs = NewRegion(H.regs, st, IREG)]

LEMMA EnterTable ==
  ASSUME NEW v, NEW n, NEW ow, VInv(v, n, n, ow), Used(v.hblock.regs) < HREG,
         NEW st \in Nat, st # 0,
         Mine(NewRegion(v.hblock.regs, st, IREG), -1, v.hblock.next_block, ow),
         NEW w, Only(w, v, {"hblock"}), w.hblock = WithRegion(v.hblock, st)
  PROVE  VInv(w, n, n, ow)
<1> DEFINE H == v.hblock
           G == w.hblock
           q == NewRegion(H.regs, st, IREG)
<1>1. /\ w["disk"] = v["disk"] /\ w["icindex"] = v["icindex"]
      /\ w["icaddr"] = v["icaddr"] /\ w["icache"] = v["icache"] /\ w["dcaddr"] = v["dcaddr"]
      /\ w["dcache"] = v["dcache"] /\ w["xcache"] = v["xcache"] /\ IsVol(w)
  BY DEF Only, Fields
<1>2. HeadOK(H, ow) /\ H \in HeadT /\ H.regs \in [0..(HREG - 1) -> RegT]
      /\ Mine(H.regs, -1, H.next_block, ow)
  BY DEF VInv, HeadOK, HeadT
<1>3. /\ q \in [0..(HREG - 1) -> RegT]
      /\ \A c \in Nat : Found(H.regs, c) # {} => find_blk(q, c) = find_blk(H.regs, c)
  <2>1. HREG \in Nat /\ IREG \in Nat /\ IREG # 0
    BY Consts
  <2> QED BY <1>2, <2>1, FindNew
<1> HIDE DEF q
<1>4. /\ G \in HeadT /\ G.next_block = H.next_block /\ G.nblocks = H.nblocks /\ G.regs = q
  <2>1. G = [H EXCEPT !.regs = q]
    BY DEF WithRegion, q
  <2> QED BY <1>2, <1>3, <2>1 DEF HeadT
<1> HIDE DEF G
<1>5. ASSUME NEW c \in Nat, find_blk(H.regs, c) # 0 PROVE find_blk(G.regs, c) = find_blk(H.regs, c)
  <2>1. Found(H.regs, c) # {}
    <3>1. HREG \in Nat
      BY Consts
    <3> QED BY <1>2, <1>5, <3>1, FindMine
  <2> QED BY <1>3, <1>4, <2>1
<1>6. ASSUME NEW m \in 0..(n - 1)
      PROVE  /\ find_blk(G.regs, m \div IPB) = find_blk(H.regs, m \div IPB)
             /\ find_blk(G.regs, m \div IPB) # 0
  <2>1. m \div IPB \in Nat /\ find_blk(H.regs, m \div IPB) # 0
    <3>1. m \in Nat
      OBVIOUS
    <3> QED BY <3>1, PlaceIn DEF VInv, HasTable
  <2> QED BY <1>5, <2>1
<1>7. HeadOK(G, ow)
  BY <1>2, <1>4 DEF HeadOK, q
<1>8. HasTable(G, n)
  BY <1>6 DEF HasTable
<1>9. DiskOwn(v.disk, G, n, ow)
  <2> SUFFICES ASSUME NEW m \in 0..(n - 1)
               PROVE  Mine(OnDisk(v.disk, G, m).regs, m, G.next_block, ow)
    BY DEF DiskOwn
  <2>1. Mine(OnDisk(v.disk, H, m).regs, m, H.next_block, ow)
    BY DEF VInv, DiskOwn
  <2>2. OnDisk(v.disk, G, m) = OnDisk(v.disk, H, m)
    BY <1>6 DEF OnDisk
  <2> QED BY <1>4, <2>1, <2>2
<1>10. ICOK(v.icindex, v.icaddr, v.icache, G, n, ow)
  <2>1. v.icache \in IBlockT
    BY DEF VInv, ICOK
  <2>2. ASSUME NEW m \in 0..(n - 1), m \div IPB = v.icindex
        PROVE  /\ v.icaddr = find_blk(G.regs, v.icindex)
               /\ Mine(v.icache[m % IPB].regs, m, G.next_block, ow)
    <3>1. /\ v.icaddr = find_blk(H.regs, v.icindex)
          /\ Mine(v.icache[m % IPB].regs, m, H.next_block, ow)
      BY <2>2 DEF VInv, ICOK
    <3>2. find_blk(G.regs, v.icindex) = find_blk(H.regs, v.icindex)
      BY <1>6, <2>2
    <3> QED BY <1>4, <3>1, <3>2
  <2> QED BY <2>1, <2>2 DEF ICOK
<1> QED BY <1>1, <1>7, <1>8, <1>9, <1>10 DEF VInv, G

\* Writing the header.
LEMMA SaveH ==
  ASSUME NEW v, NEW nd, NEW nc, NEW ow, VInv(v, nd, nc, ow)
  PROVE  /\ VInv(save_hblock(v), nd, nc, ow)
         /\ Only(save_hblock(v), v, {"disk", "log", "outcome"})
         /\ Ok(save_hblock(v))
         /\ save_hblock(v).disk[0] = [kind |-> "H", data |-> v.hblock]
<1> DEFINE blk == [kind |-> "H", data |-> v.hblock]
           w == save_hblock(v)
<1>1. w = fs2_wblk(v, 0, blk)
  BY DEF save_hblock
<1>2. IsVol(v) /\ DiskOK(v.disk, nc) /\ DOMAIN v.disk = Addr /\ nc \in Nat /\ nd \in Nat
      /\ nd <= nc /\ HeadOK(v.hblock, ow) /\ HasTable(v.hblock, nc) /\ 0 \in Addr
  BY Consts DEF VInv, DiskOK, Addr
<1>3. Only(w, v, {"disk", "log", "outcome"}) /\ w.disk = [v.disk EXCEPT ![0] = blk] /\ Ok(w)
  BY <1>1, <1>2, WriteFields
<1> HIDE DEF w
<1>4. /\ w["hblock"] = v["hblock"] /\ w["icindex"] = v["icindex"]
      /\ w["icaddr"] = v["icaddr"] /\ w["icache"] = v["icache"] /\ w["dcaddr"] = v["dcaddr"]
      /\ w["dcache"] = v["dcache"] /\ w["xcache"] = v["xcache"] /\ IsVol(w)
  BY <1>3 DEF Only, Fields
<1>5. w.disk[0] = blk /\ \A a \in Addr : a # 0 => w.disk[a] = v.disk[a]
  BY <1>2, <1>3 DEF DiskOK
<1>6. DiskOK(w.disk, nc)
  <2>1. w.disk = [a \in Addr |-> w.disk[a]]
    BY <1>2, <1>3 DEF DiskOK
  <2>2. BlockOK(blk, nc)
    BY DEF BlockOK
  <2> QED BY <1>2, <1>5, <2>1, <2>2 DEF DiskOK
<1>7. DiskOwn(w.disk, v.hblock, nd, ow)
  <2> SUFFICES ASSUME NEW m \in 0..(nd - 1)
               PROVE  Mine(OnDisk(w.disk, v.hblock, m).regs, m, v.hblock.next_block, ow)
    BY DEF DiskOwn
  <2>1. m \in 0..(nc - 1)
    BY <1>2
  <2>2. find_blk(v.hblock.regs, m \div IPB) \in Addr /\ find_blk(v.hblock.regs, m \div IPB) # 0
    BY <1>2, <2>1, TableAt
  <2>3. OnDisk(w.disk, v.hblock, m) = OnDisk(v.disk, v.hblock, m)
    BY <1>5, <2>2 DEF OnDisk
  <2> QED BY <2>3 DEF VInv, DiskOwn
<1>8. VInv(w, nd, nc, ow)
  BY <1>4, <1>6, <1>7 DEF VInv
<1> QED BY <1>3, <1>5, <1>8 DEF w

\* The header is as it was, or has been written.
HeadKept(w, v) ==
  \/ w.hblock = v.hblock /\ w.disk[0] = v.disk[0]
  \/ w.disk[0] = [kind |-> "H", data |-> w.hblock]

GotNew(w, v, n) ==
  /\ \E ow2 : VInv(w, n, n, ow2)
  /\ Later(w.hblock, v.hblock) /\ HeadKept(w, v)
  /\ Ok(w) => Placed(w, n)

\* A new region holds the block of the next inode.
LEMMA TableGrows ==
  ASSUME NEW v, NEW n, NEW ow, VInv(v, n, n, ow), NEW b \in Nat, b = n \div IPB,
         find_blk(v.hblock.regs, b) = 0, Used(v.hblock.regs) # HREG
  PROVE  /\ Used(v.hblock.regs) < HREG /\ v.hblock.next_block \in Nat /\ v.hblock.next_block # 0
         /\ find_blk(NewRegion(v.hblock.regs, v.hblock.next_block, IREG), b) = v.hblock.next_block
         /\ Mine(NewRegion(v.hblock.regs, v.hblock.next_block, IREG), -1,
                 v.hblock.next_block + IREG,
                 Given(ow, v.hblock.next_block, IREG, <<-1, Used(v.hblock.regs)>>))
<1> DEFINE r == v.hblock.regs
           nb == v.hblock.next_block
<1>1. /\ r \in [0..(HREG - 1) -> RegT] /\ Mine(r, -1, nb, ow) /\ nb \in Nat /\ nb # 0
      /\ HREG \in Nat /\ IREG \in Nat /\ IREG # 0 /\ IPB \in Nat /\ IPB # 0
      /\ n \in Nat /\ n # 0 /\ HasTable(v.hblock, n)
  BY Consts DEF VInv, HeadOK, HeadT
<1>2. b # 0 => find_blk(r, b - 1) # 0
  <2> SUFFICES ASSUME b # 0 PROVE find_blk(r, b - 1) # 0
    OBVIOUS
  <2>1. n - 1 \in 0..(n - 1)
    BY <1>1
  <2>2. find_blk(r, (n - 1) \div IPB) # 0
    BY <1>1, <2>1 DEF HasTable
  <2>3. (n - 1) \div IPB = b \/ (n - 1) \div IPB = b - 1
    BY <1>1, DivStep
  <2> QED BY <2>2, <2>3
<1> HIDE DEF r, nb
<1>3. find_blk(r, b) = 0
  BY DEF r
<1>4. Before(r, Used(r)) = b
  BY <1>1, <1>2, <1>3, FirstFree
<1>5. Used(r) < HREG /\ Used(r) \in 0..(HREG - 1)
  <2>1. Used(r) \in 0..HREG
    BY <1>1, UsedIs
  <2>2. Used(r) # HREG
    BY DEF r
  <2> QED BY <1>1, <2>1, <2>2
<1>6. find_blk(NewRegion(r, nb, IREG), b) = nb
  <2>1. find_blk(NewRegion(r, nb, IREG), Before(r, Used(r))) = nb
    BY <1>1, <1>5, FindNew
  <2> QED BY <1>4, <2>1
<1> DEFINE i == Used(r)
<1>7. Mine([r EXCEPT ![i] = [start |-> nb, len |-> IREG]], -1, nb + IREG, Given(ow, nb, IREG, <<-1, i>>))
  <2>1. i \in 0..(HREG - 1)
    BY <1>5
  <2> HIDE DEF i
  <2> QED BY <1>1, <2>1, MineGiven
<1>8. Mine(NewRegion(r, nb, IREG), -1, nb + IREG, Given(ow, nb, IREG, <<-1, Used(r)>>))
  BY <1>7 DEF NewRegion
<1> QED BY <1>1, <1>5, <1>6, <1>8 DEF r, nb

LEMMA AddTable ==
  ASSUME NEW v, NEW n, NEW ow, VInv(v, n, n, ow), NEW b \in Nat, b = n \div IPB,
         find_blk(v.hblock.regs, b) = 0, Used(v.hblock.regs) # HREG,
         NEW u, Only(u, v, {"icindex"}), u.icindex = b,
         NEW x, ~(v.hblock.next_block + IREG > v.hblock.nblocks),
         Only(x, u, {"outcome", "ret", "hblock"}), x.ret = v.hblock.next_block,
         x.hblock = TakenHead(v.hblock, IREG)
  PROVE  GotNew(set_icaddr(save_hblock(new_iregion(x, Used(v.hblock.regs)))), v, n)
<1> DEFINE H == v.hblock
           nb == H.next_block
           i == Used(H.regs)
           ow2 == Given(ow, nb, IREG, <<-1, i>>)
           y == new_iregion(x, i)
           z == save_hblock(y)
           w == set_icaddr(z)
<1>1. /\ Used(H.regs) < HREG /\ nb \in Nat /\ nb # 0
      /\ find_blk(NewRegion(H.regs, nb, IREG), b) = nb
      /\ Mine(NewRegion(H.regs, nb, IREG), -1, nb + IREG, ow2)
  BY TableGrows
<1>2. H \in HeadT /\ IREG \in Nat /\ n \in Nat
  BY Consts DEF VInv, HeadOK
<1>3. VInv(u, n, n, ow) /\ u.hblock = H /\ u.disk = v.disk
  <2>1. Only(u, v, {"outcome", "ret", "icindex", "icaddr"})
    BY OnlyMore
  <2> QED BY <2>1, NoneThere
<1>4. x.hblock.regs = H.regs /\ x.hblock.next_block = nb + IREG /\ x.hblock \in HeadT
      /\ Later(x.hblock, H)
  <2> HIDE DEF H
  <2>1. Later(TakenHead(H, IREG), H) /\ TakenHead(H, IREG) \in HeadT
    BY <1>2, LaterHead
  <2>2. TakenHead(H, IREG).regs = H.regs /\ TakenHead(H, IREG).next_block = H.next_block + IREG
    BY <1>2 DEF TakenHead, HeadT
  <2> QED BY <2>1, <2>2 DEF H
<1>5. VInv(x, n, n, ow2)
  <2>1. Grows(nb, nb + IREG, ow, ow2)
    BY <1>1, <1>2, GivenGrows
  <2> HIDE DEF ow2
  <2> QED BY <1>2, <1>3, <2>1, TakenKeeps
<1> HIDE DEF ow2, i
<1>6. Only(y, x, {"hblock"}) /\ y.hblock = WithRegion(x.hblock, nb)
  <2> DEFINE G == WithRegion(x.hblock, nb)
  <2>1. y = Set(x, "hblock", G)
    <3>1. y = [x EXCEPT !.hblock.regs[i] = [start |-> nb, len |-> IREG]]
      BY DEF new_iregion
    <3>2. G = [x.hblock EXCEPT !.regs[i] = [start |-> nb, len |-> IREG]]
      BY <1>4 DEF WithRegion, NewRegion, i
    <3> QED BY <3>1, <3>2 DEF Set
  <2>2. IsVol(x) /\ "hblock" \in Fields
    BY DEF Only, Fields
  <2> HIDE DEF G, y
  <2>3. Only(Set(x, "hblock", G), x, {"hblock"}) /\ Set(x, "hblock", G)["hblock"] = G
    BY <2>2, SetIs
  <2> QED BY <2>1, <2>3 DEF G
<1> HIDE DEF y
<1>7. VInv(y, n, n, ow2)
  <2>1. Used(x.hblock.regs) < HREG /\ Mine(NewRegion(x.hblock.regs, nb, IREG), -1, x.hblock.next_block, ow2)
    BY <1>1, <1>4
  <2> QED BY <1>1, <1>5, <1>6, <2>1, EnterTable
<1>8. VInv(z, n, n, ow2) /\ Only(z, y, {"disk", "log", "outcome"}) /\ Ok(z)
      /\ z.disk[0] = [kind |-> "H", data |-> y.hblock]
  BY <1>7, SaveH
<1> HIDE DEF z
<1>9. z["hblock"] = y["hblock"] /\ z["icindex"] = b /\ z["ret"] = nb /\ z["icache"] = y["icache"]
  <2>1. z["hblock"] = y["hblock"] /\ z["icindex"] = y["icindex"] /\ z["ret"] = y["ret"]
        /\ z["icache"] = y["icache"]
    BY <1>8 DEF Only, Fields
  <2>2. y["icindex"] = x["icindex"] /\ y["ret"] = x["ret"]
    BY <1>6 DEF Only, Fields
  <2>3. x["icindex"] = u["icindex"]
    BY DEF Only, Fields
  <2> QED BY <2>1, <2>2, <2>3
<1>10. Only(w, z, {"icaddr"}) /\ w.icaddr = nb
  <2>1. IsVol(z) /\ "icaddr" \in Fields
    BY <1>8 DEF Only, Fields
  <2>2. w = Set(z, "icaddr", nb)
    BY <1>9 DEF set_icaddr, Set
  <2>3. Only(Set(z, "icaddr", nb), z, {"icaddr"}) /\ Set(z, "icaddr", nb)["icaddr"] = nb
    BY <2>1, SetIs
  <2> HIDE DEF w
  <2> QED BY <2>2, <2>3
<1> HIDE DEF w
<1>11. w["hblock"] = z["hblock"] /\ w["disk"] = z["disk"] /\ w["icindex"] = z["icindex"]
       /\ w["icache"] = z["icache"] /\ w["dcaddr"] = z["dcaddr"] /\ w["dcache"] = z["dcache"]
       /\ w["xcache"] = z["xcache"] /\ IsVol(w)
  BY <1>10 DEF Only, Fields
<1>12. VInv(w, n, n, ow2)
  <2>1. \A m \in 0..(n - 1) : m \div IPB # b
    BY DEF VInv, HasTable
  <2>2. ICOK(z.icindex, w.icaddr, z.icache, z.hblock, n, ow2)
    BY <1>8, <1>9, <2>1 DEF VInv, ICOK
  <2> QED BY <1>8, <1>11, <2>2 DEF VInv
<1>13. w.hblock = WithRegion(x.hblock, nb) /\ w.hblock.regs = NewRegion(H.regs, nb, IREG)
       /\ Later(w.hblock, H) /\ w.disk[0] = [kind |-> "H", data |-> w.hblock]
  <2>1. w.hblock = WithRegion(x.hblock, nb) /\ w.disk[0] = [kind |-> "H", data |-> w.hblock]
    BY <1>6, <1>8, <1>9, <1>11
  <2>2. x.hblock \in HeadT /\ x.hblock.regs = H.regs /\ Later(x.hblock, H)
    BY <1>4
  <2> QED BY <2>1, <2>2 DEF WithRegion, HeadT, Later
<1>14. Placed(w, n)
  BY <1>1, <1>9, <1>10, <1>11, <1>13 DEF Placed
<1>15. GotNew(w, v, n)
  BY <1>12, <1>13, <1>14 DEF GotNew, HeadKept
<1> QED BY <1>15 DEF w, z, y, i

\* The block of the next inode: cached, read, or a new one of the table.
LEMMA GetNew ==
  ASSUME NEW v, NEW n, NEW ow, VInv(v, n, n, ow), Warm(v, n)
  PROVE  GotNew(fs2_get_iblock_c(v, n \div IPB, TRUE, FALSE), v, n)
<1> DEFINE b == n \div IPB
           r == v.hblock.regs
           u == Set(v, "icindex", b)
<1>1. n \in Nat /\ b \in Nat /\ IsVol(v) /\ v.hblock \in HeadT
  BY PlaceIn DEF VInv, HeadOK
<1>2. ASSUME NEW w, Keeping(w, v, n, n, ow), Ok(w) => Placed(w, n) PROVE GotNew(w, v, n)
  BY <1>1, <1>2, LaterHead DEF GotNew, HeadKept, Keeping
<1>3. ASSUME NEW sh \in BOOLEAN, sh, NEW sc \in BOOLEAN, ~sc
      PROVE  GotNew(fs2_get_iblock_c(v, b, sh, sc), v, n)
  <2> DEFINE w == fs2_get_iblock_c(v, b, sh, sc)
  <2>1. CASE b = v.icindex
    <3>1. w = Outcome(v, "SUCCESS")
      BY <2>1 DEF fs2_get_iblock_c
    <3>2. Keeping(Outcome(v, "SUCCESS"), v, n, n, ow) /\ Only(Outcome(v, "SUCCESS"), v, {"outcome"})
      BY OutcomeKeeps
    <3> HIDE DEF w, b
    <3>3. Keeping(w, v, n, n, ow) /\ w["icindex"] = v["icindex"] /\ w["icaddr"] = v["icaddr"]
          /\ w["hblock"] = v["hblock"]
      BY <3>1, <3>2 DEF Only, Fields
    <3>4. PICK x \in 0..(n - 1) : x \div IPB = b
      BY <2>1 DEF Warm
    <3>5. find_blk(r, b) # 0 /\ v.icaddr = find_blk(r, b)
      BY <2>1, <3>4 DEF VInv, HasTable, ICOK
    <3>6. Placed(w, n)
      BY <2>1, <3>3, <3>5 DEF Placed, b
    <3> QED BY <1>2, <3>3, <3>6 DEF w
  <2>2. CASE b # v.icindex
    <3> DEFINE o == Outcome(v, "SUCCESS")
    <3>1. w = cache_iblock(o, b, sh)
      BY <1>3, <2>2 DEF fs2_get_iblock_c
    <3>2. Keeping(o, v, n, n, ow) /\ Only(o, v, {"outcome"}) /\ o.outcome = "SUCCESS"
      BY OutcomeKeeps
    <3> HIDE DEF o, w, b
    <3>3. VInv(o, n, n, ow) /\ Ok(o) /\ o.hblock = v.hblock /\ o.disk[0] = v.disk[0]
      BY <3>2 DEF Keeping, Ok
    <3>4. CASE find_blk(r, b) # 0
      <4>1. Keeping(w, o, n, n, ow) /\ w.icindex = b /\ w.icaddr = find_blk(r, b)
        BY <1>1, <3>1, <3>3, <3>4, LoadI
      <4>2. Keeping(w, v, n, n, ow)
        BY <3>2, <4>1, KeepingTrans
      <4>3. Placed(w, n)
        BY <3>4, <4>1, <4>2 DEF Placed, Keeping, b
      <4> QED BY <1>2, <4>2, <4>3 DEF w
    <3>5. CASE find_blk(r, b) = 0
      <4> DEFINE q == Set(o, "icindex", b)
                 i == Used(r)
                 x == fs2_find_free_region(q, IREG, FALSE)
                 g == fs2_get_iblock(q, TRUE, b, sh)
      <4>1. Only(q, o, {"icindex"}) /\ q["icindex"] = b /\ IsVol(q)
        <5>1. IsVol(o) /\ "icindex" \in Fields
          BY <3>3 DEF VInv, Fields
        <5> QED BY <5>1, SetIs DEF Only
      <4>2. w = set_icaddr(g)
        BY <3>1, <3>3 DEF cache_iblock, Set
      <4> HIDE DEF q
      <4>3. VInv(q, n, n, ow) /\ q.hblock = v.hblock /\ q.disk = o.disk
        <5>1. Only(q, o, {"outcome", "ret", "icindex", "icaddr"}) /\ q.icindex = b
          BY <4>1, OnlyMore
        <5> QED BY <3>3, <3>5, <5>1, NoneThere
      <4>4. ASSUME NEW e, g = Result(q, e, 0), e # "SUCCESS" PROVE GotNew(w, v, n)
        <5> DEFINE y == Result(q, e, 0)
                   z == set_icaddr(y)
        <5>1. Keeping(y, q, n, n, ow) /\ y.outcome = e /\ y.ret = 0 /\ y.icindex = b
          BY <4>1, <4>3, ResultKeeps
        <5>2. w = z
          BY <4>2, <4>4
        <5> HIDE DEF y
        <5>3. VInv(y, n, n, ow) /\ y.hblock = v.hblock /\ y.disk[0] = v.disk[0]
          BY <3>3, <4>3, <5>1 DEF Keeping
        <5>4. z = Set(y, "icaddr", 0)
          BY <5>1 DEF set_icaddr, Set
        <5>5. IsVol(y) /\ "icaddr" \in Fields
          BY <5>3 DEF VInv, Fields
        <5> HIDE DEF z
        <5>6. Only(z, y, {"icaddr"})
          BY <5>4, <5>5, SetIs
        <5>7. z["icindex"] = y["icindex"] /\ z["outcome"] = y["outcome"]
              /\ Only(z, y, {"outcome", "ret", "icindex", "icaddr"})
          BY <5>6 DEF Only, Fields
        <5>8. VInv(z, n, n, ow) /\ z.hblock = y.hblock /\ z.disk = y.disk
          BY <3>5, <5>1, <5>3, <5>7, NoneThere
        <5>9. Keeping(z, v, n, n, ow) /\ ~Ok(z)
          BY <4>4, <5>1, <5>3, <5>7, <5>8 DEF Keeping, Ok
        <5> QED BY <1>2, <5>2, <5>9 DEF w
      <4>5. g = IF i = HREG THEN Result(q, "HBLOCK_FULL", 0) ELSE enter_iregion(x, i, sh)
        BY <3>5, <4>3 DEF fs2_get_iblock
      <4>6. CASE i = HREG
        BY <4>4, <4>5, <4>6 DEF w
      <4>7. CASE i # HREG /\ x = Result(q, "DISK_FULL", 0)
        <5>1. x.ret = 0
          <6>1. Result(q, "DISK_FULL", 0).ret = 0
            BY <4>1, ResultFields
          <6> HIDE DEF x
          <6> QED BY <4>7, <6>1
        <5>2. g = x
          BY <4>5, <4>7, <5>1 DEF enter_iregion
        <5> QED BY <4>4, <4>7, <5>2 DEF w
      <4>8. CASE /\ i # HREG
                 /\ ~(q.hblock.next_block + IREG > q.hblock.nblocks)
                 /\ Only(x, q, {"outcome", "ret", "hblock"}) /\ x.outcome = "SUCCESS"
                 /\ x.ret = q.hblock.next_block /\ x.hblock = TakenHead(q.hblock, IREG)
        <5> HIDE DEF x
        <5>1. o.hblock.next_block # 0 /\ x.ret # 0
          <6>1. v.hblock.next_block # 0
            BY <1>1, <3>5, <4>8, TableGrows DEF b
          <6> QED BY <3>3, <4>3, <4>8, <6>1
        <5>2. g = save_hblock(new_iregion(x, i))
          BY <1>3, <4>5, <4>8, <5>1 DEF enter_iregion
        <5> DEFINE z == set_icaddr(save_hblock(new_iregion(x, Used(o.hblock.regs))))
        <5>3. GotNew(z, o, n)
          <6>1. x.ret = o.hblock.next_block /\ x.hblock = TakenHead(o.hblock, IREG)
                /\ ~(o.hblock.next_block + IREG > o.hblock.nblocks)
                /\ find_blk(o.hblock.regs, b) = 0 /\ Used(o.hblock.regs) # HREG /\ q.icindex = b
                /\ b = n \div IPB
            BY <3>3, <3>5, <4>1, <4>3, <4>8 DEF b
          <6> HIDE DEF z
          <6> QED BY <1>1, <3>3, <4>1, <4>8, <6>1, AddTable DEF z
        <5>4. z = w
          BY <3>3, <4>2, <5>2
        <5> HIDE DEF z
        <5>5. GotNew(z, v, n)
          BY <3>3, <5>3 DEF GotNew, HeadKept
        <5> QED BY <5>4, <5>5 DEF w
      <4>9. x = Result(q, "DISK_FULL", 0) \/
            /\ ~(q.hblock.next_block + IREG > q.hblock.nblocks)
            /\ Only(x, q, {"outcome", "ret", "hblock"}) /\ x.outcome = "SUCCESS"
            /\ x.ret = q.hblock.next_block /\ x.hblock = TakenHead(q.hblock, IREG)
        BY <4>1, TakeRegion
      <4> HIDE DEF x, i
      <4> QED BY <4>6, <4>7, <4>8, <4>9
    <3> QED BY <3>4, <3>5 DEF w
  <2> QED BY <2>1, <2>2
<1>4. TRUE \in BOOLEAN /\ FALSE \in BOOLEAN /\ TRUE /\ ~FALSE
  OBVIOUS
<1>5. GotNew(fs2_get_iblock_c(v, b, TRUE, FALSE), v, n)
  BY <1>3, <1>4
<1> QED BY <1>5

\* A block of entries that is about to be written need not be read.
LEMMA LoadDry ==
  ASSUME NEW v, NEW nd, NEW nc, NEW ow, VInv(v, nd, nc, ow), NEW da, da # 0
  PROVE  /\ Keeping(fs2_load_dblock_c(v, da, TRUE), v, nd, nc, ow)
         /\ Only(fs2_load_dblock_c(v, da, TRUE), v, {"dcache", "dcaddr", "outcome"})
         /\ Ok(fs2_load_dblock_c(v, da, TRUE)) /\ fs2_load_dblock_c(v, da, TRUE).dcaddr = da
<1> DEFINE P(w) == /\ Keeping(w, v, nd, nc, ow) /\ Only(w, v, {"dcache", "dcaddr", "outcome"})
                   /\ Ok(w) /\ w.dcaddr = da
<1>1. ASSUME NEW dry \in BOOLEAN, dry PROVE P(fs2_load_dblock_c(v, da, dry))
  <2> DEFINE w == fs2_load_dblock_c(v, da, dry)
  <2>1. VInv(w, nd, nc, ow) /\ Only(w, v, {"dcache", "dcaddr", "outcome"}) /\ Ok(w) /\ w.dcaddr = da
    BY <1>1, LoadD
  <2> HIDE DEF w
  <2>2. w["hblock"] = v["hblock"] /\ w["disk"] = v["disk"]
    BY <2>1 DEF Only, Fields
  <2>3. P(w)
    BY <2>1, <2>2 DEF Keeping
  <2> QED BY <2>3 DEF w
<1>2. TRUE \in BOOLEAN /\ TRUE
  OBVIOUS
<1> HIDE DEF P
<1>3. P(fs2_load_dblock_c(v, da, TRUE))
  BY <1>1, <1>2
<1> QED BY <1>3 DEF P

LEMMA PutEntry ==
  ASSUME NEW v, NEW nd, NEW nc, NEW ow, VInv(v, nd, nc, ow), Ok(v) => v.dcaddr # 0,
         NEW k, NEW name, NEW x \in 0..(nc - 1)
  PROVE  /\ Keeping(put_entry(v, k, name, x), v, nd, nc, ow)
         /\ put_entry(v, k, name, x).icindex = v.icindex
<1> DEFINE w == put_entry(v, k, name, x)
           e == [ino |-> x, name |-> name]
           u == [v EXCEPT !.dcache[k] = e]
<1>1. CASE ~Ok(v)
  <2>1. w = v
    BY <1>1 DEF put_entry
  <2> QED BY <2>1 DEF Keeping
<1>2. CASE Ok(v)
  <2>1. w = fs2_save_dblock_c(u)
    BY <1>2 DEF put_entry
  <2> HIDE DEF w
  <2>2. e.ino \in 0..(nc - 1) /\ v.dcaddr # 0
    BY <1>2
  <2> HIDE DEF e
  <2>3. VInv(u, nd, nc, ow) /\ Only(u, v, {"dcache"})
    BY <2>2, SetEntry
  <2> HIDE DEF u
  <2>4. u["dcaddr"] = v["dcaddr"] /\ u["hblock"] = v["hblock"] /\ u["disk"] = v["disk"]
        /\ u["icindex"] = v["icindex"]
    BY <2>3 DEF Only, Fields
  <2>5. Keeping(w, u, nd, nc, ow) /\ Only(w, u, {"disk", "log", "outcome"})
    BY <2>1, <2>2, <2>3, <2>4, SaveD
  <2>6. w["icindex"] = u["icindex"]
    BY <2>5 DEF Only, Fields
  <2> QED BY <2>4, <2>5, <2>6 DEF Keeping, w
<1> QED BY <1>1, <1>2

LEMMA CountEntry ==
  ASSUME NEW v, NEW nd, NEW nc, NEW ow, VInv(v, nd, nc, ow), NEW s \in 0..(IPB - 1)
  PROVE  /\ Keeping(count_entry(v, s), v, nd, nc, ow)
         /\ count_entry(v, s).icindex = v.icindex /\ count_entry(v, s).ret = v.ret
<1> DEFINE w == count_entry(v, s)
           n == v.icache[s].eof + 1
           u == PutInode(v, s, [v.icache[s] EXCEPT !.eof = n])
<1>1. CASE ~Ok(v)
  <2>1. w = v
    BY <1>1 DEF count_entry
  <2> QED BY <2>1 DEF Keeping
<1>2. CASE Ok(v)
  <2>1. w = u
    BY <1>2 DEF count_entry, PutInode, Set
  <2> HIDE DEF w
  <2>2. n \in Nat
    <3>1. v.icache \in IBlockT
      BY DEF VInv, ICOK
    <3>2. v.icache[s].eof \in Nat
      BY <3>1, IBlockAt
    <3> QED BY <3>2
  <2> HIDE DEF n
  <2>3. VInv(u, nd, nc, ow) /\ Only(u, v, {"icache"})
    BY <2>2, PutEof
  <2> HIDE DEF u
  <2>4. u["hblock"] = v["hblock"] /\ u["disk"] = v["disk"] /\ u["icindex"] = v["icindex"]
        /\ u["ret"] = v["ret"]
    BY <2>3 DEF Only, Fields
  <2> QED BY <2>1, <2>3, <2>4 DEF Keeping, w
<1> QED BY <1>1, <1>2

\* The entries of a new directory.
LEMMA Populate ==
  ASSUME NEW v, NEW n, NEW ow, VInv(v, n, n + 1, ow), Ok(v), NEW ftype,
         ftype = "DIR" => v.icache[n % IPB].regs[0].start # 0, NEW parent \in 0..(n - 1)
  PROVE  /\ Keeping(populate(v, n, parent, ftype), v, n, n + 1, ow)
         /\ Ok(populate(v, n, parent, ftype)) /\ populate(v, n, parent, ftype).icindex = v.icindex
<1> DEFINE w == populate(v, n, parent, ftype)
<1>1. CASE ftype # "DIR"
  <2>1. w = v
    BY <1>1 DEF populate
  <2> QED BY <2>1 DEF Keeping
<1>2. CASE ftype = "DIR"
  <2> DEFINE s == n % IPB
             da == v.icache[s].regs[0].start
             x == fs2_load_dblock_c(v, da, TRUE)
             e0 == [ino |-> n, name |-> Dot]
             e1 == [ino |-> parent, name |-> DotDot]
             y == [x EXCEPT !.dcache[0] = e0]
             z == [y EXCEPT !.dcache[1] = e1]
             u == PutInode(z, s, [z.icache[s] EXCEPT !.eof = 2])
             g == fs2_save_dblock_c(u)
  <2>1. w = Outcome(g, "SUCCESS")
    <3>1. [x EXCEPT !.dcache[0] = e0, !.dcache[1] = e1, !.icache[s].eof = 2] = u
      <4> HIDE DEF x, e0, e1, s
      <4> QED BY DEF PutInode, Set
    <3> HIDE DEF u
    <3> QED BY <1>2, <3>1 DEF populate, cached_inode
  <2> HIDE DEF w
  <2>2. n \in Nat /\ s \in 0..(IPB - 1)
    <3>1. n \in Nat
      BY DEF VInv
    <3> QED BY <3>1, PlaceIn
  <2>3. n \in 0..((n + 1) - 1) /\ parent \in 0..((n + 1) - 1) /\ da # 0
    BY <1>2, <2>2
  <2> HIDE DEF da, s
  <2>4. Keeping(x, v, n, n + 1, ow) /\ Only(x, v, {"dcache", "dcaddr", "outcome"}) /\ x.dcaddr = da
    BY <2>3, LoadDry
  <2> HIDE DEF x
  <2>5. x["icindex"] = v["icindex"] /\ VInv(x, n, n + 1, ow) /\ x.dcaddr # 0
    BY <2>3, <2>4 DEF Only, Fields, Keeping
  <2>6. e0.ino \in 0..((n + 1) - 1) /\ e1.ino \in 0..((n + 1) - 1)
    BY <2>3
  <2> HIDE DEF e0, e1
  <2>7. VInv(y, n, n + 1, ow) /\ Only(y, x, {"dcache"})
    BY <2>5, <2>6, SetEntry
  <2> HIDE DEF y
  <2>8. y["dcaddr"] = x["dcaddr"] /\ y["icindex"] = x["icindex"] /\ y["hblock"] = x["hblock"]
        /\ y["disk"] = x["disk"]
    BY <2>7 DEF Only, Fields
  <2>9. VInv(z, n, n + 1, ow) /\ Only(z, y, {"dcache"})
    BY <2>5, <2>6, <2>7, <2>8, SetEntry
  <2> HIDE DEF z
  <2>10. z["dcaddr"] = x["dcaddr"] /\ z["icindex"] = x["icindex"] /\ z["hblock"] = x["hblock"]
         /\ z["disk"] = x["disk"]
    BY <2>8, <2>9 DEF Only, Fields
  <2>11. VInv(u, n, n + 1, ow) /\ Only(u, z, {"icache"})
    <3>1. 2 \in Nat
      OBVIOUS
    <3> QED BY <2>2, <2>9, <3>1, PutEof
  <2> HIDE DEF u
  <2>12. u["dcaddr"] = z["dcaddr"] /\ u["icindex"] = z["icindex"] /\ u["hblock"] = z["hblock"]
         /\ u["disk"] = z["disk"]
    BY <2>11 DEF Only, Fields
  <2>13. Keeping(g, u, n, n + 1, ow) /\ Only(g, u, {"disk", "log", "outcome"})
    BY <2>5, <2>10, <2>11, <2>12, SaveD
  <2> HIDE DEF g
  <2>14. g["icindex"] = u["icindex"] /\ VInv(g, n, n + 1, ow)
    BY <2>13 DEF Only, Fields, Keeping
  <2>15. Keeping(w, g, n, n + 1, ow) /\ w.outcome = "SUCCESS" /\ w.icindex = g.icindex
    BY <2>1, <2>14, OutcomeKeeps
  <2>16. Keeping(w, v, n, n + 1, ow)
    BY <2>4, <2>8, <2>10, <2>12, <2>13, <2>15 DEF Keeping
  <2>17. w.icindex = v.icindex
    BY <2>5, <2>10, <2>12, <2>14, <2>15
  <2> QED BY <2>15, <2>16, <2>17 DEF Ok, w
<1> QED BY <1>1, <1>2

\* What adding an entry to a directory may do: a region may be taken.
Linked(w, v, nd, nc) ==
  /\ \E ow2 : VInv(w, nd, nc, ow2)
  /\ w.disk[0] = v.disk[0] /\ Later(w.hblock, v.hblock) /\ w.icindex = v.icindex

LEMMA LinkedKeeping ==
  ASSUME NEW v, NEW w, NEW nd, NEW nc, NEW ow, Keeping(w, v, nd, nc, ow), w.icindex = v.icindex
  PROVE  Linked(w, v, nd, nc)
<1>1. w.hblock \in HeadT /\ w.hblock = v.hblock
  BY DEF Keeping, VInv, HeadOK
<1>2. Later(w.hblock, v.hblock)
  BY <1>1, LaterHead
<1> QED BY <1>2 DEF Linked, Keeping

LEMMA LinkedTrans ==
  ASSUME NEW u, NEW v, NEW w, NEW nd, NEW nc, Linked(v, u, nd, nc), Linked(w, v, nd, nc),
         u.hblock \in HeadT
  PROVE  Linked(w, u, nd, nc)
<1>1. v.hblock \in HeadT /\ w.hblock \in HeadT
  BY DEF Linked, VInv, HeadOK
<1>2. Later(w.hblock, u.hblock)
  BY <1>1, LaterTrans DEF Linked
<1> QED BY <1>2 DEF Linked

LEMMA AddEntry ==
  ASSUME NEW v, NEW nd, NEW nc, NEW ow, VInv(v, nd, nc, ow), NEW p \in 0..(nc - 1),
         p \div IPB = v.icindex, NEW name, NEW x \in 0..(nc - 1)
  PROVE  Linked(fs2_add_dir_entry(v, name, p % IPB, cached_inode(v, p), x), v, nd, nc)
<1> DEFINE s == p % IPB
           d == cached_inode(v, p)
           da == find_blk(d.regs, d.eof \div DPB)
           k == d.eof % DPB
           w == fs2_add_dir_entry(v, name, s, d, x)
<1>1. /\ s \in 0..(IPB - 1) /\ d = v.icache[s]
      /\ d.regs \in [0..(NREG - 1) -> RegT] /\ nc \in Nat
  <2>1. p \in Nat /\ nc \in Nat
    BY DEF VInv
  <2> QED BY <2>1, CachedInode
<1>2. CASE da # 0
  <2> DEFINE u == fs2_load_dblock_c(v, da, FALSE)
             y == put_entry(u, k, name, x)
             z == count_entry(y, s)
  <2>1. w = z
    BY <1>2 DEF fs2_add_dir_entry
  <2> HIDE DEF w, da, k
  <2>2. Keeping(u, v, nd, nc, ow) /\ u.icindex = v.icindex /\ (Ok(u) => u.dcaddr = da)
    BY LoadDKeeps
  <2> HIDE DEF u
  <2>3. VInv(u, nd, nc, ow) /\ (Ok(u) => u.dcaddr # 0)
    BY <1>2, <2>2 DEF Keeping
  <2>4. Keeping(y, u, nd, nc, ow) /\ y.icindex = u.icindex
    BY <2>3, PutEntry
  <2> HIDE DEF y
  <2>5. VInv(y, nd, nc, ow)
    BY <2>4 DEF Keeping
  <2> HIDE DEF s
  <2>6. Keeping(z, y, nd, nc, ow) /\ z.icindex = y.icindex
    BY <1>1, <2>5, CountEntry
  <2> HIDE DEF z
  <2>7. Keeping(z, v, nd, nc, ow) /\ z.icindex = v.icindex
    BY <2>2, <2>4, <2>6 DEF Keeping
  <2>8. Linked(z, v, nd, nc)
    BY <2>7, LinkedKeeping
  <2> QED BY <2>1, <2>8 DEF w, s
<1>3. CASE da = 0 /\ Used(d.regs) = NREG
  <2>1. w = Outcome(v, "FILE_FULL")
    BY <1>3 DEF fs2_add_dir_entry
  <2>2. Keeping(Outcome(v, "FILE_FULL"), v, nd, nc, ow)
        /\ Outcome(v, "FILE_FULL").icindex = v.icindex
    BY OutcomeKeeps
  <2> HIDE DEF w
  <2>3. Linked(w, v, nd, nc)
    BY <2>1, <2>2, LinkedKeeping
  <2> QED BY <2>3 DEF w
<1>4. CASE da = 0 /\ Used(d.regs) # NREG
  <2> DEFINE i == Used(d.regs)
             z == new_dregion(fs2_find_free_region(v, DREG, FALSE), s, i)
  <2>1. w = put_in_new_block(z, s, name, x)
    BY <1>4 DEF fs2_add_dir_entry
  <2>2. i \in 0..(NREG - 1)
    <3>1. NREG \in Nat
      BY Consts
    <3>2. i \in 0..NREG
      BY <1>1, <3>1, UsedIs
    <3> QED BY <1>4, <3>1, <3>2
  <2> HIDE DEF i, w
  <2>3. z = Result(v, "DISK_FULL", 0) \/ Extended(z, v, nd, nc, s, i)
    BY <2>2, NewDRegion
  <2> HIDE DEF z
  <2>4. CASE z = Result(v, "DISK_FULL", 0)
    <3>1. Keeping(Result(v, "DISK_FULL", 0), v, nd, nc, ow)
          /\ Result(v, "DISK_FULL", 0).icindex = v.icindex /\ Result(v, "DISK_FULL", 0).ret = 0
      BY ResultKeeps
    <3>2. w = z
      BY <2>1, <2>4, <3>1 DEF put_in_new_block
    <3>3. Linked(w, v, nd, nc)
      BY <2>4, <3>1, <3>2, LinkedKeeping
    <3> QED BY <3>3 DEF w
  <2>5. CASE Extended(z, v, nd, nc, s, i)
    <3> DEFINE c == count_entry(z, s)
               l == fs2_load_dblock_c(c, z.ret, TRUE)
               y == put_entry(l, 0, name, x)
    <3>1. w = y
      BY <2>1, <2>5 DEF put_in_new_block, Extended
    <3>2. PICK o : VInv(z, nd, nc, o)
      BY <2>5 DEF Extended
    <3>3. Linked(z, v, nd, nc)
      <4>1. v.hblock \in HeadT /\ DREG \in Nat
        BY Consts DEF VInv, HeadOK
      <4>2. Later(z.hblock, v.hblock)
        BY <2>5, <4>1, LaterHead DEF Extended
      <4> QED BY <2>5, <4>2 DEF Extended, Linked
    <3> HIDE DEF s
    <3>4. Keeping(c, z, nd, nc, o) /\ c.icindex = z.icindex
      BY <1>1, <3>2, CountEntry
    <3> HIDE DEF c
    <3>5. VInv(c, nd, nc, o) /\ z.ret # 0
      BY <2>5, <3>4 DEF Keeping, Extended
    <3>6. Keeping(l, c, nd, nc, o) /\ Only(l, c, {"dcache", "dcaddr", "outcome"}) /\ l.dcaddr = z.ret
      BY <3>5, LoadDry
    <3> HIDE DEF l
    <3>7. VInv(l, nd, nc, o) /\ l["icindex"] = c["icindex"] /\ l.dcaddr # 0
      BY <3>5, <3>6 DEF Keeping, Only, Fields
    <3>8. Keeping(y, l, nd, nc, o) /\ y.icindex = l.icindex
      BY <3>7, PutEntry
    <3> HIDE DEF y
    <3>9. Keeping(y, z, nd, nc, o) /\ y.icindex = z.icindex
      BY <3>4, <3>6, <3>7, <3>8 DEF Keeping
    <3>10. Linked(y, z, nd, nc)
      BY <3>9, LinkedKeeping
    <3>11. Linked(y, v, nd, nc)
      <4>1. v.hblock \in HeadT
        BY DEF VInv, HeadOK
      <4> QED BY <3>3, <3>10, <4>1, LinkedTrans
    <3> QED BY <3>1, <3>11 DEF w, s
  <2> QED BY <2>3, <2>4, <2>5
<1> QED BY <1>2, <1>3, <1>4

\* The entry of inode n is made, or is not.
LinkMade(w, v, n, parent) ==
  /\ \E k \in {n, n + 1} : \E ow2 : VInv(w, k, n + 1, ow2)
  /\ Ok(w) /\ w.disk[0] = v.disk[0] /\ Later(w.hblock, v.hblock) /\ w.icindex = parent \div IPB

LEMMA LinkParent ==
  ASSUME NEW v, NEW n, NEW ow, VInv(v, n, n + 1, ow), Ok(v), v.icindex = n \div IPB,
         NEW parent \in 0..(n - 1), NEW name
  PROVE  LinkMade(link_parent(v, name, n, parent), v, n, parent)
<1> DEFINE b == parent \div IPB
           g == fs2_get_iblock_c(v, b, FALSE, TRUE)
           a == fs2_add_dir_entry(g, name, parent % IPB, cached_inode(g, parent), n)
           w == link_parent(v, name, n, parent)
           nc == n + 1
<1>1. n \in Nat /\ n # 0 /\ nc \in Nat
  BY DEF VInv
<1>2. n \in 0..(nc - 1) /\ parent \in 0..(nc - 1) /\ \E x \in 0..(nc - 1) : x \div IPB = v.icindex
  BY <1>1
<1>3. Gets(g, v, n, nc, ow, b)
  <2> HIDE DEF nc
  <2>1. VInv(v, n, nc, ow)
    BY DEF nc
  <2> QED BY <1>2, <2>1, GetSaved
<1>4. w = Outcome(a, "SUCCESS")
  <2>1. Ok(g)
    BY <1>3 DEF Gets
  <2>2. w = link_cached(g, name, n, parent)
    BY <1>1 DEF link_parent
  <2> QED BY <2>1, <2>2 DEF link_cached
<1> HIDE DEF g, w
<1>5. PICK k \in {n, nc} : Keeping(g, v, k, nc, ow)
  BY <1>3 DEF Gets
<1>6. VInv(g, k, nc, ow) /\ g.icindex = b /\ v.hblock \in HeadT
  BY <1>3, <1>5 DEF Keeping, Gets, VInv, HeadOK
<1> HIDE DEF nc
<1>7. Linked(a, g, k, nc)
  BY <1>2, <1>6, AddEntry
<1> HIDE DEF a
<1>8. PICK o : VInv(a, k, nc, o)
  BY <1>7 DEF Linked
<1>9. Keeping(w, a, k, nc, o) /\ w.outcome = "SUCCESS" /\ w.icindex = a.icindex
  BY <1>4, <1>8, OutcomeKeeps
<1>10. VInv(w, k, nc, o) /\ Ok(w) /\ w.disk[0] = v.disk[0] /\ w.icindex = b
       /\ Later(w.hblock, v.hblock)
  BY <1>5, <1>6, <1>7, <1>9 DEF Keeping, Linked, Ok
<1> QED BY <1>5, <1>10 DEF LinkMade, w, nc

\* Between calls the inodes in use are those the header counts.  What a call
\* makes of them: the header on the disk stays as it was or is written.
Advances(w, v, n) ==
  /\ \E n2 \in Nat : \E ow2 : VInv(w, n2, n2, ow2) /\ w.hblock.next_inode = n2 /\ n2 >= n
  /\ w.hblock.next_block >= v.hblock.next_block /\ HeadKept(w, v)

LEMMA FinishCreate ==
  ASSUME NEW v, NEW n, NEW k, NEW ow, VInv(v, k, n + 1, ow), Ok(v), v.hblock.next_inode = n,
         NEW parent \in 0..(n - 1), v.icindex = parent \div IPB
  PROVE  /\ Advances(finish_create(v), v, n)
         /\ finish_create(v).disk[0] = [kind |-> "H", data |-> finish_create(v).hblock]
<1> DEFINE nc == n + 1
           s == fs2_save_iblock_c(v)
           G == [s.hblock EXCEPT !.next_inode = @ + 1]
           u == Set(s, "hblock", G)
           w == save_hblock(u)
<1>1. finish_create(v) = w
  <2>1. [s EXCEPT !.hblock.next_inode = @ + 1] = u
    <3> HIDE DEF s
    <3> QED BY DEF Set
  <2> HIDE DEF u
  <2> QED BY <2>1 DEF finish_create
<1>2. v.hblock \in HeadT /\ n \in Nat /\ nc \in Nat /\ parent \in 0..(nc - 1)
  <2>1. v.hblock \in HeadT
    BY DEF VInv, HeadOK
  <2>2. n \in Nat
    BY <2>1 DEF HeadT
  <2> QED BY <2>1, <2>2
<1>3. Keeping(s, v, nc, nc, ow)
  <2> HIDE DEF nc
  <2>1. VInv(v, k, nc, ow)
    BY DEF nc
  <2> QED BY <1>2, <2>1, SaveI
<1> HIDE DEF s
<1>4. VInv(s, nc, nc, ow) /\ s.hblock = v.hblock /\ IsVol(s)
  BY <1>3 DEF Keeping, VInv
<1>5. /\ G \in HeadT /\ G.next_inode = nc /\ G.next_block = v.hblock.next_block
      /\ G.regs = v.hblock.regs /\ G.nblocks = v.hblock.nblocks
  BY <1>2, <1>4 DEF HeadT
<1> HIDE DEF G
<1>6. Only(u, s, {"hblock"}) /\ u["hblock"] = G
  <2>1. "hblock" \in Fields
    BY DEF Fields
  <2> QED BY <1>4, <2>1, SetIs
<1> HIDE DEF u
<1>7. /\ u["disk"] = s["disk"] /\ u["icindex"] = s["icindex"]
      /\ u["icaddr"] = s["icaddr"] /\ u["icache"] = s["icache"] /\ u["dcaddr"] = s["dcaddr"]
      /\ u["dcache"] = s["dcache"] /\ u["xcache"] = s["xcache"] /\ IsVol(u)
  BY <1>6 DEF Only, Fields
<1> HIDE DEF nc
<1>8. HeadOK(G, ow) /\ HasTable(G, nc)
  BY <1>4, <1>5 DEF VInv, HeadOK, HasTable
<1>9. DiskOwn(s.disk, G, nc, ow)
  <2> SUFFICES ASSUME NEW m \in 0..(nc - 1) PROVE Mine(OnDisk(s.disk, G, m).regs, m, G.next_block, ow)
    BY DEF DiskOwn
  <2>1. Mine(OnDisk(s.disk, s.hblock, m).regs, m, s.hblock.next_block, ow)
    BY <1>4 DEF VInv, DiskOwn
  <2>2. OnDisk(s.disk, G, m) = OnDisk(s.disk, s.hblock, m)
    BY <1>4, <1>5 DEF OnDisk
  <2> QED BY <1>4, <1>5, <2>1, <2>2
<1>10. ICOK(s.icindex, s.icaddr, s.icache, G, nc, ow)
  BY <1>4, <1>5 DEF VInv, ICOK
<1>11. VInv(u, nc, nc, ow)
  BY <1>4, <1>6, <1>7, <1>8, <1>9, <1>10 DEF VInv
<1>12. VInv(w, nc, nc, ow) /\ Only(w, u, {"disk", "log", "outcome"})
       /\ w.disk[0] = [kind |-> "H", data |-> u.hblock]
  BY <1>11, SaveH
<1> HIDE DEF w
<1>13. w["hblock"] = u["hblock"]
  BY <1>12 DEF Only, Fields
<1>14. Advances(w, v, n) /\ w.disk[0] = [kind |-> "H", data |-> w.hblock]
  <2>1. w.hblock = G /\ w.disk[0] = [kind |-> "H", data |-> w.hblock]
    BY <1>6, <1>12, <1>13
  <2>2. nc >= n
    BY <1>2 DEF nc
  <2>3. w.hblock.next_block >= v.hblock.next_block
    BY <1>2, <1>5, <2>1 DEF HeadT
  <2> QED BY <1>2, <1>5, <1>12, <2>1, <2>2, <2>3 DEF Advances, HeadKept
<1> QED BY <1>1, <1>14

LEMMA CreateFile ==
  ASSUME NEW v, NEW n, NEW ow, VInv(v, n, n, ow), v.hblock.next_inode = n, Warm(v, n),
         NEW parent \in 0..(n - 1), NEW ftype \in {"DIR", "FILE"}, NEW name
  PROVE  Advances(fs2_create_file(v, name, parent, ftype), v, n)
<1> DEFINE g == fs2_get_iblock_c(v, n \div IPB, TRUE, FALSE)
           i == fs2_init_inode(g, n % IPB, ftype)
           p == populate(i, n, parent, ftype)
           l == link_parent(p, name, n, parent)
           w == finish_create(l)
<1>1. fs2_create_file(v, name, parent, ftype) = w
  BY DEF fs2_create_file
<1>2. GotNew(g, v, n)
  BY GetNew
<1> HIDE DEF g
<1>3. v.hblock \in HeadT /\ n \in Nat /\ g.hblock \in HeadT
  BY <1>2 DEF VInv, HeadOK, GotNew
<1>4. ASSUME NEW u, NEW o, VInv(u, n, n, o), Later(u.hblock, v.hblock), HeadKept(u, v), ~Ok(u),
             w = u
      PROVE  Advances(w, v, n)
  <2>1. w.hblock.next_inode = n /\ w.hblock.next_block >= v.hblock.next_block /\ n >= n
    BY <1>3, <1>4 DEF Later
  <2> HIDE DEF w
  <2> QED BY <1>3, <1>4, <2>1 DEF Advances
<1>5. PICK o : VInv(g, n, n, o)
  BY <1>2 DEF GotNew
<1>6. CASE ~Ok(g)
  <2>1. w = g
    BY <1>6 DEF finish_create, link_parent, populate, fs2_init_inode
  <2> HIDE DEF w
  <2>2. Later(g.hblock, v.hblock) /\ HeadKept(g, v)
    BY <1>2 DEF GotNew
  <2> QED BY <1>1, <1>4, <1>5, <1>6, <2>1, <2>2 DEF w
<1>7. CASE Ok(g)
  <2>1. Placed(g, n)
    BY <1>2, <1>7 DEF GotNew
  <2>2. \/ ~Ok(i) /\ Keeping(i, g, n, n, o)
        \/ /\ Ok(i) /\ \E ow2 : VInv(i, n, n + 1, ow2)
           /\ i.disk = g.disk /\ Later(i.hblock, g.hblock) /\ i.icindex = n \div IPB
           /\ ftype = "DIR" => i.icache[n % IPB].regs[0].start # 0
    BY <1>5, <1>7, <2>1, InitInode
  <2> HIDE DEF i
  <2>3. CASE ~Ok(i) /\ Keeping(i, g, n, n, o)
    <3>1. w = i
      BY <2>3 DEF finish_create, link_parent, populate
    <3> HIDE DEF w
    <3>2. VInv(i, n, n, o) /\ Later(i.hblock, v.hblock) /\ HeadKept(i, v)
      BY <1>2, <2>3 DEF Keeping, GotNew, HeadKept
    <3> QED BY <1>1, <1>4, <2>3, <3>1, <3>2 DEF w
  <2>4. CASE /\ Ok(i) /\ \E ow2 : VInv(i, n, n + 1, ow2)
             /\ i.disk = g.disk /\ Later(i.hblock, g.hblock) /\ i.icindex = n \div IPB
             /\ ftype = "DIR" => i.icache[n % IPB].regs[0].start # 0
    <3>1. PICK q : VInv(i, n, n + 1, q)
      BY <2>4
    <3>2. Keeping(p, i, n, n + 1, q) /\ Ok(p) /\ p.icindex = n \div IPB
      <4>1. Ok(i) /\ (ftype = "DIR" => i.icache[n % IPB].regs[0].start # 0)
        BY <2>4
      <4>2. Keeping(p, i, n, n + 1, q) /\ Ok(p) /\ p.icindex = i.icindex
        BY <3>1, <4>1, Populate
      <4> QED BY <2>4, <4>2
    <3> HIDE DEF p
    <3>3. VInv(p, n, n + 1, q) /\ p.hblock = i.hblock /\ p.disk[0] = i.disk[0]
      BY <3>2 DEF Keeping
    <3>4. LinkMade(l, p, n, parent)
      BY <3>2, <3>3, LinkParent
    <3> HIDE DEF l
    <3>5. PICK k \in {n, n + 1} : \E ow2 : VInv(l, k, n + 1, ow2)
      BY <3>4 DEF LinkMade
    <3>6. PICK ow2 : VInv(l, k, n + 1, ow2)
      BY <3>5
    <3>7. i.hblock \in HeadT /\ p.hblock \in HeadT /\ l.hblock \in HeadT
      BY <3>1, <3>3, <3>6 DEF VInv, HeadOK
    <3>8. Later(l.hblock, v.hblock)
      <4>1. Later(l.hblock, p.hblock) /\ Later(i.hblock, g.hblock) /\ Later(g.hblock, v.hblock)
        BY <1>2, <2>4, <3>4 DEF LinkMade, GotNew
      <4>2. Later(l.hblock, g.hblock)
        BY <1>3, <3>3, <3>7, <4>1, LaterTrans
      <4> QED BY <1>3, <3>7, <4>1, <4>2, LaterTrans
    <3>9. l.hblock.next_inode = n /\ Ok(l) /\ l.icindex = parent \div IPB
      BY <3>4, <3>8 DEF LinkMade, Later
    <3>10. Advances(w, l, n) /\ w.disk[0] = [kind |-> "H", data |-> w.hblock]
      BY <3>6, <3>9, FinishCreate
    <3> HIDE DEF w
    <3>11. w.hblock \in HeadT
      BY <3>10 DEF Advances, VInv, HeadOK
    <3>12. w.hblock.next_block >= v.hblock.next_block
      BY <1>3, <3>7, <3>8, <3>10, <3>11 DEF Advances, Later, HeadT
    <3>13. Advances(w, v, n)
      BY <3>10, <3>12 DEF Advances, HeadKept
    <3> QED BY <1>1, <3>13
  <2> QED BY <2>2, <2>3, <2>4
<1> QED BY <1>6, <1>7

\* A path without its last component.
LEMMA FrontSeq == ASSUME NEW path, path \in Seq(Range(path)), path # <<>>
                  PROVE  Front(path) \in Seq(Range(Front(path)))
<1> DEFINE S == Range(path)
<1>1. path \in Seq(S)
  OBVIOUS
<1> HIDE DEF S
<1>2. Len(path) \in Nat /\ Len(path) # 0
  BY <1>1
<1>3. Front(path) \in Seq(S)
  BY <1>1, <1>2 DEF Front
<1> DEFINE q == Front(path)
<1>4. q \in Seq(S)
  BY <1>3
<1> HIDE DEF q
<1>5. q \in Seq(Range(q))
  BY <1>4, SeqOfRange
<1> QED BY <1>5 DEF q

\* A call that leaves the header alone.
LEMMA KeepingAdvances ==
  ASSUME NEW v, NEW w, NEW n, NEW ow, Keeping(w, v, n, n, ow), v.hblock.next_inode = n
  PROVE  Advances(w, v, n)
<1>1. w.hblock \in HeadT /\ n \in Nat /\ VInv(w, n, n, ow) /\ w.hblock = v.hblock
  BY DEF Keeping, VInv, HeadOK
<1>2. w.hblock.next_inode = n /\ n >= n /\ w.hblock.next_block >= v.hblock.next_block
  BY <1>1 DEF HeadT
<1>3. HeadKept(w, v)
  BY DEF HeadKept, Keeping
<1> QED BY <1>1, <1>2, <1>3 DEF Advances

LEMMA CreateAdvances ==
  ASSUME NEW v, NEW n, NEW ow, VInv(v, n, n, ow), v.hblock.next_inode = n, v.par \in 0..(n - 1),
         NEW path, path \in Seq(Range(path)), NEW ftype \in {"DIR", "FILE"}
  PROVE  Advances(fs2_create(v, ftype, path), v, n)
<1> DEFINE x == fs2_find_file(v, path)
           c == check_new(x, path)
           q == Front(path)
           f == find_parent(c, q)
           name == Last(path)
           w == create_in(f, name, ftype)
<1>1. fs2_create(v, ftype, path) = w
  BY DEF fs2_create
<1>2. n \in Nat /\ n # 0 /\ 0 \in 0..(n - 1)
  <2>1. n \in Nat /\ n # 0
    BY DEF VInv
  <2> QED BY <2>1
<1>3. Walked(x, v, n, ow) /\ (path # <<>> => Warm(x, n))
  BY FindFile
<1>4. path = <<>> => Ok(x)
  <2> SUFFICES ASSUME path = <<>> PROVE Ok(x)
    OBVIOUS
  <2>1. x = Result(v, "SUCCESS", 0)
    BY DEF fs2_find_file
  <2>2. Result(v, "SUCCESS", 0).outcome = "SUCCESS"
    BY ResultKeeps
  <2> HIDE DEF x
  <2> QED BY <2>1, <2>2 DEF Ok
<1> HIDE DEF x
<1>5. VInv(x, n, n, ow) /\ Keeping(x, v, n, n, ow) /\ x.par \in 0..(n - 1)
  BY <1>3 DEF Walked, Keeping
<1>6. \E o : c = Outcome(x, o) /\ (Ok(x) => o # "SUCCESS")
  <2> DEFINE e == IF Ok(x) THEN "UNEXPECTED_FILE"
                  ELSE IF x.outcome # "NO_FILE" THEN x.outcome
                  ELSE IF Last(path) = <<>> THEN "INVALID_PATH"
                  ELSE "SUCCESS"
  <2>1. c = Outcome(x, e)
    BY DEF check_new
  <2>2. Ok(x) => e # "SUCCESS"
    OBVIOUS
  <2> HIDE DEF e, c
  <2> QED BY <2>1, <2>2
<1>7. PICK o : c = Outcome(x, o) /\ (Ok(x) => o # "SUCCESS")
  BY <1>6
<1> HIDE DEF c, name
<1>8. Keeping(c, x, n, n, ow) /\ c.outcome = o /\ c.par = x.par /\ c.icindex = x.icindex
  BY <1>5, <1>7, OutcomeKeeps
<1>9. Keeping(c, v, n, n, ow) /\ VInv(c, n, n, ow) /\ c.par \in 0..(n - 1)
  BY <1>5, <1>8, KeepingTrans DEF Keeping
<1>10. CASE ~Ok(c)
  <2>1. w = c
    BY <1>10 DEF find_parent, create_in
  <2> HIDE DEF w
  <2>2. Advances(c, v, n)
    BY <1>9, KeepingAdvances
  <2> QED BY <1>1, <2>1, <2>2
<1>11. CASE Ok(c)
  <2>1. path # <<>> /\ Warm(c, n)
    <3>1. ~Ok(x)
      BY <1>7, <1>8, <1>11 DEF Ok
    <3>2. path # <<>> /\ Warm(x, n)
      BY <1>3, <1>4, <3>1
    <3> QED BY <1>8, <3>2 DEF Warm
  <2>2. Keeping(f, c, n, n, ow) /\ Warm(f, n) /\ (Ok(f) => f.ret \in 0..(n - 1))
    <3>1. f = Result(c, "SUCCESS", 0) \/ f = fs2_find_file(c, q)
      BY <1>11 DEF find_parent
    <3> HIDE DEF f
    <3>2. CASE f = Result(c, "SUCCESS", 0)
      <4> DEFINE r == Result(c, "SUCCESS", 0)
      <4>1. Keeping(r, c, n, n, ow) /\ r.ret = 0 /\ r.icindex = c.icindex
        BY <1>9, ResultKeeps
      <4> HIDE DEF r
      <4>2. Keeping(f, c, n, n, ow) /\ f.ret = 0 /\ f.icindex = c.icindex
        BY <3>2, <4>1 DEF r
      <4> QED BY <1>2, <2>1, <4>2 DEF Warm
    <3>3. CASE f = fs2_find_file(c, q)
      <4>1. q \in Seq(Range(q))
        BY <2>1, FrontSeq
      <4> HIDE DEF q
      <4>2. Walked(fs2_find_file(c, q), c, n, ow) /\ (Warm(c, n) => Warm(fs2_find_file(c, q), n))
        BY <1>9, <4>1, FindFile
      <4>3. Walked(f, c, n, ow) /\ Warm(f, n)
        BY <2>1, <3>3, <4>2
      <4> QED BY <4>3 DEF Walked, HasFound, Ok
    <3> QED BY <3>1, <3>2, <3>3
  <2> HIDE DEF f
  <2>3. VInv(f, n, n, ow) /\ f.hblock = v.hblock /\ f.disk[0] = v.disk[0] /\ Keeping(f, v, n, n, ow)
    BY <1>9, <2>2, KeepingTrans DEF Keeping
  <2>4. CASE ~Ok(f)
    <3>1. w = f
      BY <2>4 DEF create_in
    <3> HIDE DEF w
    <3>2. Advances(f, v, n)
      BY <2>3, KeepingAdvances
    <3> QED BY <1>1, <3>1, <3>2
  <2>5. CASE Ok(f)
    <3> DEFINE p == f.ret
               z == fs2_create_file(f, name, p, ftype)
    <3>1. w = z
      BY <2>5 DEF create_in
    <3>2. p \in 0..(n - 1)
      BY <2>2, <2>5
    <3> HIDE DEF p, w
    <3>3. f.hblock.next_inode = n
      BY <2>3
    <3>4. Advances(z, f, n)
      BY <2>2, <2>3, <3>2, <3>3, CreateFile
    <3> HIDE DEF z
    <3>5. Advances(z, v, n)
      BY <2>3, <3>4 DEF Advances, HeadKept
    <3> QED BY <1>1, <3>1, <3>5
  <2> QED BY <2>4, <2>5
<1> QED BY <1>10, <1>11

-----------------------------------------------------------------------------
(* Starting *)

\* What a volume is after its header has been read and the caches are empty.
Loaded(l, D, H) ==
  /\ IsVol(l) /\ l.disk = D /\ l.hblock = H /\ l.par = 0
  /\ l.icindex = -1 /\ l.icache = ZeroIBlock /\ l.dcaddr = -1 /\ l.dcache = ZeroDBlock
  /\ l.xcache = [kind |-> "0"]

LEMMA LoadVolume ==
  ASSUME NEW D, D[0].kind = "H"
  PROVE  Loaded(fs2_load_volume(PowerUp(D)), D, D[0].data) /\ Ok(fs2_load_volume(PowerUp(D)))
<1> DEFINE p == PowerUp(D)
           u == Set3(p, "hblock", D[0].data, "outcome", "SUCCESS", "icindex", -1)
           w == Set(u, "dcaddr", -1)
           l == Set(w, "xcaddr", -1)
<1>1. /\ IsVol(p) /\ p.disk = D /\ p.par = 0 /\ p.icache = ZeroIBlock /\ p.dcache = ZeroDBlock
      /\ p.xcache = [kind |-> "0"]
  BY DEF PowerUp, IsVol, Fields
<1> HIDE DEF p
<1>2. fs2_load_volume(p) = l
  BY <1>1 DEF fs2_load_volume, Set3, Set
<1>3. "hblock" \in Fields /\ "outcome" \in Fields /\ "icindex" \in Fields
      /\ "dcaddr" \in Fields /\ "xcaddr" \in Fields
  BY DEF Fields
<1>4. /\ Only(u, p, {"hblock", "outcome", "icindex"}) /\ u["hblock"] = D[0].data
      /\ u["outcome"] = "SUCCESS" /\ u["icindex"] = -1
  <2> DEFINE d == D[0].data
             k == -1
  <2>1. IsVol(p) /\ "hblock" \in Fields /\ "outcome" \in Fields /\ "icindex" \in Fields
    BY <1>1, <1>3
  <2> HIDE DEF d, k
  <2> DEFINE x == Set3(p, "hblock", d, "outcome", "SUCCESS", "icindex", k)
  <2>2. /\ Only(x, p, {"hblock", "outcome", "icindex"}) /\ x["hblock"] = d
        /\ x["outcome"] = "SUCCESS" /\ x["icindex"] = k
    BY <2>1, Set3Is
  <2> HIDE DEF x, u
  <2>3. x = u
    BY DEF x, u, d, k
  <2> QED BY <2>2, <2>3 DEF d, k
<1>5. IsVol(u)
  BY <1>4 DEF Only
<1> HIDE DEF u
<1>6. Only(w, u, {"dcaddr"}) /\ w["dcaddr"] = -1
  BY <1>3, <1>5, SetIs
<1>7. IsVol(w)
  BY <1>6 DEF Only
<1> HIDE DEF w
<1>8. Only(l, w, {"xcaddr"})
  BY <1>3, <1>7, SetIs
<1> HIDE DEF l
<1>9. /\ u["disk"] = p["disk"] /\ u["par"] = p["par"] /\ u["icache"] = p["icache"]
      /\ u["dcache"] = p["dcache"] /\ u["xcache"] = p["xcache"]
  BY <1>4 DEF Only, Fields
<1>10. /\ w["disk"] = u["disk"] /\ w["par"] = u["par"] /\ w["icache"] = u["icache"]
       /\ w["dcache"] = u["dcache"] /\ w["xcache"] = u["xcache"] /\ w["hblock"] = u["hblock"]
       /\ w["outcome"] = u["outcome"] /\ w["icindex"] = u["icindex"]
  BY <1>6 DEF Only, Fields
<1>11. /\ l["disk"] = w["disk"] /\ l["par"] = w["par"] /\ l["icache"] = w["icache"]
       /\ l["dcache"] = w["dcache"] /\ l["xcache"] = w["xcache"] /\ l["hblock"] = w["hblock"]
       /\ l["outcome"] = w["outcome"] /\ l["icindex"] = w["icindex"] /\ l["dcaddr"] = w["dcaddr"]
       /\ IsVol(l)
  BY <1>8 DEF Only, Fields
<1>12. Loaded(l, D, D[0].data) /\ Ok(l)
  BY <1>1, <1>4, <1>6, <1>9, <1>10, <1>11 DEF Loaded, Ok
<1> QED BY <1>2, <1>12 DEF p

\* The results of a call are not part of it.
LEMMA LoadedSame ==
  ASSUME NEW l, NEW w, NEW D, NEW H, Loaded(l, D, H), Only(w, l, {"outcome", "ret"})
  PROVE  Loaded(w, D, H)
<1>1. /\ w["disk"] = l["disk"] /\ w["hblock"] = l["hblock"] /\ w["par"] = l["par"]
      /\ w["icindex"] = l["icindex"] /\ w["icache"] = l["icache"] /\ w["dcaddr"] = l["dcaddr"]
      /\ w["dcache"] = l["dcache"] /\ w["xcache"] = l["xcache"] /\ IsVol(w)
  BY DEF Only, Fields
<1> QED BY <1>1 DEF Loaded

\* A round of the dump at a block of inodes that exists.
LEMMA DumpRound ==
  ASSUME NEW v, IsVol(v), NEW b, find_blk(v.hblock.regs, b) # 0
  PROVE  Only(fs2_get_iblock(v, FALSE, b, FALSE), v, {"outcome", "ret"})
<1> DEFINE a == find_blk(v.hblock.regs, b)
           r == Result(v, "SUCCESS", a)
           w == fs2_get_iblock(v, FALSE, b, FALSE)
<1>1. w = load_iblock(v, FALSE, a)
  BY DEF fs2_get_iblock
<1>2. CASE a \notin DOMAIN v.disk
  <2>1. w = Result(v, "DISK_RD_ERR", a)
    BY <1>1, <1>2 DEF load_iblock
  <2> HIDE DEF w, a
  <2>2. Only(Result(v, "DISK_RD_ERR", a), v, {"outcome", "ret"})
    BY ResultFields
  <2>3. Only(w, v, {"outcome", "ret"})
    BY <2>1, <2>2
  <2> QED BY <2>3 DEF w
<1>3. CASE a \in DOMAIN v.disk
  <2>1. w = [r EXCEPT !.icache = @]
    BY <1>1, <1>3 DEF load_iblock
  <2>2. w = Set(r, "icache", r.icache)
    BY <2>1 DEF Set
  <2>3. Only(r, v, {"outcome", "ret"})
    BY ResultFields
  <2> HIDE DEF r, w
  <2>4. IsVol(r) /\ "icache" \in Fields
    BY <2>3 DEF Only, Fields
  <2>5. Only(Set(r, "icache", r.icache), r, {"icache"}) /\ Set(r, "icache", r.icache)["icache"] = r["icache"]
    BY <2>4, SetIs
  <2>6. Only(w, r, {"icache"}) /\ w["icache"] = r["icache"]
    BY <2>2, <2>5
  <2>7. Only(w, v, {"outcome", "ret"})
    BY <2>3, <2>6 DEF Only
  <2> QED BY <2>7 DEF w
<1> QED BY <1>2, <1>3

\* The dump changes nothing where every block of inodes it walks exists.
LEMMA DumpSaved ==
  ASSUME NEW l, NEW n \in Nat, NEW D, NEW H, Loaded(l, D, H), H.next_inode = n, HasTable(H, n)
  PROVE  Loaded(fs2_block_dump(l), D, H)
<1> DEFINE q == Dumps(l)
           t == [loop |-> "dump"]
<1>1. q = (n + IPB - 1) \div IPB
  BY DEF Dumps, Loaded
<1>2. q \in Nat /\ \A i \in 1..q : \E m \in 0..(n - 1) : m \div IPB = i - 1
  <2>1. IPB \in Nat /\ IPB # 0
    BY Consts
  <2> DEFINE k == (n + IPB - 1) \div IPB
  <2>2. k \in Nat /\ \A i \in 1..k : \E m \in 0..(n - 1) : m \div IPB = i - 1
    BY <2>1, RoundUp
  <2> HIDE DEF k, q
  <2> QED BY <1>1, <2>2 DEF k
<1>3. PICK f : Rounds(f, q, l, t) /\ fs2_block_dump(l) = f[q]
  BY <1>2, DumpLoop
<1>4. f[0] = l /\ \A j \in 1..q : f[j] = Round(t, f[j - 1], j)
  <2> HIDE DEF q, t
  <2> QED BY <1>2, <1>3, RoundsAre
<1> HIDE DEF q
<1> DEFINE S == {j \in 0..q : Loaded(f[j], D, H)}
<1>5. 0 \in S
  BY <1>2, <1>4
<1>6. ASSUME NEW j \in 1..q, j - 1 \in S PROVE j \in S
  <2> DEFINE g == f[j - 1]
  <2>1. Loaded(g, D, H)
    BY <1>6
  <2>2. f[j] = fs2_get_iblock(g, FALSE, j - 1, FALSE)
    <3>1. f[j] = Round(t, g, j)
      BY <1>4
    <3> HIDE DEF g
    <3> QED BY <3>1 DEF Round
  <2> HIDE DEF g
  <2>3. find_blk(g.hblock.regs, j - 1) # 0
    <3>1. PICK m \in 0..(n - 1) : m \div IPB = j - 1
      BY <1>2
    <3>2. find_blk(H.regs, m \div IPB) # 0
      BY DEF HasTable
    <3> QED BY <2>1, <3>1, <3>2 DEF Loaded
  <2>4. Only(f[j], g, {"outcome", "ret"})
    BY <2>1, <2>2, <2>3, DumpRound DEF Loaded
  <2> QED BY <2>1, <2>4, LoadedSame
<1>7. 0..q \subseteq S
  <2> HIDE DEF S
  <2> QED BY <1>2, <1>5, <1>6, UpTo
<1>8. q \in 0..q
  BY <1>2
<1> QED BY <1>3, <1>7, <1>8

\* The header of a volume that has been formatted and not been dumped yet: no
\* region holds inodes, and there is room for one.
FreshHead(h) ==
  /\ h \in HeadT /\ h.next_inode = 1 /\ h.next_block # 0
  /\ ~(h.next_block + IREG > h.nblocks) /\ \A i \in 0..(HREG - 1) : h.regs[i].start = 0

\* What the dump makes of it, in memory only.
Dumped(h) == WithRegion(TakenHead(h, IREG), h.next_block)

LEMMA FreshUsed == ASSUME NEW h, FreshHead(h) PROVE Used(h.regs) = 0 /\ find_blk(h.regs, 0) = 0
<1>1. HREG \in Nat /\ HREG # 0 /\ h.regs \in [0..(HREG - 1) -> RegT]
  BY Consts DEF FreshHead, HeadT
<1>2. /\ Used(h.regs) \in 0..HREG
      /\ \A i \in 0..(Used(h.regs) - 1) : i \in 0..(HREG - 1) /\ h.regs[i].start # 0
  BY <1>1, UsedIs
<1>3. Used(h.regs) = 0
  <2>1. ASSUME Used(h.regs) # 0 PROVE FALSE
    <3>1. 0 \in 0..(Used(h.regs) - 1)
      BY <1>2, <2>1
    <3> QED BY <1>2, <3>1 DEF FreshHead
  <2> QED BY <2>1
<1>4. find_blk(h.regs, 0) = 0
  BY <1>3 DEF find_blk
<1> QED BY <1>3, <1>4

LEMMA FreshRound ==
  ASSUME NEW l, NEW D, NEW h, Loaded(l, D, h), FreshHead(h)
  PROVE  Loaded(fs2_get_iblock(l, FALSE, 0, FALSE), D, Dumped(h))
<1> DEFINE x == fs2_find_free_region(l, IREG, FALSE)
           nb == h.next_block
           G == Dumped(h)
           y == Set(x, "hblock", G)
           w == fs2_get_iblock(l, FALSE, 0, FALSE)
<1>1. IsVol(l) /\ l.hblock = h /\ ~(l.hblock.next_block + IREG > l.hblock.nblocks)
  BY DEF Loaded, FreshHead
<1>2. Only(x, l, {"outcome", "ret", "hblock"}) /\ x.ret = nb /\ x.hblock = TakenHead(h, IREG)
  BY <1>1, TakeFits
<1> HIDE DEF x
<1>3. Used(h.regs) = 0 /\ find_blk(h.regs, 0) = 0 /\ HREG # 0 /\ nb # 0 /\ h \in HeadT
  BY FreshUsed, Consts DEF FreshHead
<1>4. w = new_iregion(x, 0)
  <2>1. w = enter_iregion(x, 0, FALSE)
    BY <1>1, <1>3 DEF fs2_get_iblock, x
  <2> HIDE DEF w
  <2> QED BY <1>2, <1>3, <2>1 DEF enter_iregion
<1> HIDE DEF w
<1>5. w = y
  <2>1. x.hblock.regs = h.regs
    BY <1>2, <1>3 DEF TakenHead, HeadT
  <2>2. w = [x EXCEPT !.hblock.regs[0] = [start |-> nb, len |-> IREG]]
    BY <1>2, <1>4 DEF new_iregion
  <2>3. G = [x.hblock EXCEPT !.regs[0] = [start |-> nb, len |-> IREG]]
    BY <1>2, <1>3, <2>1 DEF Dumped, WithRegion, NewRegion
  <2> QED BY <2>2, <2>3 DEF Set
<1>6. IsVol(x) /\ "hblock" \in Fields
  BY <1>2 DEF Only, Fields
<1> HIDE DEF G
<1>7. Only(y, x, {"hblock"}) /\ y["hblock"] = G
  BY <1>6, SetIs
<1> HIDE DEF y
<1>8. /\ y["disk"] = x["disk"] /\ y["par"] = x["par"]
      /\ y["icindex"] = x["icindex"] /\ y["icache"] = x["icache"] /\ y["dcaddr"] = x["dcaddr"]
      /\ y["dcache"] = x["dcache"] /\ y["xcache"] = x["xcache"] /\ IsVol(y)
  BY <1>7 DEF Only, Fields
<1>9. /\ x["disk"] = l["disk"] /\ x["par"] = l["par"]
      /\ x["icindex"] = l["icindex"] /\ x["icache"] = l["icache"] /\ x["dcaddr"] = l["dcaddr"]
      /\ x["dcache"] = l["dcache"] /\ x["xcache"] = l["xcache"]
  BY <1>2 DEF Only, Fields
<1>10. Loaded(y, D, G)
  BY <1>7, <1>8, <1>9 DEF Loaded
<1> QED BY <1>5, <1>10 DEF G, w

LEMMA DumpFresh ==
  ASSUME NEW l, NEW D, NEW h, Loaded(l, D, h), FreshHead(h)
  PROVE  Loaded(fs2_block_dump(l), D, Dumped(h))
<1>1. Dumps(l) = 1
  <2>1. l.hblock.next_inode = 1 /\ IPB \in Nat /\ IPB # 0
    BY Consts DEF Loaded, FreshHead
  <2>2. \A k \in Nat : k # 0 => (1 + k - 1) \div k = 1
    OBVIOUS
  <2> QED BY <2>1, <2>2 DEF Dumps
<1> DEFINE t == [loop |-> "dump"]
<1>2. PICK f : Rounds(f, 1, l, t) /\ fs2_block_dump(l) = f[1]
  <2>1. Dumps(l) \in Nat
    BY <1>1
  <2>2. \E f : Rounds(f, Dumps(l), l, t) /\ fs2_block_dump(l) = f[Dumps(l)]
    BY <2>1, DumpLoop
  <2> QED BY <1>1, <2>2
<1>3. f[1] = Round(t, l, 1)
  <2> HIDE DEF t
  <2>1. 1 \in Nat
    OBVIOUS
  <2>2. f[0] = l /\ \A j \in 1..1 : f[j] = Round(t, f[j - 1], j)
    BY <1>2, <2>1, RoundsAre
  <2>3. 1 \in 1..1 /\ 1 - 1 = 0
    OBVIOUS
  <2> QED BY <2>2, <2>3
<1>4. Round(t, l, 1) = fs2_get_iblock(l, FALSE, 0, FALSE)
  <2>1. 1 - 1 = 0
    OBVIOUS
  <2> QED BY <2>1 DEF Round
<1> QED BY <1>2, <1>3, <1>4, FreshRound

\* The header on the disk is the one in memory, but for the region that a dump
\* has taken in memory only.
HdrSaved(v) ==
  LET h == v.disk[0].data IN v.hblock = h \/ (FreshHead(h) /\ v.hblock = Dumped(h))

LEMMA KeptSaved ==
  ASSUME NEW v, NEW w, HdrSaved(v), HeadKept(w, v)
  PROVE  HdrSaved(w)
BY DEF HdrSaved, HeadKept

LEMMA RebootLoads ==
  ASSUME NEW v, NEW n, NEW ow, VInv(v, n, n, ow), v.hblock.next_inode = n, HdrSaved(v)
  PROVE  Loaded(init_fs(v.disk), v.disk, v.hblock)
<1> DEFINE D == v.disk
           h == D[0].data
           l == fs2_load_volume(PowerUp(D))
<1>1. D[0].kind = "H" /\ n \in Nat /\ HasTable(v.hblock, n)
  BY DEF VInv, DiskOK
<1>2. Loaded(l, D, h) /\ Ok(l)
  BY <1>1, LoadVolume
<1>3. init_fs(D) = fs2_block_dump(l)
  BY <1>2 DEF init_fs, load_or_format
<1> HIDE DEF l
<1>4. CASE v.hblock = h
  <2>1. Loaded(fs2_block_dump(l), D, v.hblock)
    BY <1>1, <1>2, <1>4, DumpSaved
  <2> QED BY <1>3, <2>1
<1>5. CASE FreshHead(h) /\ v.hblock = Dumped(h)
  <2>1. Loaded(fs2_block_dump(l), D, Dumped(h))
    BY <1>2, <1>5, DumpFresh
  <2> QED BY <1>3, <1>5, <2>1
<1> QED BY <1>4, <1>5 DEF HdrSaved

LEMMA EmptyCaches ==
  ASSUME NEW n \in Nat, n # 0, NEW w, NEW D, NEW H, NEW ow, Loaded(w, D, H),
         DiskOK(D, n), HeadOK(H, ow), HasTable(H, n), DiskOwn(D, H, n, ow)
  PROVE  VInv(w, n, n, ow)
<1>1. \A m \in 0..(n - 1) : m \div IPB # -1
  <2> SUFFICES ASSUME NEW m \in 0..(n - 1) PROVE m \div IPB # -1
    OBVIOUS
  <2>1. m \in Nat
    OBVIOUS
  <2>2. m \div IPB \in Nat
    BY <2>1, PlaceIn
  <2> QED BY <2>2
<1>2. ICOK(w.icindex, w.icaddr, w.icache, H, n, ow)
  BY <1>1, ZeroTypes DEF ICOK, Loaded
<1>3. DCOK(w.dcaddr, w.dcache, n)
  BY ZeroTypes DEF DCOK, Loaded
<1>4. BlockOK(w.xcache, n)
  BY DEF BlockOK, Loaded
<1>5. Pending(w.icindex, n, n) /\ n <= n
  BY DEF Pending
<1> QED BY <1>2, <1>3, <1>4, <1>5 DEF VInv, Loaded

\* A restart forgets the caches and the end of the last call, and that is all.
LEMMA RebootKeeps ==
  ASSUME NEW v, NEW n, NEW ow, VInv(v, n, n, ow), v.hblock.next_inode = n, HdrSaved(v)
  PROVE  /\ VInv(init_fs(v.disk), n, n, ow) /\ HdrSaved(init_fs(v.disk))
         /\ init_fs(v.disk).hblock = v.hblock
<1> DEFINE w == init_fs(v.disk)
<1>1. Loaded(w, v.disk, v.hblock)
  BY RebootLoads
<1> HIDE DEF w
<1>2. n \in Nat /\ n # 0 /\ DiskOK(v.disk, n) /\ HeadOK(v.hblock, ow)
      /\ HasTable(v.hblock, n) /\ DiskOwn(v.disk, v.hblock, n, ow)
  BY DEF VInv
<1>3. VInv(w, n, n, ow)
  BY <1>1, <1>2, EmptyCaches
<1>4. w.disk = v.disk /\ w.hblock = v.hblock
  BY <1>1 DEF Loaded
<1>5. HdrSaved(w)
  BY <1>4 DEF HdrSaved
<1> QED BY <1>3, <1>4, <1>5 DEF w

\* The header as formatting begins, and as it leaves it.
EmptyHead == [nblocks |-> NBLOCKS, next_block |-> 1, next_inode |-> 0, regs |-> Regions(HREG)]
NewHead   == [nblocks |-> NBLOCKS, next_block |-> 1 + DREG, next_inode |-> 1, regs |-> Regions(HREG)]

\* Behind the header the disk holds no inodes.
Blank(D) == /\ D = [a \in Addr |-> D[a]]
            /\ \A a \in Addr \ {0} : D[a].kind # "I" /\ BlockOK(D[a], 1)

\* While a disk is formatted: the block of inodes is only ever written over
\* the place of the header.
Formatting(v, H) ==
  /\ IsVol(v) /\ Ok(v) /\ Blank(v.disk) /\ v.hblock = H
  /\ v.icindex = 0 /\ v.icaddr = 0 /\ IsDBlock(v.dcache, 1)

LEMMA BlankWrite ==
  ASSUME NEW D, Blank(D), NEW a \in Addr, NEW b, a # 0 => b.kind # "I" /\ BlockOK(b, 1)
  PROVE  Blank([D EXCEPT ![a] = b]) /\ [D EXCEPT ![a] = b][a] = b
<1> DEFINE E == [D EXCEPT ![a] = b]
<1>1. E = [c \in Addr |-> E[c]] /\ E[a] = b /\ \A c \in Addr : c # a => E[c] = D[c]
  BY DEF Blank
<1> HIDE DEF E
<1>2. \A c \in Addr \ {0} : E[c].kind # "I" /\ BlockOK(E[c], 1)
  BY <1>1 DEF Blank
<1> QED BY <1>1, <1>2 DEF E, Blank

LEMMA FormattingSame ==
  ASSUME NEW v, NEW H, Formatting(v, H), NEW w, Ok(w),
         Only(w, v, {"icache", "outcome", "ret", "log", "dcaddr"})
  PROVE  Formatting(w, H)
<1>1. /\ w["disk"] = v["disk"] /\ w["hblock"] = v["hblock"] /\ w["icindex"] = v["icindex"]
      /\ w["icaddr"] = v["icaddr"] /\ w["dcache"] = v["dcache"] /\ IsVol(w)
  BY DEF Only, Fields
<1> QED BY <1>1 DEF Formatting

LEMMA Zeros == Addr = DOMAIN ZeroDisk /\ 0 \in Addr /\ Blank(ZeroDisk) /\ ZeroDisk[0].kind = "0"
<1>1. Addr = DOMAIN ZeroDisk /\ 0 \in Addr
  BY Consts DEF ZeroDisk, Addr
<1>2. ZeroDisk = [a \in Addr |-> ZeroDisk[a]] /\ \A a \in Addr : ZeroDisk[a].kind = "0"
  BY DEF ZeroDisk, Addr
<1> QED BY <1>1, <1>2 DEF Blank, BlockOK

\* The volume that fs2_format_volume hands to fs2_create_file.
LEMMA FormatStarts ==
  \E v : /\ Formatting(Outcome(v, "SUCCESS"), EmptyHead) /\ v.icindex = 0 /\ v.hblock = EmptyHead
         /\ init_fs(ZeroDisk) = fs2_create_file(v, <<>>, 0, "DIR")
<1> DEFINE p == PowerUp(ZeroDisk)
           l == Outcome(p, "INVALID_FS")
           v == Set(l, "hblock", EmptyHead)
           g == Outcome(v, "SUCCESS")
<1>1. /\ IsVol(p) /\ p.disk = ZeroDisk /\ p.icindex = 0 /\ p.icaddr = 0 /\ p.dcache = ZeroDBlock
  BY DEF PowerUp, IsVol, Fields
<1> HIDE DEF p
<1>2. fs2_load_volume(p) = l
  BY <1>1, Zeros DEF fs2_load_volume
<1>3. Only(l, p, {"outcome"}) /\ l.outcome = "INVALID_FS"
  BY <1>1, OutcomeFields
<1> HIDE DEF l
<1>4. init_fs(ZeroDisk) = fs2_format_volume(l)
  BY <1>2, <1>3 DEF init_fs, load_or_format, Ok, p
<1>5. fs2_format_volume(l) = fs2_create_file(v, <<>>, 0, "DIR")
  <2>1. ~(NBLOCKS < 1 + IREG + DREG \/ DREG = 0 \/ FREG = 0 \/ IREG = 0)
    BY FS2Assumption
  <2>2. [l EXCEPT !.hblock = [nblocks |-> NBLOCKS, next_block |-> 1, next_inode |-> 0,
                              regs |-> Regions(HREG)]] = v
    BY DEF Set, EmptyHead
  <2> HIDE DEF v
  <2> QED BY <2>1, <2>2 DEF fs2_format_volume
<1>6. IsVol(l) /\ "hblock" \in Fields
  BY <1>3 DEF Only, Fields
<1>7. Only(v, l, {"hblock"}) /\ v["hblock"] = EmptyHead
  BY <1>6, SetIs
<1> HIDE DEF v
<1>8. IsVol(v) /\ v["disk"] = l["disk"] /\ v["icindex"] = l["icindex"] /\ v["icaddr"] = l["icaddr"]
      /\ v["dcache"] = l["dcache"]
  BY <1>7 DEF Only, Fields
<1>9. l["disk"] = p["disk"] /\ l["icindex"] = p["icindex"] /\ l["icaddr"] = p["icaddr"]
      /\ l["dcache"] = p["dcache"]
  BY <1>3 DEF Only, Fields
<1>10. Only(g, v, {"outcome"}) /\ g.outcome = "SUCCESS"
  BY <1>8, OutcomeFields
<1> HIDE DEF g
<1>11. g["disk"] = v["disk"] /\ g["hblock"] = v["hblock"] /\ g["icindex"] = v["icindex"]
       /\ g["icaddr"] = v["icaddr"] /\ g["dcache"] = v["dcache"] /\ IsVol(g)
  BY <1>10 DEF Only, Fields
<1>12. IsDBlock(ZeroDBlock, 1)
  BY ZeroTypes
<1>13. Formatting(g, EmptyHead) /\ v.icindex = 0 /\ v.hblock = EmptyHead
  BY <1>1, <1>7, <1>8, <1>9, <1>10, <1>11, <1>12, Zeros DEF Formatting, Ok
<1> QED BY <1>4, <1>5, <1>13 DEF g

\* The inode of the root directory and its region.
LEMMA FormatInode ==
  ASSUME NEW g, Formatting(g, EmptyHead), NEW s
  PROVE  Formatting(fs2_init_inode(g, s, "DIR"), TakenHead(EmptyHead, DREG))
<1> DEFINE e == [ftype |-> "DIR", eof |-> 0, regs |-> Cleared(g.icache[s].regs)]
           u == PutInode(g, s, e)
           x == fs2_find_free_region(u, DREG, FALSE)
           y == new_dregion(x, s, 0)
<1>1. fs2_init_inode(g, s, "DIR") = y
  <2>1. [g EXCEPT !.icache[s] = [ftype |-> "DIR", eof |-> 0, regs |-> Cleared(@.regs)]] = u
    BY DEF PutInode, Set
  <2>2. Ok(g)
    BY DEF Formatting
  <2> HIDE DEF u
  <2> QED BY <2>1, <2>2 DEF fs2_init_inode
<1> HIDE DEF e
<1>2. Only(u, g, {"icache"})
  <2>1. IsVol(g) /\ "icache" \in Fields
    BY DEF Formatting, Fields
  <2> QED BY <2>1, SetIs DEF PutInode
<1> HIDE DEF u
<1>3. /\ u["disk"] = g["disk"] /\ u["hblock"] = g["hblock"] /\ u["icindex"] = g["icindex"]
      /\ u["icaddr"] = g["icaddr"] /\ u["dcache"] = g["dcache"] /\ IsVol(u)
  BY <1>2 DEF Only, Fields
<1>4. ~(u.hblock.next_block + DREG > u.hblock.nblocks) /\ u.hblock.next_block = 1
  <2>1. u.hblock = EmptyHead
    BY <1>3 DEF Formatting
  <2>2. EmptyHead.next_block = 1 /\ EmptyHead.nblocks = NBLOCKS
    BY DEF EmptyHead
  <2>3. ~(1 + DREG > NBLOCKS)
    BY FS2Assumption
  <2> QED BY <2>1, <2>2, <2>3
<1>5. Only(x, u, {"outcome", "ret", "hblock"}) /\ x.outcome = "SUCCESS" /\ x.ret = 1
      /\ x.hblock = TakenHead(u.hblock, DREG)
  BY <1>3, <1>4, TakeFits
<1> HIDE DEF x
<1>6. /\ x["disk"] = u["disk"] /\ x["icindex"] = u["icindex"]
      /\ x["icaddr"] = u["icaddr"] /\ x["dcache"] = u["dcache"] /\ IsVol(x)
  BY <1>5 DEF Only, Fields
<1>7. Formatting(x, TakenHead(EmptyHead, DREG))
  BY <1>3, <1>5, <1>6 DEF Formatting, Ok
<1> DEFINE c == [x.icache EXCEPT ![s].regs[0] = [start |-> 1, len |-> DREG]]
<1>8. y = Set(x, "icache", c)
  BY <1>5 DEF new_dregion, Set
<1> HIDE DEF c, y
<1>9. Only(y, x, {"icache"})
  <2>1. "icache" \in Fields
    BY DEF Fields
  <2> QED BY <1>6, <1>8, <2>1, SetIs
<1>10. Ok(y)
  <2>1. y["outcome"] = x["outcome"]
    BY <1>9 DEF Only, Fields
  <2> QED BY <1>5, <2>1 DEF Ok
<1>11. Only(y, x, {"icache", "outcome", "ret", "log", "dcaddr"})
  BY <1>9, OnlyMore
<1> QED BY <1>1, <1>7, <1>10, <1>11, FormattingSame

LEMMA FormatSet ==
  ASSUME NEW v, NEW H, Formatting(v, H), NEW k, NEW e, e.ino = 0
  PROVE  Formatting([v EXCEPT !.dcache[k] = e], H)
<1> DEFINE b == [v.dcache EXCEPT ![k] = e]
           w == Set(v, "dcache", b)
<1>1. [v EXCEPT !.dcache[k] = e] = w
  BY DEF Set
<1>2. IsVol(v) /\ "dcache" \in Fields
  BY DEF Formatting, Fields
<1>3. IsDBlock(b, 1)
  <2>1. IsDBlock(v.dcache, 1) /\ e.ino \in 0..(1 - 1)
    BY DEF Formatting
  <2> QED BY <2>1 DEF IsDBlock
<1> HIDE DEF b
<1>4. Only(w, v, {"dcache"}) /\ w["dcache"] = b
  BY <1>2, SetIs
<1> HIDE DEF w
<1>5. /\ w["disk"] = v["disk"] /\ w["hblock"] = v["hblock"] /\ w["icindex"] = v["icindex"]
      /\ w["icaddr"] = v["icaddr"] /\ w["outcome"] = v["outcome"] /\ IsVol(w)
  BY <1>4 DEF Only, Fields
<1>6. Formatting(w, H)
  BY <1>3, <1>4, <1>5 DEF Formatting, Ok
<1> QED BY <1>1, <1>6

LEMMA FormatWrite ==
  ASSUME NEW v, NEW H, Formatting(v, H), NEW a, NEW b, a # 0 => b.kind # "I" /\ BlockOK(b, 1)
  PROVE  /\ Formatting(Outcome(fs2_wblk(v, a, b), "SUCCESS"), H)
         /\ a \in Addr => Formatting(fs2_wblk(v, a, b), H) /\ fs2_wblk(v, a, b).disk[a] = b
<1> DEFINE w == fs2_wblk(v, a, b)
           o == Outcome(w, "SUCCESS")
<1>1. IsVol(v) /\ DOMAIN v.disk = Addr /\ Blank(v.disk)
  BY DEF Formatting, Blank
<1>2. CASE a \notin Addr
  <2>1. Only(w, v, {"outcome"})
    BY <1>1, <1>2, WriteFails
  <2> HIDE DEF w
  <2>2. IsVol(w)
    BY <2>1 DEF Only
  <2>3. Only(o, w, {"outcome"}) /\ o.outcome = "SUCCESS"
    BY <2>2, OutcomeFields
  <2> HIDE DEF o
  <2>4. Only(o, v, {"icache", "outcome", "ret", "log", "dcaddr"}) /\ Ok(o)
    BY <2>1, <2>3 DEF Only, Ok
  <2>5. Formatting(o, H)
    BY <2>4, FormattingSame
  <2> QED BY <1>2, <2>5 DEF o, w
<1>3. CASE a \in Addr
  <2> DEFINE E == [v.disk EXCEPT ![a] = b]
  <2>1. Only(w, v, {"disk", "log", "outcome"}) /\ w.disk = E /\ Ok(w)
    BY <1>1, <1>3, WriteFields
  <2>2. Blank(E) /\ E[a] = b
    BY <1>1, <1>3, BlankWrite
  <2> HIDE DEF w, E
  <2>3. /\ w["hblock"] = v["hblock"] /\ w["icindex"] = v["icindex"]
        /\ w["icaddr"] = v["icaddr"] /\ w["dcache"] = v["dcache"] /\ IsVol(w)
    BY <2>1 DEF Only, Fields
  <2>4. Formatting(w, H) /\ w.disk[a] = b
    BY <2>1, <2>2, <2>3 DEF Formatting
  <2>5. Only(o, w, {"outcome"}) /\ o.outcome = "SUCCESS"
    BY <2>3, OutcomeFields
  <2> HIDE DEF o
  <2>6. Only(o, w, {"icache", "outcome", "ret", "log", "dcaddr"}) /\ Ok(o)
    BY <2>5, OnlyMore DEF Ok
  <2>7. Formatting(o, H)
    BY <2>4, <2>6, FormattingSame
  <2> QED BY <2>4, <2>7 DEF o, w
<1> QED BY <1>2, <1>3

\* Its entries, wherever they are written.
LEMMA FormatEntries ==
  ASSUME NEW v, NEW H, Formatting(v, H)
  PROVE  Formatting(populate(v, 0, 0, "DIR"), H)
<1> DEFINE s == 0 % IPB
           da == v.icache[s].regs[0].start
           x == fs2_load_dblock_c(v, da, TRUE)
           e0 == [ino |-> 0, name |-> Dot]
           e1 == [ino |-> 0, name |-> DotDot]
           y == [x EXCEPT !.dcache[0] = e0]
           z == [y EXCEPT !.dcache[1] = e1]
           u == PutInode(z, s, [z.icache[s] EXCEPT !.eof = 2])
           g == fs2_save_dblock_c(u)
           w == populate(v, 0, 0, "DIR")
<1>1. w = Outcome(g, "SUCCESS")
  <2>1. [x EXCEPT !.dcache[0] = e0, !.dcache[1] = e1, !.icache[s].eof = 2] = u
    <3> HIDE DEF x, e0, e1, s
    <3> QED BY DEF PutInode, Set
  <2>2. Ok(v)
    BY DEF Formatting
  <2> HIDE DEF u
  <2> QED BY <2>1, <2>2 DEF populate, cached_inode
<1> HIDE DEF w, da, s
<1>2. Formatting(x, H)
  <2> DEFINE q == Set3(v, "dcache", v.dcache, "dcaddr", da, "outcome", "SUCCESS")
  <2>1. x = q
    BY DEF fs2_load_dblock_c, Set3, Set
  <2>2. IsVol(v) /\ "dcache" \in Fields /\ "dcaddr" \in Fields /\ "outcome" \in Fields
    BY DEF Formatting, Fields
  <2> HIDE DEF x
  <2>3. Only(q, v, {"dcache", "dcaddr", "outcome"}) /\ q["dcache"] = v.dcache
        /\ q["outcome"] = "SUCCESS"
    BY <2>2, Set3Is
  <2> HIDE DEF q
  <2>4. Only(q, v, {"icache", "outcome", "ret", "log", "dcaddr"}) /\ Ok(q)
    <3>1. q["dcache"] = v["dcache"]
      BY <2>3
    <3> QED BY <2>3, <3>1 DEF Only, Ok
  <2> QED BY <2>1, <2>4, FormattingSame
<1> HIDE DEF x
<1>3. e0.ino = 0 /\ e1.ino = 0
  OBVIOUS
<1> HIDE DEF e0, e1
<1>4. Formatting(y, H)
  BY <1>2, <1>3, FormatSet
<1> HIDE DEF y
<1>5. Formatting(z, H)
  BY <1>3, <1>4, FormatSet
<1> HIDE DEF z
<1>6. Only(u, z, {"icache"})
  <2>1. IsVol(z) /\ "icache" \in Fields
    BY <1>5 DEF Formatting, Fields
  <2> QED BY <2>1, SetIs DEF PutInode
<1> HIDE DEF u
<1>7. Formatting(u, H)
  <2>1. u["outcome"] = z["outcome"] /\ Only(u, z, {"icache", "outcome", "ret", "log", "dcaddr"})
    BY <1>6 DEF Only, Fields
  <2>2. Ok(u)
    BY <1>5, <2>1 DEF Formatting, Ok
  <2> QED BY <1>5, <2>1, <2>2, FormattingSame
<1> DEFINE b == [kind |-> "D", data |-> u.dcache]
<1>8. g = fs2_wblk(u, u.dcaddr, b)
  BY DEF fs2_save_dblock_c
<1>9. b.kind # "I" /\ BlockOK(b, 1)
  BY <1>7 DEF Formatting, BlockOK
<1> HIDE DEF b, g
<1>10. Formatting(Outcome(fs2_wblk(u, u.dcaddr, b), "SUCCESS"), H)
  BY <1>7, <1>9, FormatWrite
<1> QED BY <1>1, <1>8, <1>10 DEF w

Formatted(D) == Blank(D) /\ D[0] = [kind |-> "H", data |-> NewHead]

\* What is written in the place of the header goes first.
LEMMA FormatDone ==
  ASSUME NEW v, Formatting(v, TakenHead(EmptyHead, DREG))
  PROVE  Formatted(finish_create(v).disk)
<1> DEFINE H == TakenHead(EmptyHead, DREG)
           bi == [kind |-> "I", data |-> v.icache]
           s == fs2_save_iblock_c(v)
           G == [s.hblock EXCEPT !.next_inode = @ + 1]
           u == Set(s, "hblock", G)
           b == [kind |-> "H", data |-> u.hblock]
           w == save_hblock(u)
<1>1. finish_create(v) = w
  <2>1. [s EXCEPT !.hblock.next_inode = @ + 1] = u
    BY DEF Set
  <2>2. Ok(v)
    BY DEF Formatting
  <2> HIDE DEF u
  <2> QED BY <2>1, <2>2 DEF finish_create
<1>2. s = fs2_wblk(v, 0, bi)
  BY DEF fs2_save_iblock_c, Formatting
<1> HIDE DEF bi, s
<1>3. Formatting(s, H)
  <2>1. Formatting(fs2_wblk(v, 0, bi), H)
    <3> HIDE DEF H
    <3> QED BY Zeros, FormatWrite DEF H
  <2> QED BY <1>2, <2>1
<1>4. G = NewHead
  <2> DEFINE q == [nblocks |-> NBLOCKS, next_block |-> 1 + DREG, next_inode |-> 0,
                   regs |-> Regions(HREG)]
  <2>1. s.hblock = TakenHead(EmptyHead, DREG)
    BY <1>3 DEF Formatting
  <2> HIDE DEF u, w, b
  <2>2. TakenHead(EmptyHead, DREG) = q
    BY DEF TakenHead, EmptyHead
  <2>3. [q EXCEPT !.next_inode = @ + 1] = NewHead
    BY DEF NewHead
  <2> HIDE DEF q
  <2> QED BY <2>1, <2>2, <2>3
<1> HIDE DEF H, G
<1>5. Only(u, s, {"hblock"}) /\ u["hblock"] = G
  <2>1. IsVol(s) /\ "hblock" \in Fields
    BY <1>3 DEF Formatting, Fields
  <2> QED BY <2>1, SetIs
<1> HIDE DEF u
<1>6. u["disk"] = s["disk"] /\ IsVol(u)
  BY <1>5 DEF Only, Fields
<1>7. w = fs2_wblk(u, 0, b)
  BY DEF save_hblock
<1>8. Blank(s.disk) /\ DOMAIN u.disk = Addr /\ 0 \in Addr
  BY <1>3, <1>6, Zeros DEF Formatting, Blank
<1> HIDE DEF w, b
<1>9. w.disk = [s.disk EXCEPT ![0] = b]
  <2>1. fs2_wblk(u, 0, b).disk = [u.disk EXCEPT ![0] = b]
    BY <1>6, <1>8, WriteFields
  <2> QED BY <1>6, <1>7, <2>1
<1>10. Blank([s.disk EXCEPT ![0] = b]) /\ [s.disk EXCEPT ![0] = b][0] = b
  BY <1>8, BlankWrite
<1>11. b = [kind |-> "H", data |-> NewHead]
  BY <1>4, <1>5 DEF b
<1> QED BY <1>1, <1>9, <1>10, <1>11 DEF Formatted

\* What the first start leaves on a disk of zeros.
LEMMA FirstDisk == Formatted(init_fs(ZeroDisk).disk)
<1>1. PICK v : /\ Formatting(Outcome(v, "SUCCESS"), EmptyHead) /\ v.icindex = 0 /\ v.hblock = EmptyHead
               /\ init_fs(ZeroDisk) = fs2_create_file(v, <<>>, 0, "DIR")
  BY FormatStarts
<1> DEFINE g == fs2_get_iblock_c(v, 0 \div IPB, TRUE, FALSE)
           x == fs2_init_inode(g, 0 % IPB, "DIR")
           y == populate(x, 0, 0, "DIR")
           z == link_parent(y, <<>>, 0, 0)
<1>2. fs2_create_file(v, <<>>, 0, "DIR") = finish_create(z)
  <2>1. v.hblock.next_inode = 0
    BY <1>1 DEF EmptyHead
  <2> QED BY <2>1 DEF fs2_create_file
<1>3. z = y
  BY DEF link_parent
<1>4. g = Outcome(v, "SUCCESS")
  <2>1. 0 \div IPB = 0
    <3>1. \A k \in Nat : k # 0 => 0 \div k = 0
      OBVIOUS
    <3> QED BY <3>1, Consts
  <2> QED BY <1>1, <2>1 DEF fs2_get_iblock_c
<1> HIDE DEF g, z
<1>5. Formatting(x, TakenHead(EmptyHead, DREG))
  BY <1>1, <1>4, FormatInode
<1> HIDE DEF x
<1>6. Formatting(y, TakenHead(EmptyHead, DREG))
  BY <1>5, FormatEntries
<1> HIDE DEF y
<1>7. Formatted(finish_create(y).disk)
  BY <1>6, FormatDone
<1> QED BY <1>1, <1>2, <1>3, <1>7

LEMMA NewHeadIs ==
  /\ FreshHead(NewHead) /\ NewHead.next_inode = 1 /\ NewHead.next_block = 1 + DREG
  /\ NewHead.nblocks = NBLOCKS /\ NewHead.regs \in [0..(HREG - 1) -> RegT]
<1>1. HREG \in Nat /\ DREG \in Nat /\ IREG \in Nat /\ NBLOCKS \in Nat
  BY Consts
<1>2. Regions(HREG) \in [0..(HREG - 1) -> RegT] /\ \A i \in 0..(HREG - 1) : Regions(HREG)[i].start = 0
  <2>1. Regions(HREG) \in [0..(HREG - 1) -> RegT]
    BY <1>1, ZeroTypes
  <2> QED BY <2>1 DEF Regions
<1> DEFINE r == Regions(HREG)
<1> HIDE DEF r
<1>3. NewHead = [nblocks |-> NBLOCKS, next_block |-> 1 + DREG, next_inode |-> 1, regs |-> r]
  BY DEF NewHead, r
<1>4. 1 + DREG \in Nat /\ 1 + DREG # 0 /\ ~((1 + DREG) + IREG > NBLOCKS)
  BY <1>1, FS2Assumption
<1>5. r \in [0..(HREG - 1) -> RegT] /\ \A i \in 0..(HREG - 1) : r[i].start = 0
  BY <1>2 DEF r
<1>6. NewHead \in HeadT /\ NewHead.next_inode = 1 /\ NewHead.next_block = 1 + DREG
      /\ NewHead.nblocks = NBLOCKS /\ NewHead.regs = r
  BY <1>1, <1>3, <1>4, <1>5 DEF HeadT
<1>7. FreshHead(NewHead)
  BY <1>4, <1>5, <1>6 DEF FreshHead
<1> QED BY <1>5, <1>6, <1>7

\* Who owns the blocks of a new volume.
TableOwner == Given([a \in Nat |-> 0], 1 + DREG, IREG, <<-1, 0>>)

LEMMA NewTable ==
  LET H == Dumped(NewHead)
  IN  /\ HeadOK(H, TableOwner) /\ find_blk(H.regs, 0) = 1 + DREG /\ H.next_inode = 1
<1> DEFINE h == NewHead
           nb == 1 + DREG
           q == NewRegion(h.regs, nb, IREG)
           H == Dumped(h)
<1>1. h \in HeadT /\ h.next_inode = 1 /\ h.next_block = nb /\ h.nblocks = NBLOCKS
      /\ h.regs \in [0..(HREG - 1) -> RegT] /\ Used(h.regs) = 0
      /\ \A i \in 0..(HREG - 1) : h.regs[i].start = 0
  BY NewHeadIs, FreshUsed DEF FreshHead
<1>2. HREG \in Nat /\ HREG # 0 /\ IREG \in Nat /\ IREG # 0 /\ nb \in Nat /\ nb # 0
      /\ nb + IREG <= NBLOCKS /\ NBLOCKS <= BLOCK_NUM /\ NBLOCKS \in Nat
  BY Consts, FS2Assumption
<1> HIDE DEF h, nb
<1>3. q \in [0..(HREG - 1) -> RegT] /\ find_blk(q, Before(h.regs, 0)) = nb
  <2>1. Used(h.regs) < HREG /\ h.regs \in [0..(HREG - 1) -> RegT] /\ HREG \in Nat
    BY <1>1, <1>2
  <2> HIDE DEF H, q
  <2>2. /\ NewRegion(h.regs, nb, IREG) \in [0..(HREG - 1) -> RegT]
        /\ find_blk(NewRegion(h.regs, nb, IREG), Before(h.regs, Used(h.regs))) = nb
    BY <1>2, <2>1, FindNew
  <2> QED BY <1>1, <2>2 DEF q
<1>4. Before(h.regs, 0) = 0
  BY <1>1, <1>2, BeforeIs
<1>5. q[0] = [start |-> nb, len |-> IREG] /\ \A i \in 0..(HREG - 1) : i # 0 => q[i] = h.regs[i]
  <2>1. 0 \in 0..(HREG - 1)
    BY <1>2
  <2> QED BY <1>1, <2>1 DEF NewRegion
<1> HIDE DEF q
<1>6. H \in HeadT /\ H.nblocks = NBLOCKS /\ H.next_block = nb + IREG /\ H.next_inode = 1 /\ H.regs = q
  <2> DEFINE T == TakenHead(h, IREG)
  <2>1. T \in HeadT /\ T.nblocks = NBLOCKS /\ T.next_block = nb + IREG /\ T.next_inode = 1
        /\ T.regs = h.regs
    BY <1>1, <1>2 DEF TakenHead, HeadT
  <2>2. H = [T EXCEPT !.regs = NewRegion(T.regs, nb, IREG)]
    BY <1>1 DEF Dumped, WithRegion
  <2> HIDE DEF T, H
  <2>3. H = [T EXCEPT !.regs = q]
    BY <2>1, <2>2 DEF q
  <2> QED BY <1>3, <2>1, <2>3 DEF HeadT
<1> HIDE DEF H
<1>7. Mine(q, -1, nb + IREG, TableOwner)
  <2>1. \A o, e, ow : Mine(h.regs, o, e, ow)
    BY <1>1 DEF Mine
  <2> DEFINE o == -1
             ow == [a \in Nat |-> 0]
  <2>2. 0 \in 0..(HREG - 1)
    BY <1>2
  <2> HIDE DEF o, ow
  <2> DEFINE s == [h.regs EXCEPT ![0] = [start |-> nb, len |-> IREG]]
             x == Given(ow, nb, IREG, <<o, 0>>)
  <2>3. Mine(s, o, nb + IREG, x)
    BY <1>1, <1>2, <2>1, <2>2, MineGiven
  <2>4. q = s /\ TableOwner = x
    BY <1>1 DEF q, NewRegion, TableOwner, nb, o, ow
  <2> HIDE DEF s, x
  <2>5. Mine(q, o, nb + IREG, TableOwner)
    BY <2>3, <2>4
  <2> QED BY <2>5 DEF o
<1>8. H.next_block \in 1..H.nblocks /\ H.nblocks <= BLOCK_NUM
  BY <1>2, <1>6
<1>9. HeadOK(H, TableOwner)
  BY <1>6, <1>7, <1>8 DEF HeadOK
<1> QED BY <1>3, <1>4, <1>6, <1>9 DEF H, h, nb

\* The volume as the second start finds it: the root directory, whose inode is
\* read as one never written.
LEMMA SecondStart ==
  LET v == init_fs(init_fs(ZeroDisk).disk)
  IN  VInv(v, 1, 1, TableOwner) /\ HdrSaved(v) /\ v.hblock.next_inode = 1
<1> DEFINE D == init_fs(ZeroDisk).disk
           H == Dumped(NewHead)
           l == fs2_load_volume(PowerUp(D))
           v == init_fs(D)
<1>1. Blank(D) /\ D[0] = [kind |-> "H", data |-> NewHead]
  BY FirstDisk DEF Formatted
<1> HIDE DEF D
<1>2. Loaded(l, D, NewHead) /\ Ok(l)
  BY <1>1, LoadVolume
<1>3. Loaded(v, D, H)
  <2>1. v = fs2_block_dump(l)
    BY <1>2 DEF init_fs, load_or_format
  <2> HIDE DEF l, v, H
  <2>2. Loaded(fs2_block_dump(l), D, Dumped(NewHead))
    BY <1>2, NewHeadIs, DumpFresh
  <2> QED BY <2>1, <2>2 DEF H
<1>4. HeadOK(H, TableOwner) /\ find_blk(H.regs, 0) = 1 + DREG /\ H.next_inode = 1
  BY NewTable
<1>5. HdrSaved(v)
  <2>1. v.disk[0].data = NewHead /\ v.hblock = Dumped(NewHead)
    BY <1>1, <1>3 DEF Loaded
  <2> HIDE DEF v
  <2> QED BY <2>1, NewHeadIs DEF HdrSaved
<1> HIDE DEF v, H
<1>6. 0 \div IPB = 0 /\ 0 % IPB \in 0..(IPB - 1) /\ \A m \in 0..(1 - 1) : m = 0
  <2>1. \A k \in Nat : k # 0 => 0 \div k = 0
    OBVIOUS
  <2>2. 0 \in Nat
    OBVIOUS
  <2> QED BY <2>1, <2>2, Consts, PlaceIn
<1>7. HasTable(H, 1)
  <2>1. 1 + DREG # 0
    BY Consts
  <2> QED BY <1>4, <1>6, <2>1 DEF HasTable
<1>8. DiskOK(D, 1)
  <2>1. BlockOK(D[0], 1)
    BY <1>1 DEF BlockOK
  <2> QED BY <1>1, <2>1 DEF DiskOK, Blank
<1>9. DiskOwn(D, H, 1, TableOwner)
  <2>1. 1 + DREG \in Addr \ {0}
    <3>1. DREG \in Nat /\ IREG \in Nat /\ IREG # 0 /\ BLOCK_NUM \in Nat /\ NBLOCKS \in Nat
      BY Consts
    <3>2. 1 + IREG + DREG <= NBLOCKS /\ NBLOCKS <= BLOCK_NUM
      BY <3>1, FS2Assumption
    <3> QED BY <3>1, <3>2 DEF Addr
  <2>2. AsI(D[1 + DREG]) = ZeroIBlock
    BY <1>1, <2>1 DEF Blank, AsI
  <2>3. OnDisk(D, H, 0) = ZeroIBlock[0 % IPB]
    BY <1>4, <1>6, <2>2 DEF OnDisk
  <2>4. OnDisk(D, H, 0) = ZeroInode
    BY <1>6, <2>3 DEF ZeroIBlock
  <2>5. \A i \in DOMAIN ZeroInode.regs : ZeroInode.regs[i].start = 0
    BY DEF ZeroInode, Regions
  <2>6. \A m, e : Mine(ZeroInode.regs, m, e, TableOwner)
    BY <2>5 DEF Mine
  <2> QED BY <1>6, <2>4, <2>6 DEF DiskOwn
<1>10. VInv(v, 1, 1, TableOwner)
  <2>1. 1 \in Nat /\ 1 # 0
    OBVIOUS
  <2> QED BY <1>3, <1>4, <1>7, <1>8, <1>9, <2>1, EmptyCaches
<1>11. v.hblock.next_inode = 1
  BY <1>3, <1>4 DEF Loaded
<1> QED BY <1>5, <1>10, <1>11 DEF v, D

-----------------------------------------------------------------------------
(* Looking up *)

\* An inode in use, in the cache or on the disk, owns its regions.
LEMMA InodeIs ==
  ASSUME NEW v, NEW n, NEW ow, VInv(v, n, n, ow), NEW m \in 0..(n - 1)
  PROVE  Inode(v, m) \in InodeT /\ Mine(Inode(v, m).regs, m, v.hblock.next_block, ow)
<1> DEFINE a == find_blk(v.hblock.regs, m \div IPB)
<1>1. n \in Nat /\ n # 0 /\ m \in Nat /\ HeadOK(v.hblock, ow) /\ HasTable(v.hblock, n)
  BY DEF VInv
<1>2. m % IPB \in 0..(IPB - 1)
  BY <1>1, PlaceIn
<1>3. CASE v.icindex = m \div IPB
  <2>1. Inode(v, m) = v.icache[m % IPB]
    BY <1>3 DEF Inode
  <2>2. v.icache \in IBlockT /\ Mine(v.icache[m % IPB].regs, m, v.hblock.next_block, ow)
    BY <1>3 DEF VInv, ICOK
  <2> QED BY <1>2, <2>1, <2>2, IBlockAt
<1>4. CASE v.icindex # m \div IPB
  <2>1. Inode(v, m) = AsI(v.disk[a])[m % IPB]
    BY <1>4 DEF Inode
  <2>2. a \in Addr
    BY <1>1, TableAt
  <2>3. Mine(AsI(v.disk[a])[m % IPB].regs, m, v.hblock.next_block, ow)
    BY DEF VInv, DiskOwn, OnDisk
  <2> HIDE DEF a
  <2>4. BlockOK(v.disk[a], n)
    BY <2>2 DEF VInv, DiskOK
  <2>5. AsI(v.disk[a]) \in IBlockT
    BY <1>1, <2>4, AsTypes
  <2> QED BY <1>2, <2>1, <2>3, <2>5, IBlockAt
<1> QED BY <1>3, <1>4

\* The entries of a directory name inodes in use.
LEMMA EntryIs ==
  ASSUME NEW v, NEW n, NEW ow, VInv(v, n, n, ow), NEW m \in 0..(n - 1),
         NEW e \in Range(DirEntries(v, m))
  PROVE  e.ino \in 0..(n - 1)
<1> DEFINE d == Inode(v, m)
           at(k) == find_blk(d.regs, k \div DPB)
<1>1. n \in Nat /\ n # 0 /\ NREG \in Nat /\ HeadOK(v.hblock, ow) /\ DiskOK(v.disk, n)
      /\ IsDBlock(v.dcache, n) /\ v.hblock.next_block \in Nat /\ v.hblock.nblocks \in Nat
      /\ v.hblock.next_block <= v.hblock.nblocks /\ v.hblock.nblocks <= BLOCK_NUM /\ BLOCK_NUM \in Nat
      /\ BLOCK_NUM # 0
  BY Consts DEF VInv, HeadOK, HeadT, DCOK
<1>2. d.eof \in Nat /\ d.regs \in [0..(NREG - 1) -> RegT] /\ Mine(d.regs, m, v.hblock.next_block, ow)
  BY InodeIs DEF InodeT
<1>3. PICK k \in 0..(d.eof - 1) :
        e = (IF v.dcaddr = at(k) THEN v.dcache ELSE AsD(v.disk[at(k)]))[k % DPB]
  BY DEF DirEntries, Range
<1> HIDE DEF d
<1>4. k \div DPB \in Nat /\ k % DPB \in 0..(DPB - 1)
  <2>1. k \in Nat /\ DPB \in Nat /\ DPB # 0
    BY <1>2, Consts
  <2> QED BY <2>1, Division
<1>5. at(k) \in Addr
  <2>1. at(k) # 0 => at(k) \in 1..(v.hblock.next_block - 1)
    BY <1>1, <1>2, <1>4, FindMine
  <2> HIDE DEF at
  <2> QED BY <1>1, <2>1 DEF Addr
<1> HIDE DEF at
<1>6. IsDBlock(AsD(v.disk[at(k)]), n)
  <2>1. BlockOK(v.disk[at(k)], n)
    BY <1>1, <1>5 DEF DiskOK
  <2> QED BY <1>1, <2>1, AsTypes
<1> QED BY <1>1, <1>3, <1>4, <1>6 DEF IsDBlock

LEMMA FollowIs ==
  ASSUME NEW v, NEW n, NEW ow, VInv(v, n, n, ow), NEW i, i # -1 => i \in 0..(n - 1), NEW name
  PROVE  Follow(v, i, name) # -1 => Follow(v, i, name) \in 0..(n - 1)
<1> DEFINE S == {e \in Links(v, i) : e.name = name}
<1>1. ASSUME NEW e \in S PROVE e.ino \in 0..(n - 1)
  <2>1. i # -1 /\ e \in Range(DirEntries(v, i))
    BY <1>1 DEF Links
  <2> QED BY <2>1, EntryIs
<1>2. Follow(v, i, name) = IF S = {} THEN -1 ELSE (CHOOSE e \in S : TRUE).ino
  BY DEF Follow
<1> HIDE DEF S
<1> QED BY <1>1, <1>2

\* A path leads to an inode in use, if to any.
LEMMA LookupIs ==
  ASSUME NEW v, NEW n, NEW ow, VInv(v, n, n, ow), NEW path, path \in Seq(Range(path))
  PROVE  Lookup(v, path) # -1 => Lookup(v, path) \in 0..(n - 1)
<1> DEFINE m == Len(path)
           t == [loop |-> "follow", path |-> path, vol |-> v]
<1>1. m \in Nat
  OBVIOUS
<1>2. PICK f : Rounds(f, m, 0, t) /\ Lookup(v, path) = f[m]
  BY FollowLoop
<1>3. ASSUME NEW w, NEW i PROVE Round(t, w, i) = Follow(v, w, path[i])
  BY DEF Round
<1> HIDE DEF m, t
<1>4. f[0] = 0 /\ \A j \in 1..m : f[j] = Round(t, f[j - 1], j)
  BY <1>1, <1>2, RoundsAre
<1> DEFINE S == {j \in 0..m : f[j] # -1 => f[j] \in 0..(n - 1)}
<1>5. 0 \in S
  <2>1. n \in Nat /\ n # 0
    BY DEF VInv
  <2> QED BY <1>1, <1>4, <2>1
<1>6. ASSUME NEW j \in 1..m, j - 1 \in S PROVE j \in S
  <2>1. f[j - 1] # -1 => f[j - 1] \in 0..(n - 1)
    BY <1>6
  <2>2. f[j] = Follow(v, f[j - 1], path[j])
    BY <1>3, <1>4
  <2>3. f[j] # -1 => f[j] \in 0..(n - 1)
    BY <2>1, <2>2, FollowIs
  <2> QED BY <1>1, <2>3
<1>7. 0..m \subseteq S
  <2> HIDE DEF S
  <2> QED BY <1>1, <1>5, <1>6, UpTo
<1> QED BY <1>1, <1>2, <1>7

-----------------------------------------------------------------------------
(* The invariant *)

\* Between two calls the inodes in use are those the header counts, and a
\* restart would find the header as it is in memory.
Sound(v) ==
  /\ \E n \in Nat : \E ow : VInv(v, n, n, ow) /\ v.hblock.next_inode = n
  /\ HdrSaved(v)

FS2Inv == Sound(vol) /\ vol.par = 0 /\ tree = TreeOf(vol)

LEMMA SettleIs ==
  ASSUME NEW v, IsVol(v)
  PROVE  Only(Settle(v), v, Results) /\ Settle(v).par = 0
<1> DEFINE w == Set3(v, "ret", 0, "par", 0, "log", <<>>)
<1>1. Settle(v) = w
  BY DEF Settle, Set, Set3
<1>2. "ret" \in Fields /\ "par" \in Fields /\ "log" \in Fields
  BY DEF Fields
<1>3. Only(w, v, {"ret", "par", "log"}) /\ w["par"] = 0
  BY <1>2, Set3Is
<1> HIDE DEF w
<1>4. Only(w, v, Results)
  BY <1>3, OnlyMore DEF Results
<1> QED BY <1>1, <1>3, <1>4

\* The end of a call.
LEMMA SettleSound ==
  ASSUME NEW v, Sound(v)
  PROVE  Sound(Settle(v)) /\ Settle(v).par = 0 /\ Settle(v).hblock = v.hblock
<1> DEFINE w == Settle(v)
<1>1. PICK n \in Nat : \E ow : VInv(v, n, n, ow) /\ v.hblock.next_inode = n
  BY DEF Sound
<1>2. PICK ow : VInv(v, n, n, ow) /\ v.hblock.next_inode = n
  BY <1>1
<1>3. Only(w, v, Results) /\ w.par = 0
  BY <1>2, SettleIs DEF VInv
<1> HIDE DEF w
<1>4. VInv(w, n, n, ow)
  BY <1>2, <1>3, InvSame
<1>5. w["hblock"] = v["hblock"] /\ w["disk"] = v["disk"]
  BY <1>3 DEF Only, Fields, Results
<1>6. HdrSaved(w)
  BY <1>5 DEF Sound, HdrSaved
<1>7. Sound(w)
  BY <1>2, <1>4, <1>5, <1>6 DEF Sound
<1> QED BY <1>3, <1>5, <1>7 DEF w

\* What a call and a restart do to a sound volume.
Onward(w, v) ==
  /\ Sound(w)
  /\ w.hblock.next_inode >= v.hblock.next_inode /\ w.hblock.next_block >= v.hblock.next_block

LEMMA AdvancesOnward ==
  ASSUME NEW v, NEW w, HdrSaved(v), Advances(w, v, v.hblock.next_inode)
  PROVE  Onward(w, v)
<1>1. HdrSaved(w)
  BY KeptSaved DEF Advances
<1>2. \E n \in Nat : \E ow : VInv(w, n, n, ow) /\ w.hblock.next_inode = n
  BY DEF Advances
<1> QED BY <1>1, <1>2 DEF Advances, Onward, Sound

\* Each system call, and the restart.
LEMMA CallsOnward ==
  ASSUME NEW v, Sound(v), v.par = 0
  PROVE  /\ \A path : path \in Seq(Range(path)) =>
              /\ \A ftype \in {"DIR", "FILE"} : Onward(fs2_create(v, ftype, path), v)
              /\ Onward(fs2_rm(v, path), v)
              /\ \A ftype : Onward(fs2_isftype(v, path, ftype), v)
              /\ \A space \in Nat : Onward(fs2_ls(v, path, space), v)
         /\ Onward(init_fs(v.disk), v)
<1>1. PICK n \in Nat : \E ow : VInv(v, n, n, ow) /\ v.hblock.next_inode = n
  BY DEF Sound
<1>2. PICK ow : VInv(v, n, n, ow) /\ v.hblock.next_inode = n
  BY <1>1
<1>3. HdrSaved(v) /\ v.par \in 0..(n - 1)
  BY <1>2 DEF Sound, VInv
<1>4. ASSUME NEW w, Keeping(w, v, n, n, ow) PROVE Onward(w, v)
  <2>1. Advances(w, v, n)
    BY <1>2, <1>4, KeepingAdvances
  <2> QED BY <1>2, <1>3, <2>1, AdvancesOnward
<1>5. ASSUME NEW path, path \in Seq(Range(path)), NEW ftype \in {"DIR", "FILE"}
      PROVE  Onward(fs2_create(v, ftype, path), v)
  <2>1. Advances(fs2_create(v, ftype, path), v, n)
    BY <1>2, <1>3, <1>5, CreateAdvances
  <2> QED BY <1>2, <1>3, <2>1, AdvancesOnward
<1>6. ASSUME NEW path, path \in Seq(Range(path)) PROVE Onward(fs2_rm(v, path), v)
  <2>1. Keeping(fs2_rm(v, path), v, n, n, ow)
    BY <1>2, <1>3, <1>6, RmKeeps
  <2> QED BY <1>4, <2>1
<1>7. ASSUME NEW path, path \in Seq(Range(path)), NEW ftype
      PROVE  Onward(fs2_isftype(v, path, ftype), v)
  <2>1. Keeping(fs2_isftype(v, path, ftype), v, n, n, ow)
    BY <1>2, <1>3, <1>7, IsftypeKeeps
  <2> QED BY <1>4, <2>1
<1>8. ASSUME NEW path, path \in Seq(Range(path)), NEW space \in Nat
      PROVE  Onward(fs2_ls(v, path, space), v)
  <2>1. Keeping(fs2_ls(v, path, space), v, n, n, ow)
    BY <1>2, <1>3, <1>8, LsKeeps
  <2> QED BY <1>4, <2>1
<1>9. Onward(init_fs(v.disk), v)
  <2> DEFINE w == init_fs(v.disk)
  <2>1. VInv(w, n, n, ow) /\ HdrSaved(w) /\ w.hblock = v.hblock
    BY <1>2, <1>3, RebootKeeps
  <2> HIDE DEF w
  <2>2. Sound(w)
    BY <1>2, <2>1 DEF Sound
  <2>3. v.hblock \in HeadT
    BY <1>2 DEF VInv, HeadOK
  <2>4. Onward(w, v)
    BY <2>1, <2>2, <2>3 DEF Onward, HeadT
  <2> QED BY <2>4 DEF w
<1> QED BY <1>5, <1>6, <1>7, <1>8, <1>9

\* Every step ends a call, or a restart, that leaves a sound volume.
LEMMA StepOnward ==
  ASSUME FS2Inv, Next
  PROVE  \E w : Becomes(w) /\ Onward(w, vol)
<1>1. Sound(vol) /\ vol.par = 0
  BY DEF FS2Inv
<1>2. \A p \in MkPaths \cup RmPaths \cup LookPaths : p \in Seq(Range(p))
  BY FS2Assumption
<1>3. ASSUME NEW p \in MkPaths, Mkfile(p) PROVE \E w : Becomes(w) /\ Onward(w, vol)
  <2>1. Becomes(fs2_create(vol, "FILE", p))
    BY <1>3 DEF Mkfile, Completes
  <2>2. p \in Seq(Range(p)) /\ "FILE" \in {"DIR", "FILE"}
    BY <1>2
  <2>3. Onward(fs2_create(vol, "FILE", p), vol)
    BY <1>1, <2>2, CallsOnward
  <2> QED BY <2>1, <2>3
<1>4. ASSUME NEW p \in MkPaths, Mkdir(p) PROVE \E w : Becomes(w) /\ Onward(w, vol)
  <2>1. Becomes(fs2_create(vol, "DIR", p))
    BY <1>4 DEF Mkdir, Completes
  <2>2. p \in Seq(Range(p)) /\ "DIR" \in {"DIR", "FILE"}
    BY <1>2
  <2>3. Onward(fs2_create(vol, "DIR", p), vol)
    BY <1>1, <2>2, CallsOnward
  <2> QED BY <2>1, <2>3
<1>5. ASSUME NEW p \in RmPaths, Rm(p) PROVE \E w : Becomes(w) /\ Onward(w, vol)
  <2>1. Becomes(fs2_rm(vol, p))
    BY <1>5 DEF Rm, Completes
  <2>2. p \in Seq(Range(p))
    BY <1>2
  <2>3. Onward(fs2_rm(vol, p), vol)
    BY <1>1, <2>2, CallsOnward
  <2> QED BY <2>1, <2>3
<1>6. ASSUME NEW p \in LookPaths, Isfile(p) \/ Isdir(p)
      PROVE  \E w : Becomes(w) /\ Onward(w, vol)
  <2>1. \E t : Becomes(fs2_isftype(vol, p, t))
    BY <1>6 DEF Isfile, Isdir, Answers
  <2>2. p \in Seq(Range(p))
    BY <1>2
  <2>3. \A t : Onward(fs2_isftype(vol, p, t), vol)
    BY <1>1, <2>2, CallsOnward
  <2> QED BY <2>1, <2>3
<1>7. ASSUME NEW p \in LookPaths, NEW r \in LsRooms, Ls(p, r)
      PROVE  \E w : Becomes(w) /\ Onward(w, vol)
  <2>1. Becomes(fs2_ls(vol, p, r))
    BY <1>7 DEF Ls, Lists
  <2>2. p \in Seq(Range(p)) /\ r \in Nat
    BY <1>2, FS2Assumption
  <2>3. Onward(fs2_ls(vol, p, r), vol)
    BY <1>1, <2>2, CallsOnward
  <2> QED BY <2>1, <2>3
<1>8. ASSUME Reboot PROVE \E w : Becomes(w) /\ Onward(w, vol)
  <2>1. Becomes(init_fs(vol.disk))
    BY <1>8 DEF Reboot
  <2>2. Onward(init_fs(vol.disk), vol)
    BY <1>1, CallsOnward
  <2> QED BY <2>1, <2>2
<1> QED BY <1>3, <1>4, <1>5, <1>6, <1>7, <1>8 DEF Next

LEMMA FS2Start == SecondBoot => FS2Inv
<1> SUFFICES ASSUME SecondBoot PROVE FS2Inv
  OBVIOUS
<1> DEFINE v == init_fs(init_fs(ZeroDisk).disk)
<1>1. vol = Settle(v) /\ tree = TreeOf(vol)
  BY DEF SecondBoot, Boot
<1>2. VInv(v, 1, 1, TableOwner) /\ HdrSaved(v) /\ v.hblock.next_inode = 1
  BY SecondStart
<1> HIDE DEF v
<1>3. Sound(v)
  <2>1. 1 \in Nat
    OBVIOUS
  <2> QED BY <1>2, <2>1 DEF Sound
<1> QED BY <1>1, <1>3, SettleSound DEF FS2Inv

LEMMA FS2Step ==
  ASSUME FS2Inv, Next
  PROVE  /\ FS2Inv'
         /\ vol'.hblock.next_inode >= vol.hblock.next_inode
         /\ vol'.hblock.next_block >= vol.hblock.next_block
<1>1. PICK w : Becomes(w) /\ Onward(w, vol)
  BY StepOnward
<1>2. vol' = Settle(w) /\ tree' = TreeOf(vol')
  BY <1>1 DEF Becomes
<1>3. Sound(w)
  BY <1>1 DEF Onward
<1>4. Sound(vol') /\ vol'.par = 0 /\ vol'.hblock = w.hblock
  BY <1>2, <1>3, SettleSound
<1>5. FS2Inv'
  BY <1>2, <1>4 DEF FS2Inv
<1> QED BY <1>1, <1>4, <1>5 DEF Onward

\* The volume stays sound: the blocks of the inode table and of every inode,
\* in the cache and on the disk, have one owner; every entry of a directory
\* names an inode that has a block; and the header on the disk is the one in
\* memory, or the one the first dump started from (fs2_create_file, fs2_rm,
\* fs2_get_iblock_c, fs2_find_free_region, fs2_load_volume, fs2_block_dump).
THEOREM VolumeStaysSound == Spec => []FS2Inv
<1>1. FS2Inv /\ [Next]_vars => FS2Inv'
  <2> SUFFICES ASSUME FS2Inv, [Next]_vars PROVE FS2Inv'
    OBVIOUS
  <2>1. CASE Next
    BY <2>1, FS2Step
  <2>2. CASE UNCHANGED vars
    BY <2>2 DEF vars, FS2Inv
  <2> QED BY <2>1, <2>2
<1> QED BY <1>1, FS2Start, PTL DEF Spec

\* No call and no restart moves next_inode or next_block back, so neither an
\* inode's number nor a block is given out twice: a creation writes the header
\* after it has counted the inode, and the one region taken in memory only, by
\* the first dump, is taken again at every start until a creation writes the
\* header (fs2_create_file, fs2_find_free_region, fs2_load_volume,
\* fs2_block_dump).
THEOREM NumbersNotReused == Spec => NothingReused
<1> DEFINE Kept == /\ vol'.hblock.next_inode >= vol.hblock.next_inode
                   /\ vol'.hblock.next_block >= vol.hblock.next_block
<1>1. FS2Inv /\ [Next]_vars => [Kept]_vars
  BY FS2Step
<1> QED BY <1>1, VolumeStaysSound, PTL DEF NothingReused, Spec

-----------------------------------------------------------------------------
(* Regions *)

LEMMA RegionMine ==
  ASSUME NEW n \in Nat, NEW regs \in [0..(n - 1) -> RegT], NEW o, NEW nb, NEW ow,
         Mine(regs, o, nb, ow), NEW i \in 0..(Used(regs) - 1)
  PROVE  \A a \in Extent(regs[i]) : a \in 1..(nb - 1) /\ ow[a] = <<o, i>>
BY UsedIs DEF Mine

\* What Live holds.
LEMMA LiveIs ==
  ASSUME FS2Inv, NEW n, NEW ow, VInv(vol, n, n, ow), NEW x \in Live
  PROVE  x \in 0..(n - 1)
<1>1. PICK p \in DOMAIN tree : x = Lookup(vol, p)
  BY DEF Live
<1>2. p \in AllPaths /\ Lookup(vol, p) # -1
  <2>1. DOMAIN TreeOf(vol) = {q \in AllPaths : [r \in AllPaths |-> Lookup(vol, r)][q] # -1}
    BY DEF TreeOf
  <2>2. p \in AllPaths /\ [r \in AllPaths |-> Lookup(vol, r)][p] # -1
    BY <1>1, <2>1 DEF FS2Inv
  <2> QED BY <2>2
<1>3. p \in Seq(Range(p))
  <2>1. <<>> \in Seq(Range(<<>>))
    OBVIOUS
  <2> QED BY <1>2, <2>1, FS2Assumption DEF AllPaths
<1> QED BY <1>1, <1>2, <1>3, LookupIs

LEMMA OwnersTell ==
  ASSUME FS2Inv
  PROVE  RegionsDisjoint
<1> DEFINE H == vol.hblock
           own == {<<-1, i>> : i \in 0..(Used(H.regs) - 1)}
                  \cup UNION {{<<x, i>> : i \in 0..(Used(Inode(vol, x).regs) - 1)} : x \in Live}
           blocks(o) == Extent(IF o[1] = -1 THEN H.regs[o[2]] ELSE Inode(vol, o[1]).regs[o[2]])
<1>1. PICK n \in Nat : \E ow : VInv(vol, n, n, ow)
  BY DEF FS2Inv, Sound
<1>2. PICK ow : VInv(vol, n, n, ow)
  BY <1>1
<1>3. H.regs \in [0..(HREG - 1) -> RegT] /\ Mine(H.regs, -1, H.next_block, ow)
      /\ HREG \in Nat /\ NREG \in Nat
  BY <1>2, Consts DEF VInv, HeadOK, HeadT
<1>4. ASSUME NEW o \in own
      PROVE  \A a \in blocks(o) : a \in 1..(H.next_block - 1) /\ ow[a] = o
  <2>1. ASSUME NEW i \in 0..(Used(H.regs) - 1), o = <<-1, i>>
        PROVE  \A a \in blocks(o) : a \in 1..(H.next_block - 1) /\ ow[a] = o
    <3>1. blocks(o) = Extent(H.regs[i])
      BY <2>1
    <3>2. \A a \in Extent(H.regs[i]) : a \in 1..(H.next_block - 1) /\ ow[a] = <<-1, i>>
      BY <1>3, RegionMine
    <3> HIDE DEF blocks
    <3> QED BY <2>1, <3>1, <3>2
  <2>2. ASSUME NEW x \in Live, NEW i \in 0..(Used(Inode(vol, x).regs) - 1), o = <<x, i>>
        PROVE  \A a \in blocks(o) : a \in 1..(H.next_block - 1) /\ ow[a] = o
    <3> DEFINE r == Inode(vol, x).regs
    <3>1. x \in 0..(n - 1)
      BY <1>2, LiveIs
    <3>2. r \in [0..(NREG - 1) -> RegT] /\ Mine(r, x, H.next_block, ow)
      BY <1>2, <3>1, InodeIs DEF InodeT
    <3>3. blocks(o) = Extent(r[i])
      <4>1. o[1] = x /\ o[2] = i /\ x # -1
        BY <2>2, <3>1
      <4> QED BY <4>1
    <3>4. i \in 0..(Used(r) - 1)
      OBVIOUS
    <3> HIDE DEF r, blocks
    <3>5. \A a \in Extent(r[i]) : a \in 1..(H.next_block - 1) /\ ow[a] = <<x, i>>
      <4> HIDE DEF H
      <4>1. NREG \in Nat
        BY Consts
      <4> QED BY <4>1, <3>2, <3>4, RegionMine
    <3> QED BY <2>2, <3>3, <3>5
  <2>3. \/ \E i \in 0..(Used(H.regs) - 1) : o = <<-1, i>>
        \/ \E x \in Live : \E i \in 0..(Used(Inode(vol, x).regs) - 1) : o = <<x, i>>
    OBVIOUS
  <2> HIDE DEF blocks, own
  <2> QED BY <2>1, <2>2, <2>3
<1>5. RegionsDisjoint = \A o \in own : /\ blocks(o) \subseteq 1..(H.next_block - 1)
                                       /\ \A q \in own \ {o} : blocks(o) \cap blocks(q) = {}
  BY DEF RegionsDisjoint
<1> HIDE DEF own, blocks, H
<1>6. ASSUME NEW o \in own, NEW q \in own \ {o} PROVE blocks(o) \cap blocks(q) = {}
  BY <1>4
<1>7. \A o \in own : blocks(o) \subseteq 1..(H.next_block - 1)
  BY <1>4
<1> QED BY <1>5, <1>6, <1>7

\* The regions of the inode table and of every file and directory a path leads
\* to share no block, lie behind the header and below next_block, on a full
\* volume and after a restart too (fs2_find_free_region, fs2_get_iblock,
\* fs2_init_inode, fs2_add_dir_entry, fs2_rm).
THEOREM RegionsNeverOverlap == Spec => []RegionsDisjoint
BY VolumeStaysSound, OwnersTell, PTL
=============================================================================
