----------------------------- MODULE DiskProofs -----------------------------
(***************************************************************************)
(* The driver, the serial line and the emulator of Disk together are the   *)
(* block device of BlockDevice, for every size of block, disk, word and    *)
(* FIFO.                                                                   *)
(***************************************************************************)
EXTENDS Disk, SequenceTheorems, LeastElement

-----------------------------------------------------------------------------
(* Digits, bytes and words *)

Digits == {"0", "1", "2", "3", "4", "5", "6", "7", "8", "9",
           "A", "B", "C", "D", "E", "F", "a", "b", "c", "d", "e", "f"}
Char   == Digits \cup {SPACE, EOL}

\* Both tables of digits list sixteen different ones, in the same order.
LEMMA DigitTables ==
  /\ \A i, j \in 1..16 : Capital[i] \in {Capital[j], Small[j]} => i = j
  /\ \A i, j \in 1..16 : Small[i] \in {Capital[j], Small[j]} => i = j
  /\ \A i \in 1..16 : Capital[i] \in Digits /\ Small[i] \in Digits
BY DEF Capital, Small, Digits

\* Neither the space nor the end of a line is a digit.
LEMMA Separators == SPACE \notin Digits /\ EOL \notin Digits /\ SPACE # EOL
BY DEF SPACE, EOL, Digits

\* xtoi reads back the digit of either table.
LEMMA DigitValue ==
  ASSUME NEW D \in {Capital, Small}, NEW n \in 0..15
  PROVE  xtoi(D[1 + n]) = n /\ D[1 + n] \in Digits
<1> DEFINE I == {i \in 1..16 : D[1 + n] \in {Capital[i], Small[i]}}
<1>0. 1 + n \in 1..16
  OBVIOUS
<1>1. I = {1 + n}
  BY <1>0, DigitTables
<1>2. xtoi(D[1 + n]) = (CHOOSE i \in I : TRUE) - 1
  BY <1>1 DEF xtoi
<1>3. (CHOOSE i \in I : TRUE) = 1 + n
  BY <1>1
<1> QED BY <1>0, <1>2, <1>3, DigitTables

\* Two digits of a byte are read back as the byte.
LEMMA ByteValue ==
  ASSUME NEW D \in {Capital, Small}, NEW b \in 0..255
  PROVE  geth(D[1 + (b \div 16)], D[1 + (b % 16)]) = b
<1>1. b \div 16 \in 0..15 /\ b % 16 \in 0..15 /\ b = 16 * (b \div 16) + (b % 16)
  OBVIOUS
<1>2. xtoi(D[1 + (b \div 16)]) = b \div 16 /\ xtoi(D[1 + (b % 16)]) = b % 16
  BY <1>1, DigitValue
<1>3. (b \div 16) % 16 = b \div 16
  BY <1>1
<1> QED BY <1>1, <1>2, <1>3 DEF geth

\* A function on 1..n is a sequence of length n.
LEMMA FuncSeq ==
  ASSUME NEW n \in Nat, NEW S, NEW s \in [1..n -> S]
  PROVE  s \in Seq(S) /\ Len(s) = n
<1>1. s \in Seq(S)
  BY SeqDef
<1>2. Len(s) \in Nat /\ DOMAIN s = 1..Len(s)
  BY <1>1, LenProperties
<1>3. 1..n = 1..Len(s)
  BY <1>2
<1>4. n = Len(s)
  <2>1. n \in 1..n \/ n = 0
    OBVIOUS
  <2>2. Len(s) \in 1..Len(s) \/ Len(s) = 0
    BY <1>2
  <2> QED BY <1>2, <1>3, <2>1, <2>2
<1> QED BY <1>1, <1>4

\* What hex writes.
LEMMA HexType ==
  ASSUME NEW D \in {Capital, Small}, NEW s \in Seq(0..255)
  PROVE  /\ hex(D, s) \in Seq(Digits) /\ Len(hex(D, s)) = 2 * Len(s)
         /\ \A i \in 1..Len(s) : /\ hex(D, s)[2 * i - 1] = D[1 + (s[i] \div 16)]
                                 /\ hex(D, s)[2 * i] = D[1 + (s[i] % 16)]
<1> DEFINE n == Len(s)
           nibble(j) == IF j % 2 = 1 THEN s[(j + 1) \div 2] \div 16 ELSE s[j \div 2] % 16
<1>1. n \in Nat /\ \A i \in 1..n : s[i] \in 0..255
  BY LenProperties, ElementOfSeq
<1>2. hex(D, s) = [j \in 1..(2 * n) |-> D[1 + nibble(j)]]
  BY DEF hex
<1>3. ASSUME NEW j \in 1..(2 * n) PROVE nibble(j) \in 0..15
  <2>1. CASE j % 2 = 1
    <3>1. (j + 1) \div 2 \in 1..n
      BY <1>1, <2>1
    <3>2. PICK b \in 0..255 : b = s[(j + 1) \div 2]
      BY <1>1, <3>1
    <3>4. b \div 16 \in 0..15
      OBVIOUS
    <3>3. nibble(j) = b \div 16
      BY <2>1, <3>2
    <3> HIDE DEF nibble
    <3> QED BY <3>3, <3>4
  <2>2. CASE j % 2 # 1
    <3>1. j \div 2 \in 1..n
      BY <1>1, <2>2
    <3>2. PICK b \in 0..255 : b = s[j \div 2]
      BY <1>1, <3>1
    <3>4. b % 16 \in 0..15
      OBVIOUS
    <3>3. nibble(j) = b % 16
      BY <2>2, <3>2
    <3> HIDE DEF nibble
    <3> QED BY <3>3, <3>4
  <2> QED BY <2>1, <2>2
<1>4. \A j \in 1..(2 * n) : D[1 + nibble(j)] \in Digits
  <2> HIDE DEF nibble
  <2> QED BY <1>3, DigitValue
<1>5. hex(D, s) \in [1..(2 * n) -> Digits] /\ 2 * n \in Nat
  <2> HIDE DEF nibble
  <2> QED BY <1>1, <1>2, <1>4
<1>6. hex(D, s) \in Seq(Digits) /\ Len(hex(D, s)) = 2 * n
  BY <1>5, FuncSeq
<1>7. ASSUME NEW i \in 1..n
      PROVE  /\ 2 * i - 1 \in 1..(2 * n) /\ 2 * i \in 1..(2 * n)
             /\ nibble(2 * i - 1) = s[i] \div 16 /\ nibble(2 * i) = s[i] % 16
  <2>1. i \in Int /\ 1 <= i /\ i <= n
    BY <1>1
  <2>2. (2 * i - 1) % 2 = 1 /\ ((2 * i - 1) + 1) \div 2 = i /\ (2 * i) % 2 = 0 /\ (2 * i) \div 2 = i
    BY <2>1
  <2> QED BY <1>1, <2>1, <2>2
<1>8. \A i \in 1..n : /\ hex(D, s)[2 * i - 1] = D[1 + (s[i] \div 16)]
                      /\ hex(D, s)[2 * i] = D[1 + (s[i] % 16)]
  <2> HIDE DEF nibble
  <2> QED BY <1>2, <1>7
<1> QED BY <1>6, <1>8

\* Bytes that are written as digits are read back.
LEMMA HexRoundTrip ==
  ASSUME NEW D \in {Capital, Small}, NEW s \in Seq(0..255)
  PROVE  data_geth(hex(D, s)) = s
<1>1. Len(s) \in Nat /\ DOMAIN s = 1..Len(s) /\ \A i \in 1..Len(s) : s[i] \in 0..255
  BY LenProperties, ElementOfSeq
<1>2. Len(hex(D, s)) \div 2 = Len(s)
  <2>1. Len(hex(D, s)) = 2 * Len(s)
    BY HexType
  <2>2. (2 * Len(s)) \div 2 = Len(s)
    <3>1. \A m \in Nat : (2 * m) \div 2 = m
      OBVIOUS
    <3> QED BY <1>1, <3>1
  <2> QED BY <2>1, <2>2
<1>3. data_geth(hex(D, s)) = [i \in 1..Len(s) |-> geth(hex(D, s)[2 * i - 1], hex(D, s)[2 * i])]
  BY <1>2 DEF data_geth
<1>4. ASSUME NEW i \in 1..Len(s) PROVE geth(hex(D, s)[2 * i - 1], hex(D, s)[2 * i]) = s[i]
  <2>1. PICK b \in 0..255 : b = s[i]
    BY <1>1
  <2>2. /\ hex(D, s)[2 * i - 1] = D[1 + (b \div 16)]
        /\ hex(D, s)[2 * i] = D[1 + (b % 16)]
    BY <2>1, HexType
  <2>3. geth(D[1 + (b \div 16)], D[1 + (b % 16)]) = b
    BY ByteValue
  <2> QED BY <2>1, <2>2, <2>3
<1>5. s = [i \in 1..Len(s) |-> s[i]]
  BY <1>1, LenProperties
<1> QED BY <1>3, <1>4, <1>5

\* Each byte of a word weighs 256 times the one below it.
LEMMA WeightSteps ==
  /\ WORD_LEN \in Nat /\ Weight[0] = 1
  /\ \A i \in 0..WORD_LEN : Weight[i] \in Nat
  /\ \A i \in 1..WORD_LEN : Weight[i] = 256 * Weight[i - 1]
<1> DEFINE step == [x \in Nat \X (1..WORD_LEN) |-> 256 * x[1]]
           body(f, i) == IF i = 0 THEN 1 ELSE 256 * f[i - 1]
<1>0. WORD_LEN \in Nat
  BY DiskAssumption
<1>1. step \in [Nat \X (1..WORD_LEN) -> Nat]
  OBVIOUS
<1> HIDE DEF step
<1>2. PICK f : IsRun(f, WORD_LEN, Nat, 1, step)
  BY <1>0, <1>1, LoopRuns
<1> USE DEF IsRun
<1>3. \A i \in 1..WORD_LEN : i - 1 \in 0..WORD_LEN /\ f[i] = 256 * f[i - 1]
  <2> TAKE i \in 1..WORD_LEN
  <2>1. i - 1 \in 0..WORD_LEN
    BY <1>0
  <2>2. f[i - 1] \in Nat /\ f[i] = step[<<f[i - 1], i>>]
    BY <1>2, <2>1
  <2>3. \A x \in Nat : step[<<x, i>>] = 256 * x
    BY DEF step
  <2> QED BY <2>1, <2>2, <2>3
<1>4. f = [i \in 0..WORD_LEN |-> body(f, i)]
  BY <1>0, <1>2, <1>3
<1>5. Weight = [i \in 0..WORD_LEN |-> body(Weight, i)]
  <2>1. Weight = CHOOSE g : g = [i \in 0..WORD_LEN |-> body(g, i)]
    BY DEF Weight
  <2> HIDE DEF body
  <2> QED BY <1>4, <2>1
<1>6. Weight[0] = 1 /\ \A i \in 1..WORD_LEN : Weight[i] = 256 * Weight[i - 1]
  BY <1>0, <1>5
<1> DEFINE S == {i \in 0..WORD_LEN : Weight[i] \in Nat}
<1>7. 0..WORD_LEN \subseteq S
  <2>1. 0 \in S
    BY <1>0, <1>6
  <2>2. \A k \in 1..WORD_LEN : k - 1 \in S => k \in S
    BY <1>0, <1>6
  <2> HIDE DEF S
  <2> QED BY <1>0, <2>1, <2>2, UpTo
<1> QED BY <1>0, <1>6, <1>7

\* Value adds up the weighted bytes of a word, from the lowest.
LEMMA ValueSteps ==
  ASSUME NEW s, s \in [1..WORD_LEN -> 0..255]
  PROVE  \E v : /\ v \in [0..WORD_LEN -> Nat] /\ v[0] = 0 /\ Value(s) = v[WORD_LEN]
                /\ \A i \in 1..WORD_LEN : v[i] = v[i - 1] + (s[i] * Weight[i - 1])
<1> DEFINE step == [x \in Nat \X (1..WORD_LEN) |-> x[1] + (s[x[2]] * Weight[x[2] - 1])]
           body(f, i) == IF i = 0 THEN 0 ELSE f[i - 1] + (s[i] * Weight[i - 1])
           v == CHOOSE g : g = [i \in 0..WORD_LEN |-> body(g, i)]
<1>0. WORD_LEN \in Nat /\ Len(s) = WORD_LEN /\ 0 \in Nat
  BY DiskAssumption, FuncSeq
<1>1. \A i \in 1..WORD_LEN : i - 1 \in 0..WORD_LEN /\ s[i] \in Nat /\ Weight[i - 1] \in Nat
  <2> TAKE i \in 1..WORD_LEN
  <2>1. i - 1 \in 0..WORD_LEN
    BY <1>0
  <2>2. s[i] \in 0..255
    OBVIOUS
  <2>3. s[i] \in Nat
    <3>1. \A x \in 0..255 : x \in Nat
      OBVIOUS
    <3> QED BY <2>2, <3>1
  <2>4. Weight[i - 1] \in Nat
    BY <2>1, WeightSteps
  <2> QED BY <2>1, <2>3, <2>4
<1>2. ASSUME NEW x \in Nat, NEW i \in 1..WORD_LEN
      PROVE  /\ x + (s[i] * Weight[i - 1]) \in Nat
             /\ step[<<x, i>>] = x + (s[i] * Weight[i - 1])
  <2>1. \A a, b \in Nat : x + (a * b) \in Nat
    OBVIOUS
  <2> QED BY <1>1, <2>1
<1>3. step \in [Nat \X (1..WORD_LEN) -> Nat]
  <2>1. \A x \in Nat \X (1..WORD_LEN) : x[1] + (s[x[2]] * Weight[x[2] - 1]) \in Nat
    BY <1>2
  <2> QED BY <2>1
<1> HIDE DEF step
<1>4. PICK f : IsRun(f, WORD_LEN, Nat, 0, step)
  BY <1>0, <1>3, LoopRuns
<1>5. /\ f \in [0..WORD_LEN -> Nat] /\ f[0] = 0
      /\ \A i \in 1..WORD_LEN : f[i] = f[i - 1] + (s[i] * Weight[i - 1])
  <2>1. f \in [0..WORD_LEN -> Nat] /\ f[0] = 0
    BY <1>4 DEF IsRun
  <2>2. ASSUME NEW i \in 1..WORD_LEN PROVE f[i] = f[i - 1] + (s[i] * Weight[i - 1])
    <3>1. f[i - 1] \in Nat /\ f[i] = step[<<f[i - 1], i>>]
      BY <1>1, <1>4 DEF IsRun
    <3> QED BY <1>2, <3>1
  <2> QED BY <2>1, <2>2
<1>6. f = [i \in 0..WORD_LEN |-> body(f, i)]
  BY <1>0, <1>5
<1>7. v = [i \in 0..WORD_LEN |-> body(v, i)]
  <2> HIDE DEF body
  <2> QED BY <1>6
<1>8. Value(s) = v[WORD_LEN]
  BY <1>0 DEF Value
<1> HIDE DEF v
<1>9. v[0] = 0 /\ \A i \in 1..WORD_LEN : v[i] = v[i - 1] + (s[i] * Weight[i - 1])
  BY <1>0, <1>7
<1> DEFINE S == {i \in 0..WORD_LEN : v[i] \in Nat}
<1>10. 0..WORD_LEN \subseteq S
  <2>1. 0 \in S
    BY <1>0, <1>9
  <2>2. \A k \in 1..WORD_LEN : k - 1 \in S => k \in S
    <3> TAKE k \in 1..WORD_LEN
    <3>1. v[k - 1] \in Nat => v[k - 1] + (s[k] * Weight[k - 1]) \in Nat
      BY <1>2
    <3> QED BY <1>0, <1>9, <3>1
  <2> HIDE DEF S
  <2> QED BY <1>0, <2>1, <2>2, UpTo
<1>11. v \in [0..WORD_LEN -> Nat]
  BY <1>7, <1>10
<1> QED BY <1>8, <1>9, <1>11

\* What the bytes of w from one of weight p on are worth is what those from the
\* next on are worth, and that byte.
ByteByByte(p, w) == p * (w \div p) = (256 * p) * (w \div (256 * p)) + (((w \div p) % 256) * p)

\* Division by a weight and by the next one up.
LEMMA Quotients ==
  ASSUME NEW p \in Nat \ {0}, NEW w \in Nat
  PROVE  /\ w \div p \in Nat
         /\ ByteByByte(p, w)
<1>1. w \div p \in Nat /\ w \div (256 * p) = (w \div p) \div 256
  OBVIOUS
<1>2. PICK q \in Nat : q = w \div p
  BY <1>1
<1>3. PICK a \in Nat : a = q \div 256
  OBVIOUS
<1>4. PICK b \in Nat : b = q % 256
  OBVIOUS
<1>5. q = 256 * a + b
  BY <1>3, <1>4
<1>6. p * q = (256 * p) * a + (b * p)
  BY <1>5
<1>7. w \div (256 * p) = a /\ (w \div p) % 256 = b
  BY <1>1, <1>2, <1>3, <1>4
<1>8. p * (w \div p) = (256 * p) * a + (b * p)
  BY <1>2, <1>6
<1> QED BY <1>1, <1>7, <1>8 DEF ByteByByte

\* A word that is sent byte by byte arrives.
LEMMA WordRoundTrip ==
  ASSUME NEW w \in Nat, w < Weight[WORD_LEN]
  PROVE  LowFirst(w) \in [1..WORD_LEN -> 0..255] /\ Value(LowFirst(w)) = w
<1> DEFINE s == LowFirst(w)
<1>0. WORD_LEN \in Nat /\ \A i \in 1..WORD_LEN : i - 1 \in 0..WORD_LEN
  BY WeightSteps
<1> DEFINE P == {i \in 0..WORD_LEN : Weight[i] \in Nat \ {0}}
<1>1. 0..WORD_LEN \subseteq P
  <2>1. 0 \in P
    BY <1>0, WeightSteps
  <2>2. \A k \in 1..WORD_LEN : k - 1 \in P => k \in P
    BY <1>0, WeightSteps
  <2> HIDE DEF P
  <2> QED BY <1>0, <2>1, <2>2, UpTo
<1>2. \A i \in 1..WORD_LEN : s[i] = (w \div Weight[i - 1]) % 256 /\ s[i] \in 0..255
  <2> TAKE i \in 1..WORD_LEN
  <2>1. PICK p \in Nat \ {0} : p = Weight[i - 1]
    BY <1>0, <1>1
  <2>2. (w \div p) % 256 \in 0..255
    BY Quotients
  <2>3. s[i] = (w \div p) % 256
    BY <2>1 DEF LowFirst
  <2> QED BY <2>1, <2>2, <2>3
<1>3. s \in [1..WORD_LEN -> 0..255]
  BY <1>2 DEF LowFirst
<1> HIDE DEF s
<1>4. PICK v : /\ v \in [0..WORD_LEN -> Nat] /\ v[0] = 0 /\ Value(s) = v[WORD_LEN]
               /\ \A i \in 1..WORD_LEN : v[i] = v[i - 1] + (s[i] * Weight[i - 1])
  BY <1>3, ValueSteps
<1> DEFINE S == {i \in 0..WORD_LEN : v[i] + Weight[i] * (w \div Weight[i]) = w}
<1>5. 0..WORD_LEN \subseteq S
  <2>1. 0 \in S
    <3>1. Weight[0] = 1 /\ w \div 1 = w
      BY WeightSteps
    <3> QED BY <1>0, <1>4, <3>1
  <2>2. ASSUME NEW k \in 1..WORD_LEN, k - 1 \in S PROVE k \in S
    <3>1. PICK p \in Nat \ {0} : p = Weight[k - 1]
      BY <1>0, <1>1
    <3>2. Weight[k] = 256 * p
      BY <3>1, WeightSteps
    <3>3. PICK x \in Nat : x = v[k - 1]
      BY <1>0, <1>4
    <3>4. x + p * (w \div p) = w
      BY <2>2, <3>1, <3>3
    <3>5. v[k] = x + (((w \div p) % 256) * p)
      BY <1>2, <1>4, <3>1, <3>3
    <3>6. p * (w \div p) = (256 * p) * (w \div (256 * p)) + (((w \div p) % 256) * p)
      <4>1. ByteByByte(p, w)
        BY Quotients
      <4> QED BY <4>1 DEF ByteByByte
    <3>7. v[k] + (256 * p) * (w \div (256 * p)) = w
      <4>1. (w \div p) % 256 \in Nat /\ w \div (256 * p) \in Nat
        <5>1. PICK q \in Nat : q = w \div p
          OBVIOUS
        <5>2. q % 256 \in Nat /\ 256 * p \in Nat \ {0}
          OBVIOUS
        <5>3. \A m \in Nat \ {0} : w \div m \in Nat
          OBVIOUS
        <5> QED BY <5>1, <5>2, <5>3
      <4>0. \A m, n \in Nat : (256 * m) * n \in Nat /\ n * m \in Nat
        OBVIOUS
      <4>2. PICK a \in Nat : a = (256 * p) * (w \div (256 * p))
        BY <4>0, <4>1
      <4>3. PICK b \in Nat : b = ((w \div p) % 256) * p
        BY <4>0, <4>1
      <4>4. x + (a + b) = w
        BY <3>4, <3>6, <4>2, <4>3
      <4>5. v[k] = x + b
        BY <3>5, <4>3
      <4>6. (x + b) + a = w
        BY <4>4
      <4> QED BY <4>2, <4>5, <4>6
    <3> QED BY <3>2, <3>7
  <2> HIDE DEF S
  <2> QED BY <1>0, <2>1, <2>2, UpTo
<1>6. w \div Weight[WORD_LEN] = 0
  <2>1. PICK p \in Nat \ {0} : p = Weight[WORD_LEN]
    BY <1>0, <1>1
  <2>2. w \div p = 0
    BY <2>1
  <2> QED BY <2>1, <2>2
<1>7. v[WORD_LEN] = w
  <2>1. WORD_LEN \in S
    BY <1>0, <1>5
  <2>2. v[WORD_LEN] + Weight[WORD_LEN] * 0 = w
    BY <1>6, <2>1
  <2>3. v[WORD_LEN] \in Nat /\ Weight[WORD_LEN] \in Nat
    BY <1>0, <1>4, WeightSteps
  <2> QED BY <2>2, <2>3
<1> QED BY <1>3, <1>4, <1>7 DEF s

-----------------------------------------------------------------------------
(* Fields of a request *)

Fields == {F \in Seq(Seq(Char)) : F # <<>>}

\* The fields after one character more.
Added(F, c) == IF c = SPACE THEN Append(F, <<>>)
               ELSE [F EXCEPT ![Len(F)] = Append(F[Len(F)], c)]

\* f is the run of the loop of split on line l: the fields after each character.
Splits(f, l) ==
  /\ f \in [0..Len(l) -> Fields] /\ f[0] = << <<>> >>
  /\ \A i \in 1..Len(l) : f[i] = Added(f[i - 1], l[i])

\* Characters are added to the last field.
LEMMA LastField ==
  ASSUME NEW F \in Fields, NEW c \in Char
  PROVE  /\ Append(F, <<>>) \in Fields
         /\ [F EXCEPT ![Len(F)] = Append(F[Len(F)], c)] \in Fields
<1>1. F \in Seq(Seq(Char)) /\ Len(F) \in 1..Len(F) /\ <<>> \in Seq(Char)
  BY EmptySeq, LenProperties DEF Fields
<1>2. F[Len(F)] \in Seq(Char)
  BY <1>1, ElementOfSeq
<1>3. Append(F[Len(F)], c) \in Seq(Char)
  BY <1>2, AppendProperties
<1> DEFINE G == [F EXCEPT ![Len(F)] = Append(F[Len(F)], c)]
<1>4. G \in Seq(Seq(Char)) /\ Len(G) = Len(F)
  BY <1>1, <1>3, ExceptSeq
<1>5. G # <<>>
  <2>1. Len(G) # 0
    BY <1>1, <1>4
  <2> HIDE DEF G
  <2> QED BY <2>1, EmptySeq
<1>6. Append(F, <<>>) \in Seq(Seq(Char)) /\ Append(F, <<>>) # <<>>
  BY <1>1, AppendProperties
<1> QED BY <1>4, <1>5, <1>6 DEF Fields

\* split is its loop.
LEMMA SplitLoop ==
  ASSUME NEW l \in Seq(Char)
  PROVE  \E f : Splits(f, l) /\ split(l) = f[Len(l)]
<1> DEFINE n == Len(l)
           base == << <<>> >>
           step == [x \in Fields \X (1..n) |-> Added(x[1], l[x[2]])]
           body(f, i) == IF i = 0 THEN base ELSE Added(f[i - 1], l[i])
           v == CHOOSE f : f = [i \in 0..n |-> body(f, i)]
<1>0. n \in Nat /\ \A i \in 1..n : l[i] \in Char
  BY LenProperties, ElementOfSeq
<1>1. base \in Fields
  <2>1. <<>> \in Seq(Char)
    BY EmptySeq
  <2> QED BY <2>1 DEF Fields
<1>2. \A F \in Fields, c \in Char : Added(F, c) \in Fields
  BY LastField DEF Added
<1> HIDE DEF base
<1>3. step \in [Fields \X (1..n) -> Fields] /\ \A F \in Fields, i \in 1..n : step[<<F, i>>] = Added(F, l[i])
  BY <1>0, <1>2
<1> HIDE DEF step
<1>4. PICK f : IsRun(f, n, Fields, base, step)
  BY <1>0, <1>1, <1>3, LoopRuns
<1>5. f \in [0..n -> Fields] /\ f[0] = base /\ \A i \in 1..n : f[i] = Added(f[i - 1], l[i])
  <2>1. f \in [0..n -> Fields] /\ f[0] = base
    BY <1>4 DEF IsRun
  <2>2. ASSUME NEW i \in 1..n PROVE f[i] = Added(f[i - 1], l[i])
    <3>1. i - 1 \in 0..n
      BY <1>0
    <3>2. f[i - 1] \in Fields /\ f[i] = step[<<f[i - 1], i>>]
      BY <1>4, <3>1 DEF IsRun
    <3> QED BY <1>3, <3>2
  <2> QED BY <2>1, <2>2
<1>6. f = [i \in 0..n |-> body(f, i)]
  BY <1>0, <1>5
<1>7. v = [i \in 0..n |-> body(v, i)]
  <2> HIDE DEF body
  <2> QED BY <1>6
<1>8. split(l) = v[n]
  BY DEF split, Added, base
<1> HIDE DEF v
<1>9. v[0] = base /\ \A i \in 1..n : v[i] = Added(v[i - 1], l[i])
  BY <1>0, <1>7
<1> DEFINE S == {i \in 0..n : v[i] \in Fields}
<1>10. 0..n \subseteq S
  <2>1. 0 \in S
    BY <1>0, <1>1, <1>9
  <2>2. \A k \in 1..n : k - 1 \in S => k \in S
    BY <1>0, <1>2, <1>9
  <2> HIDE DEF S
  <2> QED BY <1>0, <2>1, <2>2, UpTo
<1>11. v \in [0..n -> Fields]
  BY <1>7, <1>10
<1>12. Splits(v, l)
  BY <1>9, <1>11 DEF Splits, base
<1> QED BY <1>8, <1>12

\* A character added to the last of the fields.
LEMMA GrowField ==
  ASSUME NEW F \in Seq(Seq(Char)), NEW x \in Seq(Char), NEW c \in Char
  PROVE  LET G == Append(F, x) IN [G EXCEPT ![Len(G)] = Append(G[Len(G)], c)] = Append(F, Append(x, c))
<1> DEFINE G == Append(F, x)
           H == [G EXCEPT ![Len(G)] = Append(G[Len(G)], c)]
           K == Append(F, Append(x, c))
<1>1. /\ G \in Seq(Seq(Char)) /\ Len(G) = Len(F) + 1 /\ G[Len(F) + 1] = x
      /\ \A i \in 1..Len(F) : G[i] = F[i]
  BY AppendProperties
<1>2. Append(x, c) \in Seq(Char) /\ Len(F) \in Nat
  BY AppendProperties, LenProperties
<1>3. /\ K \in Seq(Seq(Char)) /\ Len(K) = Len(F) + 1 /\ K[Len(F) + 1] = Append(x, c)
      /\ \A i \in 1..Len(F) : K[i] = F[i]
  BY <1>2, AppendProperties
<1> HIDE DEF G, K
<1>4. Len(G) \in 1..Len(G) /\ Append(G[Len(G)], c) = Append(x, c)
  BY <1>1, <1>2
<1>5. /\ H \in Seq(Seq(Char)) /\ Len(H) = Len(G)
      /\ \A j \in 1..Len(G) : H[j] = IF j = Len(G) THEN Append(x, c) ELSE G[j]
  BY <1>1, <1>2, <1>4, ExceptSeq
<1> HIDE DEF H
<1>6. Len(H) = Len(K) /\ \A j \in 1..Len(H) : H[j] = K[j]
  <2>1. \A j \in 1..Len(H) : j = Len(F) + 1 \/ j \in 1..Len(F)
    BY <1>1, <1>2, <1>5
  <2> QED BY <1>1, <1>2, <1>3, <1>5, <2>1
<1>7. H = K
  BY <1>3, <1>5, <1>6, SeqEqual
<1> QED BY <1>7 DEF H, G, K

\* A field that begins after character k of l and has no space up to m.
LEMMA FieldAt ==
  ASSUME NEW l \in Seq(Char), NEW f, Splits(f, l), NEW F \in Seq(Seq(Char)),
         NEW k \in 0..Len(l), NEW m \in k..Len(l), f[k] = Append(F, <<>>),
         \A i \in (k + 1)..m : l[i] # SPACE
  PROVE  f[m] = Append(F, SubSeq(l, k + 1, m))
<1> DEFINE S == {n \in 0..(m - k) : f[k + n] = Append(F, SubSeq(l, k + 1, k + n))}
<1>0. Len(l) \in Nat /\ k \in Nat /\ m \in Nat /\ m - k \in Nat /\ m <= Len(l)
  BY LenProperties
<1>1. 0 \in S
  <2>1. SubSeq(l, k + 1, k) = <<>>
    BY <1>0, SubSeqEmpty
  <2>2. f[k] = Append(F, SubSeq(l, k + 1, k))
    BY <2>1
  <2>3. k + 0 = k /\ 0 \in 0..(m - k)
    BY <1>0
  <2> QED BY <2>2, <2>3
<1>2. ASSUME NEW n \in 1..(m - k), n - 1 \in S PROVE n \in S
  <2>1. /\ k + n \in 1..Len(l) /\ k + n \in (k + 1)..m /\ k + 1 \in 1..Len(l)
        /\ k + n \in (k + 1)..Len(l) /\ k + (n - 1) = (k + n) - 1
    BY <1>0
  <2> DEFINE x == SubSeq(l, k + 1, (k + n) - 1)
             c == l[k + n]
  <2>2. f[(k + n) - 1] = Append(F, x)
    BY <1>2, <2>1
  <2>3. x \in Seq(Char) /\ c \in Char
    <3>1. \A i \in (k + 1)..((k + n) - 1) : l[i] \in Char
      <4>1. \A i \in (k + 1)..((k + n) - 1) : i \in 1..Len(l)
        BY <1>0, <2>1
      <4> QED BY <4>1, ElementOfSeq
    <3> QED BY <1>0, <2>1, <3>1, SubSeqProperties, ElementOfSeq
  <2>4. SubSeq(l, k + 1, k + n) = Append(x, c)
    <3>1. SubSeq(l, k + 1, k + n) = x \o <<c>>
      BY <2>1, SubSeqRecursiveSecond
    <3> HIDE DEF x, c
    <3> QED BY <2>3, <3>1, AppendIsConcat
  <2>5. c # SPACE
    BY <2>1
  <2> DEFINE G == Append(F, x)
  <2>6. f[k + n] = [G EXCEPT ![Len(G)] = Append(G[Len(G)], c)]
    BY <2>1, <2>2, <2>5 DEF Splits, Added
  <2>7. f[k + n] = Append(F, Append(x, c))
    <3> HIDE DEF x, c
    <3> QED BY <2>3, <2>6, GrowField
  <2>8. n \in 0..(m - k)
    BY <1>0
  <2>9. f[k + n] = Append(F, SubSeq(l, k + 1, k + n))
    BY <2>4, <2>7
  <2> QED BY <2>8, <2>9
<1>3. m - k \in S
  <2>1. 0..(m - k) \subseteq S
    <3> HIDE DEF S
    <3> QED BY <1>0, <1>1, <1>2, UpTo
  <2> HIDE DEF S
  <2> QED BY <1>0, <2>1
<1>4. k + (m - k) = m
  BY <1>0
<1> QED BY <1>3, <1>4

\* Without a space there is one field.
LEMMA SplitOne ==
  ASSUME NEW d \in Seq(Char), \A i \in 1..Len(d) : d[i] # SPACE
  PROVE  split(d) = <<d>>
<1>1. PICK f : Splits(f, d) /\ split(d) = f[Len(d)]
  BY SplitLoop
<1>2. <<>> \in Seq(Seq(Char)) /\ Len(d) \in Nat /\ \A x \in Seq(Char) : Append(<<>>, x) = <<x>>
  BY EmptySeq, LenProperties
<1>3. f[0] = Append(<<>>, <<>>)
  BY <1>1 DEF Splits
<1>4. f[Len(d)] = Append(<<>>, SubSeq(d, 0 + 1, Len(d)))
  <2>1. 0 \in 0..Len(d) /\ Len(d) \in 0..Len(d) /\ \A i \in (0 + 1)..Len(d) : d[i] # SPACE
    BY <1>2
  <2> QED BY <1>1, <1>2, <1>3, <2>1, FieldAt
<1>5. SubSeq(d, 0 + 1, Len(d)) = d
  BY SubSeqFull
<1> QED BY <1>1, <1>2, <1>4, <1>5

\* A space and what follows it are one field more.
LEMMA SplitMore ==
  ASSUME NEW p \in Seq(Char), NEW d \in Seq(Char), \A i \in 1..Len(d) : d[i] # SPACE
  PROVE  split(p \o (<<SPACE>> \o d)) = Append(split(p), d)
<1> DEFINE a == <<SPACE>> \o d
           l == p \o a
           n == Len(p)
<1>1. <<SPACE>> \in Seq(Char) /\ Len(<<SPACE>>) = 1 /\ <<SPACE>>[1] = SPACE
  BY DEF Char
<1>2. /\ a \in Seq(Char) /\ Len(a) = 1 + Len(d)
      /\ a[1] = SPACE /\ \A i \in 2..(Len(d) + 1) : a[i] = d[i - 1]
  <2>1. Len(d) \in Nat
    BY LenProperties
  <2>2. /\ a \in Seq(Char) /\ Len(a) = 1 + Len(d)
        /\ \A i \in 1..(1 + Len(d)) : a[i] = IF i <= 1 THEN <<SPACE>>[i] ELSE d[i - 1]
    BY <1>1, ConcatProperties
  <2> QED BY <1>1, <2>1, <2>2
<1> HIDE DEF a
<1>3. /\ l \in Seq(Char) /\ Len(l) = n + (1 + Len(d)) /\ n \in Nat /\ Len(d) \in Nat
      /\ \A i \in 1..(n + Len(a)) : l[i] = IF i <= n THEN p[i] ELSE a[i - n]
  <2>1. n \in Nat /\ Len(d) \in Nat
    BY LenProperties
  <2>2. /\ l \in Seq(Char) /\ Len(l) = n + Len(a)
        /\ \A i \in 1..(n + Len(a)) : l[i] = IF i <= n THEN p[i] ELSE a[i - n]
    BY <1>2, ConcatProperties
  <2> QED BY <1>2, <2>1, <2>2
<1>4. /\ \A i \in 1..n : l[i] = p[i]
      /\ l[n + 1] = SPACE
      /\ \A i \in 1..Len(d) : l[(n + 1) + i] = d[i]
  <2>1. \A i \in 1..n : l[i] = p[i]
    BY <1>2, <1>3
  <2>2. l[n + 1] = SPACE
    BY <1>2, <1>3
  <2>3. ASSUME NEW i \in 1..Len(d) PROVE l[(n + 1) + i] = d[i]
    <3>1. /\ (n + 1) + i \in 1..(n + Len(a)) /\ ~ ((n + 1) + i <= n) /\ ((n + 1) + i) - n = i + 1
          /\ i + 1 \in 2..(Len(d) + 1) /\ (i + 1) - 1 = i
      BY <1>2, <1>3
    <3> QED BY <1>2, <1>3, <3>1
  <2> QED BY <2>1, <2>2, <2>3
<1> HIDE DEF l
<1>5. PICK f : Splits(f, l) /\ split(l) = f[Len(l)]
  BY <1>3, SplitLoop
<1>6. PICK g : Splits(g, p) /\ split(p) = g[n]
  BY SplitLoop
<1> DEFINE S == {i \in 0..n : f[i] = g[i]}
<1>7. 0..n \subseteq S
  <2>1. 0 \in S
    <3>1. f[0] = g[0]
      BY <1>5, <1>6 DEF Splits
    <3>2. 0 \in 0..n
      BY <1>3
    <3> QED BY <3>1, <3>2
  <2>2. ASSUME NEW i \in 1..n, i - 1 \in S PROVE i \in S
    <3>1. i \in 1..Len(l) /\ l[i] = p[i] /\ f[i - 1] = g[i - 1] /\ i \in 0..n
      BY <1>3, <1>4, <2>2
    <3>2. f[i] = g[i]
      BY <1>5, <1>6, <3>1 DEF Splits
    <3> QED BY <3>1, <3>2
  <2> HIDE DEF S
  <2> QED BY <1>3, <2>1, <2>2, UpTo
<1>8. f[n] = split(p) /\ split(p) \in Fields
  <2>1. n \in 0..n
    BY <1>3
  <2>2. n \in S /\ g[n] \in Fields
    BY <1>6, <1>7, <2>1 DEF Splits
  <2> QED BY <1>6, <2>2
<1>9. f[n + 1] = Append(split(p), <<>>)
  <2>1. n + 1 \in 1..Len(l) /\ (n + 1) - 1 = n
    BY <1>3
  <2>2. f[n + 1] = Append(f[(n + 1) - 1], <<>>)
    BY <1>4, <1>5, <2>1 DEF Splits, Added
  <2> QED BY <1>8, <2>1, <2>2
<1>10. \A i \in ((n + 1) + 1)..Len(l) : l[i] # SPACE
  <2> TAKE i \in ((n + 1) + 1)..Len(l)
  <2>1. i - (n + 1) \in 1..Len(d) /\ (n + 1) + (i - (n + 1)) = i
    BY <1>3
  <2>2. l[i] = d[i - (n + 1)]
    BY <1>4, <2>1
  <2> QED BY <2>1, <2>2
<1>11. f[Len(l)] = Append(split(p), SubSeq(l, (n + 1) + 1, Len(l)))
  <2>1. n + 1 \in 0..Len(l) /\ Len(l) \in (n + 1)..Len(l)
    BY <1>3
  <2> QED BY <1>3, <1>5, <1>8, <1>9, <1>10, <2>1, FieldAt DEF Fields
<1>12. SubSeq(l, (n + 1) + 1, Len(l)) = d
  <2> DEFINE s == SubSeq(l, (n + 1) + 1, Len(l))
  <2>1. \A i \in ((n + 1) + 1)..Len(l) : l[i] \in Char
    <3>1. \A i \in ((n + 1) + 1)..Len(l) : i \in 1..Len(l)
      BY <1>3
    <3> QED BY <1>3, <3>1, ElementOfSeq
  <2>2. (n + 1) + 1 \in Int /\ Len(l) \in Int
    BY <1>3
  <2>3. /\ s \in Seq(Char)
        /\ Len(s) = IF (n + 1) + 1 <= Len(l) THEN Len(l) - ((n + 1) + 1) + 1 ELSE 0
        /\ \A i \in 1..(Len(l) - ((n + 1) + 1) + 1) : s[i] = l[((n + 1) + 1) + i - 1]
    BY <2>1, <2>2, SubSeqProperties
  <2> HIDE DEF s
  <2>4. Len(s) = Len(d)
    BY <1>3, <2>3
  <2>5. ASSUME NEW i \in 1..Len(s) PROVE s[i] = d[i]
    <3>1. i \in 1..(Len(l) - ((n + 1) + 1) + 1) /\ ((n + 1) + 1) + i - 1 = (n + 1) + i
      BY <1>3, <2>4
    <3>2. s[i] = l[(n + 1) + i]
      BY <2>3, <3>1
    <3> QED BY <1>4, <2>4, <3>2
  <2>6. s = d
    BY <2>3, <2>4, <2>5, SeqEqual
  <2> QED BY <2>6 DEF s
<1>13. split(l) = Append(split(p), d)
  BY <1>5, <1>11, <1>12
<1> QED BY <1>13 DEF l, a

\* A request without the end of its line.
Line(c) ==
  hex(Capital, Command(c.op))
  \o (IF c.op \in {"WR", "RD"} THEN <<SPACE>> \o hex(Capital, LowFirst(c.addr)) ELSE <<>>)
  \o (IF c.op = "WR" THEN <<SPACE>> \o hex(Capital, c.data) ELSE <<>>)

\* What the emulator makes of the line for call c.
Understood(c, req) ==
  /\ req[1] = REQ(0) <=> c.op \in {"NUM", "LEN"}
  /\ req[1] = REQ(1) <=> c.op = "WR"
  /\ req[1] = REQ(2) <=> c.op = "RD"
  /\ c.op \in {"WR", "RD"} => Address(req) = c.addr
  /\ c.op = "WR" => data_geth(req[3]) = c.data

\* The fields of calls.
LEMMA CallTypes ==
  ASSUME NEW c \in Calls
  PROVE  /\ c.op \in {"WR", "RD", "NUM", "LEN"}
         /\ c.op \in {"WR", "RD"} => c.addr \in Nat /\ c.addr < Weight[WORD_LEN]
         /\ c.op = "WR" => c.data \in Seq(0..255) /\ Len(c.data) = BLOCK_LEN
                           /\ c.data \in [1..BLOCK_LEN -> 0..255]
<1>1. c.op \in {"WR", "RD", "NUM", "LEN"}
  BY DEF Calls
<1>2. ASSUME c.op \in {"WR", "RD"} PROVE c.addr \in Nat /\ c.addr < Weight[WORD_LEN]
  <2>1. c.addr \in Addrs
    BY <1>2 DEF Calls
  <2>2. c.addr \in Nat /\ 2 * c.addr < Weight[WORD_LEN] /\ Weight[WORD_LEN] \in Nat
    BY <2>1, DiskAssumption, WeightSteps
  <2> QED BY <2>2
<1>3. ASSUME c.op = "WR"
      PROVE  c.data \in Seq(0..255) /\ Len(c.data) = BLOCK_LEN /\ c.data \in [1..BLOCK_LEN -> 0..255]
  <2>1. c.data \in [1..BLOCK_LEN -> Bytes] /\ Bytes \subseteq 0..255 /\ BLOCK_LEN \in Nat
    BY <1>3, DiskAssumption DEF Calls
  <2>2. c.data \in [1..BLOCK_LEN -> 0..255]
    BY <2>1
  <2> QED BY <2>1, <2>2, FuncSeq
<1> QED BY <1>1, <1>2, <1>3

\* Digits are characters, and neither spaces nor ends of lines.
LEMMA DigitSeq ==
  ASSUME NEW s \in Seq(Digits)
  PROVE  s \in Seq(Char) /\ \A i \in 1..Len(s) : s[i] # SPACE /\ s[i] # EOL
<1>1. Digits \subseteq Char
  BY DEF Char
<1> QED BY <1>1, SeqMonotonic, ElementOfSeq, Separators

\* The three commands.
LEMMA Commands ==
  /\ \A n \in 0..2 : REQ(n) \in Seq(Digits) /\ Len(REQ(n)) = 2
  /\ \A n, m \in 0..2 : REQ(n) = REQ(m) => n = m
  /\ \A c \in Calls : /\ c.op = "WR" => hex(Capital, Command(c.op)) = REQ(1)
                      /\ c.op = "RD" => hex(Capital, Command(c.op)) = REQ(2)
                      /\ c.op \in {"NUM", "LEN"} => hex(Capital, Command(c.op)) = REQ(0)
<1>1. ASSUME NEW n \in 0..2
      PROVE  REQ(n) \in Seq(Digits) /\ Len(REQ(n)) = 2 /\ REQ(n)[2] = Capital[1 + n]
  <2> DEFINE s == <<n>>
  <2>1. s \in Seq(0..255) /\ Len(s) = 1 /\ s[1] = n
    OBVIOUS
  <2> HIDE DEF s
  <2>2. /\ hex(Capital, s) \in Seq(Digits) /\ Len(hex(Capital, s)) = 2 * Len(s)
        /\ \A i \in 1..Len(s) : hex(Capital, s)[2 * i] = Capital[1 + (s[i] % 16)]
    BY <2>1, HexType
  <2>3. hex(Capital, s)[2 * 1] = Capital[1 + (s[1] % 16)] /\ n % 16 = n
    BY <2>1, <2>2
  <2>4. REQ(n) = hex(Capital, s)
    BY DEF REQ, s
  <2> QED BY <2>1, <2>2, <2>3, <2>4
<1>2. \A n, m \in 0..2 : REQ(n) = REQ(m) => n = m
  <2> SUFFICES ASSUME NEW n \in 0..2, NEW m \in 0..2, REQ(n) = REQ(m) PROVE n = m
    OBVIOUS
  <2>1. Capital[1 + n] = Capital[1 + m] /\ 1 + n \in 1..16 /\ 1 + m \in 1..16
    BY <1>1
  <2>2. 1 + n = 1 + m
    BY <2>1, DigitTables
  <2> QED BY <2>2
<1>3. \A c \in Calls : /\ c.op = "WR" => hex(Capital, Command(c.op)) = REQ(1)
                       /\ c.op = "RD" => hex(Capital, Command(c.op)) = REQ(2)
                       /\ c.op \in {"NUM", "LEN"} => hex(Capital, Command(c.op)) = REQ(0)
  BY DEF Command, REQ
<1> QED BY <1>1, <1>2, <1>3

NoEOL(s) == \A i \in 1..Len(s) : s[i] # EOL

\* A line goes on with a space and a word in digits.
LEMMA AddWord ==
  ASSUME NEW p \in Seq(Char), NoEOL(p), NEW d \in Seq(Digits)
  PROVE  LET q == p \o (<<SPACE>> \o d)
         IN  q \in Seq(Char) /\ NoEOL(q) /\ split(q) = Append(split(p), d)
<1> DEFINE a == <<SPACE>> \o d
           q == p \o a
<1>1. /\ <<SPACE>> \in Seq(Char) /\ Len(<<SPACE>>) = 1 /\ <<SPACE>>[1] = SPACE /\ SPACE # EOL
      /\ d \in Seq(Char) /\ Len(d) \in Nat /\ Len(p) \in Nat
      /\ \A i \in 1..Len(d) : d[i] # SPACE /\ d[i] # EOL
  BY DigitSeq, LenProperties, Separators DEF Char
<1>2. /\ a \in Seq(Char) /\ Len(a) = 1 + Len(d)
      /\ \A i \in 1..(1 + Len(d)) : a[i] = IF i <= 1 THEN <<SPACE>>[i] ELSE d[i - 1]
  BY <1>1, ConcatProperties
<1>3. \A i \in 1..Len(a) : a[i] # EOL
  BY <1>1, <1>2
<1> HIDE DEF a
<1>4. /\ q \in Seq(Char) /\ Len(q) = Len(p) + Len(a)
      /\ \A i \in 1..(Len(p) + Len(a)) : q[i] = IF i <= Len(p) THEN p[i] ELSE a[i - Len(p)]
  BY <1>2, ConcatProperties
<1>5. NoEOL(q)
  <2> SUFFICES ASSUME NEW i \in 1..(Len(p) + Len(a)) PROVE q[i] # EOL
    BY <1>4 DEF NoEOL
  <2>1. CASE i <= Len(p)
    BY <1>1, <1>2, <1>4, <2>1 DEF NoEOL
  <2>2. CASE ~ (i <= Len(p))
    <3>1. i - Len(p) \in 1..Len(a)
      BY <1>1, <1>2, <2>2
    <3> QED BY <1>3, <1>4, <2>2, <3>1
  <2> QED BY <2>1, <2>2
<1>6. split(q) = Append(split(p), d)
  BY <1>1, SplitMore DEF a
<1> QED BY <1>4, <1>5, <1>6 DEF a

\* The fields of a line that begins with a command.
LEMMA LineWords ==
  ASSUME NEW n \in 0..2
  PROVE  /\ REQ(n) \in Seq(Char) /\ NoEOL(REQ(n)) /\ split(REQ(n)) = <<REQ(n)>>
         /\ \A a \in Seq(Digits) :
              LET p == REQ(n) \o (<<SPACE>> \o a)
              IN  /\ p \in Seq(Char) /\ NoEOL(p) /\ split(p) = <<REQ(n), a>>
                  /\ \A d \in Seq(Digits) :
                       LET q == p \o (<<SPACE>> \o d)
                       IN  q \in Seq(Char) /\ NoEOL(q) /\ split(q) = <<REQ(n), a, d>>
<1>1. /\ REQ(n) \in Seq(Char) /\ NoEOL(REQ(n)) /\ split(REQ(n)) = <<REQ(n)>>
      /\ REQ(n) \in Seq(Digits)
  BY Commands, DigitSeq, SplitOne DEF NoEOL
<1>2. ASSUME NEW a \in Seq(Digits)
      PROVE  LET p == REQ(n) \o (<<SPACE>> \o a)
             IN  p \in Seq(Char) /\ NoEOL(p) /\ split(p) = <<REQ(n), a>>
  <2>1. LET p == REQ(n) \o (<<SPACE>> \o a)
        IN  p \in Seq(Char) /\ NoEOL(p) /\ split(p) = Append(<<REQ(n)>>, a)
    BY <1>1, AddWord
  <2> QED BY <2>1
<1>3. ASSUME NEW a \in Seq(Digits), NEW d \in Seq(Digits)
      PROVE  LET q == (REQ(n) \o (<<SPACE>> \o a)) \o (<<SPACE>> \o d)
             IN  q \in Seq(Char) /\ NoEOL(q) /\ split(q) = <<REQ(n), a, d>>
  <2>1. LET q == (REQ(n) \o (<<SPACE>> \o a)) \o (<<SPACE>> \o d)
        IN  q \in Seq(Char) /\ NoEOL(q) /\ split(q) = Append(<<REQ(n), a>>, d)
    BY <1>2, AddWord
  <2> QED BY <2>1
<1> QED BY <1>1, <1>2, <1>3

\* An address in digits is read back.
LEMMA AddressRead ==
  ASSUME NEW w \in Nat, w < Weight[WORD_LEN]
  PROVE  /\ hex(Capital, LowFirst(w)) \in Seq(Digits)
         /\ Value(data_geth(hex(Capital, LowFirst(w)))) = w
<1>1. LowFirst(w) \in [1..WORD_LEN -> 0..255] /\ Value(LowFirst(w)) = w
  BY WordRoundTrip
<1>2. LowFirst(w) \in Seq(0..255)
  BY <1>1, WeightSteps, FuncSeq
<1> QED BY <1>1, <1>2, HexType, HexRoundTrip

\* The emulator understands every request of the driver.
LEMMA LineParse ==
  ASSUME NEW c \in Calls
  PROVE  /\ Request(c) = Line(c) \o <<EOL>>
         /\ Line(c) \in Seq(Char) /\ NoEOL(Line(c))
         /\ Understood(c, split(Line(c)))
<1>1. Request(c) = Line(c) \o <<EOL>>
  BY DEF Request, Line
<1>2. CASE c.op \in {"NUM", "LEN"}
  <2>1. hex(Capital, Command(c.op)) = REQ(0) /\ 0 \in 0..2 /\ c.op \notin {"WR", "RD"}
    BY <1>2, Commands
  <2>2. /\ REQ(0) \in Seq(Char) /\ NoEOL(REQ(0)) /\ split(REQ(0)) = <<REQ(0)>>
    BY <2>1, LineWords
  <2>3. Line(c) = (REQ(0) \o <<>>) \o <<>>
    BY <1>2, <2>1 DEF Line
  <2>4. Line(c) = REQ(0)
    BY <2>2, <2>3, ConcatEmptySeq
  <2>5. <<REQ(0)>>[1] = REQ(0) /\ REQ(0) # REQ(1) /\ REQ(0) # REQ(2)
    BY Commands
  <2>6. Understood(c, <<REQ(0)>>)
    BY <1>2, <2>5 DEF Understood
  <2> QED BY <1>1, <2>2, <2>4, <2>6
<1>3. CASE c.op = "RD"
  <2> DEFINE a == hex(Capital, LowFirst(c.addr))
             req == <<REQ(2), a>>
  <2>1. hex(Capital, Command(c.op)) = REQ(2) /\ 2 \in 0..2
    BY <1>3, Commands
  <2>2. a \in Seq(Digits) /\ Value(data_geth(a)) = c.addr
    BY <1>3, CallTypes, AddressRead
  <2> HIDE DEF a
  <2> DEFINE p == REQ(2) \o (<<SPACE>> \o a)
  <2>3. p \in Seq(Char) /\ NoEOL(p) /\ split(p) = req
    BY <2>1, <2>2, LineWords
  <2>4. Line(c) = p \o <<>>
    BY <1>3, <2>1 DEF Line, a
  <2>5. Line(c) = p
    BY <2>3, <2>4, ConcatEmptySeq
  <2>6. req[1] = REQ(2) /\ req[2] = a /\ REQ(0) # REQ(2) /\ REQ(1) # REQ(2)
    BY Commands
  <2> HIDE DEF req
  <2>7. Understood(c, req)
    BY <1>3, <2>2, <2>6 DEF Understood, Address
  <2> QED BY <1>1, <2>3, <2>5, <2>7
<1>4. CASE c.op = "WR"
  <2> DEFINE a == hex(Capital, LowFirst(c.addr))
             d == hex(Capital, c.data)
             req == <<REQ(1), a, d>>
  <2>1. hex(Capital, Command(c.op)) = REQ(1) /\ 1 \in 0..2
    BY <1>4, Commands
  <2>2. a \in Seq(Digits) /\ Value(data_geth(a)) = c.addr
    BY <1>4, CallTypes, AddressRead
  <2>3. d \in Seq(Digits) /\ data_geth(d) = c.data
    BY <1>4, CallTypes, HexType, HexRoundTrip
  <2> HIDE DEF a, d
  <2> DEFINE q == (REQ(1) \o (<<SPACE>> \o a)) \o (<<SPACE>> \o d)
  <2>4. q \in Seq(Char) /\ NoEOL(q) /\ split(q) = req
    BY <2>1, <2>2, <2>3, LineWords
  <2>5. Line(c) = q
    BY <1>4, <2>1 DEF Line, a, d
  <2>6. req[1] = REQ(1) /\ req[2] = a /\ req[3] = d /\ REQ(0) # REQ(1) /\ REQ(2) # REQ(1)
    BY Commands
  <2> HIDE DEF req
  <2>7. Understood(c, req)
    BY <1>4, <2>2, <2>3, <2>6 DEF Understood, Address
  <2> QED BY <1>1, <2>4, <2>5, <2>7
<1> QED BY <1>2, <1>3, <1>4, CallTypes

-----------------------------------------------------------------------------
(* Characters on their way *)

\* The next character goes from the rest to the part that has passed.
LEMMA Shift ==
  ASSUME NEW s \in Seq(Char), NEW t \in Seq(Char), t # <<>>
  PROVE  Append(s, Head(t)) \o Tail(t) = s \o t
<1> DEFINE h == <<Head(t)>>
<1>1. Head(t) \in Char /\ Tail(t) \in Seq(Char) /\ h \in Seq(Char)
  BY HeadTailProperties
<1>2. h \o Tail(t) = t
  <2>1. /\ Len(Tail(t)) = Len(t) - 1 /\ Len(t) \in Nat /\ Head(t) = t[1]
        /\ \A i \in 1..Len(Tail(t)) : Tail(t)[i] = t[i + 1]
    BY HeadTailProperties, LenProperties
  <2>2. Len(h) = 1 /\ h[1] = t[1]
    BY <2>1
  <2> HIDE DEF h
  <2>a. /\ h \o Tail(t) \in Seq(Char) /\ Len(h \o Tail(t)) = Len(h) + Len(Tail(t))
        /\ \A i \in 1..(Len(h) + Len(Tail(t))) :
             (h \o Tail(t))[i] = IF i <= Len(h) THEN h[i] ELSE Tail(t)[i - Len(h)]
    BY <1>1, ConcatProperties
  <2>3. /\ h \o Tail(t) \in Seq(Char) /\ Len(h \o Tail(t)) = 1 + Len(Tail(t))
        /\ \A i \in 1..(1 + Len(Tail(t))) : (h \o Tail(t))[i] = IF i <= 1 THEN h[i] ELSE Tail(t)[i - 1]
    BY <2>2, <2>a
  <2>4. Len(h \o Tail(t)) = Len(t)
    BY <2>1, <2>3
  <2>5. ASSUME NEW i \in 1..Len(t) PROVE (h \o Tail(t))[i] = t[i]
    <3>1. i \in 1..(1 + Len(Tail(t)))
      BY <2>1
    <3>2. CASE i = 1
      BY <2>2, <2>3, <3>1, <3>2
    <3>3. CASE i # 1
      <4>1. i - 1 \in 1..Len(Tail(t)) /\ (i - 1) + 1 = i /\ ~ (i <= 1)
        BY <2>1, <3>3
      <4> QED BY <2>1, <2>3, <3>1, <4>1
    <3> QED BY <3>2, <3>3
  <2> QED BY <2>3, <2>4, <2>5, SeqEqual
<1>3. Append(s, Head(t)) = s \o h
  BY <1>1, AppendIsConcat
<1>4. (s \o h) \o Tail(t) = s \o (h \o Tail(t))
  BY <1>1, ConcatAssociative
<1> QED BY <1>2, <1>3, <1>4

\* A character that is put on the line or taken off it stays between what went
\* before and what comes after.
LEMMA Transport ==
  ASSUME NEW a \in Seq(Char), NEW b \in Seq(Char), NEW x \in Seq(Char)
  PROVE  /\ x # <<>> => (a \o Append(b, Head(x))) \o Tail(x) = (a \o b) \o x
         /\ b # <<>> => (Append(a, Head(b)) \o Tail(b)) \o x = (a \o b) \o x
<1>1. ASSUME x # <<>> PROVE (a \o Append(b, Head(x))) \o Tail(x) = (a \o b) \o x
  <2> DEFINE h == <<Head(x)>>
  <2>1. Head(x) \in Char /\ h \in Seq(Char)
    BY <1>1, HeadTailProperties
  <2>2. a \o b \in Seq(Char)
    BY ConcatProperties
  <2>3. Append(b, Head(x)) = b \o h /\ Append(a \o b, Head(x)) = (a \o b) \o h
    BY <2>1, <2>2, AppendIsConcat
  <2>4. (a \o b) \o h = a \o (b \o h)
    BY <2>1, ConcatAssociative
  <2>5. Append(a \o b, Head(x)) \o Tail(x) = (a \o b) \o x
    BY <1>1, <2>2, Shift
  <2> QED BY <2>3, <2>4, <2>5
<1>2. ASSUME b # <<>> PROVE (Append(a, Head(b)) \o Tail(b)) \o x = (a \o b) \o x
  BY <1>2, Shift
<1> QED BY <1>1, <1>2

\* The characters of two parts that have passed and of the rest are the line L
\* and its end.
WholeLine(a, b, x, L) == (a \o b) \o x = L \o <<EOL>>

\* Where the end of the line is next, the whole line has been read and nothing
\* follows it.
LEMMA EndOfLine ==
  ASSUME NEW L \in Seq(Char), NoEOL(L), NEW a \in Seq(Char), NoEOL(a),
         NEW b \in Seq(Char), b # <<>>, Head(b) = EOL, NEW x \in Seq(Char),
         WholeLine(a, b, x, L)
  PROVE  a = L /\ Tail(b) = <<>> /\ x = <<>>
<1> DEFINE e == <<EOL>>
           T == L \o e
<1>1. /\ Len(a) \in Nat /\ Len(b) \in Nat /\ Len(x) \in Nat /\ Len(L) \in Nat /\ Len(b) # 0
      /\ b[1] = EOL /\ e \in Seq(Char) /\ Len(e) = 1 /\ e[1] = EOL
  BY LenProperties, EmptySeq DEF Char
<1> HIDE DEF e
<1>2. /\ Len(T) = Len(L) + 1
      /\ \A i \in 1..(Len(L) + 1) : T[i] = IF i <= Len(L) THEN L[i] ELSE e[i - Len(L)]
  <2>1. /\ Len(T) = Len(L) + Len(e)
        /\ \A i \in 1..(Len(L) + Len(e)) : T[i] = IF i <= Len(L) THEN L[i] ELSE e[i - Len(L)]
    BY <1>1, ConcatProperties
  <2> QED BY <1>1, <2>1
<1>3. /\ a \o b \in Seq(Char) /\ Len(a \o b) = Len(a) + Len(b)
      /\ \A i \in 1..(Len(a) + Len(b)) : (a \o b)[i] = IF i <= Len(a) THEN a[i] ELSE b[i - Len(a)]
  BY ConcatProperties
<1>4. /\ Len((a \o b) \o x) = Len(a \o b) + Len(x)
      /\ \A i \in 1..(Len(a \o b) + Len(x)) :
           ((a \o b) \o x)[i] = IF i <= Len(a \o b) THEN (a \o b)[i] ELSE x[i - Len(a \o b)]
  BY <1>3, ConcatProperties
<1>5. (a \o b) \o x = T
  BY DEF e, WholeLine
<1> HIDE DEF T
<1>6. Len(a) + Len(b) + Len(x) = Len(L) + 1
  BY <1>1, <1>2, <1>3, <1>4, <1>5
<1>7. \A i \in 1..(Len(a) + Len(b)) : T[i] = IF i <= Len(a) THEN a[i] ELSE b[i - Len(a)]
  <2> TAKE i \in 1..(Len(a) + Len(b))
  <2>1. i \in 1..(Len(a \o b) + Len(x)) /\ i <= Len(a \o b)
    BY <1>1, <1>3
  <2> QED BY <1>3, <1>4, <1>5, <2>1
<1>8. T[Len(a) + 1] = EOL
  <2>1. Len(a) + 1 \in 1..(Len(a) + Len(b)) /\ ~ (Len(a) + 1 <= Len(a)) /\ (Len(a) + 1) - Len(a) = 1
    BY <1>1
  <2> QED BY <1>1, <1>7, <2>1
<1>9. Len(a) = Len(L)
  <2>1. Len(a) + 1 \in 1..(Len(L) + 1)
    BY <1>1, <1>6
  <2>2. ~ (Len(a) + 1 <= Len(L))
    <3>1. Len(a) + 1 <= Len(L) => T[Len(a) + 1] = L[Len(a) + 1] /\ Len(a) + 1 \in 1..Len(L)
      BY <1>1, <1>2, <2>1
    <3> QED BY <1>8, <3>1 DEF NoEOL
  <2> QED BY <1>1, <2>1, <2>2
<1>10. Len(b) = 1 /\ Len(x) = 0
  BY <1>1, <1>6, <1>9
<1>11. a = L
  <2>1. \A i \in 1..Len(a) : a[i] = L[i]
    <3> TAKE i \in 1..Len(a)
    <3>1. i \in 1..(Len(a) + Len(b)) /\ i \in 1..(Len(L) + 1) /\ i <= Len(a) /\ i <= Len(L)
      BY <1>1, <1>9
    <3> QED BY <1>2, <1>7, <3>1
  <2> QED BY <1>9, <2>1, SeqEqual
<1>12. x = <<>>
  BY <1>10, EmptySeq
<1>13. Tail(b) = <<>>
  <2>1. Tail(b) \in Seq(Char) /\ Len(Tail(b)) = Len(b) - 1
    BY HeadTailProperties
  <2>2. Len(Tail(b)) = 0
    BY <1>10, <2>1
  <2> QED BY <2>1, <2>2, EmptySeq
<1> QED BY <1>11, <1>12, <1>13

-----------------------------------------------------------------------------
(* Replies *)

\* A refusal has three characters and is not taken for an acceptance.
LEMMA FailReply ==
  /\ ACK_FAIL \in Seq(Char) /\ ACK_FAIL # <<>> /\ Len(ACK_FAIL) = 3
  /\ ~ Accepted(ACK_FAIL)
<1>1. "0" \in Char /\ "1" \in Char /\ EOL \in Char
  BY DEF Char, Digits
<1>2. ACK_FAIL \in Seq(Char) /\ Len(ACK_FAIL) = 3 /\ ACK_FAIL[1] = "0" /\ ACK_FAIL[2] = "1"
  BY <1>1 DEF ACK_FAIL
<1>3. Small[1 + (1 \div 16)] = "0" /\ Small[1 + (1 % 16)] = "1"
  BY DEF Small
<1>4. geth("0", "1") = 1
  BY <1>3, ByteValue
<1> QED BY <1>2, <1>4, EmptySeq DEF Accepted

\* What the emulator answers when it has served a request.
Reply(data) ==
  ACK_OKAY \o (IF data = <<>> THEN <<>> ELSE <<SPACE>> \o hex(Small, data)) \o <<EOL>>

\* Characters that begin an accepted reply.
LEMMA Acceptance ==
  /\ ACK_OKAY \in Seq(Char) /\ Len(ACK_OKAY) = 2
  /\ \A R : Len(R) >= 2 /\ R[1] = ACK_OKAY[1] /\ R[2] = ACK_OKAY[2] => Accepted(R)
<1>1. "0" \in Char
  BY DEF Char, Digits
<1>2. ACK_OKAY \in Seq(Char) /\ Len(ACK_OKAY) = 2 /\ ACK_OKAY[1] = "0" /\ ACK_OKAY[2] = "0"
  BY <1>1 DEF ACK_OKAY
<1>3. Small[1 + (0 \div 16)] = "0" /\ Small[1 + (0 % 16)] = "0"
  BY DEF Small
<1>4. geth("0", "0") = 0
  BY <1>3, ByteValue
<1> QED BY <1>2, <1>4 DEF Accepted

\* An accepted reply without data has three characters.
LEMMA ShortReply ==
  /\ Reply(<<>>) \in Seq(Char) /\ Reply(<<>>) # <<>> /\ Len(Reply(<<>>)) = 3
  /\ Accepted(Reply(<<>>))
<1> DEFINE e == <<EOL>>
<1>1. e \in Seq(Char) /\ Len(e) = 1
  BY DEF Char
<1>2. ACK_OKAY \o <<>> = ACK_OKAY
  BY Acceptance, ConcatEmptySeq
<1>3. Reply(<<>>) = ACK_OKAY \o e
  BY <1>2 DEF Reply
<1> HIDE DEF e
<1>4. /\ ACK_OKAY \o e \in Seq(Char) /\ Len(ACK_OKAY \o e) = Len(ACK_OKAY) + Len(e)
      /\ \A i \in 1..(Len(ACK_OKAY) + Len(e)) :
           (ACK_OKAY \o e)[i] = IF i <= Len(ACK_OKAY) THEN ACK_OKAY[i] ELSE e[i - Len(ACK_OKAY)]
  BY <1>1, Acceptance, ConcatProperties
<1>5. Len(ACK_OKAY) + Len(e) = 3 /\ 1 \in 1..3 /\ 2 \in 1..3 /\ 1 <= Len(ACK_OKAY) /\ 2 <= Len(ACK_OKAY)
  BY <1>1, Acceptance
<1>6. (ACK_OKAY \o e)[1] = ACK_OKAY[1] /\ (ACK_OKAY \o e)[2] = ACK_OKAY[2]
  BY <1>4, <1>5
<1>7. Len(ACK_OKAY \o e) = 3 /\ Len(ACK_OKAY \o e) >= 2
  BY <1>4, <1>5
<1>8. Accepted(ACK_OKAY \o e)
  BY <1>6, <1>7, Acceptance
<1>9. Reply(<<>>) \in Seq(Char) /\ Len(Reply(<<>>)) = 3 /\ Accepted(Reply(<<>>))
  BY <1>3, <1>4, <1>7, <1>8
<1>10. Reply(<<>>) # <<>>
  <2>1. Len(<<>>) = 0
    OBVIOUS
  <2> QED BY <1>9, <2>1
<1> QED BY <1>9, <1>10

\* The data of an accepted reply arrive.
LEMMA DataReply ==
  ASSUME NEW D \in Seq(0..255), D # <<>>
  PROVE  /\ Reply(D) \in Seq(Char) /\ Reply(D) # <<>> /\ Len(Reply(D)) = 4 + (2 * Len(D))
         /\ Accepted(Reply(D))
         /\ data_geth(SubSeq(Reply(D), 4, Len(Reply(D)) - 1)) = D
<1> DEFINE e == <<EOL>>
           s == <<SPACE>>
           h == hex(Small, D)
           q == ACK_OKAY \o s
<1>1. e \in Seq(Char) /\ s \in Seq(Char) /\ Len(e) = 1 /\ Len(s) = 1
  BY DEF Char
<1>2. h \in Seq(Char) /\ Len(h) = 2 * Len(D) /\ data_geth(h) = D
  <2>1. Small \in {Capital, Small}
    OBVIOUS
  <2> QED BY <2>1, HexType, HexRoundTrip, DigitSeq
<1>3. Len(D) \in Nat /\ Len(D) >= 1 /\ Len(h) >= 1 /\ Len(h) \in Nat
  BY <1>2, EmptySeq
<1>4. Reply(D) = (ACK_OKAY \o (s \o h)) \o e
  BY DEF Reply
<1> HIDE DEF e, s, h
<1>5. ACK_OKAY \o (s \o h) = q \o h
  <2> HIDE DEF q
  <2>1. ACK_OKAY \in Seq(Char) /\ s \in Seq(Char) /\ h \in Seq(Char)
    BY <1>1, <1>2, Acceptance
  <2>2. (ACK_OKAY \o s) \o h = ACK_OKAY \o (s \o h)
    BY <2>1, ConcatAssociative
  <2> QED BY <2>2 DEF q
<1>6. q \in Seq(Char) /\ Len(q) = 3 /\ q[1] = ACK_OKAY[1] /\ q[2] = ACK_OKAY[2]
  <2>1. /\ q \in Seq(Char) /\ Len(q) = Len(ACK_OKAY) + Len(s)
        /\ \A i \in 1..(Len(ACK_OKAY) + Len(s)) : q[i] = IF i <= Len(ACK_OKAY) THEN ACK_OKAY[i] ELSE s[i - Len(ACK_OKAY)]
    BY <1>1, Acceptance, ConcatProperties
  <2>2. Len(ACK_OKAY) + Len(s) = 3 /\ 1 \in 1..3 /\ 2 \in 1..3 /\ 1 <= Len(ACK_OKAY) /\ 2 <= Len(ACK_OKAY)
    BY <1>1, Acceptance
  <2> QED BY <2>1, <2>2
<1> HIDE DEF q
<1> DEFINE p == q \o h
<1>7. p \in Seq(Char) /\ Len(p) = 3 + (2 * Len(D)) /\ p[1] = ACK_OKAY[1] /\ p[2] = ACK_OKAY[2]
  <2>1. /\ p \in Seq(Char) /\ Len(p) = Len(q) + Len(h)
        /\ \A i \in 1..(Len(q) + Len(h)) : p[i] = IF i <= Len(q) THEN q[i] ELSE h[i - Len(q)]
    BY <1>2, <1>6, ConcatProperties
  <2>2. 1 \in 1..(Len(q) + Len(h)) /\ 2 \in 1..(Len(q) + Len(h)) /\ 1 <= Len(q) /\ 2 <= Len(q)
    BY <1>3, <1>6
  <2> QED BY <1>2, <1>6, <2>1, <2>2
<1>8. SubSeq(p, 4, Len(p)) = h
  <2> DEFINE k == Len(p)
  <2>1. 4 \in (Len(q) + 1)..(Len(q) + Len(h)) /\ k \in (Len(q) + 1)..(Len(q) + Len(h))
        /\ 4 - Len(q) = 1 /\ k - Len(q) = Len(h)
    BY <1>2, <1>3, <1>6, <1>7
  <2> HIDE DEF k
  <2>2. SubSeq(q \o h, 4, k) = SubSeq(h, 4 - Len(q), k - Len(q))
    <3>1. h \in Seq(Char) /\ q \in Seq(Char)
      BY <1>2, <1>6
    <3> QED BY <2>1, <3>1, SubSeqOfConcat2
  <2>3. SubSeq(q \o h, 4, k) = SubSeq(h, 1, Len(h))
    BY <2>1, <2>2
  <2> QED BY <1>2, <2>3, SubSeqFull DEF k
<1> HIDE DEF p
<1> DEFINE R == p \o e
<1>9. R \in Seq(Char) /\ Len(R) = 4 + (2 * Len(D)) /\ R[1] = ACK_OKAY[1] /\ R[2] = ACK_OKAY[2]
  <2>1. /\ R \in Seq(Char) /\ Len(R) = Len(p) + Len(e)
        /\ \A i \in 1..(Len(p) + Len(e)) : R[i] = IF i <= Len(p) THEN p[i] ELSE e[i - Len(p)]
    BY <1>1, <1>7, ConcatProperties
  <2>2. 1 \in 1..(Len(p) + Len(e)) /\ 2 \in 1..(Len(p) + Len(e)) /\ 1 <= Len(p) /\ 2 <= Len(p)
    BY <1>1, <1>3, <1>7
  <2>3. Len(p) + Len(e) = 4 + (2 * Len(D))
    BY <1>1, <1>3, <1>7
  <2> QED BY <1>7, <2>1, <2>2, <2>3
<1>10. SubSeq(R, 4, Len(R) - 1) = h
  <2>1. 4 \in 1..Len(p) /\ Len(p) \in 1..Len(p) /\ Len(R) - 1 = Len(p)
    BY <1>3, <1>7, <1>9
  <2>2. SubSeq(p \o e, 4, Len(p)) = SubSeq(p, 4, Len(p))
    BY <1>1, <1>7, <2>1, SubSeqOfConcat1
  <2> QED BY <1>8, <2>1, <2>2
<1>11. R = Reply(D)
  BY <1>4, <1>5 DEF p
<1> HIDE DEF R
<1>12. Accepted(R) /\ R # <<>>
  BY <1>3, <1>9, Acceptance, EmptySeq
<1> QED BY <1>2, <1>9, <1>10, <1>11, <1>12

\* The beginning of a reply tells whether it is an acceptance as soon as it has
\* two characters, and the driver takes exactly the reply.
LEMMA ReplyTaken ==
  ASSUME NEW c \in Calls, NEW g \in Seq(Char), NEW rest \in Seq(Char),
         Len(g \o rest) = ReplyLen(c, g \o rest), Len(g) = ReplyLen(c, g)
  PROVE  g \o rest = g /\ rest = <<>>
<1> DEFINE R == g \o rest
<1>1. Len(g) \in Nat /\ Len(rest) \in Nat
  BY LenProperties
<1>a. Len(R) = ReplyLen(c, R)
  OBVIOUS
<1>2. Len(R) = Len(g) + Len(rest) /\ \A i \in 1..Len(g) : R[i] = g[i]
  <2>1. /\ Len(R) = Len(g) + Len(rest)
        /\ \A i \in 1..(Len(g) + Len(rest)) : R[i] = IF i <= Len(g) THEN g[i] ELSE rest[i - Len(g)]
    BY ConcatProperties
  <2> HIDE DEF R
  <2>2. \A i \in 1..Len(g) : i \in 1..(Len(g) + Len(rest)) /\ i <= Len(g)
    BY <1>1
  <2> QED BY <2>1, <2>2
<1> HIDE DEF R
<1>3. Accepted(g) <=> Len(g) >= 2 /\ Accepted(R)
  <2>1. Len(g) >= 2 => 1 \in 1..Len(g) /\ 2 \in 1..Len(g) /\ Len(R) >= 2
    BY <1>1, <1>2
  <2>2. Len(g) >= 2 => R[1] = g[1] /\ R[2] = g[2]
    BY <1>2, <2>1
  <2> QED BY <2>1, <2>2 DEF Accepted
<1>4. Len(g) = 3 \/ Accepted(g)
  BY DEF ReplyLen
<1>5. Len(g) >= 2
  BY <1>4, <1>1 DEF Accepted
<1>6. ReplyLen(c, R) = ReplyLen(c, g)
  BY <1>3, <1>5 DEF ReplyLen
<1>7. Len(rest) = 0
  BY <1>1, <1>2, <1>6, <1>a
<1>8. rest = <<>>
  BY <1>7, EmptySeq
<1> QED BY <1>8, ConcatEmptySeq

\* What a call that has been accepted returns, with the blocks im.
Promised(im, c, r) ==
  /\ c.op = "WR" => c.addr < BLOCK_NUM /\ im[c.addr] = c.data /\ r = <<0>>
  /\ c.op = "RD" => c.addr < BLOCK_NUM /\ r = <<0, im[c.addr]>>
  /\ c.op = "NUM" => r = <<BLOCK_NUM>>
  /\ c.op = "LEN" => r = <<BLOCK_LEN>>

\* The sizes that conf answers are read back.
LEMMA SizesRead ==
  LET D == LowFirst(BLOCK_NUM) \o LowFirst(BLOCK_LEN)
  IN  /\ D \in Seq(0..255) /\ D # <<>> /\ Len(D) = 2 * WORD_LEN
      /\ Value(SubSeq(D, 1, WORD_LEN)) = BLOCK_NUM
      /\ Value(SubSeq(D, WORD_LEN + 1, 2 * WORD_LEN)) = BLOCK_LEN
<1> DEFINE s == LowFirst(BLOCK_NUM)
           t == LowFirst(BLOCK_LEN)
<1>0. WORD_LEN \in Nat /\ WORD_LEN >= 1
  BY DiskAssumption
<1>1. ASSUME NEW w \in {BLOCK_NUM, BLOCK_LEN} PROVE w \in Nat /\ w < Weight[WORD_LEN]
  <2>1. w \in Nat /\ 2 * w < Weight[WORD_LEN] /\ Weight[WORD_LEN] \in Nat
    BY DiskAssumption, WeightSteps
  <2> QED BY <2>1
<1>2. /\ s \in [1..WORD_LEN -> 0..255] /\ Value(s) = BLOCK_NUM
      /\ t \in [1..WORD_LEN -> 0..255] /\ Value(t) = BLOCK_LEN
  BY <1>1, WordRoundTrip
<1> HIDE DEF s, t
<1>3. /\ s \in Seq(0..255) /\ Len(s) = WORD_LEN /\ t \in Seq(0..255) /\ Len(t) = WORD_LEN
  BY <1>0, <1>2, FuncSeq
<1>4. s \o t \in Seq(0..255) /\ Len(s \o t) = Len(s) + Len(t)
  BY <1>3, ConcatProperties
<1>5. Len(s \o t) = 2 * WORD_LEN
  BY <1>0, <1>3, <1>4
<1>6. s \o t # <<>>
  BY <1>0, <1>4, <1>5, EmptySeq
<1>7. SubSeq(s \o t, 1, WORD_LEN) = s
  <2>1. 1 \in 1..Len(s) /\ WORD_LEN \in 1..Len(s)
    BY <1>0, <1>3
  <2>2. SubSeq(s \o t, 1, WORD_LEN) = SubSeq(s, 1, WORD_LEN)
    BY <1>3, <2>1, SubSeqOfConcat1
  <2>3. SubSeq(s, 1, Len(s)) = s
    BY <1>3, SubSeqFull
  <2> QED BY <1>3, <2>2, <2>3
<1>8. SubSeq(s \o t, WORD_LEN + 1, 2 * WORD_LEN) = t
  <2> DEFINE m == WORD_LEN + 1
             n == 2 * WORD_LEN
  <2>1. /\ m \in (Len(s) + 1)..(Len(s) + Len(t)) /\ n \in (Len(s) + 1)..(Len(s) + Len(t))
        /\ m - Len(s) = 1 /\ n - Len(s) = Len(t)
    BY <1>0, <1>3
  <2> HIDE DEF m, n
  <2>2. SubSeq(s \o t, m, n) = SubSeq(t, m - Len(s), n - Len(s))
    <3>1. s \in Seq(0..255) /\ t \in Seq(0..255)
      BY <1>3
    <3> QED BY <2>1, <3>1, SubSeqOfConcat2
  <2>3. SubSeq(s \o t, m, n) = SubSeq(t, 1, Len(t))
    BY <2>1, <2>2
  <2>4. SubSeq(t, 1, Len(t)) = t
    BY <1>3, SubSeqFull
  <2> QED BY <2>3, <2>4 DEF m, n
<1> QED BY <1>2, <1>4, <1>5, <1>6, <1>7, <1>8 DEF s, t

-----------------------------------------------------------------------------
(* The inductive invariant *)

DiskTypes ==
  /\ call \in Calls \cup {Idle}
  /\ image \in [0..(BLOCK_NUM - 1) -> [1..BLOCK_LEN -> 0..255]]
  /\ tries \in 0..(DISK_RETRY - 1)
  /\ tx \in Seq(Char) /\ got \in Seq(Char) /\ toDisk \in Seq(Char)
  /\ toHost \in Seq(Char) /\ line \in Seq(Char) /\ ack \in Seq(Char)

\* Nothing is under way.
Quiet == /\ tx = <<>> /\ got = <<>> /\ toDisk = <<>>
         /\ toHost = <<>> /\ line = <<>> /\ ack = <<>>

\* The request is on its way: what the emulator has read, what is on the line
\* and what the driver has still to put are the whole of it.
Asking(c) ==
  /\ (line \o toDisk) \o tx = Request(c) /\ NoEOL(line)
  /\ ack = <<>> /\ toHost = <<>> /\ got = <<>>
  /\ refused = tries

\* The reply is on its way, and no more of the request is.  Its length is the
\* one that the driver will find it to have, and what it makes the call return
\* is true.
OnItsWay == (got \o toHost) \o ack

Answers(im, c, R) ==
  /\ Len(R) = ReplyLen(c, R)
  /\ Accepted(R) => Promised(im, c, Result(c, R))

Answered(c) ==
  /\ tx = <<>> /\ toDisk = <<>> /\ line = <<>>
  /\ Answers(image, c, OnItsWay)
  /\ refused = IF Accepted(OnItsWay) THEN tries ELSE tries + 1

DiskInv ==
  /\ DiskTypes
  /\ call = Idle => Quiet
  /\ call # Idle => Asking(call) \/ Answered(call)

Blocks == [0..(BLOCK_NUM - 1) -> [1..BLOCK_LEN -> 0..255]]
History == <<image, call, ret, refused>>

\* A request is a line of characters.
LEMMA RequestType ==
  ASSUME NEW c \in Calls
  PROVE  Request(c) \in Seq(Char)
<1> DEFINE e == <<EOL>>
<1>1. e \in Seq(Char) /\ Line(c) \in Seq(Char) /\ Request(c) = Line(c) \o e
  BY LineParse DEF Char
<1> HIDE DEF e
<1> QED BY <1>1, ConcatProperties

\* At the start nothing is under way.
LEMMA DiskStart ==
  ASSUME Init
  PROVE  DiskInv /\ Device!Init
<1>1. DISK_RETRY \in Nat /\ DISK_RETRY # 0 /\ BLOCK_NUM \in Nat /\ BLOCK_LEN \in Nat
  BY DiskAssumption
<1>2. \A S : <<>> \in Seq(S)
  BY EmptySeq
<1>3. image \in [0..(BLOCK_NUM - 1) -> [1..BLOCK_LEN -> 0..255]]
  BY DEF Init
<1>4. DiskTypes /\ call = Idle /\ Quiet
  BY <1>1, <1>2, <1>3 DEF Init, DiskTypes, Quiet
<1>5. Device!Init
  BY DEF Init, Device!Init
<1> QED BY <1>4, <1>5 DEF DiskInv

\* A call puts its whole request where the driver takes it from.
LEMMA StartStep ==
  ASSUME DiskInv, NEW c \in Calls, Start(c)
  PROVE  DiskInv' /\ Device!Request
<1>1. DiskTypes /\ call = Idle /\ Quiet
  BY DEF DiskInv, Start
<1>2. c # Idle /\ call' = c
  BY DiskAssumption DEF Start
<1>3. Request(c) \in Seq(Char) /\ 0 \in 0..(DISK_RETRY - 1) /\ <<>> \in Seq(Char)
  BY RequestType, DiskAssumption, EmptySeq
<1>4. DiskTypes'
  BY <1>1, <1>3 DEF DiskTypes, Start
<1>5. (<<>> \o <<>>) \o Request(c) = Request(c)
  <2>1. <<>> \o <<>> = <<>> /\ <<>> \o Request(c) = Request(c)
    BY <1>3, ConcatEmptySeq
  <2> QED BY <2>1
<1>6. NoEOL(<<>>)
  BY DEF NoEOL
<1>7. Asking(call)'
  BY <1>1, <1>2, <1>5, <1>6 DEF Asking, Quiet, Start
<1>8. Device!Request
  BY <1>2 DEF Start, Device!Request
<1> QED BY <1>2, <1>4, <1>7, <1>8 DEF DiskInv

\* The request passes from the driver to the line.
LEMMA DriverPutStep ==
  ASSUME DiskInv, DriverPut
  PROVE  DiskInv' /\ UNCHANGED History
<1>1. DiskTypes /\ call # Idle /\ Asking(call)
  BY DEF DiskInv, DriverPut, Quiet, Answered
<1>2. (line \o Append(toDisk, Head(tx))) \o Tail(tx) = (line \o toDisk) \o tx
  BY <1>1, Transport DEF DiskTypes, DriverPut
<1>3. Append(toDisk, Head(tx)) \in Seq(Char) /\ Tail(tx) \in Seq(Char)
  BY <1>1, HeadTailProperties, AppendProperties DEF DiskTypes, DriverPut
<1>4. DiskTypes'
  BY <1>1, <1>3 DEF DiskTypes, DriverPut
<1>5. Asking(call)'
  BY <1>1, <1>2 DEF Asking, DriverPut
<1> QED BY <1>1, <1>4, <1>5 DEF DiskInv, DriverPut, History

\* The request passes from the line to the emulator.
LEMMA EmulatorGetStep ==
  ASSUME DiskInv, EmulatorGet
  PROVE  DiskInv' /\ UNCHANGED History
<1>1. DiskTypes /\ call # Idle /\ Asking(call)
  BY DEF DiskInv, EmulatorGet, Quiet, Answered
<1>2. (Append(line, Head(toDisk)) \o Tail(toDisk)) \o tx = (line \o toDisk) \o tx
  BY <1>1, Transport DEF DiskTypes, EmulatorGet
<1> DEFINE l == Append(line, Head(toDisk))
<1>3. Head(toDisk) \in Char /\ Tail(toDisk) \in Seq(Char)
  BY <1>1, HeadTailProperties DEF DiskTypes, EmulatorGet
<1>4. /\ l \in Seq(Char) /\ Len(l) = Len(line) + 1
      /\ \A i \in 1..Len(line) : l[i] = line[i]
      /\ l[Len(line) + 1] = Head(toDisk)
  BY <1>1, <1>3, AppendProperties DEF DiskTypes
<1>5. DiskTypes'
  BY <1>1, <1>3, <1>4 DEF DiskTypes, EmulatorGet, driver
<1>6. line' = l
  BY DEF EmulatorGet
<1> HIDE DEF l
<1>7. NoEOL(l)
  <2>1. Len(line) \in Nat /\ NoEOL(line) /\ Head(toDisk) # EOL
    BY <1>1, LenProperties DEF DiskTypes, Asking, EmulatorGet
  <2> QED BY <1>4, <2>1 DEF NoEOL
<1>8. Asking(call)'
  BY <1>1, <1>2, <1>6, <1>7 DEF Asking, EmulatorGet, driver, l
<1> QED BY <1>1, <1>5, <1>8 DEF DiskInv, EmulatorGet, driver, History

\* The reply passes from the emulator to the line.
LEMMA EmulatorPutStep ==
  ASSUME DiskInv, EmulatorPut
  PROVE  DiskInv' /\ UNCHANGED History
<1>1. DiskTypes /\ call # Idle /\ Answered(call)
  BY DEF DiskInv, EmulatorPut, Quiet, Asking
<1>2. (got \o Append(toHost, Head(ack))) \o Tail(ack) = (got \o toHost) \o ack
  <2>1. got \in Seq(Char) /\ toHost \in Seq(Char) /\ ack \in Seq(Char) /\ ack # <<>>
    BY <1>1 DEF DiskTypes, EmulatorPut
  <2> QED BY <2>1, Transport
<1>3. Append(toHost, Head(ack)) \in Seq(Char) /\ Tail(ack) \in Seq(Char)
  BY <1>1, HeadTailProperties, AppendProperties DEF DiskTypes, EmulatorPut
<1>4. DiskTypes'
  BY <1>1, <1>3 DEF DiskTypes, EmulatorPut, driver
<1>5. OnItsWay' = OnItsWay
  BY <1>2 DEF OnItsWay, EmulatorPut, driver
<1>6. Answered(call)'
  BY <1>1, <1>5 DEF Answered, EmulatorPut, driver
<1> QED BY <1>1, <1>4, <1>6 DEF DiskInv, EmulatorPut, driver, History

\* The reply passes from the line to the driver.
LEMMA DriverGetStep ==
  ASSUME DiskInv, DriverGet
  PROVE  DiskInv' /\ UNCHANGED History
<1> DEFINE g == Append(got, Head(toHost))
<1>0. /\ DriverReads(g) /\ toHost # <<>>
      /\ got' = g /\ UNCHANGED <<call, ret, tries, tx>>
  BY DEF DriverGet, Arrived
<1>1. DiskTypes /\ call # Idle /\ Answered(call)
  BY <1>0 DEF DiskInv, DriverReads, Quiet, Asking
<1>2. (g \o Tail(toHost)) \o ack = (got \o toHost) \o ack
  BY <1>0, <1>1, Transport DEF DiskTypes
<1>3. g \in Seq(Char) /\ Tail(toHost) \in Seq(Char)
  BY <1>0, <1>1, HeadTailProperties, AppendProperties DEF DiskTypes
<1> HIDE DEF g
<1>4. DiskTypes'
  BY <1>0, <1>1, <1>3 DEF DiskTypes, DriverReads
<1>5. OnItsWay' = OnItsWay
  BY <1>0, <1>2 DEF OnItsWay, DriverReads
<1>6. Answered(call)'
  BY <1>0, <1>1, <1>5 DEF Answered, DriverReads
<1> QED BY <1>0, <1>1, <1>4, <1>6 DEF DiskInv, DriverReads, History

\* Once the end of the line has come, the emulator has read the whole request
\* and nothing else is under way.
LEMMA LineRead ==
  ASSUME DiskInv, NEW req, EmulatorReads(req)
  PROVE  /\ DiskTypes /\ call \in Calls /\ call # Idle /\ Understood(call, req)
         /\ got = <<>> /\ toHost = <<>> /\ tx = <<>> /\ refused = tries
         /\ line' = <<>> /\ toDisk' = <<>>
         /\ UNCHANGED <<call, ret, tries, tx, got, toHost>>
<1>1. DiskTypes /\ call # Idle /\ Asking(call)
  BY DEF DiskInv, EmulatorReads, Quiet, Answered
<1>2. call \in Calls
  BY <1>1 DEF DiskTypes
<1>3. /\ Request(call) = Line(call) \o <<EOL>>
      /\ Line(call) \in Seq(Char) /\ NoEOL(Line(call))
      /\ Understood(call, split(Line(call)))
  BY <1>2, LineParse
<1>4. /\ line \in Seq(Char) /\ NoEOL(line) /\ toDisk \in Seq(Char) /\ tx \in Seq(Char)
      /\ toDisk # <<>> /\ Head(toDisk) = EOL
      /\ (line \o toDisk) \o tx = Line(call) \o <<EOL>>
  BY <1>1, <1>3 DEF DiskTypes, Asking, EmulatorReads
<1>5. line = Line(call) /\ Tail(toDisk) = <<>> /\ tx = <<>>
  <2> DEFINE L == Line(call)
  <2>1. L \in Seq(Char) /\ NoEOL(L) /\ WholeLine(line, toDisk, tx, L)
    BY <1>3, <1>4 DEF WholeLine
  <2> HIDE DEF L
  <2>2. line = L /\ Tail(toDisk) = <<>> /\ tx = <<>>
    BY <1>4, <2>1, EndOfLine
  <2> QED BY <2>2 DEF L
<1> QED BY <1>1, <1>2, <1>3, <1>5 DEF EmulatorReads, driver, Asking

\* With the reply R, which is what the driver expects, the request is answered.
LEMMA Replied ==
  ASSUME DiskInv, NEW req, EmulatorReads(req), NEW R \in Seq(Char), ack' = R,
         image' \in Blocks, Answers(image', call, R),
         refused' = IF Accepted(R) THEN tries ELSE tries + 1
  PROVE  DiskInv'
<1>1. /\ DiskTypes /\ call # Idle /\ got = <<>> /\ toHost = <<>> /\ tx = <<>>
      /\ line' = <<>> /\ toDisk' = <<>>
      /\ UNCHANGED <<call, tries, tx, got, toHost>>
  BY LineRead
<1>2. <<>> \in Seq(Char)
  BY EmptySeq
<1>3. DiskTypes'
  BY <1>1, <1>2 DEF DiskTypes, Blocks
<1>4. (<<>> \o <<>>) \o R = R
  <2>1. <<>> \o <<>> = <<>> /\ <<>> \o R = R
    BY <1>2, ConcatEmptySeq
  <2> QED BY <2>1
<1>5. OnItsWay' = R
  BY <1>1, <1>4 DEF OnItsWay
<1>6. Answered(call)'
  BY <1>1, <1>5 DEF Answered
<1> QED BY <1>1, <1>3, <1>6 DEF DiskInv

\* A refusal counts, and is answered.
LEMMA FailStep ==
  ASSUME DiskInv, NEW req, EmulatorReads(req), Fail, image' \in Blocks
  PROVE  DiskInv'
<1>1. /\ DiskTypes /\ refused = tries
  BY LineRead
<1>2. refused < DISK_RETRY
  BY <1>1, DiskAssumption DEF DiskTypes
<1>3. refused' = tries + 1 /\ ack' = ACK_FAIL
  BY <1>1, <1>2 DEF Fail
<1>4. ACK_FAIL \in Seq(Char) /\ Len(ACK_FAIL) = 3 /\ ~ Accepted(ACK_FAIL)
  BY FailReply
<1>5. Answers(image', call, ACK_FAIL)
  BY <1>4 DEF Answers, ReplyLen
<1> QED BY <1>3, <1>4, <1>5, Replied

\* An acceptance with the data that the call expects is answered.
LEMMA OkayStep ==
  ASSUME DiskInv, NEW req, EmulatorReads(req), NEW D \in Seq(0..255), Okay(D),
         image' \in Blocks,
         Len(Reply(D)) = ReplyLen(call, Reply(D)),
         Promised(image', call, Result(call, Reply(D)))
  PROVE  DiskInv'
<1>1. Reply(D) \in Seq(Char) /\ Accepted(Reply(D))
  BY ShortReply, DataReply
<1>2. ack' = Reply(D)
  BY DEF Okay, Reply
<1>3. refused' = tries
  BY LineRead DEF Okay
<1>4. Answers(image', call, Reply(D))
  BY DEF Answers
<1> QED BY <1>1, <1>2, <1>3, <1>4, Replied

\* The disk answers with its sizes.
LEMMA ConfStep ==
  ASSUME DiskInv, conf
  PROVE  DiskInv' /\ UNCHANGED History
<1> DEFINE req == split(line)
           D == LowFirst(BLOCK_NUM) \o LowFirst(BLOCK_LEN)
           R == Reply(D)
<1>1. EmulatorReads(req) /\ req[1] = REQ(0) /\ Okay(D) /\ image' = image
  BY DEF conf
<1> HIDE DEF req
<1>2. DiskTypes /\ call \in Calls /\ call.op \in {"NUM", "LEN"} /\ UNCHANGED <<call, ret>>
  BY <1>1, LineRead DEF Understood
<1>3. /\ D \in Seq(0..255) /\ D # <<>> /\ Len(D) = 2 * WORD_LEN
      /\ Value(SubSeq(D, 1, WORD_LEN)) = BLOCK_NUM
      /\ Value(SubSeq(D, WORD_LEN + 1, 2 * WORD_LEN)) = BLOCK_LEN
  BY SizesRead
<1>4. Okay(D)
  BY <1>1
<1> HIDE DEF D
<1>5. /\ Len(R) = 4 + (2 * Len(D)) /\ Accepted(R)
      /\ data_geth(SubSeq(R, 4, Len(R) - 1)) = D
  BY <1>3, DataReply
<1> HIDE DEF R
<1>6. Len(R) = ReplyLen(call, R)
  <2>1. ReplyLen(call, R) = 4 + 4 * WORD_LEN
    BY <1>2, <1>5 DEF ReplyLen
  <2>2. WORD_LEN \in Nat
    BY DiskAssumption
  <2> QED BY <1>3, <1>5, <2>1, <2>2
<1>7. Promised(image', call, Result(call, R))
  BY <1>2, <1>3, <1>5 DEF Promised, Result
<1>8. image' \in Blocks
  BY <1>1, <1>2 DEF DiskTypes, Blocks
<1>9. DiskInv'
  BY <1>1, <1>3, <1>4, <1>6, <1>7, <1>8, OkayStep DEF R
<1> QED BY <1>1, <1>2, <1>4, <1>9 DEF Okay, History

\* The host writes the block, or part of it.
LEMMA WrStep ==
  ASSUME DiskInv, wr
  PROVE  DiskInv' /\ ((Device!Touch /\ UNCHANGED refused) \/ Device!Refuse)
<1> DEFINE req == split(line)
           a == call.addr
<1>1. PICK n \in 0..BLOCK_LEN :
        /\ EmulatorReads(req) /\ req[1] = REQ(1) /\ Served(req)
        /\ image' = [image EXCEPT ![Address(req)] =
             [i \in 1..BLOCK_LEN |-> IF i <= n THEN data_geth(req[3])[i] ELSE @[i]]]
        /\ IF n = BLOCK_LEN THEN Okay(<<>>) ELSE Fail
  BY DEF wr
<1> HIDE DEF req
<1>2. /\ DiskTypes /\ call \in Calls /\ call # Idle /\ Understood(call, req)
      /\ refused = tries /\ UNCHANGED <<call, ret, tries>>
  BY <1>1, LineRead
<1>3. call.op = "WR" /\ Address(req) = a /\ data_geth(req[3]) = call.data
  BY <1>1, <1>2 DEF Understood
<1>4. a \in Nat /\ call.data \in [1..BLOCK_LEN -> 0..255] /\ BLOCK_LEN \in Nat /\ BLOCK_NUM \in Nat
  BY <1>2, <1>3, CallTypes, DiskAssumption
<1>5. a < BLOCK_NUM
  BY <1>1, <1>2, <1>3 DEF Served, Understood
<1> DEFINE b == [i \in 1..BLOCK_LEN |-> IF i <= n THEN call.data[i] ELSE image[a][i]]
<1>6. image \in Blocks /\ a \in 0..(BLOCK_NUM - 1)
  BY <1>2, <1>4, <1>5 DEF DiskTypes, Blocks
<1>7. image' = [image EXCEPT ![a] = b]
  BY <1>1, <1>3
<1>8. b \in [1..BLOCK_LEN -> 0..255] /\ \A i \in 1..BLOCK_LEN : b[i] \in {image[a][i], call.data[i]}
  <2> DEFINE old == image[a]
             data == call.data
  <2>1. old \in [1..BLOCK_LEN -> 0..255] /\ data \in [1..BLOCK_LEN -> 0..255]
    BY <1>4, <1>6 DEF Blocks
  <2> HIDE DEF old, data
  <2>2. ASSUME NEW i \in 1..BLOCK_LEN
        PROVE  (IF i <= n THEN data[i] ELSE old[i]) \in (0..255) \cap {old[i], data[i]}
    BY <2>1
  <2> DEFINE d == [i \in 1..BLOCK_LEN |-> IF i <= n THEN data[i] ELSE old[i]]
  <2>3. d \in [1..BLOCK_LEN -> 0..255] /\ \A i \in 1..BLOCK_LEN : d[i] \in {old[i], data[i]}
    BY <2>2
  <2>4. d = b
    BY DEF old, data
  <2> QED BY <2>3, <2>4 DEF old, data
<1>9. n = BLOCK_LEN => b = call.data
  BY <1>4
<1> HIDE DEF b, a
<1>10. image' \in Blocks /\ image'[a] = b /\ \A x \in DOMAIN image : x # a => image'[x] = image[x]
  BY <1>6, <1>7, <1>8 DEF Blocks
<1>11. Device!Touch
  BY <1>2, <1>3, <1>5, <1>8, <1>10 DEF Device!Touch, Device!Valid, a
<1>12. CASE n = BLOCK_LEN
  <2>1. Okay(<<>>)
    BY <1>1, <1>12
  <2>2. Len(Reply(<<>>)) = ReplyLen(call, Reply(<<>>)) /\ <<>> \in Seq(0..255)
    BY <1>3, ShortReply, EmptySeq DEF ReplyLen
  <2>3. Promised(image', call, Result(call, Reply(<<>>)))
    BY <1>3, <1>5, <1>9, <1>10, <1>12 DEF Promised, Result, a
  <2>4. DiskInv'
    BY <1>1, <1>10, <2>1, <2>2, <2>3, OkayStep
  <2> QED BY <1>11, <2>1, <2>4 DEF Okay
<1>13. CASE n # BLOCK_LEN
  <2>1. Fail
    BY <1>1, <1>13
  <2>2. DiskInv'
    BY <1>1, <1>10, <2>1, FailStep
  <2>3. Device!Refuse
    BY <1>2, <1>3, <1>11, <2>1 DEF Fail, Device!Refuse
  <2> QED BY <2>2, <2>3
<1> QED BY <1>12, <1>13

\* A refusal leaves the blocks as they are.
LEMMA RefuseStep ==
  ASSUME DiskInv, NEW req, EmulatorReads(req), Fail, image' = image, call.op \in {"WR", "RD"}
  PROVE  DiskInv' /\ Device!Refuse
<1>1. DiskTypes /\ call # Idle /\ UNCHANGED <<call, ret>>
  BY LineRead
<1>2. image' \in Blocks
  BY <1>1 DEF DiskTypes, Blocks
<1> QED BY <1>1, <1>2, FailStep DEF Fail, Device!Refuse

\* The host reads the block, or less than that.
LEMMA RdStep ==
  ASSUME DiskInv, rd
  PROVE  DiskInv' /\ (UNCHANGED History \/ Device!Refuse)
<1> DEFINE req == split(line)
           a == call.addr
           D == image[a]
           R == Reply(D)
<1>1. /\ EmulatorReads(req) /\ req[1] = REQ(2) /\ Served(req)
      /\ Okay(image[Address(req)]) \/ Fail
      /\ image' = image
  BY DEF rd
<1> HIDE DEF req
<1>2. /\ DiskTypes /\ call \in Calls /\ call # Idle /\ Understood(call, req)
      /\ UNCHANGED <<call, ret>>
  BY <1>1, LineRead
<1>3. call.op = "RD" /\ Address(req) = a
  BY <1>1, <1>2 DEF Understood
<1>4. a \in Nat /\ a < BLOCK_NUM /\ BLOCK_NUM \in Nat /\ BLOCK_LEN \in Nat /\ BLOCK_LEN >= 1
  BY <1>1, <1>2, <1>3, CallTypes, DiskAssumption DEF Served, Understood
<1>5. image \in Blocks /\ a \in 0..(BLOCK_NUM - 1)
  <2>1. a \in 0..(BLOCK_NUM - 1)
    BY <1>4
  <2> QED BY <1>2, <2>1 DEF DiskTypes, Blocks
<1>6. D \in Seq(0..255) /\ Len(D) = BLOCK_LEN
  <2>1. D \in [1..BLOCK_LEN -> 0..255]
    BY <1>5 DEF Blocks
  <2> HIDE DEF D
  <2> QED BY <1>4, <2>1, FuncSeq
<1>7. CASE Fail
  BY <1>1, <1>3, <1>7, RefuseStep
<1>8. CASE Okay(image[Address(req)])
  <2>1. Okay(D)
    BY <1>3, <1>8
  <2> HIDE DEF D
  <2>2. D # <<>>
    BY <1>4, <1>6, EmptySeq
  <2>3. /\ Len(R) = 4 + (2 * Len(D)) /\ Accepted(R)
        /\ data_geth(SubSeq(R, 4, Len(R) - 1)) = D
    BY <1>6, <2>2, DataReply
  <2> HIDE DEF R
  <2>4. Len(R) = ReplyLen(call, R)
    BY <1>3, <1>6, <2>3 DEF ReplyLen
  <2>5. Result(call, R) = <<0, D>>
    BY <1>3, <2>3 DEF Result
  <2>6. Promised(image', call, Result(call, R))
    BY <1>1, <1>3, <1>4, <2>5 DEF Promised, D
  <2>7. DiskInv'
    BY <1>1, <1>5, <1>6, <2>1, <2>4, <2>6, OkayStep DEF R
  <2> QED BY <1>1, <1>2, <2>1, <2>7 DEF Okay, History
<1> QED BY <1>1, <1>7, <1>8

\* Only requests for an address off the disk are refused out of hand.
LEMMA RefusedStep ==
  ASSUME DiskInv, refuse
  PROVE  DiskInv' /\ Device!Refuse
<1> DEFINE req == split(line)
<1>1. EmulatorReads(req) /\ ~ Served(req) /\ Fail /\ image' = image
  BY DEF refuse
<1> HIDE DEF req
<1>2. call \in Calls /\ Understood(call, req)
  BY <1>1, LineRead
<1>3. call.op \in {"WR", "RD"}
  BY <1>1, <1>2, CallTypes DEF Served, Understood
<1> QED BY <1>1, <1>3, RefuseStep

\* Once the driver has a whole reply, nothing else is under way, and what the
\* reply makes the call return is true.
LEMMA Complete ==
  ASSUME DiskInv, NEW g, g \in Arrived, DriverReads(g), Len(g) = ReplyLen(call, g)
  PROVE  /\ DiskTypes /\ call \in Calls /\ call # Idle
         /\ Accepted(g) => refused = tries /\ Promised(image, call, Result(call, g))
         /\ ~ Accepted(g) => refused = tries + 1
         /\ tx = <<>> /\ toDisk' = <<>> /\ line' = <<>> /\ toHost' = <<>> /\ ack' = <<>>
         /\ UNCHANGED <<image, refused>>
<1> DEFINE rest == Tail(toHost) \o ack
<1>1. DiskTypes /\ call # Idle /\ Answered(call) /\ toHost # <<>> /\ g = Append(got, Head(toHost))
  BY DEF DiskInv, DriverReads, Arrived, Quiet, Asking
<1>2. call \in Calls /\ got \in Seq(Char) /\ toHost \in Seq(Char) /\ ack \in Seq(Char)
  BY <1>1 DEF DiskTypes
<1>3. g \in Seq(Char) /\ Tail(toHost) \in Seq(Char)
  BY <1>1, <1>2, HeadTailProperties, AppendProperties
<1>4. (g \o Tail(toHost)) \o ack = OnItsWay
  BY <1>1, <1>2, Transport DEF OnItsWay
<1>5. (g \o Tail(toHost)) \o ack = g \o rest
  <2> DEFINE t == Tail(toHost)
  <2>1. g \in Seq(Char) /\ t \in Seq(Char) /\ ack \in Seq(Char)
    BY <1>2, <1>3
  <2> HIDE DEF rest, t
  <2>2. (g \o t) \o ack = g \o (t \o ack)
    BY <2>1, ConcatAssociative
  <2> QED BY <2>2 DEF rest, t
<1>6. rest \in Seq(Char)
  BY <1>2, <1>3, ConcatProperties
<1>7. rest = <<>> => Tail(toHost) = <<>> /\ ack = <<>>
  BY <1>2, <1>3, ConcatEqualIffEmpty
<1> HIDE DEF rest
<1>8. OnItsWay = g \o rest
  BY <1>4, <1>5
<1>9. Len(g \o rest) = ReplyLen(call, g \o rest)
  BY <1>1, <1>8 DEF Answered, Answers
<1>10. g \o rest = g /\ rest = <<>>
  BY <1>2, <1>3, <1>6, <1>9, ReplyTaken
<1>11. OnItsWay = g
  BY <1>8, <1>10
<1> QED BY <1>1, <1>2, <1>7, <1>10, <1>11 DEF Answered, Answers, DriverReads

\* A call that returns leaves nothing under way.
LEMMA ReturnStep ==
  ASSUME DiskInv, NEW g, g \in Arrived, DriverReads(g), Len(g) = ReplyLen(call, g),
         NEW r, Return(r)
  PROVE  DiskInv'
<1>1. /\ DiskTypes /\ UNCHANGED image
      /\ tx = <<>> /\ toDisk' = <<>> /\ line' = <<>> /\ toHost' = <<>> /\ ack' = <<>>
  BY Complete
<1>2. tx' = <<>> /\ got' = <<>> /\ call' = Idle /\ tries' = 0
  BY <1>1 DEF Return
<1>3. <<>> \in Seq(Char) /\ 0 \in 0..(DISK_RETRY - 1)
  BY EmptySeq, DiskAssumption
<1>4. DiskTypes'
  BY <1>1, <1>2, <1>3 DEF DiskTypes
<1>5. Quiet'
  BY <1>1, <1>2 DEF Quiet
<1> QED BY <1>2, <1>4, <1>5 DEF DiskInv

\* What an accepted call returns is true.
LEMMA SucceedStep ==
  ASSUME DiskInv, Succeed
  PROVE  DiskInv' /\ Device!Next
<1>1. PICK g \in Arrived : /\ DriverReads(g) /\ Len(g) = ReplyLen(call, g) /\ Accepted(g)
                           /\ Return(Result(call, g))
  BY DEF Succeed
<1>2. /\ call \in Calls /\ call # Idle /\ Promised(image, call, Result(call, g))
      /\ UNCHANGED <<image, refused>>
  BY <1>1, Complete
<1>3. DiskInv'
  BY <1>1, ReturnStep
<1>4. Device!Done(Result(call, g))
  BY <1>1, <1>2 DEF Device!Done, Return
<1>5. \/ Device!Written \/ Device!Read \/ Device!Number \/ Device!Length
  BY <1>2, <1>4, CallTypes DEF Promised, Device!Written, Device!Read, Device!Number,
     Device!Length, Device!Valid
<1> QED BY <1>2, <1>3, <1>5 DEF Device!Next

\* A call that has been refused is put again.
LEMMA RetryStep ==
  ASSUME DiskInv, Retry
  PROVE  DiskInv' /\ UNCHANGED History
<1>1. PICK g \in Arrived : /\ DriverReads(g) /\ Len(g) = ReplyLen(call, g) /\ ~ Accepted(g)
                           /\ tries + 1 < DISK_RETRY
                           /\ tries' = tries + 1 /\ tx' = Request(call)
                           /\ got' = <<>> /\ UNCHANGED <<call, ret>>
  BY DEF Retry
<1>2. /\ DiskTypes /\ call \in Calls /\ call # Idle /\ refused = tries + 1
      /\ toDisk' = <<>> /\ line' = <<>> /\ toHost' = <<>> /\ ack' = <<>>
      /\ UNCHANGED <<image, refused>>
  BY <1>1, Complete
<1>3. Request(call) \in Seq(Char) /\ <<>> \in Seq(Char)
  BY <1>2, RequestType, EmptySeq
<1>4. tries + 1 \in 0..(DISK_RETRY - 1)
  BY <1>1, <1>2, DiskAssumption DEF DiskTypes
<1>5. DiskTypes'
  BY <1>1, <1>2, <1>3, <1>4 DEF DiskTypes
<1>6. (<<>> \o <<>>) \o Request(call) = Request(call)
  <2>1. <<>> \o <<>> = <<>> /\ <<>> \o Request(call) = Request(call)
    BY <1>3, ConcatEmptySeq
  <2> QED BY <2>1
<1>7. NoEOL(<<>>)
  BY DEF NoEOL
<1>8. Asking(call)'
  BY <1>1, <1>2, <1>6, <1>7 DEF Asking
<1> QED BY <1>1, <1>2, <1>5, <1>8 DEF DiskInv, History

\* A call fails only when it has been refused DISK_RETRY times.
LEMMA GiveUpStep ==
  ASSUME DiskInv, GiveUp
  PROVE  DiskInv' /\ Device!Next
<1>1. PICK g \in Arrived : /\ DriverReads(g) /\ Len(g) = ReplyLen(call, g) /\ ~ Accepted(g)
                           /\ tries + 1 >= DISK_RETRY /\ Return(<<-1>>)
  BY DEF GiveUp
<1>2. DiskTypes /\ call # Idle /\ refused = tries + 1 /\ UNCHANGED <<image, refused>>
  BY <1>1, Complete
<1>3. refused = DISK_RETRY
  <2>1. tries \in 0..(DISK_RETRY - 1) /\ DISK_RETRY \in Nat
    BY <1>2, DiskAssumption DEF DiskTypes
  <2>2. tries + 1 = DISK_RETRY
    BY <1>1, <2>1
  <2> QED BY <1>2, <2>2
<1>4. DiskInv'
  BY <1>1, ReturnStep
<1>5. Device!Failed
  BY <1>1, <1>2, <1>3 DEF Device!Failed, Device!Done, Return
<1> QED BY <1>2, <1>4, <1>5 DEF Device!Next

\* Every step keeps the invariant and is a step of the device, or none.
LEMMA DiskStep ==
  ASSUME DiskInv, [Next]_vars
  PROVE  DiskInv' /\ [Device!Next]_History
<1>1. ASSUME NEW c \in Calls, Start(c) PROVE DiskInv' /\ [Device!Next]_History
  BY <1>1, StartStep DEF Device!Next
<1>2. CASE Driver
  BY <1>2, DriverPutStep, DriverGetStep, SucceedStep, RetryStep, GiveUpStep DEF Driver
<1>3. CASE Emulator
  <2>1. CASE EmulatorGet \/ EmulatorPut \/ conf
    BY <2>1, EmulatorGetStep, EmulatorPutStep, ConfStep
  <2>2. CASE wr
    BY <2>2, WrStep DEF Device!Next
  <2>3. CASE rd
    BY <2>3, RdStep DEF Device!Next
  <2>4. CASE refuse
    BY <2>4, RefusedStep DEF Device!Next
  <2> QED BY <1>3, <2>1, <2>2, <2>3, <2>4 DEF Emulator
<1>4. CASE UNCHANGED vars
  BY <1>4 DEF vars, DiskInv, DiskTypes, Quiet, Asking, Answered, OnItsWay, Answers, Promised, History
<1> QED BY <1>1, <1>2, <1>3, <1>4 DEF Next

-----------------------------------------------------------------------------
(* Theorems *)

LEMMA DiskInvariant == Spec => []DiskInv
<1>1. DiskInv /\ [Next]_vars => DiskInv'
  BY DiskStep
<1> QED BY <1>1, DiskStart, PTL DEF Spec

\* Between two calls no character is under way in either direction: whatever
\* was refused, however often it was retried and however small the FIFOs are,
\* the driver and the emulator have read all of each other's lines.
THEOREM NothingBetweenCalls == Spec => []InStep
<1>1. DiskInv => InStep
  <2> SUFFICES ASSUME DiskInv, call = Idle PROVE InStep
    BY DEF InStep
  <2>1. Quiet
    BY DEF DiskInv
  <2>2. <<>> \o <<>> = <<>>
    BY EmptySeq, ConcatEmptySeq
  <2> QED BY <2>1, <2>2 DEF Quiet, InStep
<1> QED BY <1>1, DiskInvariant, PTL

\* The driver, the line and the emulator are the block device that the file
\* system counts on.
THEOREM DiskIsBlockDevice == Spec => ImplementsDevice
<1>1. DiskInv /\ [Next]_vars => [Device!Next]_<<image, call, ret, refused>>
  BY DiskStep DEF History
<1>2. Init => Device!Init
  BY DiskStart
<1> QED BY <1>1, <1>2, DiskInvariant, PTL DEF Spec, ImplementsDevice, Device!Spec
=============================================================================
