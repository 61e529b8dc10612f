---------------------------- MODULE DidAuth_proofs ----------------------------
(* Of a client's DID and its calls: base58btc loses nothing, a key has one *)
(* DID and a DID one key, and a call is served as it was signed, for any   *)
(* bases, lengths and calls.  Before that, induction and recursion over    *)
(* the naturals, said of sets.                                             *)
EXTENDS DidAuth, FiniteSetTheorems, SequenceTheorems, TLAPS

-----------------------------------------------------------------------------
(* Induction and recursion.                                                *)

(* Every set of naturals has a least one. *)
LEMMA LeastNatural ==
  ASSUME NEW A \in SUBSET Nat, A # {}
  PROVE  \E n \in A : \A m \in A : n <= m
<1> DEFINE Below(n) == 0 .. n - 1
           T == {Below(n) : n \in A}
<1>1. ASSUME NEW n \in A PROVE Below(n) \in FiniteSubsetsOf(Nat)
  <2>1. IsFiniteSet(0 .. n - 1) /\ 0 .. n - 1 \in SUBSET Nat
    BY FS_Interval
  <2> QED
    BY <2>1 DEF FiniteSubsetsOf
<1>2. T \subseteq FiniteSubsetsOf(Nat) /\ T # {}
  BY <1>1
<1>3. IsWellFoundedOn(StrictSubsetOrdering(Nat), FiniteSubsetsOf(Nat))
  BY FS_StrictSubsetOrderingWellFounded
<1>4. \E B \in T : \A C \in T : ~(<<C, B>> \in StrictSubsetOrdering(Nat))
  <2> HIDE DEF T
  <2> QED
    BY <1>2, <1>3, WFMin
<1>5. PICK n \in A : \A m \in A : ~(<<Below(m), Below(n)>> \in StrictSubsetOrdering(Nat))
  BY <1>4
<1>6. ASSUME NEW m \in A, m < n PROVE FALSE
  <2>1. /\ Below(m) \in SUBSET Nat /\ Below(n) \in SUBSET Nat
        /\ Below(m) \subseteq Below(n) /\ m \in Below(n) /\ m \notin Below(m)
    BY <1>6
  <2>2. <<Below(m), Below(n)>> \in StrictSubsetOrdering(Nat)
    BY <2>1 DEF StrictSubsetOrdering
  <2> QED
    BY <1>5, <2>2
<1> QED
  BY <1>6

(* Induction, for a set. *)
LEMMA Induction ==
  ASSUME NEW S, 0 \in S, \A n \in Nat : n \in S => n + 1 \in S
  PROVE  Nat \subseteq S
<1>1. SUFFICES ASSUME Nat \ S # {} PROVE FALSE
  OBVIOUS
<1>2. PICK n \in Nat \ S : \A m \in Nat \ S : n <= m
  BY <1>1, LeastNatural
<1>3. n # 0 /\ n - 1 \in Nat /\ n - 1 \in S
  BY <1>2
<1> QED
  BY <1>2, <1>3

(* What f[n] is for n above 0 refers to f at prev[n], which is below n. *)
Descends(prev) == prev \in [Nat -> Nat] /\ \A n \in Nat \ {0} : prev[n] < n

(* f obeys the recursion, from v0 at 0. *)
Recurs(f, v0, step, prev) == f[0] = v0 /\ \A n \in Nat \ {0} : f[n] = step[n][f[prev[n]]]

(* A function of 0 to n with a value for n + 1. *)
LEMMA Appended ==
  ASSUME NEW V, NEW n \in Nat, NEW g \in [0 .. n -> V], NEW v \in V
  PROVE  LET h == [i \in 0 .. n + 1 |-> IF i <= n THEN g[i] ELSE v]
         IN  /\ h \in [0 .. n + 1 -> V] /\ h[n + 1] = v
             /\ \A i \in 0 .. n : h[i] = g[i]
<1> DEFINE h == [i \in 0 .. n + 1 |-> IF i <= n THEN g[i] ELSE v]
<1>1. \A i \in 0 .. n + 1 : (i <= n => i \in 0 .. n) /\ (~(i <= n) => i = n + 1)
  OBVIOUS
<1>2. \A i \in 0 .. n + 1 : (IF i <= n THEN g[i] ELSE v) \in V
  BY <1>1
<1>3. h \in [0 .. n + 1 -> V]
  BY <1>2
<1>4. n + 1 \in 0 .. n + 1 /\ ~(n + 1 <= n)
  OBVIOUS
<1>5. h[n + 1] = v
  BY <1>4
<1>6. \A i \in 0 .. n : i \in 0 .. n + 1 /\ i <= n
  OBVIOUS
<1>7. \A i \in 0 .. n : h[i] = g[i]
  BY <1>6
<1> QED
  BY <1>3, <1>5, <1>7

(* A function of the naturals may refer to itself at a smaller number. *)
LEMMA Recursion ==
  ASSUME NEW V, NEW v0 \in V, NEW step \in [Nat -> [V -> V]],
         NEW prev, Descends(prev)
  PROVE  \E f \in [Nat -> V] : Recurs(f, v0, step, prev)
<1> USE DEF Descends, Recurs
<1> DEFINE Upto(n, g) == /\ g \in [0 .. n -> V] /\ g[0] = v0
                         /\ \A i \in 1 .. n : g[i] = step[i][g[prev[i]]]
           S == {n \in Nat : \E g : Upto(n, g)}
<1>1. 0 \in S
  <2>1. Upto(0, [i \in 0 .. 0 |-> v0])
    OBVIOUS
  <2> QED
    BY <2>1
<1>2. ASSUME NEW n \in Nat, n \in S PROVE n + 1 \in S
  <2>1. PICK g : Upto(n, g)
    BY <1>2
  <2> DEFINE v == step[n + 1][g[prev[n + 1]]]
             h == [i \in 0 .. n + 1 |-> IF i <= n THEN g[i] ELSE v]
  <2>2. \A i \in 1 .. n + 1 : prev[i] \in 0 .. n /\ prev[i] < i
    OBVIOUS
  <2>3. g \in [0 .. n -> V] /\ g[0] = v0 /\ \A i \in 1 .. n : g[i] = step[i][g[prev[i]]]
    BY <2>1
  <2>4. v \in V
    <3>1. n + 1 \in Nat /\ prev[n + 1] \in 0 .. n
      BY <2>2
    <3> QED
      BY <2>3, <3>1
  <2>5. v = step[n + 1][g[prev[n + 1]]]
    OBVIOUS
  <2> HIDE DEF v
  <2>6. /\ h \in [0 .. n + 1 -> V] /\ h[n + 1] = v
        /\ \A i \in 0 .. n : h[i] = g[i]
    BY <2>3, <2>4, Appended
  <2> HIDE DEF h
  <2>7. h[0] = v0
    BY <2>3, <2>6
  <2>8. ASSUME NEW i \in 1 .. n + 1 PROVE h[i] = step[i][h[prev[i]]]
    <3>1. h[prev[i]] = g[prev[i]]
      BY <2>2, <2>6
    <3>2. CASE i = n + 1
      BY <2>5, <2>6, <3>1, <3>2
    <3>3. CASE i \in 1 .. n
      BY <2>3, <2>6, <3>1, <3>3
    <3> QED
      BY <3>2, <3>3
  <2>9. Upto(n + 1, h)
    BY <2>6, <2>7, <2>8
  <2> QED
    BY <2>9, n + 1 \in Nat
<1> HIDE DEF S
<1>3. Nat \subseteq S
  BY <1>1, <1>2, Induction
<1>4. ASSUME NEW n \in Nat, NEW m \in Nat, NEW g, NEW h, Upto(n, g), Upto(m, h)
      PROVE  \A i \in Nat : i <= n /\ i <= m => g[i] = h[i]
  <2> DEFINE E == {i \in Nat : \A j \in 0 .. i : j <= n /\ j <= m => g[j] = h[j]}
  <2>1. 0 \in E
    BY <1>4
  <2>2. ASSUME NEW i \in Nat, i \in E PROVE i + 1 \in E
    <3>1. SUFFICES ASSUME i + 1 <= n, i + 1 <= m PROVE g[i + 1] = h[i + 1]
      BY <2>2
    <3>2. prev[i + 1] \in 0 .. i /\ prev[i + 1] <= n /\ prev[i + 1] <= m
      BY <3>1
    <3>3. g[prev[i + 1]] = h[prev[i + 1]]
      BY <2>2, <3>2
    <3>4. i + 1 \in 1 .. n /\ i + 1 \in 1 .. m
      BY <3>1
    <3>5. g[i + 1] = step[i + 1][g[prev[i + 1]]] /\ h[i + 1] = step[i + 1][h[prev[i + 1]]]
      BY <1>4, <3>4
    <3> QED
      BY <3>3, <3>5
  <2> HIDE DEF E
  <2>3. Nat \subseteq E
    BY <2>1, <2>2, Induction
  <2> QED
    BY <2>3 DEF E
<1>5. \A n \in Nat : \E g : Upto(n, g)
  BY <1>3 DEF S
<1> DEFINE G(n) == CHOOSE g : Upto(n, g)
           f == [n \in Nat |-> G(n)[n]]
<1>6. \A n \in Nat : Upto(n, G(n))
  BY <1>5
<1> HIDE DEF G
<1>7. f \in [Nat -> V]
  BY <1>6
<1>8. ASSUME NEW n \in Nat, n # 0 PROVE f[n] = step[n][f[prev[n]]]
  <2>1. prev[n] \in Nat /\ prev[n] <= n
    BY <1>8
  <2>2. Upto(n, G(n)) /\ Upto(prev[n], G(prev[n]))
    BY <1>6, <2>1
  <2>3. G(n)[prev[n]] = G(prev[n])[prev[n]]
    <3> HIDE DEF Upto
    <3> QED
      BY <1>4, <2>1, <2>2
  <2> QED
    BY <1>8, <2>1, <2>2, <2>3
<1>9. f[0] = v0
  BY <1>6
<1> QED
  BY <1>7, <1>8, <1>9

(* The same for a function that refers to itself one below. *)
RecursUpto(f, n, v0, step) == f[0] = v0 /\ \A i \in 1 .. n : f[i] = step[i][f[i - 1]]

(* The same for a function of the numbers up to n. *)
LEMMA RecursionUpto ==
  ASSUME NEW V, NEW v0 \in V, NEW n \in Nat, NEW step \in [1 .. n -> [V -> V]]
  PROVE  \E f \in [0 .. n -> V] : RecursUpto(f, n, v0, step)
<1> DEFINE steps == [i \in Nat |-> IF i \in 1 .. n THEN step[i] ELSE [v \in V |-> v]]
           prev == [i \in Nat |-> IF i = 0 THEN 0 ELSE i - 1]
<1>1. /\ steps \in [Nat -> [V -> V]] /\ Descends(prev)
  BY DEF Descends
<1>2. PICK f \in [Nat -> V] : Recurs(f, v0, steps, prev)
  <2> HIDE DEF steps, prev
  <2> QED
    BY <1>1, Recursion
<1> DEFINE h == [i \in 0 .. n |-> f[i]]
<1>3. h \in [0 .. n -> V] /\ h[0] = v0
  BY <1>2 DEF Recurs
<1>4. ASSUME NEW i \in 1 .. n PROVE h[i] = step[i][h[i - 1]]
  <2>1. prev[i] = i - 1 /\ steps[i] = step[i] /\ h[i - 1] = f[i - 1] /\ h[i] = f[i]
    OBVIOUS
  <2> QED
    BY <1>2, <2>1 DEF Recurs
<1>5. RecursUpto(h, n, v0, step)
  BY <1>3, <1>4 DEF RecursUpto
<1> QED
  BY <1>3, <1>5

-----------------------------------------------------------------------------
(* Induction where the statement is known of all smaller numbers. *)
LEMMA StrongInduction ==
  ASSUME NEW S, \A n \in Nat : (\A m \in 0 .. n - 1 : m \in S) => n \in S
  PROVE  Nat \subseteq S
<1> DEFINE T == {n \in Nat : \A m \in 0 .. n : m \in S}
<1>1. 0 \in T
  OBVIOUS
<1>2. ASSUME NEW n \in Nat, n \in T PROVE n + 1 \in T
  <2>1. \A m \in 0 .. (n + 1) - 1 : m \in S
    BY <1>2
  <2>2. n + 1 \in S
    BY <2>1
  <2> QED
    BY <1>2, <2>2
<1> HIDE DEF T
<1>3. Nat \subseteq T
  BY <1>1, <1>2, Induction
<1> QED
  BY <1>3 DEF T

-----------------------------------------------------------------------------
(* Numbers and their digits. *)

(* A sequence of one. *)
LEMMA Singleton ==
  ASSUME NEW S, NEW e \in S
  PROVE  <<e>> \in Seq(S) /\ Len(<<e>>) = 1 /\ <<e>>[1] = e
  OBVIOUS

(* What division and remainder are. *)
LEMMA DivMod ==
  ASSUME NEW b \in Nat, b > 1, NEW n \in Nat
  PROVE  /\ n \div b \in Nat /\ n % b \in 0 .. b - 1
         /\ n = b * (n \div b) + (n % b)
         /\ n > 0 => n \div b < n
  <1>1. n \div b \in Nat /\ n % b \in 0 .. b - 1 /\ n = b * (n \div b) + (n % b)
    OBVIOUS
  <1>2. n > 0 => n \div b < n
    BY <1>1
  <1> QED
    BY <1>1, <1>2

(* Division recovers the quotient and the remainder. *)
LEMMA DivModUnique ==
  ASSUME NEW b \in Nat, b > 1, NEW q \in Nat, NEW r \in 0 .. b - 1
  PROVE  (b * q + r) \div b = q /\ (b * q + r) % b = r
<1> DEFINE n == b * q + r
           p == n \div b
           s == n % b
<1>1. n \in Nat
  OBVIOUS
<1>2. p \in Nat /\ s \in 0 .. b - 1 /\ b * q + r = b * p + s
  BY <1>1, DivMod
<1> HIDE DEF p, s, n
<1>3. CASE p > q
  <2>1. p >= q + 1 /\ b * p >= b * (q + 1)
    BY <1>2, <1>3
  <2>2. b * (q + 1) = b * q + b
    OBVIOUS
  <2> QED
    BY <1>2, <2>1, <2>2
<1>4. CASE p < q
  <2>1. q >= p + 1 /\ b * q >= b * (p + 1)
    BY <1>2, <1>4
  <2>2. b * (p + 1) = b * p + b
    BY <1>2
  <2> QED
    BY <1>2, <2>1, <2>2
<1>5. CASE p = q
  BY <1>2, <1>5 DEF n, p, s
<1> QED
  BY <1>2, <1>3, <1>4, <1>5

(* Spill writes the digits of a number, the lowest first. *)
LEMMA SpillLemma ==
  ASSUME NEW b \in Nat, b > 1
  PROVE  /\ Spill(0, b) = <<>>
         /\ \A n \in Nat : /\ Spill(n, b) \in Seq(0 .. b - 1)
                           /\ n > 0 => Spill(n, b) = <<n % b>> \o Spill(n \div b, b)
<1> DEFINE V == Seq(0 .. b - 1)
           step == [n \in Nat |-> [v \in V |-> <<n % b>> \o v]]
           prev == [n \in Nat |-> n \div b]
           Is(f) == f = [c \in Nat |-> IF c = 0 THEN <<>> ELSE <<c % b>> \o f[c \div b]]
<1>1. \A n \in Nat : n \div b \in Nat /\ n % b \in 0 .. b - 1 /\ (n > 0 => n \div b < n)
  BY DivMod
<1>2. Descends(prev)
  BY <1>1 DEF Descends
<1>3. ASSUME NEW n \in Nat, NEW v \in V PROVE <<n % b>> \o v \in V
  <2>1. n % b \in 0 .. b - 1
    BY <1>1
  <2>2. <<n % b>> \in V
    BY <2>1, Singleton
  <2> QED
    BY <2>2, ConcatProperties
<1>4. step \in [Nat -> [V -> V]] /\ <<>> \in V
  <2>1. <<>> \in V
    OBVIOUS
  <2> HIDE DEF V, prev
  <2>2. step \in [Nat -> [V -> V]]
    BY <1>3
  <2> QED
    BY <2>1, <2>2
<1>5. PICK f \in [Nat -> V] : Recurs(f, <<>>, step, prev)
  <2> HIDE DEF step, prev, V
  <2> QED
    BY <1>2, <1>4, Recursion
<1>6. Is(f)
  <2>1. \A n \in Nat : f[n] = IF n = 0 THEN <<>> ELSE <<n % b>> \o f[n \div b]
    BY <1>1, <1>5 DEF Recurs
  <2> QED
    BY <2>1
<1> DEFINE g == CHOOSE h : Is(h)
<1>7. Is(g)
  <2> HIDE DEF Is
  <2> QED
    BY <1>6
<1>8. \A n \in Nat : Spill(n, b) = g[n]
  BY DEF Spill
<1> HIDE DEF g
<1>9. \A n \in Nat : g[n] = IF n = 0 THEN <<>> ELSE <<n % b>> \o g[n \div b]
  BY <1>7
<1>10. \A n \in Nat : g[n] = f[n]
  <2> DEFINE S == {n \in Nat : g[n] = f[n]}
  <2>1. ASSUME NEW n \in Nat, \A m \in 0 .. n - 1 : m \in S PROVE n \in S
    <3>1. CASE n > 0
      <4> DEFINE q == n \div b
      <4>1. q \in 0 .. n - 1 /\ q \in Nat
        <5>1. q \in Nat /\ q < n
          BY <1>1, <3>1
        <5> QED
          BY <5>1
      <4> HIDE DEF q
      <4>2. g[q] = f[q]
        BY <2>1, <4>1
      <4>3. g[n \div b] = f[n \div b]
        BY <4>2 DEF q
      <4> QED
        BY <1>6, <1>9, <3>1, <4>3
    <3> QED
      BY <1>6, <1>9, <3>1
  <2> HIDE DEF S
  <2>2. Nat \subseteq S
    BY <2>1, StrongInduction
  <2> QED
    BY <2>2 DEF S
<1>11. \A n \in Nat : g[n] \in V
  BY <1>10
<1> QED
  <2>1. Spill(0, b) = <<>>
    BY <1>8, <1>9
  <2>2. ASSUME NEW n \in Nat, n > 0 PROVE Spill(n, b) = <<n % b>> \o Spill(n \div b, b)
    <3> DEFINE q == n \div b
    <3>1. q \in Nat /\ Spill(q, b) = g[q]
      BY <1>1, <1>8
    <3>2. n # 0
      BY <2>2
    <3>3. Spill(n, b) = g[n] /\ g[n] = <<n % b>> \o g[q]
      BY <1>8, <1>9, <3>2
    <3> QED
      BY <3>1, <3>3
  <2> QED
    BY <1>8, <1>11, <2>1, <2>2

-----------------------------------------------------------------------------
(* The functions inside Shift and Digits. *)

(* What Shift makes of a digit d when v is carried into it. *)
Carried(v, d, from, to) == (v + d * from) \div to
(* What it leaves in the digit's place. *)
Left(v, d, from, to) == (v + d * from) % to

(* Both are numbers. *)
LEMMA CarriedType ==
  ASSUME NEW v \in Nat, NEW d \in Nat, NEW from \in Nat, NEW to \in Nat, to > 1
  PROVE  Carried(v, d, from, to) \in Nat /\ Left(v, d, from, to) \in Nat
<1>1. v + d * from \in Nat
  OBVIOUS
<1> QED
  BY <1>1, DivMod DEF Carried, Left

(* The function inside Shift: the carry after each digit. *)
Carries(digits, carry, from, to) ==
    CHOOSE left : left = [i \in 0 .. Len(digits) |->
        IF i = 0 THEN carry ELSE Carried(left[i - 1], digits[i], from, to)]

(* The digits that Shift leaves in place. *)
Lefts(digits, carry, from, to) ==
    [i \in 1 .. Len(digits) |-> Left(Carries(digits, carry, from, to)[i - 1], digits[i], from, to)]

(* That function obeys its recursion. *)
LEMMA CarriesLemma ==
  ASSUME NEW digits \in Seq(Nat), NEW carry \in Nat, NEW from \in Nat, NEW to \in Nat, to > 1
  PROVE  /\ Carries(digits, carry, from, to) \in [0 .. Len(digits) -> Nat]
         /\ Carries(digits, carry, from, to)[0] = carry
         /\ \A i \in 1 .. Len(digits) :
                Carries(digits, carry, from, to)[i] =
                    Carried(Carries(digits, carry, from, to)[i - 1], digits[i], from, to)
         /\ Lefts(digits, carry, from, to) \in Seq(Nat)
         /\ Shift(digits, carry, from, to) =
                Lefts(digits, carry, from, to)
                    \o Spill(Carries(digits, carry, from, to)[Len(digits)], to)
<1> DEFINE n == Len(digits)
           step == [i \in 1 .. n |-> [v \in Nat |-> Carried(v, digits[i], from, to)]]
           Is(f) == f = [i \in 0 .. n |->
                        IF i = 0 THEN carry ELSE Carried(f[i - 1], digits[i], from, to)]
           left == Carries(digits, carry, from, to)
<1>1. n \in Nat /\ \A i \in 1 .. n : digits[i] \in Nat
  OBVIOUS
<1>2. \A i \in 1 .. n, v \in Nat :
        Carried(v, digits[i], from, to) \in Nat /\ Left(v, digits[i], from, to) \in Nat
  BY <1>1, CarriedType
<1>3. step \in [1 .. n -> [Nat -> Nat]]
  BY <1>2
<1>4. PICK f \in [0 .. n -> Nat] : RecursUpto(f, n, carry, step)
  <2> HIDE DEF step, n
  <2> QED
    BY <1>1, <1>3, RecursionUpto
<1>5. ASSUME NEW i \in 1 .. n PROVE f[i] = Carried(f[i - 1], digits[i], from, to)
  <2>1. i - 1 \in 0 .. n
    BY <1>1
  <2>2. f[i - 1] \in Nat
    BY <2>1
  <2> QED
    BY <1>4, <2>2 DEF RecursUpto
<1>6. Is(f)
  BY <1>4, <1>5 DEF RecursUpto
<1>7. Is(left)
  <2>1. left = CHOOSE g : Is(g)
    BY DEF Carries
  <2> HIDE DEF Is, left
  <2> QED
    BY <1>6, <2>1
<1>8. Shift(digits, carry, from, to) = Lefts(digits, carry, from, to) \o Spill(left[n], to)
  BY DEF Shift, Carries, Lefts, Carried, Left
<1> HIDE DEF left, n
<1>9. left[0] = carry /\ \A i \in 1 .. n : left[i] = Carried(left[i - 1], digits[i], from, to)
  BY <1>1, <1>7
<1>10. \A i \in 0 .. n : left[i] \in Nat
  <2> DEFINE S == {i \in Nat : i <= n => left[i] \in Nat}
  <2>1. 0 \in S
    BY <1>9
  <2>2. ASSUME NEW i \in Nat, i \in S PROVE i + 1 \in S
    <3>1. SUFFICES ASSUME i + 1 <= n PROVE left[i + 1] \in Nat
      OBVIOUS
    <3>2. left[i] \in Nat /\ left[i + 1] = Carried(left[i], digits[i + 1], from, to)
      BY <1>1, <1>9, <2>2, <3>1
    <3>3. i + 1 \in 1 .. n
      BY <1>1, <3>1
    <3> QED
      BY <1>2, <3>2, <3>3
  <2> HIDE DEF S
  <2>3. Nat \subseteq S
    BY <2>1, <2>2, Induction
  <2> QED
    BY <1>1, <2>3 DEF S
<1>11. left \in [0 .. n -> Nat]
  BY <1>7, <1>10
<1>12. Lefts(digits, carry, from, to) \in Seq(Nat)
  <2>1. ASSUME NEW i \in 1 .. n PROVE Left(left[i - 1], digits[i], from, to) \in Nat
    <3>1. left[i - 1] \in Nat
      BY <1>1, <1>10
    <3> QED
      BY <1>2, <3>1
  <2> QED
    BY <1>1, <2>1 DEF Lefts, left, n
<1> QED
  BY <1>8, <1>9, <1>11, <1>12 DEF left, n

(* What Shift makes of a number's first digit, and of the rest. *)
LEMMA ShiftLemma ==
  ASSUME NEW digits \in Seq(Nat), NEW carry \in Nat, NEW from \in Nat, NEW to \in Nat, to > 1,
         NEW d \in Nat
  PROVE  /\ Shift(<<>>, carry, from, to) = Spill(carry, to)
         /\ Shift(<<d>> \o digits, carry, from, to) =
                <<Left(carry, d, from, to)>> \o Shift(digits, Carried(carry, d, from, to), from, to)
<1> DEFINE all == <<d>> \o digits
           n == Len(digits)
           c == Carried(carry, d, from, to)
           r == Left(carry, d, from, to)
           a == Carries(all, carry, from, to)
           A == Lefts(all, carry, from, to)
           l == Carries(digits, c, from, to)
           B == Lefts(digits, c, from, to)
           T == Spill(l[n], to)
<1>1. c \in Nat /\ r \in Nat
  BY CarriedType
<1>2. n \in Nat /\ \A i \in 1 .. n : digits[i] \in Nat
  OBVIOUS
<1>3. /\ all \in Seq(Nat) /\ Len(all) = n + 1 /\ all[1] = d
      /\ \A i \in 1 .. n : all[i + 1] = digits[i]
  OBVIOUS
<1> HIDE DEF all, n, c
<1>4. /\ a \in [0 .. n + 1 -> Nat] /\ a[0] = carry
      /\ \A i \in 1 .. n + 1 : a[i] = Carried(a[i - 1], all[i], from, to)
      /\ A = [i \in 1 .. n + 1 |-> Left(a[i - 1], all[i], from, to)]
      /\ Shift(all, carry, from, to) = A \o Spill(a[n + 1], to)
  <2>1. /\ a \in [0 .. Len(all) -> Nat] /\ a[0] = carry
        /\ \A i \in 1 .. Len(all) : a[i] = Carried(a[i - 1], all[i], from, to)
        /\ Shift(all, carry, from, to) = A \o Spill(a[Len(all)], to)
    <3>1. all \in Seq(Nat)
      BY <1>3
    <3> QED
      BY <3>1, CarriesLemma
  <2> QED
    BY <1>3, <2>1 DEF Lefts
<1>5. /\ l \in [0 .. n -> Nat] /\ l[0] = c
      /\ \A i \in 1 .. n : l[i] = Carried(l[i - 1], digits[i], from, to)
      /\ B \in Seq(Nat)
      /\ B = [i \in 1 .. n |-> Left(l[i - 1], digits[i], from, to)]
      /\ Shift(digits, c, from, to) = B \o T
  <2>1. /\ l \in [0 .. Len(digits) -> Nat] /\ l[0] = c
        /\ \A i \in 1 .. Len(digits) : l[i] = Carried(l[i - 1], digits[i], from, to)
        /\ B \in Seq(Nat)
        /\ Shift(digits, c, from, to) = B \o Spill(l[Len(digits)], to)
    BY <1>1, CarriesLemma
  <2> QED
    BY <2>1 DEF n, Lefts
<1> HIDE DEF a, l, r, A, B
<1>6. \A i \in 0 .. n : a[i + 1] = l[i]
  <2> DEFINE S == {i \in Nat : i <= n => a[i + 1] = l[i]}
  <2>1. 0 \in S
    <3>1. a[1] = Carried(a[0], all[1], from, to)
      BY <1>2, <1>4
    <3> QED
      BY <1>3, <1>4, <1>5, <3>1 DEF c
  <2>2. ASSUME NEW i \in Nat, i \in S PROVE i + 1 \in S
    <3>1. SUFFICES ASSUME i + 1 <= n PROVE a[i + 2] = l[i + 1]
      OBVIOUS
    <3>2. /\ a[i + 2] = Carried(a[i + 1], all[i + 2], from, to)
          /\ l[i + 1] = Carried(l[i], digits[i + 1], from, to)
      BY <1>2, <1>4, <1>5, <3>1
    <3>3. a[i + 1] = l[i] /\ all[i + 2] = digits[i + 1]
      BY <1>2, <1>3, <2>2, <3>1
    <3> QED
      BY <3>2, <3>3
  <2> HIDE DEF S
  <2>3. Nat \subseteq S
    BY <2>1, <2>2, Induction
  <2> QED
    BY <1>2, <2>3 DEF S
<1>7. A = <<r>> \o B
  <2>1. \A i \in 1 .. n : A[i + 1] = B[i]
    <3>1. ASSUME NEW i \in 1 .. n PROVE A[i + 1] = B[i]
      <4>1. A[i + 1] = Left(a[i], all[i + 1], from, to) /\ B[i] = Left(l[i - 1], digits[i], from, to)
        BY <1>2, <1>4, <1>5
      <4>2. a[i] = l[i - 1] /\ all[i + 1] = digits[i]
        BY <1>2, <1>3, <1>6
      <4> QED
        BY <4>1, <4>2
    <3> QED
      BY <3>1
  <2>2. A[1] = r
    BY <1>2, <1>3, <1>4 DEF r
  <2>3. \A i \in 1 .. n + 1 : A[i] = IF i = 1 THEN r ELSE B[i - 1]
    <3>1. ASSUME NEW i \in 1 .. n + 1, i # 1 PROVE A[i] = B[i - 1]
      <4>1. i - 1 \in 1 .. n /\ A[(i - 1) + 1] = B[i - 1]
        BY <1>2, <2>1, <3>1
      <4> QED
        BY <4>1
    <3> QED
      BY <2>2, <3>1
  <2>4. A = [i \in 1 .. n + 1 |-> IF i = 1 THEN r ELSE B[i - 1]]
    BY <1>4, <2>3
  <2>5. Len(B) = n
    BY <1>2, <1>5
  <2>6. <<r>> \o B = [i \in 1 .. n + 1 |-> IF i = 1 THEN r ELSE B[i - 1]]
    BY <1>1, <1>2, <1>5, <2>5 DEF r
  <2> QED
    BY <2>4, <2>6
<1>8. T \in Seq(Nat) /\ <<r>> \in Seq(Nat)
  <2>1. l[n] \in Nat
    BY <1>2, <1>5
  <2>2. T \in Seq(0 .. to - 1)
    BY <2>1, SpillLemma
  <2> QED
    BY <1>1, <2>2, SeqMonotonic, Singleton DEF r
<1>9. Shift(all, carry, from, to) = <<r>> \o Shift(digits, c, from, to)
  <2>1. Shift(all, carry, from, to) = A \o T
    BY <1>2, <1>4, <1>6
  <2> HIDE DEF T
  <2>2. B \in Seq(Nat)
    BY <1>5
  <2>3. (<<r>> \o B) \o T = <<r>> \o (B \o T)
    BY <1>8, <2>2, ConcatAssociative
  <2> QED
    BY <1>5, <1>7, <2>1, <2>3
<1>10. Shift(<<>>, carry, from, to) = Spill(carry, to)
  <2> DEFINE none == <<>>
             z == Carries(none, carry, from, to)
             E == Lefts(none, carry, from, to)
  <2>1. none \in Seq(Nat) /\ Len(none) = 0
    OBVIOUS
  <2> HIDE DEF none
  <2>2. z[0] = carry /\ E \in Seq(Nat) /\ Shift(none, carry, from, to) = E \o Spill(z[Len(none)], to)
    <3>1. none \in Seq(Nat)
      BY <2>1
    <3> QED
      BY <3>1, CarriesLemma
  <2>3. E = <<>>
    BY <2>1, <2>2 DEF Lefts
  <2>4. Spill(carry, to) \in Seq(0 .. to - 1)
    BY SpillLemma
  <2>5. Shift(none, carry, from, to) = Spill(carry, to)
    BY <2>1, <2>2, <2>3, <2>4, ConcatEmptySeq
  <2> QED
    BY <2>5 DEF none
<1> QED
  BY <1>9, <1>10 DEF all, c, r

-----------------------------------------------------------------------------
(* A shift of a number's digits is the digits of the shifted number. *)
LEMMA ShiftSpill ==
  ASSUME NEW from \in Nat, from > 0, NEW to \in Nat, to > 1
  PROVE  \A n, c \in Nat : Shift(Spill(n, to), c, from, to) = Spill(n * from + c, to)
<1> DEFINE S == {n \in Nat : \A c \in Nat : Shift(Spill(n, to), c, from, to) = Spill(n * from + c, to)}
<1>1. ASSUME NEW n \in Nat, \A m \in 0 .. n - 1 : m \in S
      PROVE  n \in S
  <2> SUFFICES ASSUME NEW c \in Nat
               PROVE  Shift(Spill(n, to), c, from, to) = Spill(n * from + c, to)
    OBVIOUS
  <2>1. CASE n = 0
    <3>1. Spill(n, to) = <<>> /\ n * from + c = c
      BY <2>1, SpillLemma
    <3>2. Shift(<<>>, c, from, to) = Spill(c, to)
      <4>1. <<>> \in Seq(Nat) /\ 0 \in Nat
        OBVIOUS
      <4> QED
        BY <4>1, ShiftLemma
    <3> QED
      BY <3>1, <3>2
  <2>2. CASE n > 0
    <3> DEFINE q == n \div to
               d == n % to
               next == Carried(c, d, from, to)
               out == Left(c, d, from, to)
               m == n * from + c
    <3>1. q \in Nat /\ d \in Nat /\ q < n /\ n = to * q + d
      BY <2>2, DivMod
    <3>2. Spill(n, to) = <<d>> \o Spill(q, to) /\ Spill(q, to) \in Seq(Nat)
      <4>1. Spill(q, to) \in Seq(0 .. to - 1)
        BY <3>1, SpillLemma
      <4>2. Spill(q, to) \in Seq(Nat)
        BY <4>1, SeqMonotonic
      <4>3. Spill(n, to) = <<d>> \o Spill(q, to)
        BY <2>2, SpillLemma
      <4> QED
        BY <4>2, <4>3
    <3>3. next \in Nat /\ out \in Nat
      BY <3>1, CarriedType
    <3>4. Shift(Spill(n, to), c, from, to) = <<out>> \o Shift(Spill(q, to), next, from, to)
      <4> HIDE DEF q, d
      <4>1. d \in Nat /\ Spill(q, to) \in Seq(Nat)
        BY <3>1, <3>2
      <4>2. Shift(<<d>> \o Spill(q, to), c, from, to) = <<out>> \o Shift(Spill(q, to), next, from, to)
        BY <4>1, ShiftLemma
      <4> QED
        BY <3>2, <4>2
    <3>5. Shift(Spill(q, to), next, from, to) = Spill(q * from + next, to)
      <4> HIDE DEF next, q
      <4> QED
        BY <1>1, <3>1, <3>3
    <3>6. /\ m \in Nat /\ m > 0
          /\ m \div to = q * from + next /\ m % to = out
      <4>1. c + d * from \in Nat /\ n * from > 0 /\ n * from \in Nat
        BY <2>2, <3>1
      <4>2. out \in 0 .. to - 1 /\ c + d * from = to * next + out
        BY <4>1, DivMod DEF Carried, Left
      <4> HIDE DEF q, d, next, out
      <4>3. n * from = to * (q * from) + d * from
        BY <3>1
      <4>4. q * from + next \in Nat
        BY <3>1, <3>3
      <4>5. m = to * (q * from + next) + out
        <5>1. to * (q * from + next) = to * (q * from) + to * next
          BY <3>1, <3>3
        <5> QED
          BY <3>1, <3>3, <4>1, <4>2, <4>3, <5>1
      <4>6. m \in Nat /\ m > 0
        BY <4>1
      <4> HIDE DEF m
      <4> QED
        BY <4>2, <4>4, <4>5, <4>6, DivModUnique
    <3>7. Spill(m, to) = <<out>> \o Spill(q * from + next, to)
      <4> HIDE DEF m, q, next, out
      <4> QED
        BY <3>6, SpillLemma
    <3> QED
      BY <3>4, <3>5, <3>7
  <2> QED
    BY <2>1, <2>2
<1> HIDE DEF S
<1>2. Nat \subseteq S
  BY <1>1, StrongInduction
<1> QED
  BY <1>2 DEF S

-----------------------------------------------------------------------------
(* The zeros in front, and the number that the digits stand for. *)
IsZeros(data, k) ==
    /\ k \in 0 .. Len(data)
    /\ \A i \in 1 .. k : data[i] = 0
    /\ k < Len(data) => data[k + 1] # 0

(* v[i] is the number that the first i digits stand for. *)
IsValue(v, data, b) ==
    /\ v \in [0 .. Len(data) -> Nat]
    /\ v[0] = 0
    /\ \A i \in 1 .. Len(data) : v[i] = v[i - 1] * b + data[i]

(* data is k zeros and then the digits of n. *)
Denotes(data, k, n, b) == IsZeros(data, k) /\ \E v : IsValue(v, data, b) /\ v[Len(data)] = n

(* k zeros. *)
Zeros(k) == [i \in 1 .. k |-> 0]

(* The only data that denotes k and n in base b. *)
Canonical(k, n, b) == Zeros(k) \o Reverse(Spill(n, b))

(* One more digit at the end. *)
LEMMA DenotesStep ==
  ASSUME NEW b \in Nat, NEW t \in Seq(Nat), NEW k \in Nat, NEW n \in Nat, NEW d \in Nat,
         Denotes(t, k, n, b)
  PROVE  Denotes(t \o <<d>>, IF k = Len(t) /\ d = 0 THEN k + 1 ELSE k, n * b + d, b)
<1> DEFINE s == t \o <<d>>
           m == Len(t)
<1>1. /\ m \in Nat /\ s \in Seq(Nat) /\ Len(s) = m + 1 /\ s[m + 1] = d
      /\ \A i \in 1 .. m : s[i] = t[i]
  OBVIOUS
<1>2. IsZeros(s, IF k = m /\ d = 0 THEN k + 1 ELSE k)
  BY <1>1 DEF Denotes, IsZeros
<1>3. PICK v : IsValue(v, t, b) /\ v[m] = n
  BY DEF Denotes
<1> HIDE DEF s, m
<1> DEFINE w == [i \in 0 .. m + 1 |-> IF i <= m THEN v[i] ELSE n * b + d]
<1>4. w \in [0 .. Len(s) -> Nat] /\ w[0] = 0 /\ w[Len(s)] = n * b + d
  BY <1>1, <1>3 DEF IsValue, m
<1>5. ASSUME NEW i \in 1 .. m + 1 PROVE w[i] = w[i - 1] * b + s[i]
  <2>1. CASE i <= m
    <3>1. i \in 1 .. m /\ i - 1 \in 0 .. m + 1 /\ i - 1 <= m
      BY <1>1, <2>1
    <3>2. v[i] = v[i - 1] * b + t[i]
      BY <1>3, <3>1 DEF IsValue, m
    <3>3. w[i] = v[i] /\ w[i - 1] = v[i - 1]
      BY <2>1, <3>1
    <3>4. s[i] = t[i]
      BY <1>1, <3>1
    <3> QED
      BY <3>2, <3>3, <3>4
  <2>2. CASE i = m + 1
    <3>1. w[i] = n * b + d /\ w[i - 1] = n /\ s[i] = d
      BY <1>1, <1>3, <2>2
    <3> QED
      BY <3>1
  <2> QED
    BY <1>1, <2>1, <2>2
<1>6. IsValue(w, s, b)
  BY <1>1, <1>4, <1>5 DEF IsValue
<1> HIDE DEF w
<1> QED
  BY <1>2, <1>4, <1>6 DEF Denotes, s, m

(* Reverse keeps the type and the length. *)
LEMMA ReverseType ==
  ASSUME NEW S, NEW s \in Seq(S)
  PROVE  Reverse(s) \in Seq(S) /\ Len(Reverse(s)) = Len(s)
<1>1. Len(s) \in Nat /\ \A i \in 1 .. Len(s) : s[(Len(s) - i) + 1] \in S
  OBVIOUS
<1> QED
  BY <1>1 DEF Reverse

(* The first is the last of the reverse. *)
LEMMA ReverseCons ==
  ASSUME NEW S, NEW s \in Seq(S), NEW e \in S
  PROVE  Reverse(<<e>> \o s) = Reverse(s) \o <<e>>
<1> DEFINE n == Len(s)
           c == <<e>> \o s
           R == Reverse(s)
<1>1. /\ n \in Nat /\ c \in Seq(S) /\ Len(c) = n + 1 /\ c[1] = e
      /\ \A i \in 1 .. n : c[i + 1] = s[i] /\ s[i] \in S
  OBVIOUS
<1>2. R = [i \in 1 .. n |-> s[(n - i) + 1]] /\ Reverse(c) = [i \in 1 .. n + 1 |-> c[((n + 1) - i) + 1]]
  BY <1>1 DEF Reverse
<1> HIDE DEF n, c, R
<1>3. \A i \in 1 .. n : (n - i) + 1 \in 1 .. n
  BY <1>1
<1>4. R \in Seq(S) /\ Len(R) = n
  BY <1>1, <1>2, <1>3
<1>5. \A i \in 1 .. n + 1 : Reverse(c)[i] = IF i <= n THEN R[i] ELSE e
  <2>1. ASSUME NEW i \in 1 .. n PROVE Reverse(c)[i] = R[i]
    <3>1. ((n + 1) - i) + 1 = ((n - i) + 1) + 1 /\ i \in 1 .. n + 1
      BY <1>1
    <3> QED
      BY <1>1, <1>2, <1>3, <3>1
  <2>2. Reverse(c)[n + 1] = e
    BY <1>1, <1>2
  <2> QED
    BY <1>1, <2>1, <2>2
<1>6. Reverse(c) = [i \in 1 .. n + 1 |-> IF i <= n THEN R[i] ELSE e]
  BY <1>2, <1>5
<1>7. R \o <<e>> = [i \in 1 .. n + 1 |-> IF i <= n THEN R[i] ELSE e]
  BY <1>1, <1>4
<1> QED
  BY <1>4, <1>6, <1>7 DEF n, c, R

(* Zeros are a sequence, one longer by another zero. *)
LEMMA ZerosLemma ==
  ASSUME NEW S, 0 \in S, NEW k \in Nat
  PROVE  Zeros(k) \in Seq(S) /\ Len(Zeros(k)) = k /\ Zeros(k + 1) = Zeros(k) \o <<0>>
<1>1. Zeros(k) \in Seq(S) /\ Len(Zeros(k)) = k
  BY DEF Zeros
<1>2. Zeros(k) \o <<0>> \in Seq(S) /\ Len(Zeros(k) \o <<0>>) = k + 1
  BY <1>1
<1>3. \A i \in 1 .. k + 1 : (Zeros(k) \o <<0>>)[i] = 0
  BY <1>1 DEF Zeros
<1>4. Zeros(k) \o <<0>> = [i \in 1 .. k + 1 |-> 0]
  BY <1>2, <1>3
<1> QED
  BY <1>1, <1>4 DEF Zeros

(* What is canonical has digits of its base, and of 0 the zeros alone. *)
LEMMA CanonicalType ==
  ASSUME NEW b \in Nat, b > 1, NEW k \in Nat, NEW n \in Nat
  PROVE  /\ Canonical(k, n, b) \in Seq(0 .. b - 1)
         /\ Canonical(k, n, b) \in Seq(Nat)
         /\ Len(Canonical(k, n, b)) >= k
         /\ n > 0 => Len(Canonical(k, n, b)) > k
         /\ Canonical(k, 0, b) = Zeros(k)
<1> DEFINE D == 0 .. b - 1
           s == Spill(n, b)
<1>1. Zeros(k) \in Seq(D) /\ Len(Zeros(k)) = k /\ D \subseteq Nat
  <2>1. 0 \in D /\ D \subseteq Nat
    OBVIOUS
  <2> HIDE DEF D
  <2> QED
    BY <2>1, ZerosLemma
<1>2. s \in Seq(D) /\ Reverse(s) \in Seq(D) /\ Len(Reverse(s)) = Len(s)
  <2>1. s \in Seq(D)
    BY SpillLemma
  <2> HIDE DEF s, D
  <2> QED
    BY <2>1, ReverseType
<1>3. n > 0 => Len(s) > 0
  <2> SUFFICES ASSUME n > 0 PROVE Len(s) > 0
    OBVIOUS
  <2> DEFINE t == Spill(n \div b, b)
  <2>1. s = <<n % b>> \o t /\ n % b \in D /\ n \div b \in Nat
    BY SpillLemma, DivMod
  <2>2. t \in Seq(D) /\ <<n % b>> \in Seq(D) /\ Len(<<n % b>>) = 1
    <3>1. t \in Seq(D)
      BY <2>1, SpillLemma
    <3>2. <<n % b>> \in Seq(D) /\ Len(<<n % b>>) = 1
      BY <2>1, Singleton
    <3> QED
      BY <3>1, <3>2
  <2> HIDE DEF s, t, D
  <2>3. Len(s) = 1 + Len(t)
    BY <2>1, <2>2, ConcatProperties
  <2> QED
    BY <2>2, <2>3, LenProperties
<1>4. Canonical(k, n, b) \in Seq(D) /\ Len(Canonical(k, n, b)) = k + Len(s)
  <2> HIDE DEF D, s
  <2>1. Canonical(k, n, b) = Zeros(k) \o Reverse(s)
    BY DEF Canonical, s
  <2> DEFINE z == Zeros(k)
             r == Reverse(s)
  <2>2. z \in Seq(D) /\ r \in Seq(D) /\ Len(z) = k /\ Len(r) = Len(s)
    BY <1>1, <1>2
  <2> HIDE DEF z, r
  <2>3. z \o r \in Seq(D) /\ Len(z \o r) = Len(z) + Len(r)
    BY <2>2, ConcatProperties
  <2> QED
    BY <2>1, <2>2, <2>3 DEF z, r
<1>5. Canonical(k, 0, b) = Zeros(k)
  <2>1. Spill(0, b) = <<>>
    BY SpillLemma
  <2>2. Reverse(<<>>) = <<>>
    BY DEF Reverse
  <2> QED
    BY <1>1, <2>1, <2>2, ConcatEmptySeq DEF Canonical
<1>6. Canonical(k, n, b) \in Seq(Nat)
  <2> HIDE DEF D
  <2> QED
    BY <1>1, <1>4, SeqMonotonic
<1>7. Len(s) \in Nat
  BY <1>2, LenProperties
<1> HIDE DEF s
<1> QED
  BY <1>3, <1>4, <1>5, <1>6, <1>7

(* A digit at the end of what is canonical. *)
LEMMA CanonicalStep ==
  ASSUME NEW b \in Nat, b > 1, NEW k \in Nat, NEW n \in Nat, NEW d \in 0 .. b - 1, n * b + d > 0
  PROVE  Canonical(k, n * b + d, b) = Canonical(k, n, b) \o <<d>>
<1> DEFINE D == 0 .. b - 1
           m == n * b + d
           s == Spill(n, b)
<1>1. m \in Nat /\ m > 0 /\ m % b = d /\ m \div b = n
  <2>1. m = b * n + d /\ m \in Nat
    OBVIOUS
  <2> QED
    BY <2>1, DivModUnique
<1>2. Spill(m, b) = <<d>> \o s
  <2> HIDE DEF m
  <2> QED
    BY <1>1, SpillLemma
<1>3. s \in Seq(D) /\ <<d>> \in Seq(D) /\ Zeros(k) \in Seq(D) /\ d \in D
  BY SpillLemma, Singleton, ZerosLemma, 0 \in D
<1> HIDE DEF s, m, D
<1>4. Reverse(<<d>> \o s) = Reverse(s) \o <<d>> /\ Reverse(s) \in Seq(D)
  BY <1>3, ReverseCons, ReverseType
<1>5. Zeros(k) \o (Reverse(s) \o <<d>>) = (Zeros(k) \o Reverse(s)) \o <<d>>
  BY <1>3, <1>4, ConcatAssociative
<1> QED
  BY <1>2, <1>4, <1>5 DEF Canonical, s, m

(* Every string of digits is the one of its zeros and its number ... *)
LEMMA DataIsCanonical ==
  ASSUME NEW b \in Nat, b > 1, NEW data \in Seq(0 .. b - 1)
  PROVE  \E k, n \in Nat : Denotes(data, k, n, b) /\ data = Canonical(k, n, b)
<1> DEFINE D == 0 .. b - 1
           P(s) == \E k, n \in Nat : Denotes(s, k, n, b) /\ s = Canonical(k, n, b)
           S == {m \in Nat : \A s \in Seq(D) : Len(s) = m => P(s)}
<1>1. 0 \in S
  <2> SUFFICES ASSUME NEW s \in Seq(D), Len(s) = 0 PROVE P(s)
    OBVIOUS
  <2>1. IsValue([i \in 0 .. 0 |-> 0], s, b)
    BY DEF IsValue
  <2>2. Denotes(s, 0, 0, b)
    BY <2>1 DEF Denotes, IsZeros
  <2>3. Canonical(0, 0, b) = Zeros(0)
    BY CanonicalType, 0 \in Nat
  <2>4. s = Zeros(0)
    BY DEF Zeros
  <2> QED
    BY <2>2, <2>3, <2>4
<1>2. ASSUME NEW m \in Nat, m \in S PROVE m + 1 \in S
  <2> SUFFICES ASSUME NEW s \in Seq(D), Len(s) = m + 1 PROVE P(s)
    OBVIOUS
  <2> DEFINE t == SubSeq(s, 1, m)
             d == s[m + 1]
  <2>1. t \in Seq(D) /\ Len(t) = m /\ d \in D /\ t \in Seq(Nat) /\ d \in Nat
    <3>1. t \in Seq(D) /\ Len(t) = m /\ d \in D
      OBVIOUS
    <3> QED
      BY <3>1, SeqMonotonic
  <2>2. s = t \o <<d>>
    OBVIOUS
  <2> HIDE DEF t, d, P
  <2>3. P(t)
    BY <1>2, <2>1
  <2>4. PICK k \in Nat, n \in Nat : Denotes(t, k, n, b) /\ t = Canonical(k, n, b)
    BY <2>3 DEF P
  <2> DEFINE j == IF k = Len(t) /\ d = 0 THEN k + 1 ELSE k
             v == n * b + d
  <2>5. j \in Nat /\ v \in Nat
    <3>1. n * b \in Nat
      OBVIOUS
    <3>2. d \in Nat
      BY <2>1
    <3>3. j \in Nat
      OBVIOUS
    <3> HIDE DEF j
    <3> QED
      BY <3>1, <3>2, <3>3
  <2>6. Denotes(t \o <<d>>, j, v, b)
    BY <2>1, <2>4, DenotesStep
  <2>7. Denotes(s, j, v, b) /\ j \in Nat /\ v \in Nat
    BY <2>2, <2>5, <2>6
  <2>8. CASE v > 0
    <3>1. s = Canonical(k, v, b)
      <4>1. n * b + d > 0 /\ d \in 0 .. b - 1
        BY <2>1, <2>8
      <4>2. Canonical(k, v, b) = Canonical(k, n, b) \o <<d>>
        BY <4>1, CanonicalStep
      <4> QED
        BY <2>2, <2>4, <4>2
    <3>2. j = k
      <4>1. n > 0 => Len(t) > k
        BY <2>4, CanonicalType
      <4>2. d = 0 => n > 0
        BY <2>8
      <4> QED
        BY <2>1, <4>1, <4>2
    <3> QED
      BY <2>7, <3>1, <3>2 DEF P
  <2>9. CASE v = 0
    <3>1. n = 0 /\ d = 0
      <4>1. n * b >= n
        OBVIOUS
      <4>2. n * b \in Nat
        OBVIOUS
      <4>3. d \in Nat
        BY <2>1
      <4>4. \A p, q \in Nat : p + q = 0 => p = 0 /\ q = 0
        OBVIOUS
      <4>5. d = 0 /\ n * b = 0
        BY <2>9, <4>2, <4>3, <4>4
      <4> QED
        BY <4>1, <4>5
    <3>2. t = Zeros(k) /\ Len(t) = k /\ s = Zeros(k + 1) /\ Zeros(k + 1) = Canonical(k + 1, 0, b)
      <4>1. /\ t = Zeros(k) /\ Zeros(k + 1) = Canonical(k + 1, 0, b)
        BY <2>4, <3>1, CanonicalType, k + 1 \in Nat
      <4>2. Len(Zeros(k)) = k /\ Zeros(k + 1) = Zeros(k) \o <<0>>
        BY ZerosLemma, 0 \in Nat
      <4> QED
        BY <2>2, <3>1, <4>1, <4>2
    <3> QED
      BY <2>7, <2>9, <3>1, <3>2 DEF P
  <2> QED
    BY <2>7, <2>8, <2>9
<1> HIDE DEF S
<1>3. Nat \subseteq S
  BY <1>1, <1>2, Induction
<1>4. Len(data) \in Nat
  OBVIOUS
<1> QED
  BY <1>3, <1>4 DEF S

(* ... and every such string has them. *)
LEMMA CanonicalDenotes ==
  ASSUME NEW b \in Nat, b > 1
  PROVE  \A k, n \in Nat : Denotes(Canonical(k, n, b), k, n, b)
<1>1. \A k \in Nat : Denotes(Zeros(k), k, 0, b)
  <2> DEFINE S == {k \in Nat : Denotes(Zeros(k), k, 0, b)}
  <2>1. 0 \in S
    <3>1. Len(Zeros(0)) = 0
      BY ZerosLemma, 0 \in Nat
    <3>2. IsValue([i \in 0 .. 0 |-> 0], Zeros(0), b)
      BY <3>1 DEF IsValue
    <3> QED
      BY <3>1, <3>2 DEF Denotes, IsZeros
  <2>2. ASSUME NEW k \in Nat, k \in S PROVE k + 1 \in S
    <3>1. Zeros(k) \in Seq(Nat) /\ Len(Zeros(k)) = k /\ Zeros(k + 1) = Zeros(k) \o <<0>>
      BY ZerosLemma, 0 \in Nat
    <3> DEFINE t == Zeros(k)
               j == IF k = Len(t) /\ 0 = 0 THEN k + 1 ELSE k
               v == 0 * b + 0
    <3>2. Denotes(t, k, 0, b) /\ t \in Seq(Nat)
      BY <2>2, <3>1
    <3> HIDE DEF t
    <3>3. Denotes(t \o <<0>>, j, v, b)
      BY <3>2, DenotesStep, 0 \in Nat
    <3>4. j = k + 1 /\ v = 0
      BY <3>1 DEF t
    <3> HIDE DEF j, v
    <3>5. Denotes(Zeros(k + 1), k + 1, 0, b)
      BY <3>1, <3>3, <3>4 DEF t
    <3> QED
      BY <3>5
  <2> HIDE DEF S
  <2>3. Nat \subseteq S
    BY <2>1, <2>2, Induction
  <2> QED
    BY <2>3 DEF S
<1> SUFFICES ASSUME NEW k \in Nat PROVE \A n \in Nat : Denotes(Canonical(k, n, b), k, n, b)
  OBVIOUS
<1> DEFINE S == {n \in Nat : Denotes(Canonical(k, n, b), k, n, b)}
<1>2. ASSUME NEW n \in Nat, \A m \in 0 .. n - 1 : m \in S PROVE n \in S
  <2>1. CASE n = 0
    BY <1>1, <2>1, CanonicalType
  <2>2. CASE n > 0
    <3> DEFINE q == n \div b
               d == n % b
               t == Canonical(k, q, b)
    <3>1. q \in Nat /\ d \in 0 .. b - 1 /\ n = q * b + d /\ q < n
      <4>1. q \in Nat /\ d \in 0 .. b - 1 /\ n = b * q + d /\ q < n
        BY <2>2, DivMod
      <4>2. b * q = q * b
        BY <4>1
      <4> QED
        BY <4>1, <4>2
    <3> HIDE DEF q, d
    <3>2. Denotes(t, k, q, b)
      BY <1>2, <3>1
    <3>3. /\ t \in Seq(Nat) /\ (q > 0 => Len(t) > k)
          /\ Canonical(k, n, b) = t \o <<d>>
      <4>1. t \in Seq(Nat) /\ (q > 0 => Len(t) > k)
        BY <3>1, CanonicalType
      <4>2. q * b + d > 0
        BY <2>2, <3>1
      <4>3. q \in Nat /\ d \in 0 .. b - 1
        BY <3>1
      <4>4. Canonical(k, q * b + d, b) = Canonical(k, q, b) \o <<d>>
        BY <4>2, <4>3, CanonicalStep
      <4> QED
        BY <3>1, <4>1, <4>4
    <3> HIDE DEF t
    <3>4. Denotes(t \o <<d>>, IF k = Len(t) /\ d = 0 THEN k + 1 ELSE k, q * b + d, b)
      BY <3>1, <3>2, <3>3, DenotesStep
    <3>5. ~(k = Len(t) /\ d = 0)
      BY <2>2, <3>1, <3>3
    <3> QED
      BY <3>1, <3>3, <3>4, <3>5
  <2> QED
    BY <2>1, <2>2
<1> HIDE DEF S
<1>3. Nat \subseteq S
  BY <1>2, StrongInduction
<1> QED
  BY <1>3 DEF S

-----------------------------------------------------------------------------
(* The function inside Digits. *)
DigitsUpto(data, from, to) ==
    CHOOSE digits : digits = [i \in 0 .. Len(data) |->
        IF i = 0 THEN <<>> ELSE Shift(digits[i - 1], data[i], from, to)]

(* Digits of what denotes n is n, in the other base. *)
LEMMA DigitsLemma ==
  ASSUME NEW from \in Nat, from > 0, NEW to \in Nat, to > 1, NEW data \in Seq(Nat),
         NEW v, IsValue(v, data, from)
  PROVE  Digits(data, from, to) = Spill(v[Len(data)], to)
<1> DEFINE n == Len(data)
           V == {Spill(m, to) : m \in Nat}
           step == [i \in 1 .. n |-> [s \in V |-> Shift(s, data[i], from, to)]]
           Is(f) == f = [i \in 0 .. n |->
                        IF i = 0 THEN <<>> ELSE Shift(f[i - 1], data[i], from, to)]
           g == DigitsUpto(data, from, to)
<1>1. n \in Nat /\ \A i \in 1 .. n : data[i] \in Nat
  OBVIOUS
<1>2. \A m, c \in Nat : m * from + c \in Nat
  OBVIOUS
<1>3. step \in [1 .. n -> [V -> V]]
  <2> SUFFICES ASSUME NEW i \in 1 .. n, NEW m \in Nat
               PROVE  Shift(Spill(m, to), data[i], from, to) \in V
    OBVIOUS
  <2> HIDE DEF step, Is, g
  <2>1. data[i] \in Nat
    BY <1>1
  <2>2. \A c \in Nat : Shift(Spill(m, to), c, from, to) = Spill(m * from + c, to)
    BY ShiftSpill
  <2>3. Shift(Spill(m, to), data[i], from, to) = Spill(m * from + data[i], to)
    BY <2>1, <2>2
  <2> QED
    BY <1>2, <2>1, <2>3
<1>4. <<>> \in V
  <2>1. Spill(0, to) = <<>>
    BY SpillLemma
  <2> QED
    BY <2>1
<1>5. PICK f \in [0 .. n -> V] : RecursUpto(f, n, <<>>, step)
  <2> HIDE DEF step, n, V
  <2> QED
    BY <1>1, <1>3, <1>4, RecursionUpto
<1>6. ASSUME NEW i \in 1 .. n PROVE f[i] = Shift(f[i - 1], data[i], from, to)
  <2>1. f[i - 1] \in V
    <3>1. i - 1 \in 0 .. n
      BY <1>1
    <3> HIDE DEF V
    <3> QED
      BY <3>1
  <2> QED
    BY <1>5, <2>1 DEF RecursUpto
<1>7. Is(f)
  BY <1>5, <1>6 DEF RecursUpto
<1>8. Is(g)
  <2>1. g = CHOOSE h : Is(h)
    BY DEF DigitsUpto
  <2> HIDE DEF Is, g
  <2> QED
    BY <1>7, <2>1
<1>9. Digits(data, from, to) = g[n]
  BY DEF Digits, DigitsUpto
<1> HIDE DEF g, n
<1>10. g[0] = <<>> /\ \A i \in 1 .. n : g[i] = Shift(g[i - 1], data[i], from, to)
  BY <1>1, <1>8
<1> DEFINE S == {i \in Nat : i <= n => g[i] = Spill(v[i], to)}
<1>11. 0 \in S
  <2>1. Spill(0, to) = <<>> /\ v[0] = 0
    BY SpillLemma DEF IsValue
  <2> QED
    BY <1>10, <2>1
<1>12. ASSUME NEW i \in Nat, i \in S PROVE i + 1 \in S
  <2>1. SUFFICES ASSUME i + 1 <= n PROVE g[i + 1] = Spill(v[i + 1], to)
    OBVIOUS
  <2>2. g[i] = Spill(v[i], to) /\ i + 1 \in 1 .. n /\ i \in 0 .. n /\ (i + 1) - 1 = i
    BY <1>1, <1>12, <2>1
  <2>3. v[i] \in Nat /\ v[i + 1] = v[i] * from + data[i + 1]
    BY <2>2 DEF IsValue, n
  <2>4. g[i + 1] = Shift(g[i], data[i + 1], from, to) /\ data[i + 1] \in Nat
    BY <1>1, <1>10, <2>2
  <2> DEFINE m == v[i]
             c == data[i + 1]
  <2>5. Shift(Spill(m, to), c, from, to) = Spill(m * from + c, to)
    <3>1. m \in Nat /\ c \in Nat
      BY <2>3, <2>4
    <3> HIDE DEF m, c
    <3> QED
      BY <3>1, ShiftSpill
  <2> QED
    BY <2>2, <2>3, <2>4, <2>5
<1> HIDE DEF S
<1>13. Nat \subseteq S
  BY <1>11, <1>12, Induction
<1> QED
  BY <1>1, <1>9, <1>13 DEF S, n

(* LeadingZeros counts the zeros in front. *)
LEMMA LeadingZerosLemma ==
  ASSUME NEW data \in Seq(Nat), NEW k \in Nat, IsZeros(data, k)
  PROVE  LeadingZeros(data) = k
<1>1. {i \in DOMAIN data : \A j \in 1 .. i : data[j] = 0} = 1 .. k
  <2>1. ASSUME NEW i \in 1 .. k PROVE i \in DOMAIN data /\ \A j \in 1 .. i : data[j] = 0
    BY DEF IsZeros
  <2>2. ASSUME NEW i \in DOMAIN data, \A j \in 1 .. i : data[j] = 0 PROVE i \in 1 .. k
    <3>1. i \in 1 .. Len(data) /\ Len(data) \in Nat
      OBVIOUS
    <3>2. CASE i > k
      <4>1. k + 1 \in 1 .. i /\ k < Len(data)
        BY <3>1, <3>2
      <4>2. data[k + 1] = 0
        BY <2>2, <4>1
      <4>3. data[k + 1] # 0
        BY <4>1 DEF IsZeros
      <4> QED
        BY <4>2, <4>3
    <3> QED
      BY <3>1, <3>2
  <2> QED
    BY <2>1, <2>2
<1>2. Cardinality(1 .. k) = k
  <2>1. Cardinality(1 .. k) = IF 1 > k THEN 0 ELSE k - 1 + 1
    BY FS_Interval
  <2> QED
    BY <2>1
<1> QED
  BY <1>1, <1>2 DEF LeadingZeros

(* Convert keeps the zeros and the number. *)
LEMMA ConvertLemma ==
  ASSUME NEW from \in Nat, from > 0, NEW to \in Nat, to > 1, NEW data \in Seq(Nat),
         NEW k \in Nat, NEW n \in Nat, Denotes(data, k, n, from)
  PROVE  Convert(data, from, to) = Canonical(k, n, to)
<1>1. PICK v : IsValue(v, data, from) /\ v[Len(data)] = n
  BY DEF Denotes
<1>2. Digits(data, from, to) = Spill(n, to)
  BY <1>1, DigitsLemma
<1>3. LeadingZeros(data) = k
  BY LeadingZerosLemma DEF Denotes
<1> QED
  BY <1>2, <1>3 DEF Convert, Canonical, Zeros

(* To another base and back is the identity, zeros in front included:      *)
(* base58btcEncode and base58btcDecode (src/did.go) are the two loops with *)
(* the bases swapped.                                                      *)
THEOREM ConvertBack ==
  ASSUME NEW from \in Nat, from > 1, NEW to \in Nat, to > 1, NEW data \in Seq(0 .. from - 1)
  PROVE  /\ Convert(data, from, to) \in Seq(0 .. to - 1)
         /\ Convert(Convert(data, from, to), to, from) = data
<1>1. PICK k \in Nat, n \in Nat : Denotes(data, k, n, from) /\ data = Canonical(k, n, from)
  BY DataIsCanonical
<1>2. data \in Seq(Nat)
  <2>1. 0 .. from - 1 \subseteq Nat
    OBVIOUS
  <2> QED
    BY <2>1, SeqMonotonic
<1>3. from > 0 /\ to > 0
  OBVIOUS
<1>4. Convert(data, from, to) = Canonical(k, n, to)
  BY <1>1, <1>2, <1>3, ConvertLemma
<1>5. /\ Denotes(Canonical(k, n, to), k, n, to)
      /\ Canonical(k, n, to) \in Seq(Nat)
      /\ Canonical(k, n, to) \in Seq(0 .. to - 1)
  BY CanonicalDenotes, CanonicalType
<1>6. Convert(Canonical(k, n, to), to, from) = Canonical(k, n, from)
  BY <1>5, <1>3, ConvertLemma
<1> QED
  BY <1>1, <1>4, <1>5, <1>6

-----------------------------------------------------------------------------
(* Both directions of base58btc, back and forth. *)
Alphabet == 0 .. TextBase - 1
(* What stands after "did:key:z", miscopied or not. *)
Texts == Seq(0 .. Stranger)

(* A function of 1 and 2 is a sequence. *)
LEMMA PairIsSeq ==
  ASSUME NEW S, NEW f \in [1 .. 2 -> S]
  PROVE  f \in Seq(S) /\ Len(f) = 2
<1>1. f \in Seq(S)
  BY 2 \in Nat, SeqDef
<1>2. DOMAIN f = 1 .. Len(f) /\ DOMAIN f = 1 .. 2 /\ Len(f) \in Nat
  BY <1>1, LenProperties
<1>3. \A n \in Nat : 1 .. n = 1 .. 2 => n = 2
  <2> SUFFICES ASSUME NEW n \in Nat, 1 .. n = 1 .. 2 PROVE n = 2
    OBVIOUS
  <2>1. 2 \in 1 .. n /\ 3 \notin 1 .. n
    OBVIOUS
  <2> QED
    BY <2>1
<1> QED
  BY <1>1, <1>2, <1>3

(* What was put behind two comes off again. *)
LEMMA PairThen ==
  ASSUME NEW S, NEW s \in Seq(S), NEW t \in Seq(S), Len(s) = 2
  PROVE  /\ s \o t \in Seq(S) /\ Len(s \o t) = 2 + Len(t)
         /\ SubSeq(s \o t, 1, 2) = s /\ SubSeq(s \o t, 3, Len(s \o t)) = t
<1> DEFINE n == Len(t)
           u == s \o t
<1>1. n \in Nat /\ u \in Seq(S) /\ Len(u) = 2 + n
  <2>1. n \in Nat /\ u \in Seq(S)
    BY LenProperties, ConcatProperties
  <2>2. Len(u) = Len(s) + n
    BY ConcatProperties
  <2> QED
    BY <2>1, <2>2
<1>2. u[1] = s[1] /\ u[2] = s[2] /\ \A i \in 1 .. n : u[i + 2] = t[i]
  <2>1. \A i \in 1 .. Len(s) + n : u[i] = IF i <= Len(s) THEN s[i] ELSE t[i - Len(s)]
    BY ConcatProperties
  <2> HIDE DEF n, u
  <2>2. \A i \in 1 .. 2 + n : u[i] = IF i <= 2 THEN s[i] ELSE t[i - 2]
    BY <2>1
  <2>3. ASSUME NEW i \in 1 .. n PROVE u[i + 2] = t[i]
    <3>1. i + 2 \in 1 .. 2 + n /\ ~(i + 2 <= 2) /\ (i + 2) - 2 = i
      BY <1>1
    <3> QED
      BY <2>2, <3>1
  <2>4. 1 \in 1 .. 2 + n /\ 2 \in 1 .. 2 + n
    BY <1>1
  <2> QED
    BY <2>2, <2>3, <2>4
<1> HIDE DEF u, n
<1>3. \A i \in 1 .. 2 : u[i] = s[i]
  <2>1. \A i \in 1 .. 2 : i = 1 \/ i = 2
    OBVIOUS
  <2> QED
    BY <1>2, <2>1
<1>4. SubSeq(u, 1, 2) = s
  BY <1>1, <1>3
<1>5. SubSeq(u, 3, Len(u)) = t
  <2>1. \A i \in 1 .. n : SubSeq(u, 3, Len(u))[i] = u[i + 2]
    BY <1>1
  <2>2. SubSeq(u, 3, Len(u)) \in Seq(S) /\ Len(SubSeq(u, 3, Len(u))) = n
    BY <1>1
  <2> QED
    BY <1>2, <2>1, <2>2 DEF n
<1> QED
  BY <1>1, <1>4, <1>5 DEF u, n

(* The constants, as the lemmas need them. *)
LEMMA Bases ==
  /\ ByteBase \in Nat /\ ByteBase > 1 /\ TextBase \in Nat /\ TextBase > 1
  /\ Multicodec \in Seq(Bytes) /\ Len(Multicodec) = 2 /\ Multicodec # <<>>
  /\ KeyLength \in Nat /\ MaxBytes \in Nat
<1>1. Multicodec \in Seq(Bytes) /\ Len(Multicodec) = 2
  <2>1. Multicodec \in [1 .. 2 -> Bytes]
    BY DidAssumption DEF Bytes
  <2> QED
    BY <2>1, PairIsSeq
<1>2. /\ ByteBase \in Nat /\ TextBase \in Nat /\ 1 < TextBase /\ TextBase < ByteBase
      /\ MaxBytes \in Nat /\ KeyLength \in 1 .. MaxBytes
  BY DidAssumption
<1>3. Multicodec # <<>>
  <2>1. Len(<<>>) = 0
    OBVIOUS
  <2> QED
    BY <1>1, <2>1
<1> QED
  BY <1>1, <1>2, <1>3

(* Bytes that are encoded come back. *)
LEMMA EncodeDecode ==
  ASSUME NEW data \in Seq(Bytes)
  PROVE  /\ Base58btcEncode(data) \in Seq(Alphabet)
         /\ Base58btcEncode(data) \in Texts
         /\ Base58btcEncode(data) # None
         /\ Base58btcDecode(Base58btcEncode(data)) = data
<1> DEFINE text == Convert(data, ByteBase, TextBase)
<1>1. text \in Seq(Alphabet) /\ Convert(text, TextBase, ByteBase) = data
  BY Bases, ConvertBack DEF Alphabet, Bytes
<1> HIDE DEF text
<1>2. Stranger \notin ToSet(text)
  <2>1. \A i \in DOMAIN text : text[i] \in Alphabet
    BY <1>1
  <2>2. Stranger \notin Alphabet
    BY Bases DEF Stranger, Alphabet
  <2> QED
    BY <2>1, <2>2 DEF ToSet
<1>3. text \in Texts
  <2>1. Alphabet \subseteq 0 .. Stranger
    BY Bases DEF Alphabet, Stranger
  <2> QED
    BY <1>1, <2>1, SeqMonotonic DEF Texts
<1>4. text # None
  <2>1. Alphabet \subseteq Nat
    BY DEF Alphabet
  <2>2. text \in Seq(Nat)
    BY <1>1, <2>1, SeqMonotonic
  <2> QED
    BY <2>2, DidAssumption
<1>5. Base58btcEncode(data) = text
  BY DEF Base58btcEncode, text
<1> QED
  BY <1>1, <1>2, <1>3, <1>4, <1>5 DEF Base58btcDecode

(* A text that decodes is the text of what it decodes to. *)
LEMMA DecodeEncode ==
  ASSUME NEW text \in Texts, Base58btcDecode(text) # None
  PROVE  /\ Base58btcDecode(text) \in Seq(Bytes)
         /\ Base58btcEncode(Base58btcDecode(text)) = text
<1>1. Stranger \notin ToSet(text) /\ Base58btcDecode(text) = Convert(text, TextBase, ByteBase)
  BY DEF Base58btcDecode
<1>2. text \in Seq(Alphabet)
  <2>1. text \in Seq(0 .. Stranger)
    BY DEF Texts
  <2>2. \A i \in 1 .. Len(text) : i \in DOMAIN text /\ text[i] \in 0 .. Stranger
    BY <2>1, ElementOfSeq, LenProperties
  <2>3. \A i \in 1 .. Len(text) : text[i] \in 0 .. Stranger /\ text[i] # Stranger
    BY <1>1, <2>2 DEF ToSet
  <2>4. \A c \in 0 .. Stranger : c # Stranger => c \in Alphabet
    BY Bases DEF Alphabet, Stranger
  <2>5. \A i \in 1 .. Len(text) : text[i] \in Alphabet
    BY <2>3, <2>4
  <2> QED
    BY <2>1, <2>5
<1>3. /\ Convert(text, TextBase, ByteBase) \in Seq(Bytes)
      /\ Convert(Convert(text, TextBase, ByteBase), ByteBase, TextBase) = text
  BY <1>2, Bases, ConvertBack DEF Alphabet, Bytes
<1> QED
  BY <1>1, <1>3 DEF Base58btcEncode

(* The public key of a DID is derived back to the DID ... *)
LEMMA KeyOfDid ==
  ASSUME NEW text \in Texts, DidKeyToPublicJWK(text) # None
  PROVE  DidKeyFromPublicJWK(DidKeyToPublicJWK(text)) = text
<1> DEFINE decoded == Base58btcDecode(text)
           raw == SubSeq(decoded, 3, Len(decoded))
<1>1. /\ decoded # None /\ Len(decoded) = Len(Multicodec) + KeyLength
      /\ SubSeq(decoded, 1, 2) = Multicodec /\ DidKeyToPublicJWK(text) = raw
  BY DEF DidKeyToPublicJWK
<1>2. decoded \in Seq(Bytes) /\ Base58btcEncode(decoded) = text
  BY <1>1, DecodeEncode
<1> HIDE DEF decoded
<1>3. Len(decoded) = 2 + KeyLength
  BY <1>1, Bases
<1>4. Len(raw) = KeyLength
  BY <1>2, <1>3, Bases
<1>5. SubSeq(decoded, 1, 2) \o raw = decoded
  BY <1>2, <1>3, Bases
<1> QED
  BY <1>1, <1>2, <1>4, <1>5 DEF DidKeyFromPublicJWK

(* ... and the DID of a public key to the key. *)
LEMMA DidOfKey ==
  ASSUME NEW raw \in Seq(Bytes), DidKeyFromPublicJWK(raw) # None
  PROVE  /\ DidKeyFromPublicJWK(raw) \in Texts
         /\ DidKeyToPublicJWK(DidKeyFromPublicJWK(raw)) = raw
<1> DEFINE all == Multicodec \o raw
<1>1. Len(raw) = KeyLength /\ DidKeyFromPublicJWK(raw) = Base58btcEncode(all)
  BY DEF DidKeyFromPublicJWK
<1>2. /\ all \in Seq(Bytes) /\ Len(all) = 2 + Len(raw)
      /\ SubSeq(all, 1, 2) = Multicodec /\ SubSeq(all, 3, Len(all)) = raw
  <2>1. Multicodec \in Seq(Bytes) /\ Len(Multicodec) = 2
    BY Bases
  <2> QED
    BY <2>1, PairThen
<1> HIDE DEF all
<1>3. /\ Base58btcEncode(all) \in Texts /\ Base58btcDecode(Base58btcEncode(all)) = all
  BY <1>2, EncodeDecode
<1>4. all # None
  <2>1. Bytes \subseteq Nat
    BY DEF Bytes
  <2> QED
    BY <1>2, <2>1, SeqMonotonic, DidAssumption
<1>5. Len(all) = Len(Multicodec) + KeyLength
  BY <1>1, <1>2, Bases
<1>6. DidKeyToPublicJWK(Base58btcEncode(all)) = SubSeq(all, 3, Len(all))
  BY <1>2, <1>3, <1>4, <1>5 DEF DidKeyToPublicJWK
<1> QED
  BY <1>1, <1>2, <1>3, <1>6

(* A DID that is the key's decodes to it, and only that. *)
LEMMA VerifiesWithKey ==
  ASSUME NEW raw \in Seq(Bytes), NEW text \in Texts, text # None, raw # None
  PROVE  (DidKeyToPublicJWK(text) = raw) = (text = DidKeyFromPublicJWK(raw))
<1>1. ASSUME DidKeyToPublicJWK(text) = raw PROVE text = DidKeyFromPublicJWK(raw)
  BY <1>1, KeyOfDid
<1>2. ASSUME text = DidKeyFromPublicJWK(raw) PROVE DidKeyToPublicJWK(text) = raw
  BY <1>2, DidOfKey
<1> QED
  BY <1>1, <1>2

-----------------------------------------------------------------------------
(* The inductive invariant. *)
DidInv ==
    /\ DidTypeOK
    /\ sent # None => /\ sent \in [call : Calls, claims : Calls \cup {None}]
                      /\ (did = None) = (sent.claims = None)
    /\ info # None => sent # None /\ info = VerifyAuth

(* None is no key, text, call or API key. *)
LEMMA NotNone ==
  /\ None \notin Seq(Bytes) /\ None \notin Texts /\ None \notin Calls /\ None \notin ApiKeys
<1>1. Bytes \subseteq Nat /\ 0 .. Stranger \subseteq Nat
  BY DEF Bytes
<1>2. Seq(Bytes) \subseteq Seq(Nat) /\ Seq(0 .. Stranger) \subseteq Seq(Nat)
  BY <1>1, SeqMonotonic
<1> QED
  BY <1>2, DidAssumption DEF Texts

(* Two calls with the same parts are one. *)
LEMMA SameCall ==
  ASSUME NEW c \in Calls, NEW d \in Calls, VerifyJWSPayload(c, d)
  PROVE  c = d
<1>1. c \in [method : STRING, path : STRING, body : STRING] /\ d \in [method : STRING, path : STRING, body : STRING]
  BY DidAssumption
<1>2. DOMAIN c = {"method", "path", "body"}
  BY <1>1
<1>3. c.method = d.method /\ c.path = d.path /\ c.body = d.body
  BY <1>2 DEF VerifyJWSPayload
<1> QED
  BY <1>1, <1>3

(* The invariant holds at first. *)
LEMMA DidInitInv == DidInit => DidInv
<1> SUFFICES ASSUME DidInit PROVE DidInv
  OBVIOUS
<1>1. x \in Seq(Bytes)
  <2>1. PICK n \in 0 .. MaxBytes : x \in [1 .. n -> Bytes]
    BY DEF DidInit
  <2>2. n \in Nat
    BY Bases
  <2> QED
    BY <2>1, <2>2, SeqDef
<1> QED
  BY <1>1 DEF DidInit, DidInv, DidTypeOK

(* What the server answers is one of three. *)
LEMMA Answers == VerifyAuth \in {By("401", None), By("apikey", None), By("did", did)}
  BY DEF VerifyAuth

(* A miscopy of a text is a text. *)
LEMMA MiscopyText ==
  ASSUME NEW s \in Texts, NEW i \in DOMAIN s, NEW c \in 0 .. Stranger
  PROVE  {[s EXCEPT ![i] = c], RemoveAt(s, i), <<c>> \o s} \subseteq Texts
<1> DEFINE S == 0 .. Stranger
<1>1. s \in Seq(S) /\ c \in S /\ i \in 1 .. Len(s)
  BY LenProperties DEF Texts
<1> HIDE DEF S
<1>2. [s EXCEPT ![i] = c] \in Seq(S)
  BY <1>1, ExceptSeq
<1>3. RemoveAt(s, i) \in Seq(S)
  <2>1. SubSeq(s, 1, i - 1) \in Seq(S) /\ SubSeq(s, i + 1, Len(s)) \in Seq(S)
    BY <1>1
  <2> QED
    BY <2>1, ConcatProperties DEF RemoveAt
<1>4. <<c>> \o s \in Seq(S)
  <2>1. <<c>> \in Seq(S)
    BY <1>1, Singleton
  <2> QED
    BY <1>1, <2>1, ConcatProperties
<1> QED
  BY <1>2, <1>3, <1>4 DEF S, Texts

(* Every step keeps it: each conjunct, action by action. *)
LEMMA DidNextInv == DidInv /\ [DidNext]_didVars => DidInv'
<1> SUFFICES ASSUME DidInv, [DidNext]_didVars PROVE DidInv'
  OBVIOUS
<1> USE DEF DidInv, DidTypeOK
<1>1. CASE Derive
  <2>1. did' \in Texts
    BY <1>1, DidOfKey DEF Derive
  <2>2. info = None /\ info' = None
    BY <1>1 DEF Derive
  <2> QED
    BY <1>1, <2>1, <2>2 DEF Derive, Texts
<1>2. CASE Miscopy
  <2>1. did \in Texts /\ did # None
    BY <1>2 DEF Miscopy, Texts
  <2>2. PICK i \in DOMAIN did, c \in 0 .. Stranger :
            did' \in {[did EXCEPT ![i] = c], RemoveAt(did, i), <<c>> \o did}
    BY <1>2 DEF Miscopy
  <2>3. did' \in Texts
    BY <2>1, <2>2, MiscopyText
  <2>4. info = None /\ info' = None
    BY <1>2 DEF Miscopy
  <2> QED
    BY <1>2, <2>3, <2>4 DEF Miscopy, Texts
<1>3. CASE Serve
  <2>1. info' \in {By("401", None), By("apikey", None), By("did", did)}
    BY <1>3, Answers DEF Serve
  <2>2. VerifyAuth' = VerifyAuth
    BY <1>3 DEF Serve, VerifyAuth, VerifyKnockJWS
  <2> QED
    BY <1>3, <2>1, <2>2 DEF Serve
<1>4. ASSUME NEW call \in Calls, Send(call) PROVE DidInv'
  <2>1. sent' = [call |-> call, claims |-> IF did = None THEN None ELSE call]
    BY <1>4 DEF Send, SignKnockJWS
  <2>2. /\ sent'.call = call /\ sent'.claims = IF did = None THEN None ELSE call
        /\ sent' \in [call : Calls, claims : Calls \cup {None}]
    BY <2>1
  <2>3. info = None
    BY <1>4 DEF Send
  <2> QED
    BY <1>4, <2>2, <2>3, NotNone DEF Send
<1>5. ASSUME NEW call \in Calls, Repeat(call) PROVE DidInv'
  <2>1. sent \in [call : Calls, claims : Calls \cup {None}]
    BY <1>5 DEF Repeat
  <2>2. /\ sent'.call = call /\ sent'.claims = sent.claims
        /\ sent' \in [call : Calls, claims : Calls \cup {None}]
    BY <1>5, <2>1 DEF Repeat
  <2> QED
    BY <1>5, <2>2 DEF Repeat
<1>6. CASE UNCHANGED didVars
  BY <1>6 DEF didVars, VerifyAuth, VerifyKnockJWS
<1> QED
  BY <1>1, <1>2, <1>3, <1>4, <1>5, <1>6 DEF DidNext

(* It holds throughout. *)
LEMMA DidInvariant == DidSpec => []DidInv
  BY DidInitInv, DidNextInv, PTL DEF DidSpec

(* The client's DID is a text and what the server answers is an answer, for *)
(* any bases and lengths: DidKeyFromPublicJWK ends and returns characters  *)
(* of the alphabet.                                                        *)
THEOREM DidTypeCorrect == DidSpec => []DidTypeOK
<1>1. DidInv => DidTypeOK
  BY DEF DidInv
<1> QED
  BY <1>1, DidInvariant, PTL

(* Base58 is a bijection that keeps the zeros in front, so no two keys    *)
(* share a DID and no two DIDs a key (src/did.go), for any bases and       *)
(* lengths.                                                                *)
THEOREM OneDidCorrect == DidSpec => []OneDidPerKey
<1>1. DidInv => x \in Seq(Bytes) /\ (did # None => did \in Texts)
  BY DEF DidInv, DidTypeOK, Texts
<1>2. DidInv => OneDidPerKey
  BY <1>1, EncodeDecode, KeyOfDid DEF OneDidPerKey
<1> QED
  BY <1>2, DidInvariant, PTL

(* What VerifyAuth answers, compared with the keys and the signed parts. *)
LEMMA InvServed == DidInv => ServedAsSigned
<1> SUFFICES ASSUME DidInv, info # None PROVE ServedAsSigned
  BY DEF ServedAsSigned
<1> DEFINE keyed  == apiKey # None /\ apiKey = serverKey
           signed == did = DidKeyFromPublicJWK(x) /\ did # None /\ sent.claims = sent.call
           checks == sent.claims # None /\ VerifyKnockJWS /\ VerifyJWSPayload(sent.claims, sent.call)
<1>1. info = VerifyAuth /\ sent.call \in Calls /\ sent.claims \in Calls \cup {None}
  BY DEF DidInv, DidTypeOK
<1>2. checks = signed
  <2>1. CASE did = None
    <3>1. sent.claims = None
      BY <2>1 DEF DidInv
    <3> QED
      BY <2>1, <3>1
  <2>2. CASE did # None
    <3>1. sent.claims \in Calls /\ sent.claims # None
      BY <1>1, <2>2, NotNone DEF DidInv
    <3>2. x \in Seq(Bytes) /\ did \in Texts
      BY <2>2 DEF DidInv, DidTypeOK, Texts
    <3>3. VerifyKnockJWS = (did = DidKeyFromPublicJWK(x))
      BY <2>2, <3>2, NotNone, VerifiesWithKey DEF VerifyKnockJWS
    <3>4. VerifyJWSPayload(sent.claims, sent.call) = (sent.claims = sent.call)
      BY <1>1, <3>1, SameCall DEF VerifyJWSPayload
    <3> QED
      BY <2>2, <3>1, <3>3, <3>4
  <2> QED
    BY <2>1, <2>2
<1>3. (serverKey # None /\ apiKey = serverKey) = keyed
  OBVIOUS
<1>4. CASE keyed
  <2>1. info = By("apikey", None)
    BY <1>1, <1>4 DEF VerifyAuth
  <2>2. info.method = "apikey" /\ info.did = None
    BY <2>1 DEF By
  <2> QED
    BY <1>4, <2>2 DEF ServedAsSigned
<1>5. CASE ~keyed
  <2>1. info = IF checks THEN By("did", did) ELSE By("401", None)
    BY <1>1, <1>5 DEF VerifyAuth
  <2>2. CASE checks
    <3>1. info.method = "did" /\ info.did = did
      BY <2>1, <2>2 DEF By
    <3> QED
      BY <1>2, <1>5, <2>2, <3>1 DEF ServedAsSigned
  <2>3. CASE ~checks
    <3>1. info.method = "401"
      BY <2>1, <2>3 DEF By
    <3> QED
      BY <1>2, <1>5, <2>3, <3>1 DEF ServedAsSigned
  <2> QED
    BY <2>2, <2>3
<1> QED
  BY <1>4, <1>5

(* A call is served with a DID only as the holder of its key has signed it *)
(* with the SDK, which leaves no claim out, however DIDs are miscopied and *)
(* headers repeated (src/server/auth.go).                                  *)
THEOREM ServedCorrect == DidSpec => []ServedAsSigned
  BY DidInvariant, InvServed, PTL
===============================================================================
