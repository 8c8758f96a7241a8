--------------------------- MODULE Decimal_proof ---------------------------
(***************************************************************************)
(* Proofs about to_string and atoi for numbers of any length, any size of  *)
(* an unsigned int and any buffer that its digits fit in.  Loops are       *)
(* recursive functions: each is shown to exist first, then what it         *)
(* computes follows from the least argument it could be wrong at.          *)
(***************************************************************************)
EXTENDS Decimal, SequenceTheorems, WellFoundedInduction, TLAPS

-----------------------------------------------------------------------------
(* Smaller relates a natural number to every larger one.                   *)
Smaller == OpToRel(<, Nat)

(* A set of natural numbers that is not empty has a least one.             *)
LEMMA LeastNat ==
  ASSUME NEW T \in SUBSET Nat, T # {}
  PROVE  \E m \in T : \A q \in T : m <= q
<1>1. IsWellFoundedOn(Smaller, Nat)
  BY NatLessThanWellFounded DEF Smaller
<1>2. PICK m \in T : \A q \in T : ~(<<q, m>> \in Smaller)
  BY <1>1, WFMin
<1>3. \A a, b \in Nat : a < b => <<a, b>> \in Smaller
  BY DEF Smaller, OpToRel
<1>4. ASSUME NEW q \in T PROVE ~(q < m)
  <2>1. q \in Nat /\ m \in Nat
    OBVIOUS
  <2> QED BY <1>2, <1>3, <2>1, Zenon
<1> QED BY <1>4

(* F computes a value from those at smaller arguments only.                *)
Local(F, D, S) ==
  /\ F \in [D -> [[D -> S] -> S]]
  /\ \A m \in D : \A f, g \in [D -> S] :
       (\A q \in D : q < m => f[q] = g[q]) => F[m][f] = F[m][g]

(* f follows F below m.                                                    *)
Follows(f, F, D, m) == \A q \in D : q < m => f[q] = F[q][f]

(* h follows F everywhere.                                                 *)
Obeys(h, F, D) == \A q \in D : h[q] = F[q][h]

(* What follows F below a number is the same function there.               *)
LEMMA OneFollows ==
  ASSUME NEW D \in SUBSET Nat, NEW S, NEW F, Local(F, D, S),
         NEW f \in [D -> S], NEW g \in [D -> S], NEW m \in Nat,
         Follows(f, F, D, m), Follows(g, F, D, m)
  PROVE  \A q \in D : q < m => f[q] = g[q]
<1> DEFINE Wrong == {q \in D : q < m /\ f[q] # g[q]}
<1>1. SUFFICES ASSUME Wrong # {} PROVE FALSE
  OBVIOUS
<1>2. PICK w \in Wrong : \A q \in Wrong : w <= q
  <2>1. Wrong \in SUBSET Nat
    OBVIOUS
  <2> HIDE DEF Wrong
  <2> QED BY <1>1, <2>1, LeastNat
<1>3. w \in D /\ w < m /\ w \in Nat /\ f[w] # g[w]
  OBVIOUS
<1>4. \A q \in D : q < w => f[q] = g[q]
  BY <1>2, <1>3
<1>5. F[w][f] = F[w][g]
  BY <1>3, <1>4 DEF Local
<1> QED BY <1>3, <1>5 DEF Follows

(* There is a function that follows F everywhere.                          *)
LEMMA Recursion ==
  ASSUME NEW D \in SUBSET Nat, NEW S, S # {}, NEW F, Local(F, D, S)
  PROVE  \E h \in [D -> S] : Obeys(h, F, D)
<1> DEFINE Defined(m) == \E f \in [D -> S] : Follows(f, F, D, m)
           Stuck == {m \in Nat : ~Defined(m)}
<1>1. Stuck = {}
  <2>1. SUFFICES ASSUME Stuck # {} PROVE FALSE
    OBVIOUS
  <2>2. PICK w \in Stuck : \A m \in Stuck : w <= m
    <3>1. Stuck \in SUBSET Nat
      OBVIOUS
    <3> HIDE DEF Stuck
    <3> QED BY <2>1, <3>1, LeastNat
  <2>3. w \in Nat /\ ~Defined(w)
    OBVIOUS
  <2>4. w # 0
    <3>1. PICK s \in S : TRUE
      OBVIOUS
    <3>2. [q \in D |-> s] \in [D -> S] /\ Follows([q \in D |-> s], F, D, 0)
      BY DEF Follows
    <3>3. Defined(0)
      BY <3>2, Zenon
    <3> QED BY <2>3, <3>3
  <2>5. PICK f \in [D -> S] : Follows(f, F, D, w - 1)
    BY <2>2, <2>3, <2>4
  <2> DEFINE g == [q \in D |-> IF q = w - 1 THEN F[q][f] ELSE f[q]]
  <2>6. g \in [D -> S]
    BY DEF Local
  <2>7. Follows(g, F, D, w)
    <3>1. SUFFICES ASSUME NEW q \in D, q < w PROVE g[q] = F[q][g]
      BY DEF Follows
    <3>2. \A p \in D : p < q => f[p] = g[p]
      BY <2>3, <3>1
    <3>3. F[q][f] = F[q][g]
      BY <2>6, <3>2 DEF Local
    <3>4. CASE q = w - 1
      BY <3>3, <3>4
    <3>5. CASE q # w - 1
      <4>1. q < w - 1
        BY <2>3, <3>1, <3>5
      <4>2. f[q] = F[q][f]
        BY <4>1, <2>5 DEF Follows
      <4>3. g[q] = f[q]
        BY <3>5
      <4> QED BY <3>3, <4>2, <4>3
    <3> QED BY <3>4, <3>5
  <2> HIDE DEF g
  <2> QED BY <2>3, <2>6, <2>7
<1>2. \A m \in Nat : Defined(m)
  BY <1>1
<1> DEFINE Upto(m) == CHOOSE f \in [D -> S] : Follows(f, F, D, m)
           h == [q \in D |-> Upto(q + 1)[q]]
<1>3. \A m \in Nat : Upto(m) \in [D -> S] /\ Follows(Upto(m), F, D, m)
  BY <1>2, Zenon
<1> HIDE DEF Upto, Defined
<1>4. h \in [D -> S]
  BY <1>3
<1>5. ASSUME NEW q \in D PROVE h[q] = F[q][h]
  <2>1. q \in Nat /\ q + 1 \in Nat
    OBVIOUS
  <2>2. ASSUME NEW p \in D, p < q PROVE Upto(q + 1)[p] = h[p]
    <3>1. p \in Nat /\ p + 1 \in Nat /\ p < p + 1 /\ p + 1 <= q + 1
      BY <2>2
    <3>2. Follows(Upto(q + 1), F, D, p + 1)
      <4>1. Follows(Upto(q + 1), F, D, q + 1)
        BY <1>3, <2>1
      <4> QED BY <4>1, <2>1, <3>1 DEF Follows
    <3>3. Upto(q + 1) \in [D -> S] /\ Upto(p + 1) \in [D -> S] /\ Follows(Upto(p + 1), F, D, p + 1)
      BY <1>3, <2>1, <3>1
    <3>4. Upto(q + 1)[p] = Upto(p + 1)[p]
      BY <3>1, <3>2, <3>3, OneFollows
    <3> QED BY <3>4
  <2>3. Upto(q + 1) \in [D -> S] /\ Follows(Upto(q + 1), F, D, q + 1)
    BY <1>3, <2>1
  <2>4. F[q][Upto(q + 1)] = F[q][h]
    <3> HIDE DEF h
    <3> QED BY <1>4, <2>2, <2>3 DEF Local
  <2>5. Upto(q + 1)[q] = F[q][Upto(q + 1)]
    BY <2>1, <2>3 DEF Follows
  <2> QED BY <2>4, <2>5
<1> HIDE DEF h
<1> QED BY <1>4, <1>5 DEF Obeys

-----------------------------------------------------------------------------
(* The digits of a number, from the lowest on.                             *)
Codes == Zero .. Zero + 9

LEMMA LowFirstIs ==
  /\ LowFirst \in [Nat -> Seq(Codes)]
  /\ LowFirst[0] = << >>
  /\ \A k \in Nat \ {0} : LowFirst[k] = <<Digit(k % 10)>> \o LowFirst[k \div 10]
<1> DEFINE Step(f, k) == IF k = 0 THEN << >> ELSE <<Digit(k % 10)>> \o f[k \div 10]
           F == [k \in Nat |-> [f \in [Nat -> Seq(Codes)] |-> Step(f, k)]]
           Is(f) == f = [k \in Nat |-> Step(f, k)]
<1>1. \A k \in Nat : k % 10 \in 0 .. 9 /\ k \div 10 \in Nat /\ (k # 0 => k \div 10 < k)
  OBVIOUS
<1>2. \A f \in [Nat -> Seq(Codes)], k \in Nat : Step(f, k) \in Seq(Codes)
  <2>1. \A k \in Nat : <<Digit(k % 10)>> \in Seq(Codes)
    BY <1>1 DEF Digit, Codes, Zero
  <2> QED BY <1>1, <2>1
<1>3. Local(F, Nat, Seq(Codes))
  <2>1. F \in [Nat -> [[Nat -> Seq(Codes)] -> Seq(Codes)]]
    <3> HIDE DEF Step
    <3> QED BY <1>2
  <2>2. ASSUME NEW m \in Nat, NEW f \in [Nat -> Seq(Codes)], NEW g \in [Nat -> Seq(Codes)],
               \A q \in Nat : q < m => f[q] = g[q]
        PROVE  F[m][f] = F[m][g]
    <3>1. m # 0 => f[m \div 10] = g[m \div 10]
      BY <1>1, <2>2
    <3> QED BY <3>1
  <2> HIDE DEF F
  <2> QED BY <2>1, <2>2 DEF Local
<1>4. \E h \in [Nat -> Seq(Codes)] : Obeys(h, F, Nat)
  <2> HIDE DEF F
  <2>1. << >> \in Seq(Codes) /\ Nat \in SUBSET Nat
    OBVIOUS
  <2>2. Seq(Codes) # {}
    BY <2>1, Zenon
  <2> QED BY <1>3, <2>1, <2>2, Recursion
<1>5. PICK h \in [Nat -> Seq(Codes)] : \A q \in Nat : h[q] = Step(h, q)
  <2>1. PICK h \in [Nat -> Seq(Codes)] : Obeys(h, F, Nat)
    BY <1>4
  <2> HIDE DEF Step
  <2> QED BY <2>1 DEF Obeys
<1>6. Is(h)
  <2> HIDE DEF Step
  <2> QED BY <1>5
<1>7. LowFirst = CHOOSE f : Is(f)
  BY Zenon DEF LowFirst
<1>8. Is(LowFirst)
  <2> HIDE DEF Is
  <2> QED BY <1>6, <1>7, Zenon
<1>9. \A k \in Nat : LowFirst[k] = Step(LowFirst, k)
  <2> HIDE DEF Step
  <2> QED BY <1>8
<1>10. LowFirst \in [Nat -> Seq(Codes)]
  <2> DEFINE T == {k \in Nat : LowFirst[k] \notin Seq(Codes)}
  <2>1. LowFirst = [k \in Nat |-> LowFirst[k]]
    <3> HIDE DEF Step
    <3> QED BY <1>8
  <2>2. SUFFICES ASSUME T # {} PROVE FALSE
    BY <2>1
  <2>3. PICK w \in T : \A k \in T : w <= k
    <3>1. T \in SUBSET Nat
      OBVIOUS
    <3> HIDE DEF T
    <3> QED BY <2>2, <3>1, LeastNat
  <2>4. w = 0 \/ LowFirst[w \div 10] \in Seq(Codes)
    BY <1>1, <2>3
  <2>5. <<Digit(w % 10)>> \in Seq(Codes) /\ << >> \in Seq(Codes)
    BY <1>1 DEF Digit, Codes, Zero
  <2>6. LowFirst[w] = Step(LowFirst, w) /\ LowFirst[w] \notin Seq(Codes)
    BY <1>9
  <2> QED BY <2>4, <2>5, <2>6
<1> QED
  <2>1. \A k \in Nat \ {0} : LowFirst[k] = <<Digit(k % 10)>> \o LowFirst[k \div 10]
    BY <1>9
  <2>2. LowFirst[0] = << >>
    BY <1>9
  <2> QED BY <1>10, <2>1, <2>2

(* Ten times the numbers take one digit more.                              *)
LEMMA OneDigitMore ==
  ASSUME NEW bound \in Nat, NEW length \in Nat,
         \A m \in Nat : m < bound => Len(LowFirst[m]) <= length
  PROVE  \A k \in Nat : k < 10 * bound => Len(LowFirst[k]) <= length + 1
<1>1. SUFFICES ASSUME NEW k \in Nat, k < 10 * bound PROVE Len(LowFirst[k]) <= length + 1
  OBVIOUS
<1>2. CASE k = 0
  BY <1>2, LowFirstIs
<1>3. CASE k # 0
  <2> DEFINE m == k \div 10
  <2>1. m \in Nat /\ m < bound
    BY <1>1
  <2>2. LowFirst[k] = <<Digit(k % 10)>> \o LowFirst[m]
    BY <1>3, LowFirstIs
  <2> HIDE DEF m
  <2>3. LowFirst[m] \in Seq(Codes) /\ Len(LowFirst[m]) <= length
    BY <1>1, <2>1, LowFirstIs
  <2>4. Len(LowFirst[k]) = 1 + Len(LowFirst[m])
    BY <2>2, <2>3
  <2> QED BY <2>3, <2>4
<1> QED BY <1>2, <1>3

(* RoomForDigits at the sizes of the code: 2^32 numbers and 50 bytes.      *)
THEOREM RoomInTheCode ==
  \A k \in Nat : k < 65536 * 65536 => Len(LowFirst[k]) + 2 <= 50
<1> DEFINE AtMost(bound, length) == \A m \in Nat : m < bound => Len(LowFirst[m]) <= length
<1>1. AtMost(1, 0)
  BY LowFirstIs
<1>2. ASSUME NEW bound \in Nat, NEW length \in Nat, AtMost(bound, length)
      PROVE  AtMost(10 * bound, length + 1)
  BY <1>2, OneDigitMore
<1> HIDE DEF AtMost
<1>3. \A bound, length \in Nat : AtMost(bound, length) => AtMost(100 * bound, length + 2)
  <2>1. ASSUME NEW bound \in Nat, NEW length \in Nat, AtMost(bound, length)
        PROVE  AtMost(100 * bound, length + 2)
    <3>1. AtMost(10 * bound, length + 1) /\ 10 * bound \in Nat /\ length + 1 \in Nat
      BY <1>2, <2>1
    <3>2. AtMost(10 * (10 * bound), (length + 1) + 1)
      BY <1>2, <3>1
    <3>3. 10 * (10 * bound) = 100 * bound /\ (length + 1) + 1 = length + 2
      OBVIOUS
    <3> QED BY <3>2, <3>3
  <2> QED BY <2>1
<1>4. AtMost(100 * 1, 0 + 2)
  BY <1>1, <1>3
<1>5. AtMost(100 * 100, 2 + 2)
  BY <1>3, <1>4
<1>6. AtMost(100 * 10000, 4 + 2)
  BY <1>3, <1>5
<1>7. AtMost(100 * 1000000, 6 + 2)
  BY <1>3, <1>6
<1>8. AtMost(100 * 100000000, 8 + 2)
  BY <1>3, <1>7
<1>9. ASSUME NEW k \in Nat, k < 65536 * 65536 PROVE Len(LowFirst[k]) + 2 <= 50
  <2>1. k < 100 * 100000000
    BY <1>9
  <2>2. Len(LowFirst[k]) <= 10
    BY <1>8, <2>1 DEF AtMost
  <2>3. Len(LowFirst[k]) \in Nat
    BY LowFirstIs
  <2> QED BY <2>2, <2>3
<1> QED BY <1>9

(* The numeral of a number.                                                *)
LEMMA NumeralIs ==
  /\ Numeral \in [Nat -> Seq(Codes)]
  /\ \A k \in 0 .. 9 : Numeral[k] = <<Zero + k>>
  /\ \A k \in Nat : k >= 10 => Numeral[k] = Append(Numeral[k \div 10], Zero + (k % 10))
<1> DEFINE Step(f, k) == IF k < 10 THEN <<Zero + k>> ELSE Append(f[k \div 10], Zero + (k % 10))
           F == [k \in Nat |-> [f \in [Nat -> Seq(Codes)] |-> Step(f, k)]]
           Is(f) == f = [k \in Nat |-> Step(f, k)]
<1>1. \A k \in Nat : k % 10 \in 0 .. 9 /\ k \div 10 \in Nat /\ (k >= 10 => k \div 10 < k)
  OBVIOUS
<1>2. \A f \in [Nat -> Seq(Codes)], k \in Nat : Step(f, k) \in Seq(Codes)
  <2>1. \A k \in Nat : Zero + (k % 10) \in Codes /\ (k < 10 => <<Zero + k>> \in Seq(Codes))
    BY <1>1 DEF Codes, Zero
  <2> QED BY <1>1, <2>1
<1>3. Local(F, Nat, Seq(Codes))
  <2>1. F \in [Nat -> [[Nat -> Seq(Codes)] -> Seq(Codes)]]
    <3> HIDE DEF Step
    <3> QED BY <1>2
  <2>2. ASSUME NEW m \in Nat, NEW f \in [Nat -> Seq(Codes)], NEW g \in [Nat -> Seq(Codes)],
               \A q \in Nat : q < m => f[q] = g[q]
        PROVE  F[m][f] = F[m][g]
    <3>1. m >= 10 => f[m \div 10] = g[m \div 10]
      BY <1>1, <2>2
    <3> QED BY <3>1
  <2> HIDE DEF F
  <2> QED BY <2>1, <2>2 DEF Local
<1>4. \E h \in [Nat -> Seq(Codes)] : Obeys(h, F, Nat)
  <2> HIDE DEF F
  <2>1. << >> \in Seq(Codes) /\ Nat \in SUBSET Nat
    OBVIOUS
  <2>2. Seq(Codes) # {}
    BY <2>1, Zenon
  <2> QED BY <1>3, <2>1, <2>2, Recursion
<1>5. PICK h \in [Nat -> Seq(Codes)] : \A q \in Nat : h[q] = Step(h, q)
  <2>1. PICK h \in [Nat -> Seq(Codes)] : Obeys(h, F, Nat)
    BY <1>4
  <2> HIDE DEF Step
  <2> QED BY <2>1 DEF Obeys
<1>6. Is(h)
  <2> HIDE DEF Step
  <2> QED BY <1>5
<1>7. Numeral = CHOOSE f : Is(f)
  BY Zenon DEF Numeral
<1>8. Is(Numeral)
  <2> HIDE DEF Is
  <2> QED BY <1>6, <1>7, Zenon
<1>9. \A k \in Nat : Numeral[k] = Step(Numeral, k)
  <2> HIDE DEF Step
  <2> QED BY <1>8
<1>10. Numeral \in [Nat -> Seq(Codes)]
  <2> DEFINE T == {k \in Nat : Numeral[k] \notin Seq(Codes)}
  <2>1. Numeral = [k \in Nat |-> Numeral[k]]
    <3> HIDE DEF Step
    <3> QED BY <1>8
  <2>2. SUFFICES ASSUME T # {} PROVE FALSE
    BY <2>1
  <2>3. PICK w \in T : \A k \in T : w <= k
    <3>1. T \in SUBSET Nat
      OBVIOUS
    <3> HIDE DEF T
    <3> QED BY <2>2, <3>1, LeastNat
  <2>4. w < 10 \/ Numeral[w \div 10] \in Seq(Codes)
    BY <1>1, <2>3
  <2>5. Zero + (w % 10) \in Codes /\ (w < 10 => <<Zero + w>> \in Seq(Codes))
    BY <1>1 DEF Codes, Zero
  <2>6. Numeral[w] = Step(Numeral, w) /\ Numeral[w] \notin Seq(Codes)
    BY <1>9
  <2> QED BY <2>4, <2>5, <2>6
<1> QED
  <2>1. ASSUME NEW k \in 0 .. 9 PROVE Numeral[k] = <<Zero + k>>
    <3>1. k \in Nat /\ k < 10
      OBVIOUS
    <3>2. Step(Numeral, k) = <<Zero + k>>
      BY <3>1, Zenon
    <3> HIDE DEF Step
    <3> QED BY <1>9, <3>1, <3>2
  <2>2. ASSUME NEW k \in Nat, k >= 10
        PROVE  Numeral[k] = Append(Numeral[k \div 10], Zero + (k % 10))
    <3>1. ~(k < 10)
      BY <2>2
    <3>2. Step(Numeral, k) = Append(Numeral[k \div 10], Zero + (k % 10))
      BY <3>1, Zenon
    <3> HIDE DEF Step
    <3> QED BY <1>9, <3>2
  <2> QED BY <1>10, <2>1, <2>2

(* The digits come out in the order opposite to that of the numeral.       *)
Backwards(s, t) ==
  Len(s) = Len(t) /\ \A j \in 1 .. Len(s) : s[j] = t[Len(t) + 1 - j]

LEMMA LowFirstBackwards ==
  ASSUME NEW k \in Nat \ {0}
  PROVE  Backwards(Numeral[k], LowFirst[k])
<1> DEFINE T == {m \in Nat \ {0} : ~Backwards(Numeral[m], LowFirst[m])}
<1>1. SUFFICES ASSUME T # {} PROVE FALSE
  OBVIOUS
<1>2. PICK w \in T : \A m \in T : w <= m
  <2>1. T \in SUBSET Nat
    OBVIOUS
  <2> HIDE DEF T
  <2> QED BY <1>1, <2>1, LeastNat
<1>3. w \in Nat \ {0} /\ ~Backwards(Numeral[w], LowFirst[w])
  OBVIOUS
<1>4. LowFirst[w] = <<Digit(w % 10)>> \o LowFirst[w \div 10] /\ LowFirst[0] = << >>
  BY <1>3, LowFirstIs
<1>5. CASE w < 10
  <2>1. w \div 10 = 0 /\ w % 10 = w
    BY <1>3, <1>5
  <2>2. LowFirst[w] = <<Zero + w>>
    <3>1. \A c : <<c>> \o << >> = <<c>>
      OBVIOUS
    <3>2. LowFirst[w] = <<Digit(w % 10)>> \o << >>
      BY <1>4, <2>1
    <3>3. Digit(w % 10) = Zero + w
      BY <1>3, <2>1 DEF Digit, Zero
    <3> QED BY <3>1, <3>2, <3>3
  <2>3. Numeral[w] = <<Zero + w>>
    <3>1. w \in 0 .. 9
      BY <1>3, <1>5
    <3> QED BY <3>1, NumeralIs
  <2> QED BY <1>3, <2>2, <2>3 DEF Backwards
<1>6. CASE w >= 10
  <2> DEFINE v == w \div 10
  <2>1. v \in Nat \ {0} /\ v < w
    BY <1>3, <1>6
  <2>2. Backwards(Numeral[v], LowFirst[v])
    BY <1>2, <2>1
  <2>3. Numeral[v] \in Seq(Codes) /\ LowFirst[v] \in Seq(Codes)
    BY <2>1, NumeralIs, LowFirstIs
  <2>4. Numeral[w] = Append(Numeral[v], Digit(w % 10))
    <3>1. Zero + (w % 10) = Digit(w % 10)
      BY <1>3 DEF Digit, Zero
    <3> QED BY <1>3, <1>6, <3>1, NumeralIs
  <2>5. LowFirst[w] = <<Digit(w % 10)>> \o LowFirst[v]
    BY <1>4
  <2> HIDE DEF v
  <2> DEFINE s == Numeral[v]
             t == LowFirst[v]
             d == Digit(w % 10)
  <2>6. ASSUME NEW a \in Seq(Codes), NEW b \in Seq(Codes), NEW c, Backwards(a, b)
        PROVE  Backwards(Append(a, c), <<c>> \o b)
    <3>1. Len(Append(a, c)) = Len(a) + 1 /\ Len(<<c>> \o b) = Len(b) + 1 /\ Len(a) = Len(b) /\ Len(a) \in Nat
      BY <2>6 DEF Backwards
    <3>2. ASSUME NEW j \in 1 .. Len(a) + 1
          PROVE  Append(a, c)[j] = (<<c>> \o b)[Len(b) + 2 - j]
      <4>1. CASE j = Len(a) + 1
        BY <2>6, <3>1, <4>1
      <4>2. CASE j \in 1 .. Len(a)
        <5>1. Append(a, c)[j] = a[j]
          BY <4>2
        <5>2. (<<c>> \o b)[Len(b) + 2 - j] = b[Len(b) + 1 - j]
          BY <3>1, <4>2
        <5>3. a[j] = b[Len(b) + 1 - j]
          BY <2>6, <4>2 DEF Backwards
        <5> QED BY <5>1, <5>2, <5>3
      <4> QED BY <3>1, <4>1, <4>2
    <3> QED BY <3>1, <3>2 DEF Backwards
  <2> QED BY <1>3, <2>2, <2>3, <2>4, <2>5, <2>6
<1> QED BY <1>3, <1>5, <1>6

-----------------------------------------------------------------------------
(* A remainder is what is left of whole turns of an unsigned int.          *)
LEMMA Divides ==
  ASSUME NEW a \in Int
  PROVE  /\ a % Unsigned \in 0 .. Unsigned - 1
         /\ \E q \in Int : a = (Unsigned * q) + (a % Unsigned)
<1>1. a % Unsigned \in 0 .. Unsigned - 1
  BY DecimalAssumption
<1>2. a \div Unsigned \in Int /\ a = (Unsigned * (a \div Unsigned)) + (a % Unsigned)
  BY DecimalAssumption
<1> QED
  BY <1>1, <1>2

(* The remainder is the only small number that many turns away.            *)
LEMMA OneRemainder ==
  ASSUME NEW a \in Int, NEW q \in Int, NEW r \in 0 .. Unsigned - 1,
         a = (Unsigned * q) + r
  PROVE  a % Unsigned = r
<1>1. PICK p \in Int : a = (Unsigned * p) + (a % Unsigned)
  BY Divides
<1> DEFINE s == a % Unsigned
<1>2. s \in 0 .. Unsigned - 1
  BY Divides
<1>3. (Unsigned * q) + r = (Unsigned * p) + s
  BY <1>1
<1> HIDE DEF s
<1>4. CASE q = p
  BY <1>2, <1>3, <1>4, DecimalAssumption
<1>5. CASE q > p
  <2>1. Unsigned * (q - p) = s - r
    BY <1>2, <1>3, DecimalAssumption
  <2>2. Unsigned * (q - p) >= Unsigned
    BY <1>5, DecimalAssumption
  <2> QED
    BY <1>2, <2>1, <2>2, DecimalAssumption
<1>6. CASE p > q
  <2>1. Unsigned * (p - q) = r - s
    BY <1>2, <1>3, DecimalAssumption
  <2>2. Unsigned * (p - q) >= Unsigned
    BY <1>6, DecimalAssumption
  <2> QED
    BY <1>2, <2>1, <2>2, DecimalAssumption
<1> QED
  BY <1>4, <1>5, <1>6

(* Whole turns do not change what an int holds.                            *)
LEMMA Turns ==
  ASSUME NEW a \in Int, NEW z \in Int
  PROVE  ToInt(a + (Unsigned * z)) = ToInt(a)
<1> DEFINE b == a + (Unsigned \div 2)
<1>1. Unsigned \div 2 \in Int /\ b \in Int
  BY DecimalAssumption
<1>2. PICK q \in Int : b = (Unsigned * q) + (b % Unsigned)
  BY <1>1, Divides
<1> DEFINE r == b % Unsigned
<1>3. r \in 0 .. Unsigned - 1
  BY <1>1, Divides
<1>4. b = (Unsigned * q) + r
  BY <1>2
<1> DEFINE c == (a + (Unsigned * z)) + (Unsigned \div 2)
<1>5. c \in Int /\ q + z \in Int
  BY <1>1, DecimalAssumption
<1>6. c = (Unsigned * (q + z)) + r
  <2>1. c = b + (Unsigned * z)
    BY <1>1, DecimalAssumption
  <2>2. Unsigned * (q + z) = (Unsigned * q) + (Unsigned * z)
    BY DecimalAssumption
  <2> HIDE DEF r, b, c
  <2> QED BY <1>1, <1>3, <1>4, <2>1, <2>2, DecimalAssumption
<1>7. c % Unsigned = r
  <2> HIDE DEF r, c
  <2> QED BY <1>3, <1>5, <1>6, OneRemainder
<1> QED BY <1>7 DEF ToInt

(* An int holds a number up to whole turns.                                *)
LEMMA HeldUpToTurns ==
  ASSUME NEW a \in Int
  PROVE  ToInt(a) \in Int /\ \E z \in Int : ToInt(a) = a + (Unsigned * z)
<1> DEFINE b == a + (Unsigned \div 2)
           r == b % Unsigned
<1>1. Unsigned \div 2 \in Int /\ b \in Int
  BY DecimalAssumption
<1>2. PICK q \in Int : b = (Unsigned * q) + r
  BY <1>1, Divides
<1>3. r \in 0 .. Unsigned - 1 /\ ToInt(a) = r - (Unsigned \div 2)
  BY <1>1, Divides DEF ToInt
<1> HIDE DEF r
<1>4. ToInt(a) = a - (Unsigned * q)
  BY <1>1, <1>2, <1>3, DecimalAssumption
<1>5. a - (Unsigned * q) = a + (Unsigned * (-q)) /\ -q \in Int
  BY DecimalAssumption
<1>6. ToInt(a) \in Int
  BY <1>1, <1>3
<1> QED BY <1>4, <1>5, <1>6

(* A step of atoi may as well work on the number itself.                   *)
LEMMA StepOfHeld ==
  ASSUME NEW a \in Int, NEW d \in Int
  PROVE  ToInt(ToInt(a) * 10 - d) = ToInt(a * 10 - d)
<1>1. PICK z \in Int : ToInt(a) = a + (Unsigned * z)
  BY HeldUpToTurns
<1>2. ToInt(a) * 10 - d = (a * 10 - d) + (Unsigned * (10 * z))
  BY <1>1, HeldUpToTurns, DecimalAssumption
<1>3. a * 10 - d \in Int /\ 10 * z \in Int
  OBVIOUS
<1> QED BY <1>2, <1>3, Turns

LEMMA NegationOfHeld ==
  ASSUME NEW a \in Int
  PROVE  ToInt(-ToInt(-a)) = ToInt(a)
<1>1. PICK z \in Int : ToInt(-a) = -a + (Unsigned * z)
  BY HeldUpToTurns
<1>2. -ToInt(-a) = a + (Unsigned * (-z))
  <2> DEFINE v == ToInt(-a)
             w == Unsigned * z
  <2>1. w \in Int /\ Unsigned * (-z) = -w
    BY DecimalAssumption
  <2>2. v = -a + w
    BY <1>1
  <2> HIDE DEF v, w
  <2>3. -v = a + (-w)
    BY <2>1, <2>2
  <2> QED BY <2>1, <2>3 DEF v
<1>3. -z \in Int
  OBVIOUS
<1> QED BY <1>2, <1>3, Turns

(* What an int holds of a number that fits one, and of one that fits only  *)
(* an unsigned int.                                                        *)
LEMMA Held ==
  /\ ToInt(0) = 0
  /\ \A a \in 0 .. (Unsigned \div 2) - 1 : ToInt(a) = a
  /\ \A a \in (Unsigned \div 2) .. Unsigned - 1 : ToInt(a) = a - Unsigned
<1> DEFINE half == Unsigned \div 2
<1>1. half \in Nat \ {0} /\ half + half = Unsigned
  BY DecimalAssumption
<1>2. ASSUME NEW a \in 0 .. half - 1 PROVE ToInt(a) = a
  <2>1. a + half \in 0 .. Unsigned - 1 /\ a + half = (Unsigned * 0) + (a + half)
    BY <1>1, DecimalAssumption
  <2>2. (a + half) % Unsigned = a + half
    <3> HIDE DEF half
    <3> QED BY <1>1, <2>1, OneRemainder
  <2> QED BY <1>1, <2>2 DEF ToInt
<1>3. ASSUME NEW a \in half .. Unsigned - 1 PROVE ToInt(a) = a - Unsigned
  <2>1. a - half \in 0 .. Unsigned - 1 /\ a + half = (Unsigned * 1) + (a - half)
    <3> HIDE DEF half
    <3> QED BY <1>1, DecimalAssumption
  <2>2. (a + half) % Unsigned = a - half
    <3> HIDE DEF half
    <3> QED BY <1>1, <2>1, OneRemainder, DecimalAssumption
  <2>3. ToInt(a) = (a - half) - half
    BY <2>2 DEF ToInt
  <2> HIDE DEF half
  <2> QED BY <1>1, <2>3, DecimalAssumption
<1>4. 0 \in 0 .. half - 1
  <2> HIDE DEF half
  <2> QED BY <1>1
<1> QED BY <1>2, <1>3, <1>4

-----------------------------------------------------------------------------
(* Contents of the buffer.                                                 *)
Buffers == [0 .. Size - 1 -> Int]

(* The buffer after t swaps: i bytes are reversed, t from either end.      *)
FromBothEnds(b, i, t) ==
  [j \in 0 .. Size - 1 |-> IF j < t \/ (i - t <= j /\ j < i) THEN b[i - 1 - j] ELSE b[j]]

(* The loop reverses the first i bytes and no other: no swap of it is of a *)
(* byte with itself.                                                       *)
LEMMA ReversedIs ==
  ASSUME NEW b \in Buffers, NEW i \in 0 .. Size - 1
  PROVE  /\ Reversed(b, i) \in Buffers
         /\ \A j \in 0 .. i - 1 : Reversed(b, i)[j] = b[i - 1 - j]
         /\ \A j \in i .. Size - 1 : Reversed(b, i)[j] = b[j]
<1> DEFINE m == Swaps(i)
           Step(f, t) == IF t = 0 THEN b ELSE XorSwap(f[t - 1], t - 1, i - t)
           Is(f) == f = [t \in 0 .. m |-> Step(f, t)]
           h == [t \in 0 .. m |-> FromBothEnds(b, i, t)]
<1>1. m \in Nat /\ 2 * m <= i /\ i <= 2 * m + 1 /\ i \in Nat /\ Size \in Nat
  BY DecimalAssumption DEF Swaps
<1> HIDE DEF m
<1>2. ASSUME NEW t \in 0 .. m PROVE h[t] \in Buffers
  <2>1. \A j \in 0 .. Size - 1 : (j < t \/ (i - t <= j /\ j < i)) => i - 1 - j \in 0 .. Size - 1
    BY <1>1
  <2> QED BY <2>1 DEF FromBothEnds, Buffers
<1>3. ASSUME NEW t \in 1 .. m
      PROVE  XorSwap(FromBothEnds(b, i, t - 1), t - 1, i - t) = FromBothEnds(b, i, t)
  <2> DEFINE g == FromBothEnds(b, i, t - 1)
  <2>1. t - 1 \in 0 .. Size - 1 /\ i - t \in 0 .. Size - 1 /\ t - 1 < i - t
    BY <1>1
  <2>2. XorSwap(g, t - 1, i - t) = [g EXCEPT ![t - 1] = g[i - t], ![i - t] = g[t - 1]]
    BY <2>1 DEF XorSwap
  <2>3. g[i - t] = b[i - t] /\ g[t - 1] = b[t - 1]
    BY <1>1, <2>1 DEF FromBothEnds
  <2>4. ASSUME NEW j \in 0 .. Size - 1
        PROVE  [g EXCEPT ![t - 1] = g[i - t], ![i - t] = g[t - 1]][j] = FromBothEnds(b, i, t)[j]
    <3>1. CASE j = t - 1
      <4>1. j < t /\ i - 1 - j = i - t
        BY <1>1, <3>1
      <4>2. FromBothEnds(b, i, t)[j] = b[i - t]
        BY <4>1 DEF FromBothEnds
      <4>3. [g EXCEPT ![t - 1] = g[i - t], ![i - t] = g[t - 1]][j] = g[i - t]
        BY <2>1, <3>1 DEF FromBothEnds
      <4> QED BY <2>3, <4>2, <4>3
    <3>2. CASE j = i - t
      <4>1. i - t <= j /\ j < i /\ i - 1 - j = t - 1
        BY <1>1, <3>2
      <4>2. FromBothEnds(b, i, t)[j] = b[t - 1]
        BY <4>1 DEF FromBothEnds
      <4>3. [g EXCEPT ![t - 1] = g[i - t], ![i - t] = g[t - 1]][j] = g[t - 1]
        BY <2>1, <3>2 DEF FromBothEnds
      <4> QED BY <2>3, <4>2, <4>3
    <3>3. CASE j # t - 1 /\ j # i - t
      <4>1. [g EXCEPT ![t - 1] = g[i - t], ![i - t] = g[t - 1]][j] = g[j]
        BY <2>1, <3>3 DEF FromBothEnds
      <4>2. (j < t <=> j < t - 1) /\ (i - t <= j <=> i - (t - 1) <= j)
        BY <1>1, <3>3
      <4>3. g[j] = FromBothEnds(b, i, t)[j]
        BY <4>2 DEF FromBothEnds
      <4> QED BY <4>1, <4>3
    <3> QED BY <3>1, <3>2, <3>3
  <2> QED BY <2>2, <2>4 DEF FromBothEnds
<1>4. Is(h)
  <2>1. ASSUME NEW t \in 0 .. m PROVE h[t] = Step(h, t)
    <3>1. CASE t = 0
      <4>1. FromBothEnds(b, i, 0) = b
        BY <1>1 DEF FromBothEnds, Buffers
      <4> QED BY <3>1, <4>1
    <3>2. CASE t # 0
      <4>1. t \in 1 .. m /\ t - 1 \in 0 .. m
        BY <1>1, <3>2
      <4>2. h[t - 1] = FromBothEnds(b, i, t - 1) /\ h[t] = FromBothEnds(b, i, t)
        BY <4>1
      <4>3. Step(h, t) = XorSwap(h[t - 1], t - 1, i - t)
        BY <3>2
      <4> HIDE DEF h, Step
      <4> QED BY <1>3, <4>1, <4>2, <4>3
    <3> QED BY <3>1, <3>2
  <2> HIDE DEF Step
  <2> QED BY <2>1
<1> DEFINE after == CHOOSE f : Is(f)
<1>5. Reversed(b, i) = after[m]
  BY Zenon DEF Reversed, m
<1>6. Is(after)
  <2> HIDE DEF Is, h
  <2> QED BY <1>4, Zenon
<1> HIDE DEF after
<1>7. \A t \in 0 .. m : after[t] = Step(after, t)
  <2> HIDE DEF Step
  <2> QED BY <1>6
<1>8. \A t \in 0 .. m : after[t] = h[t]
  <2> DEFINE T == {t \in 0 .. m : after[t] # h[t]}
  <2>1. SUFFICES ASSUME T # {} PROVE FALSE
    OBVIOUS
  <2>2. PICK w \in T : \A t \in T : w <= t
    <3>1. T \in SUBSET Nat
      BY <1>1
    <3> HIDE DEF T
    <3> QED BY <2>1, <3>1, LeastNat
  <2>3. h[w] = Step(h, w) /\ after[w] = Step(after, w)
    <3>1. w \in 0 .. m
      OBVIOUS
    <3>2. \A t \in 0 .. m : h[t] = Step(h, t)
      <4> HIDE DEF h, Step
      <4> QED BY <1>4
    <3> HIDE DEF h, Step
    <3> QED BY <1>7, <3>1, <3>2
  <2>4. w # 0 => w - 1 \in 0 .. m /\ w - 1 \notin T
    BY <1>1, <2>2
  <2>5. w # 0 => after[w - 1] = h[w - 1]
    BY <2>4
  <2>6. after[w] # h[w]
    OBVIOUS
  <2> HIDE DEF h, T
  <2> QED BY <2>3, <2>5, <2>6
<1>9. Reversed(b, i) = FromBothEnds(b, i, m)
  <2>1. m \in 0 .. m
    BY <1>1
  <2> QED BY <1>5, <1>8, <2>1
<1>10. ASSUME NEW j \in 0 .. i - 1 PROVE FromBothEnds(b, i, m)[j] = b[i - 1 - j]
  <2>1. j \in 0 .. Size - 1 /\ j < i
    BY <1>1
  <2>2. CASE j < m \/ i - m <= j
    BY <2>1, <2>2 DEF FromBothEnds
  <2>3. CASE ~(j < m) /\ ~(i - m <= j)
    <3>1. i - 1 - j = j
      BY <1>1, <2>1, <2>3
    <3> QED BY <2>1, <2>3, <3>1 DEF FromBothEnds
  <2> QED BY <2>2, <2>3
<1>11. ASSUME NEW j \in i .. Size - 1 PROVE FromBothEnds(b, i, m)[j] = b[j]
  BY <1>1 DEF FromBothEnds
<1>12. FromBothEnds(b, i, m) \in Buffers
  <2>1. m \in 0 .. m
    BY <1>1
  <2> QED BY <1>2, <2>1
<1> QED
  <2> HIDE DEF m
  <2> QED BY <1>9, <1>10, <1>11, <1>12

-----------------------------------------------------------------------------
(* What a call hands out: the sign and the digits of what an unsigned int  *)
(* holds of the magnitude.                                                 *)
Rest(k) == Magnitude(k) % Unsigned
Sign(k) == IF k < 0 THEN <<Minus>> ELSE << >>
Digits(k) == IF Rest(k) = 0 /\ k # 0 THEN << >> ELSE Numeral[Rest(k)]
Expected(k) == Sign(k) \o Digits(k)

(* c is text, and the end of a text behind it.                             *)
Holds(c, text) ==
  /\ Len(text) \in 0 .. Size - 1
  /\ c[Len(text)] = Nul
  /\ \A j \in 0 .. Len(text) - 1 : c[j] = text[j + 1]

LEMMA RestFits ==
  ASSUME NEW k \in Int
  PROVE  /\ Rest(k) \in 0 .. Unsigned - 1
         /\ LowFirst[Rest(k)] \in Seq(Codes)
         /\ Len(LowFirst[Rest(k)]) + 2 <= Size
<1>1. Magnitude(k) \in Int
  BY DEF Magnitude
<1>2. Rest(k) \in 0 .. Unsigned - 1
  BY <1>1, Divides DEF Rest
<1>3. Rest(k) \in Nat
  BY <1>2
<1> QED
  BY <1>2, <1>3, LowFirstIs, RoomForDigits

LEMMA ExpectedIs ==
  ASSUME NEW k \in Int
  PROVE  /\ Digits(k) \in Seq(Codes) /\ Expected(k) \in Seq(Int)
         /\ k < 0 => Len(Expected(k)) = Len(Digits(k)) + 1 /\ Expected(k)[1] = Minus
                     /\ \A j \in 1 .. Len(Digits(k)) : Expected(k)[j + 1] = Digits(k)[j]
         /\ k >= 0 => Expected(k) = Digits(k)
<1>1. Digits(k) \in Seq(Codes)
  <2>1. Rest(k) \in Nat
    BY RestFits, DecimalAssumption
  <2>2. << >> \in Seq(Codes) /\ Numeral[Rest(k)] \in Seq(Codes)
    BY <2>1, NumeralIs
  <2> QED BY <2>2 DEF Digits
<1>2. Digits(k) \in Seq(Int)
  BY <1>1 DEF Codes, Zero
<1>3. CASE k < 0
  <2>1. Expected(k) = <<Minus>> \o Digits(k)
    BY <1>3 DEF Expected, Sign
  <2>2. Minus \in Int
    BY DEF Minus
  <2> QED BY <1>1, <1>2, <1>3, <2>1, <2>2
<1>4. CASE k >= 0
  <2>1. Expected(k) = << >> \o Digits(k)
    <3>1. ~(k < 0)
      BY <1>4
    <3> QED BY <3>1, Zenon DEF Expected, Sign
  <2> QED BY <1>1, <1>2, <1>4, <2>1
<1> QED BY <1>3, <1>4

(* A call fills the buffer with the text it hands out.                     *)
LEMMA WrittenIs ==
  ASSUME NEW b \in Buffers, NEW k \in Int
  PROVE  Written(b, k) \in Buffers /\ Holds(Written(b, k), Expected(k))
<1> DEFINE low == LowFirst[Rest(k)]
           text == Unreversed(k)
           end == Len(text) - 1
           full == Overwrite(b, text)
           turned == Reversed(full, end)
<1>1. low \in Seq(Codes) /\ Len(low) \in Nat /\ Len(low) + 2 <= Size
  BY RestFits
<1>2. text = low \o (IF k < 0 THEN <<Minus, Nul>> ELSE <<Nul>>)
  BY DEF Unreversed, Rest
<1> HIDE DEF low, text
<1>3. low \in Seq(Int)
  BY <1>1 DEF Codes, Zero
<1>4. /\ text \in Seq(Int)
      /\ end = Len(low) + (IF k < 0 THEN 1 ELSE 0) /\ end \in 0 .. Size - 1
      /\ \A j \in 1 .. Len(low) : text[j] = low[j]
      /\ text[end + 1] = Nul
      /\ k < 0 => text[end] = Minus
  <2>1. CASE k < 0
    <3>1. text = low \o <<Minus, Nul>> /\ Minus \in Int /\ Nul \in Int
      BY <1>2, <2>1 DEF Minus, Nul
    <3>2. Len(text) = Len(low) + 2 /\ text \in Seq(Int)
      BY <1>3, <3>1
    <3>3. end = Len(low) + 1
      BY <1>1, <3>2 DEF end
    <3>4. \A j \in 1 .. Len(low) : text[j] = low[j]
      BY <1>3, <3>1
    <3>5. text[Len(low) + 1] = Minus /\ text[Len(low) + 2] = Nul
      BY <1>1, <1>3, <3>1
    <3>6. end + 1 = Len(low) + 2 /\ end \in 0 .. Size - 1
      BY <1>1, <3>3, DecimalAssumption
    <3> HIDE DEF end
    <3> QED BY <2>1, <3>2, <3>3, <3>4, <3>5, <3>6
  <2>2. CASE ~(k < 0)
    <3>1. text = low \o <<Nul>> /\ Nul \in Int
      BY <1>2, <2>2 DEF Nul
    <3>2. Len(text) = Len(low) + 1 /\ text \in Seq(Int)
      BY <1>3, <3>1
    <3>3. end = Len(low)
      BY <1>1, <3>2 DEF end
    <3>4. \A j \in 1 .. Len(low) : text[j] = low[j]
      BY <1>3, <3>1
    <3>5. text[Len(low) + 1] = Nul
      BY <1>1, <1>3, <3>1
    <3>6. end \in 0 .. Size - 1 /\ end = Len(low) + 0
      BY <1>1, <3>3, DecimalAssumption
    <3> HIDE DEF end
    <3> QED BY <2>2, <3>2, <3>3, <3>4, <3>5, <3>6
  <2> QED BY <2>1, <2>2
<1>5. Len(text) = end + 1 /\ end \in Nat
  BY <1>4
<1>6. full \in Buffers /\ \A j \in 0 .. end : full[j] = text[j + 1]
  <2>1. \A j \in 0 .. Size - 1 : full[j] = IF j < Len(text) THEN text[j + 1] ELSE b[j]
    BY DEF Overwrite, Buffers
  <2>2. full = [j \in 0 .. Size - 1 |-> full[j]]
    BY DEF Overwrite, Buffers
  <2> HIDE DEF end
  <2>3. ASSUME NEW j \in 0 .. Size - 1 PROVE full[j] \in Int
    <3>1. CASE j < Len(text)
      <4>1. j + 1 \in 1 .. Len(text)
        BY <1>5, <3>1
      <4>2. text[j + 1] \in Int
        BY <1>4, <4>1
      <4> HIDE DEF full
      <4> QED BY <2>1, <3>1, <4>2
    <3>2. CASE ~(j < Len(text))
      <4> HIDE DEF full
      <4> QED BY <2>1, <3>2 DEF Buffers
    <3> QED BY <3>1, <3>2
  <2>4. ASSUME NEW j \in 0 .. end PROVE full[j] = text[j + 1]
    <3>1. j \in 0 .. Size - 1 /\ j < Len(text)
      BY <1>4, <1>5, DecimalAssumption
    <3> HIDE DEF full
    <3> QED BY <2>1, <3>1
  <2> HIDE DEF full
  <2> QED BY <2>2, <2>3, <2>4 DEF Buffers
<1> HIDE DEF full, end
<1>7. /\ turned \in Buffers
      /\ \A j \in 0 .. end - 1 : turned[j] = text[end - j]
      /\ turned[end] = Nul
  <2>1. turned \in Buffers /\ (\A j \in 0 .. end - 1 : turned[j] = full[end - 1 - j])
        /\ (\A j \in end .. Size - 1 : turned[j] = full[j])
    BY <1>4, <1>6, ReversedIs
  <2>2. ASSUME NEW j \in 0 .. end - 1 PROVE full[end - 1 - j] = text[end - j]
    <3>1. end - 1 - j \in 0 .. end /\ (end - 1 - j) + 1 = end - j
      BY <1>5
    <3> QED BY <1>6, <3>1
  <2>3. full[end] = Nul /\ end \in end .. Size - 1
    BY <1>4, <1>5, <1>6
  <2> HIDE DEF turned
  <2> QED BY <2>1, <2>2, <2>3
<1>8. Written(b, k) = IF k = 0 THEN Overwrite(turned, <<Zero, Nul>>) ELSE turned
  BY DEF Written, turned, full, end, text
<1> HIDE DEF turned
<1>9. CASE k = 0
  <2> DEFINE w == Overwrite(turned, <<Zero, Nul>>)
  <2>1. Written(b, k) = w /\ Size >= 2
    BY <1>1, <1>8, <1>9, DecimalAssumption
  <2>2. \A j \in 0 .. Size - 1 : w[j] = IF j < 2 THEN <<Zero, Nul>>[j + 1] ELSE turned[j]
    BY <1>7 DEF Overwrite, Buffers
  <2>3. w = [j \in 0 .. Size - 1 |-> w[j]]
    BY <1>7 DEF Overwrite, Buffers
  <2>4. w[0] = Zero /\ w[1] = Nul
    BY <2>1, <2>2, DecimalAssumption
  <2>5. ASSUME NEW j \in 0 .. Size - 1 PROVE w[j] \in Int
    <3>1. CASE j < 2
      <4>1. j = 0 \/ j = 1
        BY <3>1
      <4> HIDE DEF w
      <4> QED BY <2>4, <4>1 DEF Zero, Nul
    <3>2. CASE ~(j < 2)
      BY <1>7, <2>2, <3>2 DEF Buffers
    <3> QED BY <3>1, <3>2
  <2>6. Expected(k) = <<Zero>>
    <3>1. Rest(k) = 0
      <4>1. Magnitude(k) = 0
        BY <1>9 DEF Magnitude
      <4>2. 0 = (Unsigned * 0) + 0 /\ 0 \in 0 .. Unsigned - 1
        BY DecimalAssumption
      <4> QED BY <4>1, <4>2, OneRemainder DEF Rest
    <3>2. Digits(k) = Numeral[0]
      BY <1>9, <3>1 DEF Digits
    <3>3. Numeral[0] = <<Zero>>
      <4>1. Numeral[0] = <<Zero + 0>> /\ Zero + 0 = Zero
        BY NumeralIs DEF Zero
      <4> QED BY <4>1
    <3> QED BY <1>9, <3>2, <3>3, ExpectedIs
  <2> HIDE DEF w
  <2>7. w \in Buffers
    BY <2>3, <2>5 DEF Buffers
  <2>8. Len(<<Zero>>) = 1 /\ <<Zero>>[1] = Zero
    OBVIOUS
  <2>9. Holds(w, <<Zero>>)
    BY <2>1, <2>4, <2>8, DecimalAssumption DEF Holds
  <2> QED BY <2>1, <2>6, <2>7, <2>9
<1>10. CASE k # 0
  <2>1. Written(b, k) = turned
    BY <1>8, <1>10
  <2>2. Len(Digits(k)) = Len(low) /\ \A j \in 1 .. Len(low) : Digits(k)[j] = low[Len(low) + 1 - j]
    <3>1. CASE Rest(k) = 0
      <4>1. low = << >> /\ Digits(k) = << >>
        BY <1>10, <3>1, LowFirstIs DEF Digits, low
      <4> QED BY <4>1
    <3>2. CASE Rest(k) # 0
      <4>1. Rest(k) \in Nat \ {0}
        BY <3>2, RestFits
      <4>2. Digits(k) = Numeral[Rest(k)]
        BY <3>2 DEF Digits
      <4>3. Backwards(Digits(k), low)
        BY <4>1, <4>2, LowFirstBackwards DEF low
      <4> QED BY <4>3 DEF Backwards
    <3> QED BY <3>1, <3>2
  <2>3. Len(Expected(k)) = end
    <3>1. CASE k < 0
      BY <1>4, <2>2, <3>1, ExpectedIs
    <3>2. CASE ~(k < 0)
      <4>1. Len(Expected(k)) = Len(Digits(k))
        BY <3>2, ExpectedIs
      <4>2. end = Len(low)
        BY <1>1, <1>4, <3>2
      <4> QED BY <2>2, <4>1, <4>2
    <3> QED BY <3>1, <3>2
  <2>4. ASSUME NEW j \in 0 .. end - 1 PROVE turned[j] = Expected(k)[j + 1]
    <3>1. turned[j] = text[end - j]
      BY <1>7
    <3>2. CASE k < 0 /\ j = 0
      <4>1. text[end - j] = Minus
        <5>1. end - j = end
          BY <1>5, <3>2
        <5> QED BY <1>4, <3>2, <5>1
      <4>2. Expected(k)[1] = Minus /\ j + 1 = 1
        BY <3>2, ExpectedIs
      <4> QED BY <3>1, <4>1, <4>2
    <3>3. CASE k < 0 /\ j # 0
      <4>1. end = Len(low) + 1 /\ end - j \in 1 .. Len(low) /\ j \in 1 .. Len(low)
            /\ Len(low) + 1 - j = end - j
        BY <1>1, <1>4, <1>5, <3>3
      <4>2. Expected(k)[j + 1] = Digits(k)[j]
        BY <2>2, <3>3, <4>1, ExpectedIs
      <4>3. Digits(k)[j] = low[end - j] /\ text[end - j] = low[end - j]
        BY <1>4, <2>2, <4>1
      <4> QED BY <3>1, <4>2, <4>3
    <3>4. CASE ~(k < 0)
      <4>1. end = Len(low) /\ end - j \in 1 .. Len(low) /\ j + 1 \in 1 .. Len(low)
            /\ Len(low) + 1 - (j + 1) = end - j
        BY <1>1, <1>4, <1>5, <3>4
      <4>2. Expected(k)[j + 1] = Digits(k)[j + 1]
        BY <3>4, ExpectedIs
      <4>3. Digits(k)[j + 1] = low[end - j] /\ text[end - j] = low[end - j]
        BY <1>4, <2>2, <4>1
      <4> QED BY <3>1, <4>2, <4>3
    <3> QED BY <3>2, <3>3, <3>4
  <2>5. Holds(turned, Expected(k))
    BY <1>4, <1>7, <2>3, <2>4 DEF Holds
  <2> QED BY <1>7, <2>1, <2>5
<1> QED BY <1>9, <1>10

-----------------------------------------------------------------------------
(* num is what atoi has read of the first bytes of c.                      *)
Reads(num, c) ==
  /\ num \in [0 .. Size - 1 -> Int]
  /\ num[0] = 0
  /\ \A p \in 1 .. Size - 1 : num[p] = Accumulate(num[p - 1], c[p - 1])

(* atoi reads up to the first byte that is no digit.                       *)
LEMMA AtoiIs ==
  ASSUME NEW c \in Buffers, NEW end \in 0 .. Size - 1,
         ~IsDigit(c[end]), \A q \in 0 .. end - 1 : IsDigit(c[q])
  PROVE  \E num : Reads(num, c) /\ Atoi(c) = ToInt(-num[end])
<1> DEFINE D == DOMAIN c
           Step(f, p) == IF p = 0 THEN 0 ELSE Accumulate(f[p - 1], c[p - 1])
           F == [p \in D |-> [f \in [D -> Int] |-> Step(f, p)]]
           Is(f) == f = [p \in D |-> Step(f, p)]
           num == CHOOSE f : Is(f)
           First(p) == ~IsDigit(c[p]) /\ \A q \in 0 .. p - 1 : IsDigit(c[q])
           stop == CHOOSE p \in D : First(p)
<1>1. D = 0 .. Size - 1 /\ D \in SUBSET Nat /\ Size \in Nat \ {0}
  BY DecimalAssumption DEF Buffers
<1>2. \A p \in D : p # 0 => p - 1 \in D
  BY <1>1
<1>3. \A a \in Int, p \in D : Accumulate(a, c[p]) \in Int
  <2>1. \A a \in Int, p \in D : a * 10 - (c[p] - Zero) \in Int
    BY <1>1 DEF Buffers, Zero
  <2> QED BY <2>1, HeldUpToTurns DEF Accumulate
<1> HIDE DEF D
<1>4. Local(F, D, Int)
  <2>1. \A p \in D, f \in [D -> Int] : Step(f, p) \in Int
    <3>1. ASSUME NEW p \in D, NEW f \in [D -> Int], p # 0 PROVE Accumulate(f[p - 1], c[p - 1]) \in Int
      <4>1. p - 1 \in D /\ f[p - 1] \in Int
        BY <1>2, <3>1
      <4> QED BY <1>3, <4>1
    <3> QED BY <3>1
  <2>2. F \in [D -> [[D -> Int] -> Int]]
    <3> HIDE DEF Step
    <3> QED BY <2>1
  <2>3. ASSUME NEW m \in D, NEW f \in [D -> Int], NEW g \in [D -> Int],
               \A q \in D : q < m => f[q] = g[q]
        PROVE  F[m][f] = F[m][g]
    <3>1. m # 0 => f[m - 1] = g[m - 1]
      BY <1>1, <1>2, <2>3
    <3> QED BY <3>1
  <2> HIDE DEF F
  <2> QED BY <2>2, <2>3 DEF Local
<1>5. \E h \in [D -> Int] : Obeys(h, F, D)
  <2> HIDE DEF F
  <2>1. Int # {}
    OBVIOUS
  <2> QED BY <1>1, <1>4, <2>1, Recursion
<1>6. PICK h \in [D -> Int] : \A q \in D : h[q] = Step(h, q)
  <2>1. PICK h \in [D -> Int] : Obeys(h, F, D)
    BY <1>5
  <2> HIDE DEF Step
  <2> QED BY <2>1 DEF Obeys
<1>7. Is(num)
  <2>1. Is(h)
    <3> HIDE DEF Step
    <3> QED BY <1>6
  <2> HIDE DEF Is
  <2> QED BY <2>1, Zenon
<1> HIDE DEF num
<1>8. \A p \in D : num[p] = Step(num, p)
  <2> HIDE DEF Step
  <2> QED BY <1>7
<1>9. \A p \in D : num[p] = h[p]
  <2> DEFINE T == {p \in D : num[p] # h[p]}
  <2>1. SUFFICES ASSUME T # {} PROVE FALSE
    OBVIOUS
  <2>2. PICK w \in T : \A p \in T : w <= p
    <3>1. T \in SUBSET Nat
      BY <1>1
    <3> HIDE DEF T
    <3> QED BY <2>1, <3>1, LeastNat
  <2>3. w \in D /\ w \in Nat /\ num[w] # h[w]
    BY <1>1
  <2>4. w # 0 => num[w - 1] = h[w - 1]
    BY <1>2, <2>2, <2>3
  <2>5. num[w] = Step(num, w) /\ h[w] = Step(h, w)
    <3> HIDE DEF Step
    <3> QED BY <1>6, <1>8, <2>3
  <2> QED BY <2>3, <2>4, <2>5
<1>10. num \in [D -> Int]
  <2>1. num = [p \in D |-> num[p]]
    <3> HIDE DEF Step
    <3> QED BY <1>7
  <2>2. \A p \in D : num[p] \in Int
    BY <1>9
  <2> QED BY <2>1, <2>2
<1>11. Reads(num, c)
  <2>1. num[0] = 0
    BY <1>1, <1>8
  <2>2. ASSUME NEW p \in 1 .. Size - 1 PROVE num[p] = Accumulate(num[p - 1], c[p - 1])
    <3>1. p \in D /\ p # 0
      BY <1>1
    <3> QED BY <1>8, <3>1
  <2> QED BY <1>1, <1>10, <2>1, <2>2 DEF Reads
<1>12. stop = end
  <2>1. First(end) /\ end \in D
    BY <1>1
  <2>2. First(stop) /\ stop \in D
    <3> HIDE DEF First
    <3> QED BY <2>1, Zenon
  <2>3. end \in Nat /\ stop \in Nat
    BY <1>1, <2>1, <2>2
  <2>4. ~(stop < end)
    BY <2>1, <2>2, <2>3
  <2>5. ~(end < stop)
    BY <2>1, <2>2, <2>3
  <2> HIDE DEF stop
  <2> QED BY <2>3, <2>4, <2>5
<1>13. Atoi(c) = ToInt(-num[stop])
  BY Zenon DEF Atoi, num, D
<1> QED BY <1>11, <1>12, <1>13

(* The digits of a numeral add up to its number.                           *)
LEMMA NumeralRead ==
  ASSUME NEW c \in Buffers, NEW num, Reads(num, c), NEW k \in Nat,
         Len(Numeral[k]) \in 0 .. Size - 1,
         \A j \in 0 .. Len(Numeral[k]) - 1 : c[j] = Numeral[k][j + 1]
  PROVE  num[Len(Numeral[k])] = ToInt(-k)
<1> DEFINE Stands(m) == /\ Len(Numeral[m]) \in 0 .. Size - 1
                        /\ \A j \in 0 .. Len(Numeral[m]) - 1 : c[j] = Numeral[m][j + 1]
           T == {m \in Nat : Stands(m) /\ num[Len(Numeral[m])] # ToInt(-m)}
<1>1. SUFFICES ASSUME T # {} PROVE FALSE
  <2>1. Stands(k)
    OBVIOUS
  <2> HIDE DEF Stands
  <2> QED BY <1>1, <2>1
<1>2. PICK w \in T : \A m \in T : w <= m
  <2>1. T \in SUBSET Nat
    OBVIOUS
  <2> HIDE DEF T
  <2> QED BY <1>1, <2>1, LeastNat
<1>3. w \in Nat /\ Stands(w) /\ num[Len(Numeral[w])] # ToInt(-w)
  <2> HIDE DEF Stands
  <2> QED OBVIOUS
<1>4. CASE w < 10
  <2>1. Numeral[w] = <<Zero + w>>
    <3>1. w \in 0 .. 9
      BY <1>3, <1>4
    <3> QED BY <3>1, NumeralIs
  <2>2. Len(Numeral[w]) = 1 /\ Numeral[w][1] = Zero + w
    BY <2>1
  <2>3. c[0] = Zero + w /\ 1 \in 1 .. Size - 1
    BY <1>3, <2>2, DecimalAssumption
  <2>4. num[1] = Accumulate(0, Zero + w)
    BY <2>3 DEF Reads
  <2>5. 0 * 10 - ((Zero + w) - Zero) = -w
    BY <1>3 DEF Zero
  <2>6. num[1] = ToInt(-w)
    BY <2>4, <2>5 DEF Accumulate
  <2> QED BY <1>3, <2>2, <2>6
<1>5. CASE w >= 10
  <2> DEFINE v == w \div 10
             d == w % 10
             l == Len(Numeral[v])
  <2>1. v \in Nat /\ v < w /\ d \in 0 .. 9 /\ w = 10 * v + d
    BY <1>3, <1>5
  <2>2. Numeral[w] = Append(Numeral[v], Zero + d)
    BY <1>3, <1>5, NumeralIs
  <2> HIDE DEF v, d
  <2>3. Numeral[v] \in Seq(Codes) /\ l \in Nat
    <3>1. \A m \in Nat : Numeral[m] \in Seq(Codes)
      BY NumeralIs
    <3>2. \A s \in Seq(Codes) : Len(s) \in Nat
      OBVIOUS
    <3>3. Numeral[v] \in Seq(Codes)
      BY <2>1, <3>1
    <3> QED BY <3>2, <3>3
  <2>4. Len(Numeral[w]) = l + 1 /\ Numeral[w][l + 1] = Zero + d
        /\ \A j \in 1 .. l : Numeral[w][j] = Numeral[v][j]
    BY <2>2, <2>3
  <2> HIDE DEF l
  <2>5. l \in 0 .. Size - 1 /\ l + 1 \in 1 .. Size - 1 /\ c[l] = Zero + d
    BY <1>3, <2>3, <2>4, DecimalAssumption
  <2>6. ASSUME NEW j \in 0 .. l - 1 PROVE c[j] = Numeral[v][j + 1]
    <3>1. j \in 0 .. Len(Numeral[w]) - 1 /\ j + 1 \in 1 .. l
      BY <2>3, <2>4
    <3> QED BY <1>3, <2>4, <3>1
  <2>7. num[l] = ToInt(-v)
    <3>1. Stands(v)
      BY <2>5, <2>6 DEF l
    <3>2. v \notin T
      <4> HIDE DEF T
      <4> QED BY <1>2, <1>3, <2>1
    <3> HIDE DEF Stands
    <3> QED BY <2>1, <3>1, <3>2 DEF l
  <2>8. num[l + 1] = Accumulate(ToInt(-v), Zero + d)
    <3>1. (l + 1) - 1 = l
      BY <2>3
    <3> QED BY <2>5, <2>7, <3>1 DEF Reads
  <2>9. (Zero + d) - Zero = d /\ (-v) * 10 - d = -w /\ -v \in Int /\ d \in Int
    BY <2>1, <1>3 DEF Zero
  <2>10. num[l + 1] = ToInt(-w)
    <3>1. num[l + 1] = ToInt(ToInt(-v) * 10 - d)
      BY <2>8, <2>9 DEF Accumulate
    <3>2. ToInt(ToInt(-v) * 10 - d) = ToInt((-v) * 10 - d)
      BY <2>9, StepOfHeld
    <3> QED BY <2>9, <3>1, <3>2
  <2> QED BY <1>3, <2>4, <2>10
<1> QED BY <1>3, <1>4, <1>5

(* atoi reads of a numeral what an int holds of its number.                *)
LEMMA ReadsNumeral ==
  ASSUME NEW c \in Buffers, NEW k \in Nat, Holds(c, Numeral[k])
  PROVE  Atoi(c) = ToInt(k)
<1> DEFINE end == Len(Numeral[k])
<1>1. end \in 0 .. Size - 1 /\ c[end] = Nul /\ \A j \in 0 .. end - 1 : c[j] = Numeral[k][j + 1]
  BY DEF Holds
<1>2. ~IsDigit(c[end])
  BY <1>1 DEF IsDigit, Nul, Zero
<1>3. Numeral[k] \in Seq(Codes)
  BY NumeralIs
<1>4. ASSUME NEW q \in 0 .. end - 1 PROVE IsDigit(c[q])
  <2>1. q + 1 \in 1 .. end
    BY <1>1
  <2>2. Numeral[k][q + 1] \in Codes
    BY <1>3, <2>1
  <2> QED BY <1>1, <2>2 DEF IsDigit, Codes
<1>5. PICK num : Reads(num, c) /\ Atoi(c) = ToInt(-num[end])
  <2> HIDE DEF end
  <2> QED BY <1>1, <1>2, <1>4, AtoiIs
<1>6. num[end] = ToInt(-k)
  BY <1>1, <1>5, NumeralRead
<1>7. ToInt(-ToInt(-k)) = ToInt(k)
  BY NegationOfHeld
<1> QED BY <1>5, <1>6, <1>7

(* atoi reads nothing of a numeral with a sign.                            *)
LEMMA ReadsNoSign ==
  ASSUME NEW c \in Buffers, c[0] = Minus
  PROVE  Atoi(c) = 0
<1>1. 0 \in 0 .. Size - 1 /\ ~IsDigit(c[0])
  BY DecimalAssumption DEF IsDigit, Minus, Zero
<1>2. PICK num : Reads(num, c) /\ Atoi(c) = ToInt(-num[0])
  <2>1. \A q \in 0 .. 0 - 1 : IsDigit(c[q])
    OBVIOUS
  <2> QED BY <1>1, <2>1, AtoiIs
<1>3. num[0] = 0
  BY <1>2 DEF Reads
<1>4. -num[0] = 0
  <2>1. \A a \in Int : -a = 0 - a
    OBVIOUS
  <2>2. num[0] \in Int /\ 0 - 0 = 0
    BY <1>3
  <2> QED BY <1>3, <2>1, <2>2, Zenon
<1> QED BY <1>2, <1>4, Held

-----------------------------------------------------------------------------
(* The buffer, the number written last and what atoi made of it.           *)
TypeInv == buffer \in Buffers /\ n \in Int

(* What a call hands out does not depend on what it finds in the buffer.   *)
IInv == TypeInv /\ ReadsBack

(* What atoi reads back of one call.                                       *)
LEMMA ReadsBackWritten ==
  ASSUME NEW b \in Buffers, NEW k \in Int
  PROVE  /\ k < 0 => Atoi(Written(b, k)) = 0
         /\ k \in 0 .. (Unsigned \div 2) - 1 => Atoi(Written(b, k)) = k
         /\ k \in (Unsigned \div 2) .. Unsigned - 1 => Atoi(Written(b, k)) = k - Unsigned
<1> DEFINE c == Written(b, k)
<1>1. c \in Buffers /\ Holds(c, Expected(k))
  BY WrittenIs
<1> HIDE DEF c
<1>2. CASE k < 0
  <2>1. Len(Expected(k)) - 1 \in Nat /\ Expected(k)[1] = Minus
    <3>1. Len(Digits(k)) \in Nat
      BY ExpectedIs
    <3> QED BY <1>2, <3>1, ExpectedIs
  <2>2. c[0] = Minus
    BY <1>1, <2>1 DEF Holds
  <2>3. Atoi(c) = 0
    BY <1>1, <2>2, ReadsNoSign
  <2>4. k \notin Nat /\ Unsigned \div 2 \in Nat
    BY <1>2, DecimalAssumption
  <2> QED BY <2>3, <2>4 DEF c
<1>3. CASE k \in 0 .. Unsigned - 1
  <2>1. Rest(k) = k
    <3>1. Magnitude(k) = k
      BY <1>3, DecimalAssumption DEF Magnitude
    <3>2. k = (Unsigned * 0) + k
      BY DecimalAssumption
    <3> QED BY <1>3, <3>1, <3>2, OneRemainder DEF Rest
  <2>2. Expected(k) = Numeral[k]
    <3>1. Digits(k) = Numeral[k]
      BY <2>1 DEF Digits
    <3> QED BY <1>3, <3>1, ExpectedIs
  <2>3. Atoi(c) = ToInt(k)
    BY <1>1, <1>3, <2>2, ReadsNumeral
  <2>4. ~(k < 0)
    BY <1>3
  <2> QED BY <2>3, <2>4, Held DEF c
<1>4. CASE k >= Unsigned
  <2>1. Unsigned \div 2 \in Nat /\ Unsigned \div 2 <= Unsigned
    BY DecimalAssumption
  <2> QED BY <1>4, <2>1, DecimalAssumption
<1> QED BY <1>2, <1>3, <1>4, DecimalAssumption

LEMMA Invariance == Spec => []IInv
<1>1. Init => IInv
  <2>1. SUFFICES ASSUME Init PROVE IInv
    OBVIOUS
  <2>2. TypeInv
    BY <2>1 DEF Init, TypeInv, Buffers, Nul
  <2>3. ReadsBack
    <3>1. Unsigned \div 2 \in Nat \ {0}
      BY DecimalAssumption
    <3> QED BY <2>1, <3>1 DEF Init, ReadsBack
  <2> QED BY <2>2, <2>3 DEF IInv
<1>2. IInv /\ [ToString]_vars => IInv'
  <2>1. SUFFICES ASSUME IInv, [ToString]_vars PROVE IInv'
    OBVIOUS
  <2>2. CASE ToString
    <3>1. n' \in Int /\ buffer \in Buffers
      BY <2>1, <2>2, DecimalAssumption DEF ToString, IInv, TypeInv
    <3>2. buffer' = Written(buffer, n') /\ read' = Atoi(Written(buffer, n'))
      BY <2>2 DEF ToString
    <3>3. buffer' \in Buffers
      BY <3>1, <3>2, WrittenIs
    <3>4. ReadsBack'
      BY <3>1, <3>2, ReadsBackWritten DEF ReadsBack
    <3> QED BY <3>1, <3>3, <3>4 DEF IInv, TypeInv
  <2>3. CASE UNCHANGED vars
    BY <2>1, <2>3 DEF vars, IInv, TypeInv, ReadsBack
  <2> QED BY <2>1, <2>2, <2>3
<1> QED
  BY <1>1, <1>2, PTL DEF Spec

(* atoi reads back every number that fits an int and is not negative.      *)
THEOREM ReadsBackCorrect == Spec => []ReadsBack
<1>1. IInv => ReadsBack
  BY DEF IInv
<1> QED
  BY <1>1, Invariance, PTL

(* Whatever an earlier call left in the buffer, a call hands out the       *)
(* numeral of its number.                                                  *)
THEOREM NumeralCorrect == Spec => HandsOutNumeral
<1> DEFINE Step ==
             LET rest   == Magnitude(n') % Unsigned
                 sign   == IF n' < 0 THEN <<Minus>> ELSE << >>
                 digits == IF rest = 0 /\ n' # 0 THEN << >> ELSE Numeral[rest]
             IN  \E length \in 0 .. Size - 1 :
                   /\ [k \in 1 .. length |-> buffer'[k - 1]] = sign \o digits
                   /\ buffer'[length] = Nul
<1>1. IInv /\ [ToString]_vars => [Step]_vars
  <2>1. SUFFICES ASSUME IInv, ToString PROVE Step
    OBVIOUS
  <2>2. PICK k \in Int : n' = k
    BY <2>1, DecimalAssumption DEF ToString
  <2>3. buffer \in Buffers /\ buffer' = Written(buffer, k)
    BY <2>1, <2>2 DEF IInv, TypeInv, ToString
  <2>4. Holds(Written(buffer, k), Expected(k)) /\ Expected(k) \in Seq(Int)
    BY <2>3, WrittenIs, ExpectedIs
  <2> DEFINE c == Written(buffer, k)
             text == Expected(k)
  <2>5. \E length \in 0 .. Size - 1 : [j \in 1 .. length |-> c[j - 1]] = text /\ c[length] = Nul
    <3> HIDE DEF c, text
    <3>1. Holds(c, text) /\ text \in Seq(Int)
      BY <2>4 DEF c, text
    <3>2. ASSUME NEW j \in 1 .. Len(text) PROVE c[j - 1] = text[j]
      <4>1. j - 1 \in 0 .. Len(text) - 1 /\ (j - 1) + 1 = j
        BY <3>1
      <4> QED BY <3>1, <4>1 DEF Holds
    <3>3. text = [j \in 1 .. Len(text) |-> text[j]]
      BY <3>1
    <3>4. [j \in 1 .. Len(text) |-> c[j - 1]] = text
      BY <3>2, <3>3
    <3> QED BY <3>1, <3>4 DEF Holds
  <2>6. text = (IF n' < 0 THEN <<Minus>> ELSE << >>)
                 \o (IF Magnitude(n') % Unsigned = 0 /\ n' # 0 THEN << >>
                     ELSE Numeral[Magnitude(n') % Unsigned])
    BY <2>2 DEF Expected, Sign, Digits, Rest, Magnitude
  <2> HIDE DEF text, c
  <2>7. buffer' = c
    BY <2>3 DEF c
  <2> QED BY <2>5, <2>6, <2>7, Zenon
<1> QED
  <2> HIDE DEF Step
  <2>1. [][Step]_vars => HandsOutNumeral
    BY PTL DEF Step, HandsOutNumeral
  <2> QED BY <1>1, <2>1, Invariance, PTL DEF Spec
=============================================================================
