----------------------------- MODULE DataLemmas -----------------------------
(***************************************************************************)
(* Facts about numbers, sets of numbers and sums that the proofs about     *)
(* titles, frame sizes and encoded images rest on.  Induction is stated    *)
(* for sets rather than for predicates; it comes from the well-foundedness *)
(* of the finite subsets of Nat.                                           *)
(***************************************************************************)
EXTENDS Integers, FiniteSetTheorems, TLAPS

(* A set of natural numbers that is not empty has a least element. *)
LEMMA LeastElement ==
    ASSUME NEW S \in SUBSET Nat, S # {}
    PROVE  \E m \in S : \A k \in S : m <= k
<1> DEFINE Below == {0..k : k \in S}
<1>1. Below \subseteq FiniteSubsetsOf(Nat) /\ Below # {}
  <2>1. \A k \in S : k \in Nat /\ 0..k \subseteq Nat /\ IsFiniteSet(0..k)
    BY FS_Interval
  <2> QED
    BY <2>1 DEF FiniteSubsetsOf
<1>2. PICK B \in Below : \A C \in Below : ~(<<C, B>> \in StrictSubsetOrdering(Nat))
  BY <1>1, FS_StrictSubsetOrderingWellFounded, WFMin
<1>3. PICK m \in S : B = 0..m
  BY <1>2
<1>4. ASSUME NEW k \in S, k < m PROVE FALSE
  <2>1. k \in Nat /\ m \in Nat
    OBVIOUS
  <2>2. /\ 0..k \in Below /\ 0..k \subseteq B /\ 0..k # B
        /\ 0..k \subseteq Nat /\ B \subseteq Nat
    BY <1>3, <1>4, <2>1
  <2>3. <<0..k, B>> \in StrictSubsetOrdering(Nat)
    BY <2>2 DEF StrictSubsetOrdering
  <2> QED
    BY <1>2, <2>2, <2>3
<1> QED
  BY <1>4

(* A set of numbers none of which exceeds n has a greatest element. *)
LEMMA GreatestElement ==
    ASSUME NEW n \in Nat, NEW S \in SUBSET (0..n), S # {}
    PROVE  \E m \in S : \A k \in S : k <= m
<1> DEFINE Above == {n - k : k \in S}
<1>1. \A k \in S : k \in Int /\ n - k \in Nat
  OBVIOUS
<1>2. PICK a \in Above : \A b \in Above : a <= b
  <2>1. Above \in SUBSET Nat /\ Above # {}
    BY <1>1
  <2> QED
    BY <2>1, LeastElement
<1>3. PICK m \in S : a = n - m
  BY <1>2
<1>4. ASSUME NEW k \in S PROVE k <= m
  <2>1. n - m <= n - k
    BY <1>2, <1>3
  <2> QED
    BY <1>1, <2>1
<1> QED
  BY <1>4

(* Induction: a set that has 0, and with each number the next, has all of them. *)
LEMMA SetInduction ==
    ASSUME NEW P, 0 \in P, \A n \in Nat : n \in P => n + 1 \in P
    PROVE  Nat \subseteq P
<1> SUFFICES ASSUME Nat \ P # {} PROVE FALSE
  OBVIOUS
<1>1. PICK m \in Nat \ P : \A k \in Nat \ P : m <= k
  BY LeastElement
<1>2. m - 1 \in Nat /\ m - 1 \in P
  BY <1>1
<1> QED
  BY <1>1, <1>2

(* Running totals exist: of any numbers there is the function of their sums. *)
LEMMA RunningTotals ==
    ASSUME NEW n \in Nat, NEW sizes \in [1..n -> Nat]
    PROVE  \E sum \in [0..n -> Nat] :
              sum = [k \in 0..n |-> IF k = 0 THEN 0 ELSE sum[k - 1] + sizes[k]]
<1> DEFINE Sums(sum, m) ==
             /\ sum \in [0..m -> Nat]
             /\ sum[0] = 0 /\ \A k \in 1..m : sum[k] = sum[k - 1] + sizes[k]
           Summed(m) == \E sum : Sums(sum, m)
           P == {i \in Nat : i <= n => Summed(i)}
<1>1. 0 \in P
  <2> DEFINE zero == [k \in 0..0 |-> 0]
  <2>1. zero \in [0..0 -> Nat] /\ zero[0] = 0 /\ \A k \in 1..0 : FALSE
    OBVIOUS
  <2>2. Sums(zero, 0)
    BY <2>1
  <2>3. Summed(0)
    BY <2>2
  <2> HIDE DEF Summed
  <2> QED
    BY <2>3
<1>2. ASSUME NEW m \in Nat, m \in P PROVE m + 1 \in P
  <2> SUFFICES ASSUME m + 1 <= n PROVE Summed(m + 1)
    <3> HIDE DEF Summed
    <3> QED
      OBVIOUS
  <2>0. Summed(m)
    <3> HIDE DEF Summed
    <3> QED
      BY <1>2
  <2>1. PICK sum : Sums(sum, m)
    BY <2>0
  <2> DEFINE more == [k \in 0..m + 1 |-> IF k = m + 1 THEN sum[m] + sizes[k] ELSE sum[k]]
  <2>2. sizes[m + 1] \in Nat /\ \A k \in 0..m : sum[k] \in Nat
    BY <2>1
  <2>3. more \in [0..m + 1 -> Nat]
    BY <2>1, <2>2
  <2>4. more[0] = 0 /\ more[m + 1] = sum[m] + sizes[m + 1]
    BY <2>1
  <2>5. \A k \in 0..m : more[k] = sum[k]
    OBVIOUS
  <2>6. ASSUME NEW k \in 1..m + 1 PROVE more[k] = more[k - 1] + sizes[k]
    <3>1. CASE k = m + 1
      <4>1. m \in 0..m /\ k - 1 = m
        BY <3>1
      <4> QED
        BY <2>4, <2>5, <3>1, <4>1
    <3>2. CASE k \in 1..m
      <4>1. k \in 0..m /\ k - 1 \in 0..m
        BY <3>2
      <4> QED
        BY <2>1, <2>5, <3>2, <4>1
    <3> QED
      BY <3>1, <3>2
  <2> QED
    BY <2>3, <2>4, <2>6
<1>3. n \in P
  <2> HIDE DEF P
  <2> QED
    BY <1>1, <1>2, SetInduction
<1>4. PICK sum : Sums(sum, n)
  <2>1. Summed(n)
    <3> HIDE DEF Summed
    <3> QED
      BY <1>3
  <2> QED
    BY <2>1
<1>5. sum = [k \in 0..n |-> IF k = 0 THEN 0 ELSE sum[k - 1] + sizes[k]]
  BY <1>4
<1> QED
  BY <1>4, <1>5

(* Division rounds down. *)
LEMMA Quotient ==
    ASSUME NEW a \in Nat, NEW b \in Nat \ {0}
    PROVE  a \div b \in Nat /\ (a \div b) * b <= a /\ a < (a \div b) * b + b
  OBVIOUS

(* A positive factor can be taken from both sides of an inequality. *)
LEMMA Cancel ==
    ASSUME NEW b \in Nat \ {0}, NEW x \in Int, NEW y \in Int
    PROVE  (b * x <= b * y => x <= y) /\ (b * x < b * y => x < y)
<1>1. x > y => b * x > b * y
  OBVIOUS
<1>2. x >= y => b * x >= b * y
  OBVIOUS
<1> QED
  BY <1>1, <1>2

(* A product grows with its factors. *)
LEMMA Monotone ==
    ASSUME NEW a \in Nat, NEW b \in Nat, a <= b, NEW x \in Nat
    PROVE  a * x <= b * x /\ x * a <= x * b
OBVIOUS

(* One side of a rectangle a by b is cut down from b to limit, the other in proportion,
   rounded down.  If the rectangle differed from the shape A by B by something
   between lo and hi, the new one differs by no more, but for the rounding. *)
LEMMA ScaledDown ==
    ASSUME NEW a \in Nat, NEW b \in Nat \ {0}, NEW limit \in Nat, limit < b,
           NEW A \in Nat, NEW B \in Nat \ {0},
           NEW lo \in Int, NEW hi \in Int, lo <= 0, 0 <= hi,
           lo <= a * B - b * A, a * B - b * A <= hi
    PROVE  LET q == (a * limit) \div b
           IN  lo - B < q * B - limit * A /\ q * B - limit * A <= hi
<1> DEFINE q == (a * limit) \div b
           r == a * limit - q * b
           skew == a * B - b * A
           new == q * B - limit * A
<1>1. q \in Nat /\ r \in Nat /\ r < b
  <2>1. a * limit \in Nat
    OBVIOUS
  <2> QED
    BY <2>1, Quotient
<1>2. b * new = limit * skew - B * r
  <2> HIDE DEF q
  <2> QED
    BY <1>1
<1>3. skew \in Int /\ new \in Int
  BY <1>1
<1>4. b * new <= b * hi
  <2>1. limit * skew <= limit * hi /\ limit * hi <= b * hi
    OBVIOUS
  <2>2. B * r >= 0
    BY <1>1
  <2> HIDE DEF q, r, skew, new
  <2> QED
    BY <1>1, <1>2, <1>3, <2>1, <2>2
<1>5. b * (lo - B) < b * new
  <2>1. limit * skew >= limit * lo /\ limit * lo >= b * lo
    <3> HIDE DEF q, r, new
    <3>1. -lo \in Nat /\ limit * (-lo) <= b * (-lo)
      BY Monotone
    <3> QED
      BY <3>1
  <2>2. B * r < B * b
    BY <1>1
  <2> HIDE DEF q, r, skew, new
  <2>3. b * (lo - B) = b * lo - B * b
    OBVIOUS
  <2> QED
    BY <1>1, <1>2, <1>3, <2>1, <2>2, <2>3
<1> HIDE DEF q, r, skew, new
<1>6. lo - B < new /\ new <= hi
  BY <1>3, <1>4, <1>5, Cancel
<1> QED
  BY <1>6 DEF q, new
=============================================================================
