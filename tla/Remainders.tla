------------------------------ MODULE Remainders ------------------------------
(***************************************************************************)
(* Division and remainders, as the proofs about the kernels need them:      *)
(* threads, lanes, tiles and strides are all counted with \div and %.       *)
(***************************************************************************)
EXTENDS Integers, TLAPS

(* What \div and % are.                                                    *)
LEMMA Division ==
  ASSUME NEW n \in Nat, NEW d \in Nat \ {0}
  PROVE  /\ n \div d \in Nat
         /\ n % d \in 0 .. d - 1
         /\ n = (n \div d) * d + (n % d)
BY SMT

(* A remainder of zero is a multiple ...                                   *)
LEMMA Quotient ==
  ASSUME NEW n \in Nat, NEW d \in Nat \ {0}, n % d = 0
  PROVE  \E q \in Nat : n = q * d
<1>1. n = (n \div d) * d + (n % d)
  BY SMT
<1>2. n \div d \in Nat
  BY SMT
<1>3. QED
  BY <1>1, <1>2

(* ... and a multiple leaves none.                                         *)
LEMMA Multiple ==
  ASSUME NEW q \in Nat, NEW d \in Nat \ {0}
  PROVE  (q * d) % d = 0
BY SMT

(* The remainder is unique, and so is the quotient.                        *)
LEMMA Remainder ==
  ASSUME NEW q \in Nat, NEW d \in Nat \ {0}, NEW r \in 0 .. d - 1
  PROVE  (q * d + r) % d = r
BY SMT

LEMMA WholePart ==
  ASSUME NEW q \in Nat, NEW d \in Nat \ {0}, NEW r \in 0 .. d - 1
  PROVE  (q * d + r) \div d = q
BY SMT

(* A step by d keeps the remainder.                                        *)
LEMMA StepKeepsRemainder ==
  ASSUME NEW n \in Nat, NEW d \in Nat \ {0}
  PROVE  (n + d) % d = n % d
<1> DEFINE q == n \div d
           r == n % d
<1>1. q \in Nat /\ r \in 0 .. d - 1 /\ n = q * d + r
  BY Division
<1>2. n + d = (q + 1) * d + r /\ q + 1 \in Nat
  BY <1>1
<1>3. ((q + 1) * d + r) % d = r
  BY <1>1, <1>2, Remainder
<1>4. QED
  BY <1>2, <1>3

(* Numbers of one remainder are d apart: below b + d comes b, or less.     *)
LEMMA ResidueGap ==
  ASSUME NEW a \in Nat, NEW b \in Nat, NEW d \in Nat \ {0},
         a % d = b % d, a < b + d
  PROVE  a <= b
<1> DEFINE p == a \div d
           q == b \div d
           r == a % d
<1>1. /\ p \in Nat /\ q \in Nat /\ r \in 0 .. d - 1
      /\ a = p * d + r /\ b = q * d + r
  BY Division
<1> HIDE DEF p, q, r
<1>2. p * d < (q + 1) * d
  BY <1>1
<1>3. p < q + 1
  <2>1. ASSUME p >= q + 1 PROVE FALSE
    <3>1. p * d >= (q + 1) * d
      BY <1>1, <2>1
    <3>2. QED
      BY <1>1, <1>2, <3>1
  <2>2. QED
    BY <1>1, <2>1
<1>4. p <= q
  BY <1>1, <1>3
<1>5. p * d <= q * d
  BY <1>1, <1>4
<1>6. QED
  BY <1>1, <1>5

(* Multiples of d are d apart.                                             *)
LEMMA MultipleGap ==
  ASSUME NEW d \in Nat \ {0}, NEW p \in Nat, NEW q \in Nat, p < q
  PROVE  p * d + d <= q * d
<1>1. p + 1 <= q
  OBVIOUS
<1>2. (p + 1) * d <= q * d
  BY <1>1
<1>3. QED
  BY <1>2

(* A remainder by 2 * d is the remainder by d, or d more.                  *)
LEMMA Halves ==
  ASSUME NEW n \in Nat, NEW d \in Nat \ {0}
  PROVE  n % (2 * d) = n % d \/ n % (2 * d) = (n % d) + d
<1> DEFINE e == 2 * d
           q == n \div e
           r == n % e
<1>1. e \in Nat \ {0}
  OBVIOUS
<1>2. q \in Nat /\ r \in 0 .. e - 1 /\ n = q * e + r
  BY <1>1, Division
<1>3. CASE r < d
  <2>0. q * e = (2 * q) * d
    BY <1>2
  <2>1. n = (2 * q) * d + r /\ 2 * q \in Nat /\ r \in 0 .. d - 1
    BY <1>2, <1>3, <2>0
  <2>2. n % d = r
    BY <2>1, Remainder
  <2>3. QED
    BY <1>2, <1>3, <2>2
<1>4. CASE r >= d
  <2>1. n = (2 * q + 1) * d + (r - d) /\ 2 * q + 1 \in Nat /\ r - d \in 0 .. d - 1
    BY <1>2, <1>4
  <2>2. ((2 * q + 1) * d + (r - d)) % d = r - d
    BY <2>1, Remainder
  <2>3. n % d = r - d
    BY <2>1, <2>2
  <2>4. QED
    BY <1>2, <1>4, <2>3
<1>5. QED
  BY <1>2, <1>3, <1>4
=============================================================================
