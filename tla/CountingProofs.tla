---------------------------- MODULE CountingProofs ----------------------------
(***************************************************************************)
(* What the other proofs count with: induction over numbers by the least   *)
(* for which it would fail, recursive definitions, division.               *)
(***************************************************************************)
EXTENDS Integers, WellFoundedInduction, TLAPS

\* Every nonempty set of naturals has a least.
LEMMA LeastNumber ==
  ASSUME NEW S \in SUBSET Nat, S # {}
  PROVE  \E i \in S : \A j \in S : i <= j
<1> DEFINE R == OpToRel(<, Nat)
<1>1. \E x \in S : \A y \in S : ~(<<y, x>> \in R)
  <2>1. IsWellFoundedOn(R, Nat)
    BY NatLessThanWellFounded
  <2> HIDE DEF R
  <2> QED BY <2>1, WFMin
<1>2. \A x, y \in Nat : y < x => <<y, x>> \in R
  BY DEF OpToRel
<1>3. PICK x \in S : \A y \in S : ~(<<y, x>> \in R)
  BY <1>1
<1>4. ASSUME NEW y \in S PROVE x <= y
  <2>1. x \in Nat /\ y \in Nat
    OBVIOUS
  <2>2. ~(y < x)
    <3> HIDE DEF R
    <3> QED BY <1>2, <1>3, <2>1
  <2> QED BY <2>1, <2>2
<1> QED BY <1>4

\* A set of naturals with 0 and every successor up to a bound has them all.
LEMMA UpTo ==
  ASSUME NEW n \in Nat, NEW S, 0 \in S,
         \A i \in 1..n : i - 1 \in S => i \in S
  PROVE  0..n \subseteq S
<1> DEFINE failing == (0..n) \ S
<1>1. SUFFICES ASSUME failing # {} PROVE FALSE
  OBVIOUS
<1>2. PICK i \in failing : \A j \in failing : i <= j
  <2>1. failing \in SUBSET Nat
    OBVIOUS
  <2> HIDE DEF failing
  <2> QED BY <1>1, <2>1, LeastNumber
<1>3. i \in 1..n
  BY <1>2
<1>4. i - 1 \in S
  BY <1>2, <1>3
<1> QED BY <1>2, <1>3, <1>4

-----------------------------------------------------------------------------
(***************************************************************************)
(* A recursive definition, step i taking f[i - 1] to f[i], names the one   *)
(* function that does so - if there is one, which the definition alone     *)
(* does not say.                                                           *)
(***************************************************************************)
Steps(f, n, b, step) == f = [i \in 0..n |-> IF i = 0 THEN b ELSE step[i][f[i - 1]]]

Climbs(f, n, D, b, step) ==
  /\ f \in [0..n -> D]
  /\ f[0] = b
  /\ \A i \in 1..n : f[i] = step[i][f[i - 1]]

LEMMA StepsUnfold ==
  ASSUME NEW n \in Nat, NEW D, NEW b \in D, NEW step \in [1..n -> [D -> D]], NEW f,
         Steps(f, n, b, step)
  PROVE  Climbs(f, n, D, b, step)
<1>1. \A i \in 0..n : f[i] = IF i = 0 THEN b ELSE step[i][f[i - 1]]
  BY Zenon DEF Steps
<1>2. f[0] = b
  BY <1>1
<1>3. \A i \in 1..n : f[i] = step[i][f[i - 1]]
  <2>1. \A i \in 1..n : i \in 0..n /\ i # 0
    OBVIOUS
  <2> QED BY <1>1, <2>1, Zenon
<1> DEFINE S == {i \in 0..n : f[i] \in D}
<1>4. 0 \in S
  BY <1>2
<1>5. ASSUME NEW i \in 1..n, i - 1 \in S PROVE i \in S
  <2>1. f[i - 1] \in D /\ i \in 0..n
    BY <1>5
  <2>2. f[i] \in D
    BY <1>3, <2>1
  <2> QED BY <2>1, <2>2
<1>6. 0..n \subseteq S
  <2> HIDE DEF S
  <2> QED BY <1>4, <1>5, UpTo
<1>7. \A i \in 0..n : f[i] \in D
  BY <1>6
<1>8. f = [i \in 0..n |-> f[i]]
  BY <1>1 DEF Steps
<1> QED BY <1>2, <1>3, <1>7, <1>8 DEF Climbs

LEMMA StepsExist ==
  ASSUME NEW n \in Nat, NEW D, NEW b \in D, NEW step \in [1..n -> [D -> D]]
  PROVE  \E f : Steps(f, n, b, step) /\ Climbs(f, n, D, b, step)
<1> DEFINE Works(m) == \E f \in [0..m -> D] :
                         f[0] = b /\ \A i \in 1..m : f[i] = step[i][f[i - 1]]
           S == {m \in 0..n : Works(m)}
<1>1. 0 \in S
  <2> DEFINE f == [i \in 0..0 |-> b]
  <2>1. f \in [0..0 -> D] /\ f[0] = b /\ \A i \in 1..0 : f[i] = step[i][f[i - 1]]
    OBVIOUS
  <2> HIDE DEF f
  <2>2. Works(0)
    BY <2>1
  <2> HIDE DEF Works
  <2> QED BY <2>2
<1>2. ASSUME NEW m \in 1..n, m - 1 \in S PROVE m \in S
  <2>1. PICK f \in [0..(m - 1) -> D] :
          f[0] = b /\ \A i \in 1..(m - 1) : f[i] = step[i][f[i - 1]]
    BY <1>2
  <2> DEFINE next == step[m][f[m - 1]]
             g == [i \in 0..m |-> IF i = m THEN next ELSE f[i]]
  <2>2. next \in D
    BY <2>1
  <2> HIDE DEF next
  <2>3. g \in [0..m -> D]
    <3>1. ASSUME NEW i \in 0..m PROVE (IF i = m THEN next ELSE f[i]) \in D
      BY <2>1, <2>2, <3>1
    <3> QED BY <3>1
  <2>4. g[0] = b
    BY <2>1
  <2>5. ASSUME NEW i \in 1..m PROVE g[i] = step[i][g[i - 1]]
    <3>1. i - 1 \in 0..m /\ i - 1 # m /\ g[i - 1] = f[i - 1] /\ i \in 0..m
      OBVIOUS
    <3>2. CASE i = m
      <4>1. g[i] = next
        BY <3>1, <3>2
      <4> QED BY <3>1, <3>2, <4>1, Zenon DEF next
    <3>3. CASE i # m
      <4>1. g[i] = f[i] /\ i \in 1..(m - 1)
        BY <3>1, <3>3
      <4>2. f[i] = step[i][f[i - 1]]
        BY <2>1, <4>1
      <4> QED BY <3>1, <4>1, <4>2, Zenon
    <3> QED BY <3>2, <3>3
  <2> HIDE DEF g
  <2>6. Works(m)
    BY <2>3, <2>4, <2>5
  <2> HIDE DEF Works
  <2> QED BY <2>6
<1>3. 0..n \subseteq S
  <2> HIDE DEF S
  <2> QED BY <1>1, <1>2, UpTo
<1>4. Works(n)
  <2> HIDE DEF Works
  <2> QED BY <1>3
<1>5. PICK f \in [0..n -> D] : f[0] = b /\ \A i \in 1..n : f[i] = step[i][f[i - 1]]
  BY <1>4
<1>6. f = [i \in 0..n |-> IF i = 0 THEN b ELSE step[i][f[i - 1]]]
  <2>1. \A i \in 0..n : f[i] = IF i = 0 THEN b ELSE step[i][f[i - 1]]
    BY <1>5
  <2> QED BY <1>5, <2>1
<1> QED BY <1>5, <1>6 DEF Steps, Climbs

-----------------------------------------------------------------------------
\* Division, whole and rest.
LEMMA WholeAndRest ==
  ASSUME NEW a \in Nat, NEW n \in Nat \ {0}
  PROVE  /\ a \div n \in Nat
         /\ (a \div n) * n \in Nat
         /\ (a \div n) * n <= a
         /\ a < (a \div n) * n + n
  OBVIOUS

LEMMA WholeIsUnique ==
  ASSUME NEW n \in Nat \ {0}, NEW q \in Int, NEW r \in 0 .. n - 1
  PROVE  (q * n + r) \div n = q /\ (q * n + r) % n = r
  OBVIOUS

LEMMA RestOfDivision ==
  ASSUME NEW a \in Nat, NEW n \in Nat \ {0}
  PROVE  /\ a \div n \in Nat
         /\ \E r \in 0 .. n - 1 : a % n = r /\ a = (a \div n) * n + r
<1> DEFINE q == a \div n
           r == a - q * n
<1>1. q \in Nat /\ r \in 0 .. n - 1 /\ a = q * n + r
  <2>1. /\ a \div n \in Nat /\ (a \div n) * n \in Nat
        /\ (a \div n) * n <= a /\ a < (a \div n) * n + n
    BY WholeAndRest
  <2> HIDE DEF q
  <2>2. q \in Nat /\ q * n \in Nat /\ q * n <= a /\ a < q * n + n
    BY <2>1 DEF q
  <2> QED BY <2>2
<1> HIDE DEF q, r
<1>2. (q * n + r) % n = r
  <2>1. q \in Int
    BY <1>1
  <2> QED BY <1>1, <2>1, WholeIsUnique
<1>3. a % n = r
  BY <1>1, <1>2
<1> QED BY <1>1, <1>3, Zenon DEF q

LEMMA MultiplesHaveNoRest ==
  ASSUME NEW n \in Nat \ {0}, NEW q \in Int
  PROVE  (q * n) % n = 0 /\ (-(q * n)) % n = 0
<1>1. 0 \in 0 .. n - 1 /\ -q \in Int /\ q * n \in Int
  OBVIOUS
<1>2. (q * n + 0) % n = 0 /\ ((-q) * n + 0) % n = 0
  BY <1>1, WholeIsUnique
<1>3. q * n + 0 = q * n /\ (-q) * n + 0 = -(q * n)
  OBVIOUS
<1> QED BY <1>2, <1>3

\* A multiple above another is a whole step above it.
LEMMA MultiplesAreApart ==
  ASSUME NEW n \in Nat \ {0}, NEW p \in Int, NEW q \in Int, p * n < q * n
  PROVE  p * n + n <= q * n
<1>1. p < q
  <2> SUFFICES ASSUME q <= p PROVE FALSE
    OBVIOUS
  <2>1. PICK e \in Nat : p = q + e
    <3>1. p - q \in Nat /\ p = q + (p - q)
      OBVIOUS
    <3> QED BY <3>1
  <2>2. p * n = q * n + e * n /\ e * n \in Nat /\ q * n \in Int
    BY <2>1
  <2> QED BY <2>2
<1>2. PICK e \in Nat : q = p + 1 + e
  <2>1. q - (p + 1) \in Nat /\ q = p + 1 + (q - (p + 1))
    BY <1>1
  <2> QED BY <2>1
<1>3. q * n = p * n + n + e * n /\ e * n \in Nat /\ p * n \in Int
  BY <1>2
<1> QED BY <1>3

\* What is larger is so many times larger.
LEMMA ProductsGrow ==
  ASSUME NEW x \in Int, NEW y \in Int, NEW z \in Nat, x <= y
  PROVE  x * z <= y * z
<1>1. PICK e \in Nat : y = x + e
  <2>1. y - x \in Nat /\ y = x + (y - x)
    OBVIOUS
  <2> QED BY <2>1
<1>2. y * z = x * z + e * z /\ e * z \in Nat /\ x * z \in Int
  BY <1>1
<1> QED BY <1>2

=============================================================================
