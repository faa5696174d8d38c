----------------------------- MODULE AnswerProofs -----------------------------
(***************************************************************************)
(* What a chain answers is what its ledger says: the proofs about          *)
(* ChainAnswers.  The segments' day tables, their spans of numbers and the *)
(* register's records are tied to the transactions whose adds succeeded,   *)
(* and to the one whose add is to be made again.                           *)
(***************************************************************************)
EXTENDS ChainProofs

-----------------------------------------------------------------------------
(***************************************************************************)
(* Numbers.                                                                *)
(***************************************************************************)

\* A set of numbers that something bounds from above has a largest.
LEMMA GreatestNumber ==
  ASSUME NEW top \in Int, NEW S \in SUBSET Int, S # {}, \A n \in S : n <= top
  PROVE  /\ Max(S) \in S
         /\ \A n \in S : n <= Max(S)
<1> DEFINE Below == {top - n : n \in S}
<1>1. Below \in SUBSET Nat /\ Below # {}
  <2>1. \A n \in S : top - n \in Nat
    OBVIOUS
  <2>2. PICK n \in S : TRUE
    OBVIOUS
  <2>3. top - n \in Below
    BY <2>2
  <2> QED BY <2>1, <2>3
<1>2. PICK i \in Below : \A j \in Below : i <= j
  BY <1>1, LeastNumber
<1>3. PICK m \in S : i = top - m
  OBVIOUS
<1>4. ASSUME NEW n \in S
      PROVE  n <= m
  <2>1. top - n \in Below
    OBVIOUS
  <2>2. top - m <= top - n
    BY <1>2, <1>3, <2>1
  <2>3. m \in Int /\ n \in Int
    BY <1>3
  <2> QED BY <2>2, <2>3
<1>5. \A n \in S : m >= n
  BY <1>3, <1>4
<1>6. \E x \in S : \A y \in S : x >= y
  BY <1>3, <1>5
<1> DEFINE M == CHOOSE x \in S : \A y \in S : x >= y
<1>7. M \in S /\ \A y \in S : M >= y
  BY <1>6
<1>8. Max(S) = M
  BY DEF Max
<1> QED BY <1>7, <1>8

\* And one bounded from below a smallest.
LEMMA SmallestNumber ==
  ASSUME NEW S \in SUBSET Nat, S # {}
  PROVE  /\ Min(S) \in S
         /\ \A n \in S : Min(S) <= n
<1>1. \E x \in S : \A y \in S : x <= y
  BY LeastNumber
<1> DEFINE M == CHOOSE x \in S : \A y \in S : x <= y
<1>2. M \in S /\ \A y \in S : M <= y
  BY <1>1
<1>3. Min(S) = M
  BY DEF Min
<1> QED BY <1>2, <1>3

LEMMA LargerOfTwo ==
  ASSUME NEW a \in Int, NEW b \in Int
  PROVE  Max({a, b}) = IF a >= b THEN a ELSE b
<1> DEFINE M == CHOOSE x \in {a, b} : \A y \in {a, b} : x >= y
<1>1. \E x \in {a, b} : \A y \in {a, b} : x >= y
  OBVIOUS
<1>2. M \in {a, b} /\ \A y \in {a, b} : M >= y
  BY <1>1
<1>3. Max({a, b}) = M
  BY DEF Max
<1> QED BY <1>2, <1>3

LEMMA SmallerOfTwo ==
  ASSUME NEW a \in Int, NEW b \in Int
  PROVE  Min({a, b}) = IF a <= b THEN a ELSE b
<1> DEFINE M == CHOOSE x \in {a, b} : \A y \in {a, b} : x <= y
<1>1. \E x \in {a, b} : \A y \in {a, b} : x <= y
  OBVIOUS
<1>2. M \in {a, b} /\ \A y \in {a, b} : M <= y
  BY <1>1
<1>3. Min({a, b}) = M
  BY DEF Min
<1> QED BY <1>2, <1>3

\* day_of_second is the division that rounds down, before the epoch too.
LEMMA DayIsFloor ==
  ASSUME NEW second \in Int
  PROVE  DayOfSecond(second) = Day(second)
<1> DEFINE S == SecondsPerDay
<1>1. S \in Nat \ {0}
  BY WidthAssumption
<1>2. CASE second >= 0
  BY <1>2 DEF DayOfSecond, Day
<1>3. CASE second < 0
  <2> DEFINE a == -second + S - 1
             q == a \div S
             r == q * S + second
  <2>1. a \in Nat /\ second = S - 1 - a
    BY <1>1, <1>3
  <2>2. /\ q \in Nat /\ q * S \in Nat
        /\ q * S <= a /\ a < q * S + S
    BY <1>1, <2>1, WholeAndRest
  <2>3. r \in 0 .. S - 1
    <3> HIDE DEF q, a
    <3>1. q * S + second \in Int
      BY <2>2
    <3>2. q * S + second <= S - 1 /\ q * S + second > -1
      BY <1>1, <2>1, <2>2
    <3> QED BY <1>1, <3>1, <3>2
  <2>4. (-q) * S = -(q * S)
    BY <1>1, <2>2
  <2>5. second = (-q) * S + r
    BY <2>2, <2>4
  <2>6. ((-q) * S + r) \div S = -q
    <3>1. -q \in Int
      BY <2>2
    <3> HIDE DEF q, r
    <3> QED BY <1>1, <2>3, <3>1, WholeIsUnique
  <2>7. second \div S = -q
    BY <2>5, <2>6
  <2>8. DayOfSecond(second) = -q
    BY <1>3 DEF DayOfSecond
  <2> QED BY <2>7, <2>8 DEF Day
<1> QED BY <1>2, <1>3

-----------------------------------------------------------------------------
(***************************************************************************)
(* The day table of one segment.  A position p of it stands for the day    *)
(* DayAt(s, p) and, when it is not zero, for the last number of that day.  *)
(***************************************************************************)
DayAt(s, p) == s.first_day + p - 1

DaysNoted(s) == {p \in DOMAIN s.day_max_tx : s.day_max_tx[p] # 0}

Since(s, from) == {p \in DaysNoted(s) : from # 0 => DayAt(s, p) >= Day(from)}
Until(s, to)   == {p \in DaysNoted(s) : to # 0 => DayAt(s, p) <= Day(to)}

Within(s, from, to) == Since(s, from) \cap Until(s, to)
Earlier(s, from)    == DaysNoted(s) \ Since(s, from)

Newest(S, m) == m \in S /\ \A p \in S : p <= m

LEMMA TableIsNumbers ==
  ASSUME NEW s \in Index
  PROVE  /\ s.first_day \in Int /\ s.base_tx_nr \in Nat /\ s.min_tx_nr \in Nat
         /\ s.max_tx_nr \in Nat /\ s.transaction_count \in Nat
         /\ Len(s.day_max_tx) \in Nat
         /\ DOMAIN s.day_max_tx = 1..Len(s.day_max_tx)
         /\ \A p \in DOMAIN s.day_max_tx : p \in Nat /\ s.day_max_tx[p] \in Nat
<1>1. s.day_max_tx \in Seq(U32) /\ U32 \subseteq Nat
  BY WidthAssumption DEF Index, U32
<1>2. /\ Len(s.day_max_tx) \in Nat
      /\ DOMAIN s.day_max_tx = 1..Len(s.day_max_tx)
      /\ \A p \in DOMAIN s.day_max_tx : s.day_max_tx[p] \in U32
  BY <1>1
<1>3. /\ s.first_day \in Int /\ s.base_tx_nr \in Nat /\ s.min_tx_nr \in Nat
      /\ s.max_tx_nr \in Nat /\ s.transaction_count \in U32
  BY DEF Index
<1>4. s.transaction_count \in Nat
  BY <1>1, <1>3
<1>5. ASSUME NEW p \in DOMAIN s.day_max_tx
      PROVE  p \in Nat /\ s.day_max_tx[p] \in Nat
  <2>1. p \in 1..Len(s.day_max_tx) /\ s.day_max_tx[p] \in U32
    BY <1>2
  <2>2. p \in Nat
    BY <1>2, <2>1
  <2> QED BY <1>1, <2>1, <2>2
<1> QED BY <1>2, <1>3, <1>4, <1>5

LEMMA DayIsInt ==
  ASSUME NEW second \in Int
  PROVE  Day(second) \in Int
  BY DayIsFloor, DayType

\* The walk of grdb_transactions_range_of_days: from the last day before the
\* span that holds anything to the last day of the span that does.
RangeWalk(s, from, to, n) ==
  \E m : /\ Newest(Within(s, from, to), m)
         /\ n <= s.base_tx_nr + s.day_max_tx[m] - 1
         /\ IF Earlier(s, from) = {} THEN s.min_tx_nr <= n
            ELSE \E b : Newest(Earlier(s, from), b) /\ s.base_tx_nr + s.day_max_tx[b] <= n

FirstAsked(s, from) == IF from # 0 THEN Max({DayOfSecond(from) - s.first_day, 0}) ELSE 0
LastAsked(s, to) ==
  IF to # 0 THEN Min({DayOfSecond(to) - s.first_day, Len(s.day_max_tx) - 1})
  ELSE Len(s.day_max_tx) - 1

LEMMA AskedDays ==
  ASSUME NEW s \in Index, NEW from \in Int, NEW to \in Int
  PROVE  /\ FirstAsked(s, from) \in Nat
         /\ LastAsked(s, to) \in Int
         /\ LastAsked(s, to) <= Len(s.day_max_tx) - 1
         /\ \A d \in Nat : FirstAsked(s, from) <= d
              <=> (from # 0 => DayAt(s, d + 1) >= Day(from))
         /\ \A d \in 0..(Len(s.day_max_tx) - 1) : d <= LastAsked(s, to)
              <=> (to # 0 => DayAt(s, d + 1) <= Day(to))
<1>1. s.first_day \in Int /\ Len(s.day_max_tx) \in Nat
  BY TableIsNumbers
<1>2. Day(from) \in Int /\ Day(to) \in Int
  BY DayIsInt
<1>3. FirstAsked(s, from) =
        IF from # 0 THEN IF Day(from) - s.first_day >= 0 THEN Day(from) - s.first_day ELSE 0
        ELSE 0
  <2>1. Max({Day(from) - s.first_day, 0})
          = IF Day(from) - s.first_day >= 0 THEN Day(from) - s.first_day ELSE 0
    BY <1>1, <1>2, LargerOfTwo
  <2> QED BY <2>1, DayIsFloor DEF FirstAsked
<1>4. LastAsked(s, to) =
        IF to # 0 THEN IF Day(to) - s.first_day <= Len(s.day_max_tx) - 1
                       THEN Day(to) - s.first_day ELSE Len(s.day_max_tx) - 1
        ELSE Len(s.day_max_tx) - 1
  <2>1. Min({Day(to) - s.first_day, Len(s.day_max_tx) - 1})
          = IF Day(to) - s.first_day <= Len(s.day_max_tx) - 1
            THEN Day(to) - s.first_day ELSE Len(s.day_max_tx) - 1
    BY <1>1, <1>2, SmallerOfTwo
  <2> QED BY <2>1, DayIsFloor DEF LastAsked
<1>5. \A d \in Nat : DayAt(s, d + 1) = s.first_day + d
  BY <1>1 DEF DayAt
<1>6. FirstAsked(s, from) \in Nat /\ LastAsked(s, to) \in Int
      /\ LastAsked(s, to) <= Len(s.day_max_tx) - 1
  BY <1>1, <1>2, <1>3, <1>4
<1>7. ASSUME NEW d \in Nat
      PROVE  FirstAsked(s, from) <= d <=> (from # 0 => DayAt(s, d + 1) >= Day(from))
  <2>1. CASE from = 0
    BY <1>3, <2>1
  <2>2. CASE from # 0
    <3>1. /\ FirstAsked(s, from) = IF Day(from) - s.first_day >= 0
                                   THEN Day(from) - s.first_day ELSE 0
          /\ DayAt(s, d + 1) = s.first_day + d
      BY <1>3, <1>5, <2>2
    <3>2. FirstAsked(s, from) <= d <=> s.first_day + d >= Day(from)
      BY <1>1, <1>2, <3>1
    <3> QED BY <2>2, <3>1, <3>2
  <2> QED BY <2>1, <2>2
<1>8. ASSUME NEW d \in 0..(Len(s.day_max_tx) - 1)
      PROVE  d <= LastAsked(s, to) <=> (to # 0 => DayAt(s, d + 1) <= Day(to))
  <2>1. CASE to = 0
    BY <1>1, <1>4, <2>1
  <2>2. CASE to # 0
    <3>1. /\ LastAsked(s, to) = IF Day(to) - s.first_day <= Len(s.day_max_tx) - 1
                                THEN Day(to) - s.first_day ELSE Len(s.day_max_tx) - 1
          /\ DayAt(s, d + 1) = s.first_day + d
      BY <1>1, <1>4, <1>5, <2>2
    <3>2. d <= LastAsked(s, to) <=> s.first_day + d <= Day(to)
      <4> DEFINE f    == s.first_day
                 n    == Len(s.day_max_tx) - 1
                 t    == Day(to)
                 last == LastAsked(s, to)
      <4>1. /\ f \in Int /\ n \in Int /\ t \in Int /\ d \in Int /\ d <= n
            /\ last = IF t - f <= n THEN t - f ELSE n
        BY <1>1, <1>2, <3>1
      <4> HIDE DEF f, n, t, last
      <4>2. d <= last <=> f + d <= t
        BY <4>1
      <4> QED BY <4>2 DEF f, n, t, last
    <3> QED BY <2>2, <3>1, <3>2
  <2> QED BY <2>1, <2>2
<1> QED BY <1>6, <1>7, <1>8

\* Days counted from zero, and the positions they are kept at.
InsideDays(s, from, to) ==
  {day \in FirstAsked(s, from)..LastAsked(s, to) : s.day_max_tx[day + 1] # 0}
BeforeDays(s, from) ==
  {day \in 0..(FirstAsked(s, from) - 1) : s.day_max_tx[day + 1] # 0}

LEMMA DaysAreKept ==
  ASSUME NEW s \in Index, NEW from \in Int, NEW to \in Int
  PROVE  /\ \A d \in InsideDays(s, from, to) : d \in Nat /\ d + 1 \in Within(s, from, to)
         /\ \A p \in Within(s, from, to) : p \in Nat /\ p - 1 \in InsideDays(s, from, to)
         /\ InsideDays(s, from, to) # {} =>
              /\ \A d \in BeforeDays(s, from) : d \in Nat /\ d + 1 \in Earlier(s, from)
              /\ \A p \in Earlier(s, from) : p \in Nat /\ p - 1 \in BeforeDays(s, from)
<1> DEFINE first == FirstAsked(s, from)
           last  == LastAsked(s, to)
           T     == s.day_max_tx
<1>1. Len(T) \in Nat /\ DOMAIN T = 1..Len(T)
  BY TableIsNumbers
<1>2. /\ first \in Nat /\ last \in Int /\ last <= Len(T) - 1
      /\ \A d \in Nat : first <= d <=> (from # 0 => DayAt(s, d + 1) >= Day(from))
      /\ \A d \in 0..(Len(T) - 1) : d <= last <=> (to # 0 => DayAt(s, d + 1) <= Day(to))
  BY AskedDays
<1> HIDE DEF first, last
<1>3. ASSUME NEW d \in InsideDays(s, from, to)
      PROVE  d \in Nat /\ d + 1 \in Within(s, from, to) /\ first <= d /\ d <= Len(T) - 1
  <2>1. d \in first..last /\ T[d + 1] # 0
    BY <1>3 DEF InsideDays, first, last
  <2>2. d \in Nat /\ first <= d /\ d <= last /\ d \in 0..(Len(T) - 1) /\ d + 1 \in DOMAIN T
    BY <1>1, <1>2, <2>1
  <2>3. d + 1 \in DaysNoted(s)
    BY <2>1, <2>2 DEF DaysNoted
  <2> QED BY <1>2, <2>2, <2>3 DEF Within, Since, Until
<1>4. ASSUME NEW p \in Within(s, from, to)
      PROVE  p \in Nat /\ p - 1 \in InsideDays(s, from, to)
  <2>1. p \in DOMAIN T /\ T[p] # 0
    BY DEF Within, Since, DaysNoted
  <2>2. p \in Nat /\ p - 1 \in Nat /\ p - 1 \in 0..(Len(T) - 1) /\ (p - 1) + 1 = p
    BY <1>1, <2>1
  <2>3. (from # 0 => DayAt(s, p) >= Day(from)) /\ (to # 0 => DayAt(s, p) <= Day(to))
    BY DEF Within, Since, Until
  <2>4. first <= p - 1 /\ p - 1 <= last
    BY <1>2, <2>2, <2>3
  <2>5. p - 1 \in first..last
    BY <1>2, <2>2, <2>4
  <2> QED BY <2>1, <2>2, <2>5 DEF InsideDays, first, last
<1>5. ASSUME NEW i \in InsideDays(s, from, to), NEW d \in BeforeDays(s, from)
      PROVE  d \in Nat /\ d + 1 \in Earlier(s, from)
  <2>1. d \in 0..(first - 1) /\ T[d + 1] # 0
    BY DEF BeforeDays, first
  <2>2. i \in Nat /\ first <= i /\ i <= Len(T) - 1
    BY <1>3
  <2>3. d \in Nat /\ ~(first <= d) /\ d + 1 \in DOMAIN T
    BY <1>1, <1>2, <2>1, <2>2
  <2>4. d + 1 \in DaysNoted(s)
    BY <2>1, <2>3 DEF DaysNoted
  <2> QED BY <1>2, <2>3, <2>4 DEF Earlier, Since
<1>6. ASSUME NEW p \in Earlier(s, from)
      PROVE  p \in Nat /\ p - 1 \in BeforeDays(s, from)
  <2>1. p \in DOMAIN T /\ T[p] # 0 /\ ~(from # 0 => DayAt(s, p) >= Day(from))
    BY DEF Earlier, Since, DaysNoted
  <2>2. p \in Nat /\ p - 1 \in Nat /\ (p - 1) + 1 = p
    BY <1>1, <2>1
  <2>3. ~(first <= p - 1)
    BY <1>2, <2>1, <2>2
  <2>4. p - 1 \in 0..(first - 1)
    BY <1>2, <2>2, <2>3
  <2> QED BY <2>1, <2>2, <2>4 DEF BeforeDays, first
<1> QED BY <1>3, <1>4, <1>5, <1>6

LEMMA RangeReads ==
  ASSUME NEW s \in Index, s.transaction_count # 0, NEW from \in Int, NEW to \in Int, NEW n
  PROVE  n \in RangeOfDays(s, from, to) <=> n \in Int /\ RangeWalk(s, from, to, n)
<1> DEFINE T      == s.day_max_tx
           inside == InsideDays(s, from, to)
           before == BeforeDays(s, from)
           start  == IF before = {} THEN s.min_tx_nr - s.base_tx_nr ELSE T[Max(before) + 1]
<1>1. RangeOfDays(s, from, to) =
        IF inside = {} THEN {}
        ELSE (s.base_tx_nr + start)..(s.base_tx_nr + T[Max(inside) + 1] - 1)
  BY DEF RangeOfDays, InsideDays, BeforeDays, FirstAsked, LastAsked
<1>2. /\ \A d \in inside : d \in Nat /\ d + 1 \in Within(s, from, to)
      /\ \A p \in Within(s, from, to) : p \in Nat /\ p - 1 \in inside
      /\ inside # {} =>
           /\ \A d \in before : d \in Nat /\ d + 1 \in Earlier(s, from)
           /\ \A p \in Earlier(s, from) : p \in Nat /\ p - 1 \in before
  BY DaysAreKept
<1>3. /\ s.base_tx_nr \in Nat /\ s.min_tx_nr \in Nat /\ Len(T) \in Nat /\ DOMAIN T = 1..Len(T)
      /\ \A p \in DOMAIN T : T[p] \in Nat
  BY TableIsNumbers
<1>4. \A p \in Within(s, from, to) \cup Earlier(s, from) : p \in DOMAIN T
  BY DEF Within, Since, Earlier, DaysNoted
<1> HIDE DEF T, inside, before
<1>5. CASE inside = {}
  <2>1. \A m : ~Newest(Within(s, from, to), m)
    BY <1>2, <1>5 DEF Newest
  <2> QED BY <1>1, <1>5, <2>1 DEF RangeWalk
<1>6. CASE inside # {}
  <2> DEFINE m == Max(inside) + 1
             b == Max(before) + 1
  <2>1. m \in DOMAIN T /\ Newest(Within(s, from, to), m)
    <3>1. inside \in SUBSET Int /\ \A d \in inside : d <= Len(T)
      <4>1. \A d \in inside : d \in Int /\ d + 1 \in 1..Len(T)
        BY <1>2, <1>3, <1>4
      <4>2. \A d \in inside : d <= Len(T)
        BY <1>3, <4>1
      <4> QED BY <4>1, <4>2
    <3>2. Max(inside) \in inside /\ \A d \in inside : d <= Max(inside)
      <4>1. Len(T) \in Int
        BY <1>3
      <4> HIDE DEF start, m, b
      <4> QED BY <1>6, <3>1, <4>1, GreatestNumber
    <3>3. m \in Within(s, from, to) /\ Max(inside) \in Nat
      BY <1>2, <3>2
    <3>4. ASSUME NEW p \in Within(s, from, to)
          PROVE  p <= m
      <4>1. p \in Nat /\ p - 1 <= Max(inside)
        BY <1>2, <3>2
      <4> QED BY <3>3, <4>1
    <3> QED BY <1>4, <3>3, <3>4 DEF Newest
  <2>2. before # {} => b \in DOMAIN T /\ Newest(Earlier(s, from), b)
    <3> HAVE before # {}
    <3>1. before \in SUBSET Int /\ \A d \in before : d <= Len(T)
      <4>1. \A d \in before : d \in Int /\ d + 1 \in 1..Len(T)
        BY <1>2, <1>3, <1>4, <1>6
      <4>2. \A d \in before : d <= Len(T)
        BY <1>3, <4>1
      <4> QED BY <4>1, <4>2
    <3>2. Max(before) \in before /\ \A d \in before : d <= Max(before)
      <4>1. Len(T) \in Int
        BY <1>3
      <4> HIDE DEF start, m, b
      <4> QED BY <3>1, <4>1, GreatestNumber
    <3>3. b \in Earlier(s, from) /\ Max(before) \in Nat
      BY <1>2, <1>6, <3>2
    <3>4. ASSUME NEW p \in Earlier(s, from)
          PROVE  p <= b
      <4>1. p \in Nat /\ p - 1 <= Max(before)
        BY <1>2, <1>6, <3>2
      <4> QED BY <3>3, <4>1
    <3> QED BY <1>4, <3>3, <3>4 DEF Newest
  <2>3. Earlier(s, from) = {} <=> before = {}
    BY <1>2, <1>6
  <2>4. \A p, q : /\ Newest(Within(s, from, to), p) /\ Newest(Within(s, from, to), q) => p = q
                  /\ Newest(Earlier(s, from), p) /\ Newest(Earlier(s, from), q) => p = q
    <3>1. \A S, p, q : S \subseteq DOMAIN T /\ Newest(S, p) /\ Newest(S, q) => p = q
      <4> TAKE S, p, q
      <4> HAVE S \subseteq DOMAIN T /\ Newest(S, p) /\ Newest(S, q)
      <4>1. p \in 1..Len(T) /\ q \in 1..Len(T) /\ p <= q /\ q <= p
        BY <1>3 DEF Newest
      <4> QED BY <1>3, <4>1
    <3> QED BY <1>4, <3>1
  <2>5. RangeWalk(s, from, to, n) <=>
          /\ n <= s.base_tx_nr + T[m] - 1
          /\ IF before = {} THEN s.min_tx_nr <= n ELSE s.base_tx_nr + T[b] <= n
    <3>1. T = s.day_max_tx
      BY DEF T
    <3> HIDE DEF m, b
    <3> QED BY <2>1, <2>2, <2>3, <2>4, <3>1 DEF RangeWalk
  <2>6. n \in RangeOfDays(s, from, to) <=>
          n \in (s.base_tx_nr + start)..(s.base_tx_nr + T[m] - 1)
    BY <1>1, <1>6
  <2>7. T[m] \in Nat /\ (before # {} => T[b] \in Nat)
    BY <1>3, <2>1, <2>2
  <2>8. start = IF before = {} THEN s.min_tx_nr - s.base_tx_nr ELSE T[b]
    OBVIOUS
  <2> HIDE DEF start, m, b
  <2>9. CASE before = {}
    <3>1. s.base_tx_nr + start = s.min_tx_nr
      BY <1>3, <2>8, <2>9
    <3>2. n \in RangeOfDays(s, from, to) <=> n \in s.min_tx_nr..(s.base_tx_nr + T[m] - 1)
      BY <2>6, <3>1
    <3> QED BY <1>3, <2>5, <2>7, <2>9, <3>2
  <2>10. CASE before # {}
    <3>1. n \in RangeOfDays(s, from, to) <=>
            n \in (s.base_tx_nr + T[b])..(s.base_tx_nr + T[m] - 1)
      BY <2>6, <2>8, <2>10
    <3> QED BY <1>3, <2>5, <2>7, <2>10, <3>1
  <2> QED BY <2>9, <2>10
<1> QED BY <1>5, <1>6

-----------------------------------------------------------------------------
(***************************************************************************)
(* A set K of transactions with a gapless run of numbers, confirmed in the *)
(* order of their numbers, and one segment whose span is dated by them.    *)
(***************************************************************************)
InSpan(s, n) == s.transaction_count # 0 /\ n \in s.min_tx_nr..s.max_tx_nr

Dated(K) == \A t \in K : t.tx_nr \in Nat /\ t.second \in Int

OfOneNumber(K) == \A t, u \in K : t.tx_nr = u.tx_nr => t = u

Gapless(K) == \A t, u \in K : \A n \in t.tx_nr..u.tx_nr : \E v \in K : v.tx_nr = n

DaysInOrder(K) == \A t, u \in K : t.tx_nr < u.tx_nr => Day(t.second) <= Day(u.second)

\* The slot of its day knows a transaction of the span, or a later one.
SpanIsDated(s, K) ==
  \A t \in K : InSpan(s, t.tx_nr) =>
    \E p \in DOMAIN s.day_max_tx :
      /\ DayAt(s, p) = Day(t.second)
      /\ s.day_max_tx[p] >= t.tx_nr - s.base_tx_nr + 1

\* What a slot knows is a transaction of that day.
DaysAreOf(s, K) ==
  \A p \in DaysNoted(s) : \E t \in K :
    /\ s.day_max_tx[p] = t.tx_nr - s.base_tx_nr + 1
    /\ DayAt(s, p) = Day(t.second)

\* The span begins with a transaction, and goes up to the one before the last.
SpanIsFilled(s, K) ==
  /\ \E w \in K : w.tx_nr = s.min_tx_nr
  /\ s.base_tx_nr <= s.min_tx_nr
  /\ \A p \in DaysNoted(s) : \A t \in K :
       /\ s.base_tx_nr <= t.tx_nr
       /\ t.tx_nr < s.base_tx_nr + s.day_max_tx[p] - 1
       => InSpan(s, t.tx_nr)

\* Of two transactions on different days the later has the larger number.
LEMMA LaterDayLaterNumber ==
  ASSUME NEW K, Dated(K), OfOneNumber(K), DaysInOrder(K), NEW t \in K, NEW u \in K,
         ~(Day(u.second) <= Day(t.second))
  PROVE  t.tx_nr < u.tx_nr
<1>1. t.tx_nr \in Nat /\ u.tx_nr \in Nat
  BY DEF Dated
<1>2. ~(u.tx_nr < t.tx_nr)
  BY DEF DaysInOrder
<1>3. t.tx_nr # u.tx_nr => t.tx_nr < u.tx_nr
  BY <1>1, <1>2
<1>4. t.tx_nr # u.tx_nr
  <2>1. Day(t.second) \in Int
    BY DayIsInt DEF Dated
  <2>2. t # u
    BY <2>1
  <2> QED BY <2>2 DEF OfOneNumber
<1> QED BY <1>3, <1>4

\* A later slot knows a later number.
LEMMA LaterSlotKnowsMore ==
  ASSUME NEW s \in Index, NEW K, Dated(K), OfOneNumber(K), DaysInOrder(K),
         DaysAreOf(s, K), NEW t \in K, NEW p \in DaysNoted(s),
         ~(DayAt(s, p) <= Day(t.second))
  PROVE  s.day_max_tx[p] >= t.tx_nr - s.base_tx_nr + 1
<1>1. PICK u \in K : /\ s.day_max_tx[p] = u.tx_nr - s.base_tx_nr + 1
                     /\ DayAt(s, p) = Day(u.second)
  BY DEF DaysAreOf
<1>2. t.tx_nr < u.tx_nr
  BY <1>1, LaterDayLaterNumber
<1>3. t.tx_nr \in Nat /\ u.tx_nr \in Nat /\ s.base_tx_nr \in Nat
  BY TableIsNumbers DEF Dated
<1> QED BY <1>1, <1>2, <1>3

\* And an earlier one an earlier number.
LEMMA EarlierSlotKnowsLess ==
  ASSUME NEW s \in Index, NEW K, Dated(K), OfOneNumber(K), DaysInOrder(K),
         DaysAreOf(s, K), NEW t \in K, NEW p \in DaysNoted(s),
         ~(Day(t.second) <= DayAt(s, p))
  PROVE  s.base_tx_nr + s.day_max_tx[p] <= t.tx_nr
<1>1. PICK u \in K : /\ s.day_max_tx[p] = u.tx_nr - s.base_tx_nr + 1
                     /\ DayAt(s, p) = Day(u.second)
  BY DEF DaysAreOf
<1>2. u.tx_nr < t.tx_nr
  BY <1>1, LaterDayLaterNumber
<1>3. t.tx_nr \in Nat /\ u.tx_nr \in Nat /\ s.base_tx_nr \in Nat
  BY TableIsNumbers DEF Dated
<1> QED BY <1>1, <1>2, <1>3

LEMMA DaysNotedAreNumbers ==
  ASSUME NEW s \in Index
  PROVE  /\ DaysNoted(s) \in SUBSET Int
         /\ Len(s.day_max_tx) \in Int
         /\ \A p \in DaysNoted(s) : /\ p \in Nat /\ p <= Len(s.day_max_tx)
                                    /\ s.day_max_tx[p] \in Nat
                                    /\ DayAt(s, p) \in Int
<1>1. /\ s.first_day \in Int /\ Len(s.day_max_tx) \in Nat
      /\ DOMAIN s.day_max_tx = 1..Len(s.day_max_tx)
      /\ \A p \in DOMAIN s.day_max_tx : p \in Nat /\ s.day_max_tx[p] \in Nat
  BY TableIsNumbers
<1>2. ASSUME NEW p \in DaysNoted(s)
      PROVE  /\ p \in Nat /\ p <= Len(s.day_max_tx)
             /\ s.day_max_tx[p] \in Nat /\ DayAt(s, p) \in Int
  <2>1. p \in DOMAIN s.day_max_tx
    BY DEF DaysNoted
  <2>2. p \in Nat /\ p <= Len(s.day_max_tx) /\ s.day_max_tx[p] \in Nat
    BY <1>1, <2>1
  <2> QED BY <1>1, <2>2 DEF DayAt
<1> QED BY <1>1, <1>2

\* Positions with something in them have a newest, when there are any.
LEMMA NewestPosition ==
  ASSUME NEW s \in Index, NEW S \in SUBSET DaysNoted(s), S # {}
  PROVE  \E m : Newest(S, m)
<1>1. /\ S \in SUBSET Int /\ Len(s.day_max_tx) \in Int
      /\ \A p \in S : p <= Len(s.day_max_tx)
  BY DaysNotedAreNumbers
<1>2. Max(S) \in S /\ \A p \in S : p <= Max(S)
  BY <1>1, GreatestNumber
<1> QED BY <1>2 DEF Newest

\* Every transaction of the segment confirmed in the span of days is answered.
LEMMA DaysAreAnswered ==
  ASSUME NEW s \in Index, s.transaction_count # 0, NEW K, Dated(K), OfOneNumber(K),
         DaysInOrder(K), SpanIsDated(s, K), DaysAreOf(s, K), SpanIsFilled(s, K),
         NEW from \in Int, NEW to \in Int,
         NEW t \in K, InSpan(s, t.tx_nr), Inside(t, from, to)
  PROVE  t.tx_nr \in RangeOfDays(s, from, to)
<1> DEFINE T == s.day_max_tx
<1>1. PICK p \in DOMAIN T : /\ DayAt(s, p) = Day(t.second)
                            /\ T[p] >= t.tx_nr - s.base_tx_nr + 1
  BY DEF SpanIsDated
<1>2. /\ s.base_tx_nr \in Nat /\ s.min_tx_nr \in Nat /\ s.max_tx_nr \in Nat
      /\ t.tx_nr \in Nat /\ s.min_tx_nr <= t.tx_nr /\ s.base_tx_nr <= s.min_tx_nr
      /\ T[p] \in Nat /\ p \in Nat
  <2>1. t.tx_nr \in s.min_tx_nr..s.max_tx_nr /\ s.base_tx_nr <= s.min_tx_nr
    BY DEF InSpan, SpanIsFilled
  <2>2. /\ s.base_tx_nr \in Nat /\ s.min_tx_nr \in Nat /\ s.max_tx_nr \in Nat
        /\ T[p] \in Nat /\ p \in Nat
    BY TableIsNumbers
  <2> QED BY <2>1, <2>2 DEF Dated
<1>3. p \in DaysNoted(s)
  BY <1>1, <1>2 DEF DaysNoted
<1>4. p \in Within(s, from, to)
  BY <1>1, <1>3 DEF Within, Since, Until, Inside
<1>5. PICK m : Newest(Within(s, from, to), m)
  <2>1. Within(s, from, to) \in SUBSET DaysNoted(s) /\ Within(s, from, to) # {}
    BY <1>4 DEF Within, Since
  <2> QED BY <2>1, NewestPosition
<1>6. m \in DaysNoted(s) /\ p <= m
  BY <1>4, <1>5 DEF Newest, Within, Since
<1>7. m \in Nat /\ T[m] \in Nat /\ DayAt(s, m) \in Int /\ DayAt(s, p) \in Int
  BY <1>3, <1>6, DaysNotedAreNumbers
<1>8. T[m] >= t.tx_nr - s.base_tx_nr + 1
  <2>1. CASE m = p
    BY <1>1, <2>1
  <2>2. CASE m # p
    <3>1. ~(DayAt(s, m) <= DayAt(s, p))
      <4>1. s.first_day \in Int
        BY TableIsNumbers
      <4> QED BY <1>2, <1>6, <1>7, <2>2, <4>1 DEF DayAt
    <3> QED BY <1>1, <1>6, <3>1, LaterSlotKnowsMore
  <2> QED BY <2>1, <2>2
<1>9. t.tx_nr <= s.base_tx_nr + T[m] - 1
  BY <1>2, <1>7, <1>8
<1>10. ASSUME Earlier(s, from) # {}
       PROVE  \E b : Newest(Earlier(s, from), b) /\ s.base_tx_nr + T[b] <= t.tx_nr
  <2>1. Earlier(s, from) \in SUBSET DaysNoted(s)
    BY DEF Earlier
  <2>2. PICK b : Newest(Earlier(s, from), b)
    BY <1>10, <2>1, NewestPosition
  <2>3. b \in DaysNoted(s) /\ from # 0 /\ ~(DayAt(s, b) >= Day(from))
    BY <2>2 DEF Newest, Earlier, Since
  <2>4. Day(t.second) >= Day(from)
    BY <2>3 DEF Inside
  <2>5. ~(Day(t.second) <= DayAt(s, b))
    <3>1. Day(t.second) \in Int /\ Day(from) \in Int /\ DayAt(s, b) \in Int
      BY <2>3, DayIsInt, DaysNotedAreNumbers DEF Dated
    <3> QED BY <2>3, <2>4, <3>1
  <2>6. s.base_tx_nr + T[b] <= t.tx_nr
    BY <2>3, <2>5, EarlierSlotKnowsLess
  <2> QED BY <2>2, <2>6
<1>11. RangeWalk(s, from, to, t.tx_nr)
  BY <1>2, <1>5, <1>9, <1>10 DEF RangeWalk
<1> QED BY <1>2, <1>11, RangeReads

\* And what is answered are transactions confirmed in the span of days.
LEMMA AnsweredAreTheDays ==
  ASSUME NEW s \in Index, s.transaction_count # 0, NEW K, Dated(K), OfOneNumber(K),
         Gapless(K), DaysInOrder(K), SpanIsDated(s, K), DaysAreOf(s, K), SpanIsFilled(s, K),
         NEW from \in Int, NEW to \in Int, NEW n \in RangeOfDays(s, from, to)
  PROVE  \E t \in K : t.tx_nr = n /\ Inside(t, from, to)
<1> DEFINE T == s.day_max_tx
<1>1. n \in Int /\ RangeWalk(s, from, to, n)
  BY RangeReads
<1>2. PICK m :
        /\ Newest(Within(s, from, to), m)
        /\ n <= s.base_tx_nr + T[m] - 1
        /\ IF Earlier(s, from) = {} THEN s.min_tx_nr <= n
           ELSE \E b : Newest(Earlier(s, from), b) /\ s.base_tx_nr + T[b] <= n
  BY <1>1 DEF RangeWalk
<1>3. /\ m \in DaysNoted(s)
      /\ from # 0 => DayAt(s, m) >= Day(from)
      /\ to # 0 => DayAt(s, m) <= Day(to)
  BY <1>2 DEF Newest, Within, Since, Until
<1>4. PICK u \in K : T[m] = u.tx_nr - s.base_tx_nr + 1 /\ DayAt(s, m) = Day(u.second)
  BY <1>3 DEF DaysAreOf
<1>5. /\ s.base_tx_nr \in Nat /\ s.min_tx_nr \in Nat /\ s.base_tx_nr <= s.min_tx_nr
      /\ u.tx_nr \in Nat /\ T[m] \in Nat
      /\ u.tx_nr = s.base_tx_nr + T[m] - 1 /\ n <= u.tx_nr
  <2>1. s.base_tx_nr \in Nat /\ s.min_tx_nr \in Nat /\ u.tx_nr \in Nat /\ T[m] \in Nat
    BY <1>3, TableIsNumbers, DaysNotedAreNumbers DEF Dated
  <2>2. s.base_tx_nr <= s.min_tx_nr
    BY DEF SpanIsFilled
  <2> QED BY <1>2, <1>4, <2>1, <2>2
<1>6. PICK w \in K : s.base_tx_nr <= w.tx_nr /\ w.tx_nr <= n
  <2>1. CASE Earlier(s, from) = {}
    BY <1>2, <1>5, <2>1 DEF SpanIsFilled
  <2>2. CASE Earlier(s, from) # {}
    <3>1. PICK b : Newest(Earlier(s, from), b) /\ s.base_tx_nr + T[b] <= n
      BY <1>2, <2>2
    <3>2. b \in DaysNoted(s)
      BY <3>1 DEF Newest, Earlier
    <3>3. PICK v \in K : T[b] = v.tx_nr - s.base_tx_nr + 1
      BY <3>2 DEF DaysAreOf
    <3>4. T[b] \in Nat /\ T[b] # 0 /\ v.tx_nr \in Nat
      BY <3>2, DaysNotedAreNumbers DEF DaysNoted, Dated
    <3>5. s.base_tx_nr <= v.tx_nr /\ v.tx_nr <= n
      BY <1>1, <1>5, <3>1, <3>3, <3>4
    <3> QED BY <3>5
  <2> QED BY <2>1, <2>2
<1>7. w.tx_nr \in Nat /\ n \in w.tx_nr..u.tx_nr
  <2>1. w.tx_nr \in Nat
    BY DEF Dated
  <2> QED BY <1>1, <1>5, <1>6, <2>1
<1>8. PICK t \in K : t.tx_nr = n
  BY <1>7 DEF Gapless
<1>9. /\ Day(t.second) \in Int /\ Day(u.second) \in Int /\ Day(from) \in Int /\ Day(to) \in Int
      /\ t.tx_nr \in Nat
  BY DayIsInt DEF Dated
<1>10. Day(t.second) <= Day(u.second)
  <2>1. CASE n = u.tx_nr
    <3>1. t = u
      BY <1>8, <2>1 DEF OfOneNumber
    <3> QED BY <1>9, <3>1
  <2>2. CASE n # u.tx_nr
    <3>1. t.tx_nr < u.tx_nr
      BY <1>5, <1>8, <1>9, <2>2
    <3> QED BY <3>1 DEF DaysInOrder
  <2> QED BY <2>1, <2>2
<1>11. to # 0 => Day(t.second) <= Day(to)
  BY <1>3, <1>4, <1>9, <1>10
<1>12. ASSUME from # 0
       PROVE  Day(t.second) >= Day(from)
  <2>1. CASE n = u.tx_nr
    <3>1. t = u
      BY <1>8, <2>1 DEF OfOneNumber
    <3> QED BY <1>3, <1>4, <1>12, <3>1
  <2>2. CASE n # u.tx_nr
    <3> SUFFICES ASSUME ~(Day(t.second) >= Day(from))
                 PROVE  FALSE
      OBVIOUS
    <3>1. s.base_tx_nr <= t.tx_nr /\ t.tx_nr < s.base_tx_nr + T[m] - 1
      BY <1>5, <1>6, <1>7, <1>8, <1>9, <2>2
    <3>2. InSpan(s, t.tx_nr)
      BY <1>3, <3>1 DEF SpanIsFilled
    <3>3. PICK p \in DOMAIN T : /\ DayAt(s, p) = Day(t.second)
                                /\ T[p] >= t.tx_nr - s.base_tx_nr + 1
      BY <3>2 DEF SpanIsDated
    <3>4. p \in Nat /\ T[p] \in Nat /\ T[p] # 0
      <4>1. p \in Nat /\ T[p] \in Nat
        BY TableIsNumbers
      <4> QED BY <1>5, <1>9, <3>1, <3>3, <4>1
    <3>5. p \in Earlier(s, from)
      BY <1>12, <3>3, <3>4 DEF Earlier, Since, DaysNoted
    <3>6. PICK b : Newest(Earlier(s, from), b) /\ s.base_tx_nr + T[b] <= n
      BY <1>2, <3>5
    <3>7. b \in DaysNoted(s) /\ p \in DaysNoted(s) /\ p <= b
      BY <3>5, <3>6 DEF Newest, Earlier
    <3>8. b \in Nat /\ T[b] \in Nat /\ DayAt(s, b) \in Int /\ DayAt(s, p) \in Int
      BY <3>7, DaysNotedAreNumbers
    <3>9. T[b] >= t.tx_nr - s.base_tx_nr + 1
      <4>1. CASE b = p
        BY <3>3, <4>1
      <4>2. CASE b # p
        <5>1. s.first_day \in Int
          BY TableIsNumbers
        <5>2. ~(DayAt(s, b) <= DayAt(s, p))
          BY <3>4, <3>7, <3>8, <4>2, <5>1 DEF DayAt
        <5> QED BY <3>3, <3>7, <5>2, LaterSlotKnowsMore
      <4> QED BY <4>1, <4>2
    <3> QED BY <1>5, <1>8, <1>9, <3>6, <3>8, <3>9
  <2> QED BY <2>1, <2>2
<1>13. Inside(t, from, to)
  BY <1>11, <1>12 DEF Inside
<1> QED BY <1>8, <1>13

-----------------------------------------------------------------------------
(***************************************************************************)
(* note_day: what an add does to the table of its segment.                 *)
(***************************************************************************)

\* The table the add leaves: no day known before is lost, and a slot that
\* changed is the day of tx, with its offset.
TableKnows(W, s, tx) ==
  /\ \A p \in DOMAIN s.day_max_tx : p \in DOMAIN W /\ W[p] >= s.day_max_tx[p]
  /\ \A p \in DOMAIN W : W[p] # 0 =>
       \/ p \in DOMAIN s.day_max_tx /\ W[p] = s.day_max_tx[p]
       \/ p = DayIndex(s, tx) + 1 /\ W[p] = Offset(s, tx) + 1

LEMMA TableGrows ==
  ASSUME NEW s \in Index, NEW tx \in Transaction, Accepts(s, tx),
         Offset(s, tx) < MaxU32, NEW place \in Nat, NEW size \in DayTableSizes(s, tx, place)
  PROVE  /\ TableKnows(DayTable(s, tx, place, size), s, tx)
         /\ place > 0 => LET W == DayTable(s, tx, place, size)
                             p == DayIndex(s, tx) + 1
                         IN  p \in DOMAIN W /\ W[p] >= Offset(s, tx) + 1
<1> DEFINE T      == s.day_max_tx
           W      == DayTable(s, tx, place, size)
           day    == DayIndex(s, tx)
           slot   == (Offset(s, tx) + 1) % (MaxU32 + 1)
           old(d) == IF d <= Len(T) THEN T[d] ELSE 0
           new(d) == IF place > 0 /\ d = day + 1 /\ old(d) < slot THEN slot ELSE old(d)
           full   == IF Len(T) > day THEN Len(T) ELSE day + 1
<1>1. /\ Len(T) \in Nat /\ DOMAIN T = 1..Len(T)
      /\ \A p \in DOMAIN T : p \in Nat /\ T[p] \in Nat
  BY TableIsNumbers
<1>2. day \in Nat /\ Offset(s, tx) \in Nat /\ MaxU32 \in Nat
  BY OffsetType, WidthAssumption DEF Accepts, U32
<1>3. slot = Offset(s, tx) + 1
  BY <1>2
<1>4. W = [d \in 1..size |-> new(d)]
  BY Zenon DEF DayTable
<1>5. size \in IF place = 0 THEN Len(T)..(full - 1) ELSE {full}
  BY DEF DayTableSizes
<1> HIDE DEF T, W, day, slot, old, new
<1>6. size \in Nat /\ Len(T) <= size /\ (place > 0 => day + 1 \in 1..size)
  <2>1. CASE place = 0
    BY <1>1, <1>2, <1>5, <2>1
  <2>2. CASE place # 0
    <3>1. size = full
      BY <1>5, <2>2
    <3> QED BY <1>1, <1>2, <3>1
  <2> QED BY <2>1, <2>2
<1>7. DOMAIN W = 1..size /\ \A d \in 1..size : W[d] = new(d)
  BY <1>4
<1>8. \A d \in 1..size : old(d) \in Nat /\ (d \in DOMAIN T => old(d) = T[d])
                           /\ (d \notin DOMAIN T => old(d) = 0)
  BY <1>1, <1>6 DEF old
<1>9. \A d \in 1..size :
        /\ new(d) >= old(d)
        /\ new(d) = old(d) \/ (d = day + 1 /\ new(d) = slot)
  BY <1>2, <1>3, <1>8 DEF new
<1>10. place > 0 => new(day + 1) >= slot
  BY <1>2, <1>3, <1>6, <1>8 DEF new
<1>11. ASSUME NEW p \in DOMAIN T
       PROVE  p \in DOMAIN W /\ W[p] >= T[p]
  <2>1. p \in 1..size
    BY <1>1, <1>6
  <2>2. W[p] = new(p) /\ new(p) >= old(p) /\ old(p) = T[p]
    BY <1>7, <1>8, <1>9, <2>1
  <2> QED BY <1>7, <2>1, <2>2
<1>12. ASSUME NEW p \in DOMAIN W, W[p] # 0
       PROVE  \/ p \in DOMAIN T /\ W[p] = T[p]
              \/ p = day + 1 /\ W[p] = Offset(s, tx) + 1
  <2>1. p \in 1..size /\ W[p] = new(p)
    BY <1>7
  <2>2. CASE new(p) = old(p)
    BY <1>8, <1>12, <2>1, <2>2
  <2>3. CASE p = day + 1 /\ new(p) = slot
    BY <1>3, <2>1, <2>3
  <2> QED BY <1>9, <2>1, <2>2, <2>3
<1>13. TableKnows(W, s, tx)
  BY <1>11, <1>12 DEF TableKnows, T, day
<1>14. place > 0 => day + 1 \in DOMAIN W /\ W[day + 1] >= Offset(s, tx) + 1
  BY <1>3, <1>6, <1>7, <1>10
<1> QED BY <1>13, <1>14 DEF W, day

\* The segment as any part of an add leaves it, as far as days go.
DaysOn(w, s, tx) ==
  /\ w.first_day = FirstDay(s, tx)
  /\ w.base_tx_nr = s.base_tx_nr
  /\ TableKnows(w.day_max_tx, s, tx)

\* And as one that went through does.
DayIsNoted(w, s, tx) ==
  \E p \in DOMAIN w.day_max_tx :
    DayAt(w, p) = Day(tx.second) /\ w.day_max_tx[p] >= Offset(s, tx) + 1

LEMMA WrittenDays ==
  ASSUME NEW s \in Index, NEW tx \in Transaction, Accepts(s, tx),
         Offset(s, tx) < MaxU32, NEW place \in Nat, NEW w \in WrittenBefore(s, tx, place)
  PROVE  /\ DaysOn(w, s, tx)
         /\ place > 0 => DayIsNoted(w, s, tx)
<1>0. PICK d \in DayTableSizes(s, tx, place) : \E a, c : w = Written(s, tx, place, a, c, d)
  BY DEF WrittenBefore
<1>1. PICK a, c : w = Written(s, tx, place, a, c, d)
  BY <1>0
<1>2. w \in Index /\ w.first_day = FirstDay(s, tx) /\ w.base_tx_nr = s.base_tx_nr
  BY WrittenBeforeType, WrittenSets
<1> DEFINE marks == s.sets \cup (Marks(s, tx, place) \X {Offset(s, tx)})
           keys  == Inserted(s.addresses, AskedKeys(tx, place))
           coins == Inserted(s.coin_communities, AskedCoins(s, tx, place))
           days  == DayTable(s, tx, place, d)
           min   == IF s.transaction_count = 0 /\ place > 0 THEN tx.tx_nr ELSE s.min_tx_nr
           home  == IF s.transaction_count = 0 /\ place > 0 THEN tx.community ELSE s.community
<1>3. w = [s EXCEPT
             !.first_day        = FirstDay(s, tx),
             !.day_max_tx       = days,
             !.min_tx_nr        = min,
             !.community        = home,
             !.addresses        = keys,
             !.address_sets     = a,
             !.coin_communities = coins,
             !.coin_sets        = c,
             !.sets             = marks]
  BY <1>1 DEF Written
<1> HIDE DEF marks, keys, coins, days, min, home
<1>4. w.day_max_tx = days
  BY <1>3 DEF Index
<1>5. /\ TableKnows(days, s, tx)
      /\ place > 0 => /\ DayIndex(s, tx) + 1 \in DOMAIN days
                      /\ days[DayIndex(s, tx) + 1] >= Offset(s, tx) + 1
  BY TableGrows DEF days
<1>6. DayAt(w, DayIndex(s, tx) + 1) = Day(tx.second)
  <2>1. FirstDay(s, tx) \in Int
    BY <1>2, TableIsNumbers
  <2>2. DayOfSecond(tx.second) = Day(tx.second) /\ Day(tx.second) \in Int
    BY DayIsFloor, DayIsInt DEF Transaction
  <2>3. DayIndex(s, tx) = Day(tx.second) - FirstDay(s, tx)
    BY <2>2 DEF DayIndex
  <2>4. DayAt(w, DayIndex(s, tx) + 1) = FirstDay(s, tx) + (DayIndex(s, tx) + 1) - 1
    BY <1>2 DEF DayAt
  <2> QED BY <2>1, <2>2, <2>3, <2>4
<1> QED BY <1>2, <1>4, <1>5, <1>6 DEF DaysOn, DayIsNoted

LEMMA AddsDays ==
  ASSUME NEW s \in Index, NEW tx \in Transaction, Accepts(s, tx), Offset(s, tx) < MaxU32
  PROVE  /\ \A w \in Added(s, tx) : DaysOn(w, s, tx) /\ DayIsNoted(w, s, tx)
         /\ \A w \in OutOfRoom(s, tx) : DaysOn(w, s, tx)
<1>1. ASSUME NEW w \in Added(s, tx)
      PROVE  DaysOn(w, s, tx) /\ DayIsNoted(w, s, tx)
  <2>1. PICK v \in WrittenBefore(s, tx, EndOfAdd(tx)) :
          w = [v EXCEPT !.max_tx_nr = tx.tx_nr,
                        !.transaction_count = (@ + 1) % (MaxU32 + 1)]
    BY DEF Added
  <2>2. EndOfAdd(tx) \in Nat /\ EndOfAdd(tx) > 0
    BY PlaceType DEF EndOfAdd
  <2>3. v \in Index
    BY <2>2, WrittenBeforeType
  <2>4. DaysOn(v, s, tx) /\ DayIsNoted(v, s, tx)
    BY <2>2, WrittenDays
  <2>5. /\ w.first_day = v.first_day /\ w.base_tx_nr = v.base_tx_nr
        /\ w.day_max_tx = v.day_max_tx
    BY <2>1, <2>3 DEF Index
  <2> QED BY <2>4, <2>5 DEF DaysOn, DayIsNoted, DayAt
<1>2. ASSUME NEW w \in OutOfRoom(s, tx)
      PROVE  DaysOn(w, s, tx)
  <2>1. PICK place \in RefusalPlaces(s, tx) : w \in WrittenBefore(s, tx, place)
    BY DEF OutOfRoom
  <2>2. place \in Nat
    BY <2>1, RefusalPlacesType
  <2> QED BY <2>1, <2>2, WrittenDays
<1> QED BY <1>1, <1>2

-----------------------------------------------------------------------------
(***************************************************************************)
(* One segment before and after an add of tx, in the terms of what is      *)
(* known: K before, K2 after, and H and H2 what of them is held.           *)
(***************************************************************************)

\* While a segment counts nothing, its table knows only what is held, and
\* that on its first day.
StartIsDated(s, H) ==
  s.transaction_count = 0 => DaysAreOf(s, H) /\ \A p \in DaysNoted(s) : p = 1

SegmentDated(s, K, H) == SpanIsDated(s, K) /\ DaysAreOf(s, K) /\ StartIsDated(s, H)

\* What is known grows by tx, if at all.
Learns(K2, K, tx) == K \subseteq K2 /\ K2 \subseteq K \cup {tx}

\* The span of a segment that counts tx, and of one that does not.
SpanWith(w, s, n) == \A m : InSpan(w, m) <=> InSpan(s, m) \/ m = n
SpanAsBefore(w, s) == \A m : InSpan(w, m) <=> InSpan(s, m)

LEMMA EmptyIsDated ==
  ASSUME NEW base, NEW K, NEW H
  PROVE  SegmentDated(EmptyIndex(base), K, H) /\ \A n : ~InSpan(EmptyIndex(base), n)
<1>1. EmptyIndex(base).transaction_count = 0 /\ EmptyIndex(base).day_max_tx = <<>>
  BY DEF EmptyIndex
<1>2. DaysNoted(EmptyIndex(base)) = {}
  BY <1>1 DEF DaysNoted
<1> QED BY <1>1, <1>2 DEF SegmentDated, SpanIsDated, DaysAreOf, StartIsDated, InSpan

\* What the table of w knows: what that of s knew, on the same day, and tx.
LEMMA DaysOnward ==
  ASSUME NEW s \in Index, NEW w \in Index, NEW tx \in Transaction,
         NEW K, NEW H \in SUBSET {tx}, H \subseteq K,
         DaysAreOf(s, K), StartIsDated(s, H), DaysOn(w, s, tx), NEW p \in DaysNoted(w)
  PROVE  /\ \E t \in K \cup {tx} : /\ w.day_max_tx[p] = t.tx_nr - w.base_tx_nr + 1
                                   /\ DayAt(w, p) = Day(t.second)
                                   /\ s.transaction_count = 0 => t = tx
         /\ s.transaction_count = 0 => p = 1
<1>1. p \in DOMAIN w.day_max_tx /\ w.day_max_tx[p] # 0
  BY DEF DaysNoted
<1>2. /\ w.first_day = FirstDay(s, tx) /\ w.base_tx_nr = s.base_tx_nr
      /\ w.first_day \in Int /\ w.base_tx_nr \in Nat /\ p \in Nat /\ tx.tx_nr \in Nat
  BY <1>1, TableIsNumbers DEF DaysOn, Transaction
<1>3. /\ DayOfSecond(tx.second) = Day(tx.second) /\ Day(tx.second) \in Int
      /\ DayIndex(s, tx) = Day(tx.second) - w.first_day
  BY <1>2, DayIsFloor, DayIsInt DEF Transaction, DayIndex
<1>4. s.transaction_count = 0 => w.first_day = Day(tx.second)
  BY <1>2, <1>3 DEF FirstDay
<1>5. s.transaction_count # 0 => w.first_day = s.first_day
  BY <1>2 DEF FirstDay
<1>6. CASE p = DayIndex(s, tx) + 1 /\ w.day_max_tx[p] = Offset(s, tx) + 1
  <2>1. w.day_max_tx[p] = tx.tx_nr - w.base_tx_nr + 1
    BY <1>2, <1>6 DEF Offset
  <2>2. DayAt(w, p) = Day(tx.second)
    BY <1>2, <1>3, <1>6 DEF DayAt
  <2>3. s.transaction_count = 0 => p = 1
    BY <1>2, <1>3, <1>4, <1>6
  <2> QED BY <2>1, <2>2, <2>3
<1>7. CASE p \in DOMAIN s.day_max_tx /\ w.day_max_tx[p] = s.day_max_tx[p]
  <2>1. p \in DaysNoted(s)
    BY <1>1, <1>7 DEF DaysNoted
  <2>2. CASE s.transaction_count # 0
    <3>1. PICK t \in K : /\ s.day_max_tx[p] = t.tx_nr - s.base_tx_nr + 1
                         /\ DayAt(s, p) = Day(t.second)
      BY <2>1 DEF DaysAreOf
    <3>2. DayAt(w, p) = DayAt(s, p)
      BY <1>5, <2>2 DEF DayAt
    <3> QED BY <1>2, <1>7, <2>2, <3>1, <3>2
  <2>3. CASE s.transaction_count = 0
    <3>1. PICK t \in H : s.day_max_tx[p] = t.tx_nr - s.base_tx_nr + 1
      BY <2>1, <2>3 DEF StartIsDated, DaysAreOf
    <3>2. t = tx /\ p = 1
      BY <2>1, <2>3 DEF StartIsDated
    <3>3. DayAt(w, p) = Day(tx.second)
      BY <1>2, <1>4, <2>3, <3>2 DEF DayAt
    <3> QED BY <1>2, <1>7, <3>1, <3>2, <3>3
  <2> QED BY <2>2, <2>3
<1> QED BY <1>1, <1>6, <1>7 DEF DaysOn, TableKnows

\* A day known before is known by the same or a later number.
LEMMA DatesStay ==
  ASSUME NEW s \in Index, NEW w \in Index, NEW tx \in Transaction, NEW K, Dated(K),
         s.transaction_count # 0, SpanIsDated(s, K), DaysOn(w, s, tx),
         NEW t \in K, InSpan(s, t.tx_nr)
  PROVE  \E p \in DOMAIN w.day_max_tx :
           /\ DayAt(w, p) = Day(t.second)
           /\ w.day_max_tx[p] >= t.tx_nr - w.base_tx_nr + 1
<1>1. PICK p \in DOMAIN s.day_max_tx :
        /\ DayAt(s, p) = Day(t.second)
        /\ s.day_max_tx[p] >= t.tx_nr - s.base_tx_nr + 1
  BY DEF SpanIsDated
<1>2. p \in DOMAIN w.day_max_tx /\ w.day_max_tx[p] >= s.day_max_tx[p]
  BY DEF DaysOn, TableKnows
<1>3. w.base_tx_nr = s.base_tx_nr /\ DayAt(w, p) = DayAt(s, p)
  BY DEF DaysOn, FirstDay, DayAt
<1>4. /\ s.day_max_tx[p] \in Nat /\ w.day_max_tx[p] \in Nat
      /\ s.base_tx_nr \in Nat /\ t.tx_nr \in Nat
  BY <1>2, TableIsNumbers DEF Dated
<1> QED BY <1>1, <1>2, <1>3, <1>4

\* A segment that took tx in.
LEMMA DatedWith ==
  ASSUME NEW s \in Index, NEW w \in Index, NEW tx \in Transaction,
         NEW K, NEW H \in SUBSET {tx}, H \subseteq K, Dated(K), OfOneNumber(K \cup {tx}),
         SegmentDated(s, K, H), DaysOn(w, s, tx), DayIsNoted(w, s, tx),
         SpanWith(w, s, tx.tx_nr), w.transaction_count # 0, NEW H2
  PROVE  SegmentDated(w, K \cup {tx}, H2)
<1>1. SpanIsDated(w, K \cup {tx})
  <2> SUFFICES ASSUME NEW t \in K \cup {tx}, InSpan(w, t.tx_nr)
               PROVE  \E p \in DOMAIN w.day_max_tx :
                        /\ DayAt(w, p) = Day(t.second)
                        /\ w.day_max_tx[p] >= t.tx_nr - w.base_tx_nr + 1
    BY DEF SpanIsDated
  <2>1. CASE t = tx
    BY <2>1 DEF DayIsNoted, Offset, DaysOn
  <2>2. CASE t # tx
    <3>1. t \in K /\ t.tx_nr # tx.tx_nr
      BY <2>2 DEF OfOneNumber
    <3>2. InSpan(s, t.tx_nr)
      BY <3>1 DEF SpanWith
    <3>3. s.transaction_count # 0
      BY <3>2 DEF InSpan
    <3> QED BY <3>1, <3>2, <3>3, DatesStay DEF SegmentDated
  <2> QED BY <2>1, <2>2
<1>2. DaysAreOf(w, K \cup {tx})
  <2> SUFFICES ASSUME NEW p \in DaysNoted(w)
               PROVE  \E t \in K \cup {tx} : /\ w.day_max_tx[p] = t.tx_nr - w.base_tx_nr + 1
                                             /\ DayAt(w, p) = Day(t.second)
    BY DEF DaysAreOf
  <2>1. DaysAreOf(s, K) /\ StartIsDated(s, H)
    BY DEF SegmentDated
  <2> QED BY <2>1, DaysOnward
<1> QED BY <1>1, <1>2 DEF SegmentDated, StartIsDated

\* A segment that had no room for the whole of tx.
LEMMA DatedWithout ==
  ASSUME NEW s \in Index, NEW w \in Index, NEW tx \in Transaction,
         NEW K, NEW H \in SUBSET {tx}, H \subseteq K, Dated(K),
         SegmentDated(s, K, H), DaysOn(w, s, tx), SpanAsBefore(w, s),
         w.transaction_count = s.transaction_count, ~InSpan(s, tx.tx_nr)
  PROVE  SegmentDated(w, K \cup {tx}, {tx})
<1>1. SpanIsDated(w, K \cup {tx})
  <2> SUFFICES ASSUME NEW t \in K \cup {tx}, InSpan(w, t.tx_nr)
               PROVE  \E p \in DOMAIN w.day_max_tx :
                        /\ DayAt(w, p) = Day(t.second)
                        /\ w.day_max_tx[p] >= t.tx_nr - w.base_tx_nr + 1
    BY DEF SpanIsDated
  <2>1. InSpan(s, t.tx_nr) /\ t \in K
    BY DEF SpanAsBefore
  <2>2. s.transaction_count # 0
    BY <2>1 DEF InSpan
  <2> QED BY <2>1, <2>2, DatesStay DEF SegmentDated
<1>2. ASSUME NEW p \in DaysNoted(w)
      PROVE  /\ \E t \in K \cup {tx} : /\ w.day_max_tx[p] = t.tx_nr - w.base_tx_nr + 1
                                       /\ DayAt(w, p) = Day(t.second)
                                       /\ s.transaction_count = 0 => t = tx
             /\ s.transaction_count = 0 => p = 1
  <2>1. DaysAreOf(s, K) /\ StartIsDated(s, H)
    BY DEF SegmentDated
  <2> QED BY <2>1, DaysOnward
<1>3. DaysAreOf(w, K \cup {tx})
  BY <1>2 DEF DaysAreOf
<1>4. StartIsDated(w, {tx})
  <2> SUFFICES ASSUME w.transaction_count = 0
               PROVE  DaysAreOf(w, {tx}) /\ \A p \in DaysNoted(w) : p = 1
    BY DEF StartIsDated
  <2>1. \A p \in DaysNoted(w) : p = 1 /\ w.day_max_tx[p] = tx.tx_nr - w.base_tx_nr + 1
                                /\ DayAt(w, p) = Day(tx.second)
    BY <1>2
  <2> QED BY <2>1 DEF DaysAreOf
<1> QED BY <1>1, <1>3, <1>4 DEF SegmentDated

\* A segment no part of the add reached.
LEMMA DatedElsewhere ==
  ASSUME NEW s \in Index, NEW tx \in Transaction, NEW K, NEW K2, Learns(K2, K, tx),
         NEW H \in SUBSET {tx}, NEW H2, H \subseteq H2 \/ \A p \in DaysNoted(s) :
           s.day_max_tx[p] # tx.tx_nr - s.base_tx_nr + 1,
         SegmentDated(s, K, H), ~InSpan(s, tx.tx_nr)
  PROVE  SegmentDated(s, K2, H2)
<1>1. SpanIsDated(s, K2)
  BY DEF SegmentDated, SpanIsDated, Learns
<1>2. DaysAreOf(s, K2)
  BY DEF SegmentDated, DaysAreOf, Learns
<1>3. StartIsDated(s, H2)
  <2>1. CASE H \subseteq H2
    BY <2>1 DEF SegmentDated, StartIsDated, DaysAreOf
  <2>2. CASE \A p \in DaysNoted(s) : s.day_max_tx[p] # tx.tx_nr - s.base_tx_nr + 1
    BY <2>2 DEF SegmentDated, StartIsDated, DaysAreOf
  <2> QED BY <2>1, <2>2
<1> QED BY <1>1, <1>2, <1>3 DEF SegmentDated

-----------------------------------------------------------------------------
(***************************************************************************)
(* The segments an add goes through, is refused in, and does not reach.    *)
(***************************************************************************)
LEMMA RunsAreApart ==
  ASSUME NEW a \in Nat, NEW b \in Nat, NEW size \in Nat \ {0}, a # b,
         NEW n \in (a * size)..(a * size + size - 1)
  PROVE  n \notin (b * size)..(b * size + size - 1)
<1>1. ASSUME NEW c \in Nat, NEW m \in (c * size)..(c * size + size - 1)
      PROVE  m \div size = c
  <2>1. c * size \in Nat
    OBVIOUS
  <2>2. m - c * size \in 0 .. size - 1 /\ m = c * size + (m - c * size)
    BY <2>1
  <2>3. (c * size + (m - c * size)) \div size = c
    <3>1. c \in Int
      OBVIOUS
    <3> QED BY <2>2, <3>1, WholeIsUnique
  <2> QED BY <2>2, <2>3
<1> QED BY <1>1

LEMMA HoldingSpans ==
  ASSUME IInv, NEW tx \in Arrivals, Admits(tx), NEW s \in SegmentsHolding(tx)
  PROVE  /\ s \in Index /\ s.transaction_count # 0
         /\ SpanWith(s, Segment(tx), tx.tx_nr)
         /\ InSegment(tx) => s = Segment(tx)
         /\ ~InSegment(tx) => DaysOn(s, Segment(tx), tx) /\ DayIsNoted(s, Segment(tx), tx)
<1> DEFINE g    == Segment(tx)
           size == segment_transactions
           base == SegmentOf(tx.tx_nr) * size
<1>1. /\ size \in 1..MaxU32 /\ base \in Nat /\ g \in Index
      /\ tx.tx_nr \in base..(base + size - 1)
      /\ SegmentStands(g, base, size)
  BY AskedSegment
<1>2. s \in Index /\ s.transaction_count # 0 /\ s.max_tx_nr = tx.tx_nr
  BY HeldIsCounted
<1>3. tx \in Transaction /\ tx.tx_nr \in Nat /\ MaxU32 \in Nat
  BY AdmittedIsNew, WidthAssumption
<1> HIDE DEF g, size, base
<1>4. CASE InSegment(tx)
  <2>1. s = g
    BY <1>4 DEF SegmentsHolding, g
  <2>2. /\ g.transaction_count \in Nat /\ g.min_tx_nr \in Nat
        /\ g.max_tx_nr = g.min_tx_nr + g.transaction_count - 1
    BY <1>1, <1>2, <2>1, TableIsNumbers DEF SegmentStands
  <2>3. InSpan(g, tx.tx_nr)
    BY <1>2, <1>3, <2>1, <2>2 DEF InSpan
  <2> QED BY <1>2, <1>4, <2>1, <2>3 DEF SpanWith, g
<1>5. CASE ~InSegment(tx)
  <2>1. Accepts(g, tx) /\ s \in Added(g, tx)
    BY <1>5 DEF SegmentsHolding, g
  <2>2. s.min_tx_nr = IF g.transaction_count = 0 THEN tx.tx_nr ELSE g.min_tx_nr
    BY <1>1, <1>3, <2>1, AddedType
  <2>3. g.transaction_count # 0 =>
          /\ tx.tx_nr = g.max_tx_nr + 1
          /\ g.max_tx_nr = g.min_tx_nr + g.transaction_count - 1
    BY <1>1, <2>1 DEF Accepts, AcceptsNumber, SegmentStands
  <2>4. g.min_tx_nr \in Nat /\ g.max_tx_nr \in Nat /\ g.transaction_count \in Nat
    BY <1>1, TableIsNumbers
  <2>5. ASSUME NEW m
        PROVE  InSpan(s, m) <=> InSpan(g, m) \/ m = tx.tx_nr
    <3>1. CASE g.transaction_count = 0
      <4>1. InSpan(s, m) <=> m \in tx.tx_nr..tx.tx_nr
        BY <1>2, <2>2, <3>1 DEF InSpan
      <4> QED BY <1>3, <3>1, <4>1 DEF InSpan
    <3>2. CASE g.transaction_count # 0
      <4>1. InSpan(s, m) <=> m \in g.min_tx_nr..tx.tx_nr
        BY <1>2, <2>2, <3>2 DEF InSpan
      <4>2. InSpan(g, m) <=> m \in g.min_tx_nr..g.max_tx_nr
        BY <3>2 DEF InSpan
      <4>3. m \in g.min_tx_nr..tx.tx_nr <=> m \in g.min_tx_nr..g.max_tx_nr \/ m = tx.tx_nr
        BY <1>3, <2>3, <2>4, <3>2
      <4> QED BY <4>1, <4>2, <4>3
    <3> QED BY <3>1, <3>2
  <2>6. Offset(g, tx) < MaxU32
    BY <1>1, <1>3 DEF Offset, SegmentStands
  <2>7. DaysOn(s, g, tx) /\ DayIsNoted(s, g, tx)
    BY <1>1, <1>3, <2>1, <2>6, AddsDays
  <2> QED BY <1>2, <1>5, <2>5, <2>7 DEF SpanWith, g
<1> QED BY <1>4, <1>5

LEMMA RefusingSpans ==
  ASSUME IInv, NEW tx \in Arrivals, Admits(tx), Accepts(Segment(tx), tx),
         NEW s \in SegmentsRefusing(tx)
  PROVE  /\ s \in Index
         /\ SpanAsBefore(s, Segment(tx)) /\ ~InSpan(Segment(tx), tx.tx_nr)
         /\ s.transaction_count = Segment(tx).transaction_count
         /\ DaysOn(s, Segment(tx), tx)
<1> DEFINE g    == Segment(tx)
           size == segment_transactions
           base == SegmentOf(tx.tx_nr) * size
<1>1. /\ size \in 1..MaxU32 /\ base \in Nat /\ g \in Index
      /\ tx.tx_nr \in base..(base + size - 1)
      /\ SegmentStands(g, base, size)
  BY AskedSegment
<1>2. s \in OutOfRoom(g, tx)
  BY DEF SegmentsRefusing
<1>3. tx \in Transaction /\ tx.tx_nr \in Nat /\ MaxU32 \in Nat
  BY AdmittedIsNew, WidthAssumption
<1>4. Accepts(g, tx)
  OBVIOUS
<1> HIDE DEF g, size, base
<1>5. /\ s \in Index
      /\ s.max_tx_nr = g.max_tx_nr
      /\ s.transaction_count = g.transaction_count
      /\ g.transaction_count # 0 => s.min_tx_nr = g.min_tx_nr
  BY <1>1, <1>2, <1>3, <1>4, OutOfRoomType
<1>6. SpanAsBefore(s, g)
  BY <1>5 DEF SpanAsBefore, InSpan
<1>7. ~InSpan(g, tx.tx_nr)
  <2>1. g.transaction_count # 0 => tx.tx_nr = g.max_tx_nr + 1
    BY <1>4 DEF Accepts, AcceptsNumber
  <2>2. g.max_tx_nr \in Nat /\ g.min_tx_nr \in Nat
    BY <1>1, TableIsNumbers
  <2> QED BY <2>1, <2>2 DEF InSpan
<1>8. Offset(g, tx) < MaxU32
  BY <1>1, <1>3 DEF Offset, SegmentStands
<1>9. DaysOn(s, g, tx)
  BY <1>1, <1>2, <1>3, <1>4, <1>8, AddsDays
<1> QED BY <1>5, <1>6, <1>7, <1>9 DEF g

\* The other segments of the row: tx is none of their numbers.
LEMMA ElsewhereSpans ==
  ASSUME IInv, NEW tx \in Arrivals, Admits(tx),
         NEW i \in DOMAIN segments, i # Position(tx)
  PROVE  /\ segments[i] \in Index
         /\ ~InSpan(segments[i], tx.tx_nr)
         /\ \A p \in DaysNoted(segments[i]) :
              segments[i].day_max_tx[p] # tx.tx_nr - segments[i].base_tx_nr + 1
<1> DEFINE s    == segments[i]
           size == segment_transactions
           a    == SegmentOf(tx.tx_nr)
           b    == first_segment + i - 1
<1>1. /\ segments \in Seq(Index) /\ first_segment \in Nat
      /\ RowStands(segments, first_segment, size)
  BY DEF IInv, TypeOK
<1>2. i \in Nat /\ i >= 1 /\ segments # <<>> /\ s \in Index
  BY <1>1
<1>3. /\ size \in 1..MaxU32
      /\ Position(tx) \in Nat
      /\ a = first_segment + Position(tx) - 1 /\ a * size \in Nat
      /\ tx.tx_nr \in (a * size)..(a * size + size - 1)
  <2>1. /\ size \in 1..MaxU32 /\ Position(tx) \in 1..(Len(segments) + 1)
        /\ a = FirstSegment(tx) + Position(tx) - 1 /\ FirstSegment(tx) = first_segment
        /\ a * size \in Nat
        /\ tx.tx_nr \in (a * size)..(a * size + size - 1)
    BY <1>2, AskedSegment
  <2>2. Position(tx) \in Nat
    BY <1>1, <2>1
  <2> QED BY <2>1, <2>2
<1>4. SegmentStands(s, b * size, size)
  BY <1>1 DEF RowStands
<1> HIDE DEF s, size
<1>5. a \in Nat /\ b \in Nat /\ a # b /\ size \in Nat \ {0} /\ b * size \in Nat
  <2>1. size \in Nat \ {0}
    BY <1>3, WidthAssumption
  <2>2. a \in Nat
    <3>1. tx.tx_nr \in Nat
      BY SegmentAssumption DEF Transaction
    <3> QED BY <2>1, <3>1, RunOfNumber DEF SegmentOf, size
  <2>3. b \in Nat /\ a # b
    <3> DEFINE f == first_segment
               p == Position(tx)
    <3>1. f \in Nat /\ p \in Nat /\ p # i /\ a = f + p - 1 /\ b = f + i - 1
      BY <1>1, <1>3
    <3> HIDE DEF a, b, f, p
    <3> QED BY <1>2, <3>1
  <2> HIDE DEF a, b
  <2> QED BY <2>1, <2>2, <2>3
<1>6. tx.tx_nr \notin (b * size)..(b * size + size - 1)
  <2> HIDE DEF a, b
  <2> QED BY <1>3, <1>5, RunsAreApart
<1> HIDE DEF a, b
<1>7. tx.tx_nr \in Nat /\ size \in Nat
  BY <1>5, SegmentAssumption DEF Transaction
<1>8. ~InSpan(s, tx.tx_nr)
  <2> SUFFICES ASSUME InSpan(s, tx.tx_nr)
               PROVE  FALSE
    OBVIOUS
  <2>1. /\ s.min_tx_nr \in (b * size)..(b * size + size - 1)
        /\ s.max_tx_nr \in (b * size)..(b * size + size - 1)
        /\ tx.tx_nr \in s.min_tx_nr..s.max_tx_nr
    BY <1>4 DEF SegmentStands, InSpan
  <2> QED BY <1>5, <1>6, <1>7, <2>1
<1>9. ASSUME NEW p \in DaysNoted(s), s.day_max_tx[p] = tx.tx_nr - s.base_tx_nr + 1
      PROVE  FALSE
  <2>1. p \in DOMAIN s.day_max_tx /\ s.day_max_tx[p] # 0 /\ s.day_max_tx[p] \in Nat
    BY <1>2, DaysNotedAreNumbers DEF DaysNoted, s
  <2>2. s.base_tx_nr = b * size /\ s.day_max_tx[p] <= size
    BY <1>4, <2>1 DEF SegmentStands
  <2> QED BY <1>5, <1>6, <1>7, <1>9, <2>1, <2>2
<1> QED BY <1>2, <1>8, <1>9 DEF s

-----------------------------------------------------------------------------
(***************************************************************************)
(* The inductive invariant.  Known is what the chain was told for good and *)
(* what it is to be told again: the ledger, and what is held.              *)
(***************************************************************************)
Known == ToSet(ledger) \cup Held

\* A refused transaction is the next one.
RefusedIsNext == refused \in Arrivals /\ transaction_count # 0 => refused.tx_nr = max_tx_nr + 1

\* The ledger is the run the chain counts, and what was counted was said in it.
LedgerStands(home) ==
  /\ ledger \in Seq(Arrivals)
  /\ Len(ledger) = transaction_count
  /\ \A i \in DOMAIN ledger : ledger[i].tx_nr = min_tx_nr + i - 1
  /\ CountedFacts = UNION {L!Roles(t, home) \X {t.tx_nr} : t \in ToSet(ledger)}
  /\ CountedTypes = UNION {L!Given(t) : t \in ToSet(ledger)}

\* Every transaction of A is in the span of a segment, and only numbers of K.
SpansCover(row, A, K) ==
  /\ \A t \in A : \E i \in DOMAIN row : InSpan(row[i], t.tx_nr)
  /\ \A i \in DOMAIN row : \A n : InSpan(row[i], n) => \E t \in K : t.tx_nr = n

DaysStand(row, K, H) == \A i \in DOMAIN row : SegmentDated(row[i], K, H)

\* Of two types one transaction gives one address, the second is not written
\* without the first, nor below it.
WrittenInOrder(records, t, k) ==
  /\ DOMAIN Notes(t) = 1..2
  /\ Notes(t)[1].key = k
  /\ Notes(t)[2].key = k
  /\ Notes(t)[1].type # Notes(t)[2].type
  => \A j \in DOMAIN records : records[j] = [tx_nr |-> t.tx_nr, type |-> Notes(t)[2].type] =>
       \E i \in DOMAIN records :
         j < i /\ records[i] = [tx_nr |-> t.tx_nr, type |-> Notes(t)[1].type]

NotesStand(changes, K) == \A k \in Keys : \A t \in K : WrittenInOrder(changes[k], t, k)

AnswerInv(home) ==
  /\ LedgerInv(home)
  /\ RefusedIsNext
  /\ LedgerStands(home)
  /\ SpansCover(segments, ToSet(ledger), Known)
  /\ DaysStand(segments, Known, Held)
  /\ NotesStand(addresses.changes, Known)

\* The ledger as a set: its numbers, each once, from min_tx_nr to max_tx_nr.
LEMMA LedgerIsRun ==
  ASSUME NEW home, IInv, LedgerStands(home)
  PROVE  /\ ToSet(ledger) \subseteq Arrivals
         /\ \A t \in ToSet(ledger) : /\ t \in Transaction /\ t.tx_nr \in Nat
                                     /\ min_tx_nr <= t.tx_nr /\ t.tx_nr <= max_tx_nr
         /\ transaction_count # 0 => \A n \in min_tx_nr..max_tx_nr :
              \E t \in ToSet(ledger) : t.tx_nr = n
         /\ transaction_count = 0 => ToSet(ledger) = {}
         /\ OfOneNumber(ToSet(ledger))
<1>1. /\ ledger \in Seq(Arrivals) /\ Len(ledger) = transaction_count
      /\ \A i \in DOMAIN ledger : ledger[i].tx_nr = min_tx_nr + i - 1
      /\ transaction_count \in Nat /\ min_tx_nr \in Nat /\ max_tx_nr \in Nat
      /\ transaction_count # 0 => max_tx_nr = min_tx_nr + transaction_count - 1
  BY DEF LedgerStands, IInv, TypeOK
<1>2. /\ DOMAIN ledger = 1..transaction_count
      /\ ToSet(ledger) = {ledger[i] : i \in 1..transaction_count}
      /\ \A i \in 1..transaction_count : ledger[i] \in Arrivals
  BY <1>1 DEF ToSet
<1>3. ToSet(ledger) \subseteq Arrivals
  BY <1>2
<1>4. ASSUME NEW t \in ToSet(ledger)
      PROVE  /\ t \in Transaction /\ t.tx_nr \in Nat
             /\ min_tx_nr <= t.tx_nr /\ t.tx_nr <= max_tx_nr
  <2>1. PICK i \in 1..transaction_count : t = ledger[i]
    BY <1>2
  <2>2. t \in Transaction /\ t.tx_nr \in Nat
    BY <1>3, SegmentAssumption DEF Transaction
  <2>3. t.tx_nr = min_tx_nr + i - 1 /\ i \in Nat /\ 1 <= i /\ i <= transaction_count
    BY <1>1, <1>2, <2>1
  <2> QED BY <1>1, <2>2, <2>3
<1>5. ASSUME transaction_count # 0, NEW n \in min_tx_nr..max_tx_nr
      PROVE  \E t \in ToSet(ledger) : t.tx_nr = n
  <2>1. n - min_tx_nr + 1 \in 1..transaction_count
    BY <1>1, <1>5
  <2>2. ledger[n - min_tx_nr + 1].tx_nr = min_tx_nr + (n - min_tx_nr + 1) - 1
    BY <1>1, <1>2, <2>1
  <2>3. ledger[n - min_tx_nr + 1].tx_nr = n
    BY <1>1, <1>5, <2>2
  <2> QED BY <1>2, <2>1, <2>3
<1>6. transaction_count = 0 => ToSet(ledger) = {}
  BY <1>2
<1>7. ASSUME NEW t \in ToSet(ledger), NEW u \in ToSet(ledger), t.tx_nr = u.tx_nr
      PROVE  t = u
  <2>1. PICK i \in 1..transaction_count, j \in 1..transaction_count : t = ledger[i] /\ u = ledger[j]
    BY <1>2
  <2>2. min_tx_nr + i - 1 = min_tx_nr + j - 1
    BY <1>1, <1>2, <1>7, <2>1
  <2>3. i = j
    BY <1>1, <2>2
  <2> QED BY <2>1, <2>3
<1> QED BY <1>3, <1>4, <1>5, <1>6, <1>7 DEF OfOneNumber

\* What is held has the number after the ledger's.
LEMMA HeldIsNext ==
  ASSUME IInv, RefusedIsNext, NEW t \in Held
  PROVE  /\ t \in Arrivals /\ t = refused /\ t \in Transaction /\ t.tx_nr \in Nat
         /\ transaction_count # 0 => t.tx_nr = max_tx_nr + 1
<1>1. t \in Arrivals /\ t = refused
  BY DEF Held
<1>2. t \in Transaction /\ t.tx_nr \in Nat
  BY <1>1, SegmentAssumption DEF Transaction
<1> QED BY <1>1, <1>2 DEF RefusedIsNext

LEMMA KnownIsRun ==
  ASSUME NEW home, IInv, LedgerStands(home), RefusedIsNext
  PROVE  Known \subseteq Arrivals /\ Dated(Known) /\ OfOneNumber(Known) /\ Gapless(Known)
<1>1. /\ ToSet(ledger) \subseteq Arrivals
      /\ \A t \in ToSet(ledger) : /\ t \in Transaction /\ t.tx_nr \in Nat
                                  /\ min_tx_nr <= t.tx_nr /\ t.tx_nr <= max_tx_nr
      /\ transaction_count # 0 => \A n \in min_tx_nr..max_tx_nr :
           \E t \in ToSet(ledger) : t.tx_nr = n
      /\ transaction_count = 0 => ToSet(ledger) = {}
      /\ OfOneNumber(ToSet(ledger))
  BY LedgerIsRun
<1>2. \A t \in Held : /\ t \in Arrivals /\ t = refused /\ t \in Transaction /\ t.tx_nr \in Nat
                      /\ transaction_count # 0 => t.tx_nr = max_tx_nr + 1
  BY HeldIsNext
<1>3. min_tx_nr \in Nat /\ max_tx_nr \in Nat
  BY DEF IInv, TypeOK
<1>4. Known \subseteq Arrivals
  BY <1>1, <1>2 DEF Known
<1>5. Dated(Known)
  <2> SUFFICES ASSUME NEW t \in Known
               PROVE  t.tx_nr \in Nat /\ t.second \in Int
    BY DEF Dated
  <2>1. t \in Transaction
    BY <1>1, <1>2 DEF Known
  <2> QED BY <2>1 DEF Transaction
<1>6. ASSUME NEW t \in ToSet(ledger), NEW u \in Held
      PROVE  t.tx_nr < u.tx_nr
  <2>1. transaction_count # 0
    BY <1>1
  <2>2. t.tx_nr \in Nat /\ t.tx_nr <= max_tx_nr /\ u.tx_nr = max_tx_nr + 1
    BY <1>1, <1>2, <2>1
  <2> QED BY <1>3, <2>2
<1>7. ASSUME NEW t \in Known, NEW u \in Known, t.tx_nr = u.tx_nr
      PROVE  t = u
  <2>1. t.tx_nr \in Nat
    BY <1>5 DEF Dated
  <2>2. ~(t.tx_nr < u.tx_nr) /\ ~(u.tx_nr < t.tx_nr)
    BY <1>7, <2>1
  <2> QED BY <1>1, <1>2, <1>6, <1>7, <2>2 DEF Known, OfOneNumber
<1>8. ASSUME NEW t \in Known, NEW u \in Known, NEW n \in t.tx_nr..u.tx_nr
      PROVE  \E v \in Known : v.tx_nr = n
  <2>1. t.tx_nr \in Nat /\ u.tx_nr \in Nat /\ n \in Nat
    <3>1. t.tx_nr \in Nat /\ u.tx_nr \in Nat
      BY <1>5 DEF Dated
    <3> QED BY <3>1
  <2>2. CASE n = u.tx_nr
    BY <2>2
  <2>3. CASE n # u.tx_nr
    <3>1. t.tx_nr <= n /\ n < u.tx_nr
      BY <2>1, <2>3
    <3>2. t \in ToSet(ledger)
      <4>1. t \notin Held
        <5> SUFFICES ASSUME t \in Held
                     PROVE  FALSE
          OBVIOUS
        <5>1. u \notin ToSet(ledger)
          <6>1. ~(u.tx_nr < t.tx_nr)
            BY <2>1, <3>1
          <6> QED BY <1>6, <6>1
        <5>2. u = t
          BY <1>2, <5>1 DEF Known
        <5> QED BY <2>1, <3>1, <5>2
      <4> QED BY <4>1 DEF Known
    <3>3. transaction_count # 0 /\ min_tx_nr <= t.tx_nr
      BY <1>1, <3>2
    <3>4. u.tx_nr <= max_tx_nr + 1
      <4>1. CASE u \in ToSet(ledger)
        <5>1. u.tx_nr <= max_tx_nr
          BY <1>1, <4>1
        <5> QED BY <1>3, <2>1, <5>1
      <4>2. CASE u \in Held
        <5>1. u.tx_nr = max_tx_nr + 1
          BY <1>2, <3>3, <4>2
        <5> QED BY <1>3, <5>1
      <4> QED BY <4>1, <4>2 DEF Known
    <3>5. n \in min_tx_nr..max_tx_nr
      BY <1>3, <2>1, <3>1, <3>3, <3>4
    <3> QED BY <1>1, <3>3, <3>5 DEF Known
  <2> QED BY <2>2, <2>3
<1> QED BY <1>4, <1>5, <1>7, <1>8 DEF OfOneNumber, Gapless

\* The transaction of an add, beside what is known.
LEMMA KnownWith ==
  ASSUME NEW home, IInv, LedgerStands(home), RefusedIsNext,
         NEW tx \in Arrivals, Admits(tx), refused \in {tx, NoTransaction}
  PROVE  /\ Held \in SUBSET {tx} /\ Held \subseteq Known
         /\ Known \cup {tx} = ToSet(ledger) \cup {tx}
         /\ Dated(Known) /\ OfOneNumber(Known \cup {tx})
<1>1. Held \in SUBSET {tx}
  BY HeldIsAdded
<1>2. Known \cup {tx} = ToSet(ledger) \cup {tx}
  BY <1>1 DEF Known
<1>3. /\ \A t \in ToSet(ledger) : t.tx_nr \in Nat /\ t.tx_nr <= max_tx_nr
      /\ OfOneNumber(ToSet(ledger))
  BY LedgerIsRun
<1>4. tx.tx_nr \in Nat /\ max_tx_nr \in Nat /\ max_tx_nr < tx.tx_nr
  BY AdmittedIsNew
<1>5. \A t \in ToSet(ledger) : t.tx_nr # tx.tx_nr
  BY <1>3, <1>4
<1>6. OfOneNumber(ToSet(ledger) \cup {tx})
  BY <1>3, <1>5 DEF OfOneNumber
<1> QED BY <1>1, <1>2, <1>6, KnownIsRun DEF Known

-----------------------------------------------------------------------------
(***************************************************************************)
(* The row after an add, whatever came of it.                              *)
(***************************************************************************)

\* The segment tx is added to, as the invariant has it.
LEMMA AskedIsDated ==
  ASSUME NEW home, AnswerInv(home), NEW tx \in Arrivals, Admits(tx), StartsInRow(tx)
  PROVE  /\ SegmentDated(Segment(tx), Known, Held)
         /\ \A n : InSpan(Segment(tx), n) => \E t \in Known : t.tx_nr = n
<1>1. RetryInv /\ IInv
  BY DEF AnswerInv, LedgerInv, RetryInv
<1>2. PICK g \in Index : g = Segment(tx)
  BY <1>1, AskedSegment
<1>3. /\ Position(tx) \in DOMAIN segments => Segment(tx) = segments[Position(tx)]
      /\ Position(tx) \notin DOMAIN segments =>
           Segment(tx) = EmptyIndex(SegmentOf(tx.tx_nr) * segment_transactions)
  BY <1>1, <1>2, RowIs
<1>4. DaysStand(segments, Known, Held) /\ SpansCover(segments, ToSet(ledger), Known)
  BY DEF AnswerInv
<1>5. CASE Position(tx) \in DOMAIN segments
  BY <1>3, <1>4, <1>5 DEF DaysStand, SpansCover
<1>6. CASE Position(tx) \notin DOMAIN segments
  BY <1>3, <1>6, EmptyIsDated
<1> QED BY <1>5, <1>6

\* A row that differs in the segment of tx.
LEMMA RowIsDated ==
  ASSUME NEW home, AnswerInv(home), NEW tx \in Arrivals, Admits(tx), StartsInRow(tx),
         refused \in {tx, NoTransaction}, NEW s \in Index,
         NEW K2, Learns(K2, Known, tx), NEW H2, SegmentDated(s, K2, H2)
  PROVE  DaysStand(Row(tx, s), K2, H2)
<1>1. RetryInv /\ IInv
  BY DEF AnswerInv, LedgerInv, RetryInv
<1>2. /\ DOMAIN Row(tx, s) = DOMAIN segments \cup {Position(tx)}
      /\ Row(tx, s)[Position(tx)] = s
      /\ \A i \in DOMAIN segments : i # Position(tx) => Row(tx, s)[i] = segments[i]
  BY <1>1, RowIs
<1>3. ASSUME NEW i \in DOMAIN segments, i # Position(tx)
      PROVE  SegmentDated(segments[i], K2, H2)
  <2>1. /\ segments[i] \in Index
        /\ ~InSpan(segments[i], tx.tx_nr)
        /\ \A p \in DaysNoted(segments[i]) :
             segments[i].day_max_tx[p] # tx.tx_nr - segments[i].base_tx_nr + 1
    BY <1>1, <1>3, ElsewhereSpans
  <2>2. SegmentDated(segments[i], Known, Held)
    BY DEF AnswerInv, DaysStand
  <2>3. Held \in SUBSET {tx} /\ tx \in Transaction
    BY HeldIsAdded, SegmentAssumption
  <2> QED BY <2>1, <2>2, <2>3, DatedElsewhere
<1> QED BY <1>2, <1>3 DEF DaysStand

LEMMA RowIsCovered ==
  ASSUME NEW home, AnswerInv(home), NEW tx \in Arrivals, Admits(tx), StartsInRow(tx),
         NEW s \in Index, \A n : InSpan(Segment(tx), n) => InSpan(s, n),
         NEW K2, Known \subseteq K2,
         \A n : InSpan(s, n) => InSpan(Segment(tx), n) \/ \E t \in K2 : t.tx_nr = n
  PROVE  SpansCover(Row(tx, s), ToSet(ledger), K2)
<1>1. RetryInv /\ IInv
  BY DEF AnswerInv, LedgerInv, RetryInv
<1>2. /\ DOMAIN Row(tx, s) = DOMAIN segments \cup {Position(tx)}
      /\ Row(tx, s)[Position(tx)] = s
      /\ \A i \in DOMAIN segments : i # Position(tx) => Row(tx, s)[i] = segments[i]
      /\ Position(tx) \in DOMAIN segments => Segment(tx) = segments[Position(tx)]
  BY <1>1, RowIs
<1>3. /\ \A t \in ToSet(ledger) : \E i \in DOMAIN segments : InSpan(segments[i], t.tx_nr)
      /\ \A i \in DOMAIN segments : \A n : InSpan(segments[i], n) => \E t \in Known : t.tx_nr = n
  BY DEF AnswerInv, SpansCover
<1>4. ASSUME NEW t \in ToSet(ledger)
      PROVE  \E i \in DOMAIN Row(tx, s) : InSpan(Row(tx, s)[i], t.tx_nr)
  <2>1. PICK i \in DOMAIN segments : InSpan(segments[i], t.tx_nr)
    BY <1>3
  <2>2. InSpan(Row(tx, s)[i], t.tx_nr)
    BY <1>2, <2>1
  <2> QED BY <1>2, <2>2
<1>5. ASSUME NEW i \in DOMAIN Row(tx, s), NEW n, InSpan(Row(tx, s)[i], n)
      PROVE  \E t \in K2 : t.tx_nr = n
  <2>1. CASE i = Position(tx)
    <3>1. InSpan(Segment(tx), n) => \E t \in Known : t.tx_nr = n
      BY AskedIsDated
    <3>2. InSpan(s, n)
      BY <1>2, <1>5, <2>1
    <3> QED BY <3>1, <3>2
  <2>2. CASE i # Position(tx)
    <3>1. i \in DOMAIN segments /\ InSpan(segments[i], n)
      BY <1>2, <1>5, <2>2
    <3> QED BY <1>3, <3>1
  <2> QED BY <2>1, <2>2
<1> QED BY <1>4, <1>5 DEF SpansCover

LEMMA RowAfterHolding ==
  ASSUME NEW home, AnswerInv(home), NEW tx \in Arrivals, Admits(tx), StartsInRow(tx),
         refused \in {tx, NoTransaction}, NEW s \in SegmentsHolding(tx)
  PROVE  /\ \A H2 : DaysStand(Row(tx, s), Known \cup {tx}, H2)
         /\ SpansCover(Row(tx, s), ToSet(ledger) \cup {tx}, Known \cup {tx})
<1> DEFINE g == Segment(tx)
           K2 == Known \cup {tx}
<1>1. /\ RetryInv /\ IInv /\ LedgerStands(home) /\ RefusedIsNext
  BY DEF AnswerInv, LedgerInv, RetryInv
<1>2. /\ s \in Index /\ s.transaction_count # 0
      /\ SpanWith(s, g, tx.tx_nr)
      /\ InSegment(tx) => s = g
      /\ ~InSegment(tx) => DaysOn(s, g, tx) /\ DayIsNoted(s, g, tx)
  BY <1>1, HoldingSpans
<1>3. /\ Held \in SUBSET {tx} /\ Held \subseteq Known /\ Dated(Known) /\ OfOneNumber(K2)
  BY <1>1, KnownWith
<1>4. /\ SegmentDated(g, Known, Held)
      /\ \A n : InSpan(g, n) => \E t \in Known : t.tx_nr = n
  BY AskedIsDated
<1>5. g \in Index /\ tx \in Transaction
  BY <1>1, AskedSegment, SegmentAssumption
<1> HIDE DEF g
<1>6. ASSUME NEW H2
      PROVE  SegmentDated(s, K2, H2)
  <2>1. CASE InSegment(tx)
    <3>1. s = g /\ InSpan(g, tx.tx_nr)
      BY <1>2, <2>1 DEF SpanWith
    <3>2. PICK t \in Known : t.tx_nr = tx.tx_nr
      BY <1>4, <3>1
    <3>3. t = tx
      BY <1>3, <3>2 DEF OfOneNumber
    <3>4. K2 = Known
      BY <3>3
    <3> QED BY <1>2, <1>4, <3>1, <3>4 DEF SegmentDated, StartIsDated
  <2>2. CASE ~InSegment(tx)
    <3>1. DaysOn(s, g, tx) /\ DayIsNoted(s, g, tx)
      BY <1>2, <2>2
    <3> QED BY <1>2, <1>3, <1>4, <1>5, <3>1, DatedWith
  <2> QED BY <2>1, <2>2
<1>7. Learns(K2, Known, tx)
  BY DEF Learns
<1>8. \A H2 : DaysStand(Row(tx, s), K2, H2)
  BY <1>2, <1>6, <1>7, RowIsDated
<1>9. SpansCover(Row(tx, s), ToSet(ledger), K2)
  <2>1. \A n : InSpan(g, n) => InSpan(s, n)
    BY <1>2 DEF SpanWith
  <2>2. \A n : InSpan(s, n) => InSpan(g, n) \/ \E t \in K2 : t.tx_nr = n
    BY <1>2 DEF SpanWith
  <2> QED BY <1>2, <2>1, <2>2, RowIsCovered DEF g
<1>10. \E i \in DOMAIN Row(tx, s) : InSpan(Row(tx, s)[i], tx.tx_nr)
  <2>1. /\ Position(tx) \in DOMAIN Row(tx, s)
        /\ Row(tx, s)[Position(tx)] = s
    BY <1>1, <1>2, RowIs
  <2>2. InSpan(s, tx.tx_nr)
    BY <1>2 DEF SpanWith
  <2> QED BY <2>1, <2>2
<1> QED BY <1>8, <1>9, <1>10 DEF SpansCover

LEMMA RowAfterRefusing ==
  ASSUME NEW home, AnswerInv(home), NEW tx \in Arrivals, Admits(tx), StartsInRow(tx),
         refused \in {tx, NoTransaction}, Accepts(Segment(tx), tx),
         NEW s \in SegmentsRefusing(tx)
  PROVE  /\ DaysStand(Row(tx, s), Known \cup {tx}, {tx})
         /\ SpansCover(Row(tx, s), ToSet(ledger), Known \cup {tx})
<1> DEFINE g == Segment(tx)
           K2 == Known \cup {tx}
<1>1. /\ RetryInv /\ IInv /\ LedgerStands(home) /\ RefusedIsNext
  BY DEF AnswerInv, LedgerInv, RetryInv
<1>2. /\ s \in Index
      /\ SpanAsBefore(s, g) /\ ~InSpan(g, tx.tx_nr)
      /\ s.transaction_count = g.transaction_count
      /\ DaysOn(s, g, tx)
  BY <1>1, RefusingSpans
<1>3. /\ Held \in SUBSET {tx} /\ Held \subseteq Known /\ Dated(Known)
  BY <1>1, KnownWith
<1>4. SegmentDated(g, Known, Held)
  BY AskedIsDated
<1>5. g \in Index /\ tx \in Transaction
  BY <1>1, AskedSegment, SegmentAssumption
<1> HIDE DEF g
<1>6. SegmentDated(s, K2, {tx})
  BY <1>2, <1>3, <1>4, <1>5, DatedWithout
<1>7. Learns(K2, Known, tx)
  BY DEF Learns
<1>8. DaysStand(Row(tx, s), K2, {tx})
  BY <1>2, <1>6, <1>7, RowIsDated
<1>9. SpansCover(Row(tx, s), ToSet(ledger), K2)
  <2>1. \A n : InSpan(g, n) => InSpan(s, n)
    BY <1>2 DEF SpanAsBefore
  <2>2. \A n : InSpan(s, n) => InSpan(g, n) \/ \E t \in K2 : t.tx_nr = n
    BY <1>2 DEF SpanAsBefore
  <2> QED BY <1>2, <2>1, <2>2, RowIsCovered DEF g
<1> QED BY <1>8, <1>9

\* Refused for what it is: at most an empty segment is new.
LEMMA RowAfterDropping ==
  ASSUME NEW home, AnswerInv(home), NEW tx \in Arrivals, Admits(tx), StartsInRow(tx),
         refused \in {tx, NoTransaction}, ~Accepts(Segment(tx), tx),
         NEW s \in SegmentsRefusing(tx)
  PROVE  /\ DaysStand(Row(tx, s), Known, Held)
         /\ SpansCover(Row(tx, s), ToSet(ledger), Known)
<1>1. RetryInv /\ IInv
  BY DEF AnswerInv, LedgerInv, RetryInv
<1>2. s = Segment(tx) /\ s \in Index
  <2>1. s = Segment(tx)
    BY DEF SegmentsRefusing
  <2> QED BY <1>1, <2>1, AskedSegment
<1>3. SegmentDated(s, Known, Held)
  BY <1>2, AskedIsDated
<1>4. Learns(Known, Known, tx)
  BY DEF Learns
<1>5. DaysStand(Row(tx, s), Known, Held)
  BY <1>2, <1>3, <1>4, RowIsDated
<1>6. SpansCover(Row(tx, s), ToSet(ledger), Known)
  BY <1>2, RowIsCovered
<1> QED BY <1>5, <1>6

\* No segment was opened, but more may be held.
LEMMA RowAfterOpening ==
  ASSUME NEW home, AnswerInv(home), NEW tx \in Arrivals, Admits(tx), IsNewSegment(tx),
         refused \in {tx, NoTransaction},
         NEW K2, Learns(K2, Known, tx), NEW H2, Held \subseteq H2
  PROVE  DaysStand(segments, K2, H2) /\ SpansCover(segments, ToSet(ledger), K2)
<1>1. IInv
  BY DEF AnswerInv, LedgerInv, RetryInv
<1>2. ASSUME NEW i \in DOMAIN segments
      PROVE  SegmentDated(segments[i], K2, H2)
  <2>1. i # Position(tx)
    <3>1. segments \in Seq(Index) /\ Position(tx) = Len(segments) + 1
      BY <1>1 DEF IInv, TypeOK, IsNewSegment
    <3> QED BY <3>1
  <2>2. segments[i] \in Index /\ ~InSpan(segments[i], tx.tx_nr)
    BY <1>1, <2>1, ElsewhereSpans
  <2>3. SegmentDated(segments[i], Known, Held)
    BY DEF AnswerInv, DaysStand
  <2>4. Held \in SUBSET {tx} /\ tx \in Transaction
    BY HeldIsAdded, SegmentAssumption
  <2> QED BY <2>2, <2>3, <2>4, DatedElsewhere
<1>3. SpansCover(segments, ToSet(ledger), K2)
  BY DEF AnswerInv, SpansCover, Learns
<1> QED BY <1>2, <1>3 DEF DaysStand

-----------------------------------------------------------------------------
(***************************************************************************)
(* The register's records of one key, where a transaction gives it a type  *)
(* twice.                                                                  *)
(***************************************************************************)
GivesTwice(t, k) ==
  /\ DOMAIN Notes(t) = 1..2
  /\ Notes(t)[1].key = k
  /\ Notes(t)[2].key = k
  /\ Notes(t)[1].type # Notes(t)[2].type

RecordOf(t, i) == [tx_nr |-> t.tx_nr, type |-> Notes(t)[i].type]

LEMMA PrependedInOrder ==
  ASSUME NEW records \in Seq(TypeChange), NEW change \in TypeChange, NEW t, NEW k,
         WrittenInOrder(records, t, k),
         GivesTwice(t, k) /\ change = RecordOf(t, 2) =>
           \E i \in DOMAIN records : records[i] = RecordOf(t, 1)
  PROVE  WrittenInOrder(<<change>> \o records, t, k)
<1> DEFINE longer == <<change>> \o records
<1>1. /\ DOMAIN records = 1..Len(records) /\ Len(records) \in Nat
      /\ DOMAIN longer = 1..(Len(records) + 1)
      /\ longer[1] = change
      /\ \A i \in 1..Len(records) : longer[i + 1] = records[i]
  OBVIOUS
<1> HIDE DEF longer
<1> SUFFICES ASSUME GivesTwice(t, k), NEW j \in DOMAIN longer, longer[j] = RecordOf(t, 2)
             PROVE  \E i \in DOMAIN longer : j < i /\ longer[i] = RecordOf(t, 1)
  BY DEF WrittenInOrder, GivesTwice, RecordOf, longer
<1>2. \A i \in DOMAIN records : i \in Nat /\ i + 1 \in DOMAIN longer /\ 1 < i + 1
                                /\ longer[i + 1] = records[i]
  BY <1>1
<1>3. CASE j = 1
  <2>1. PICK i \in DOMAIN records : records[i] = RecordOf(t, 1)
    BY <1>1, <1>3
  <2> QED BY <1>2, <1>3, <2>1
<1>4. CASE j # 1
  <2>1. j \in Nat /\ j - 1 \in DOMAIN records /\ (j - 1) + 1 = j
    BY <1>1, <1>4
  <2>2. records[j - 1] = RecordOf(t, 2)
    BY <1>2, <2>1
  <2>3. PICK i \in DOMAIN records : j - 1 < i /\ records[i] = RecordOf(t, 1)
    BY <2>1, <2>2 DEF WrittenInOrder, GivesTwice, RecordOf
  <2>4. i + 1 \in DOMAIN longer /\ longer[i + 1] = RecordOf(t, 1) /\ j < i + 1
    BY <1>2, <2>1, <2>3
  <2> QED BY <2>4
<1> QED BY <1>3, <1>4

\* A note that was made is among the records of its key.
LEMMA NotedIsThere ==
  ASSUME NEW changes \in TypeChanges, NEW note \in Note, NEW n \in Nat, note.key \in Keys
  PROVE  \E i \in DOMAIN Noted(changes, note, n)[note.key] :
           Noted(changes, note, n)[note.key][i] = [tx_nr |-> n, type |-> note.type]
<1> DEFINE records == changes[note.key]
<1>1. records \in Seq(TypeChange) /\ note.key # NoKey
  BY BlankAssumption DEF TypeChanges
<1>2. CASE IsNoted(changes, note, n)
  <2>1. PICK i \in DOMAIN records : records[i].type = note.type /\ \A j \in 1..i : records[j].tx_nr = n
    BY <1>2 DEF IsNoted
  <2>2. i \in 1..i /\ records[i] \in TypeChange
    BY <1>1
  <2>3. records[i].tx_nr = n
    BY <2>1, <2>2
  <2>4. records[i] = [tx_nr |-> n, type |-> note.type]
    BY <2>1, <2>2, <2>3 DEF TypeChange
  <2>5. Noted(changes, note, n) = changes
    BY <1>2 DEF Noted
  <2> QED BY <2>4, <2>5
<1>3. CASE ~IsNoted(changes, note, n)
  <2> DEFINE change == [tx_nr |-> n, type |-> note.type]
  <2>1. Noted(changes, note, n)[note.key] = <<change>> \o records
    BY <1>1, <1>3 DEF Noted, TypeChanges
  <2>2. Len(records) \in Nat
    BY <1>1
  <2> HIDE DEF records, change
  <2>3. 1 \in DOMAIN (<<change>> \o records) /\ (<<change>> \o records)[1] = change
    <3>1. \A S : \A r \in Seq(S) : 1 \in DOMAIN (<<change>> \o r) /\ (<<change>> \o r)[1] = change
      OBVIOUS
    <3> QED BY <1>1, <3>1
  <2> QED BY <2>1, <2>3 DEF change
<1> QED BY <1>2, <1>3

\* One note more: the second of a transaction comes after the first.
LEMMA NotedInOrder ==
  ASSUME NEW changes \in TypeChanges, NEW note \in Note, NEW n \in Nat, NEW k \in Keys,
         note.key = NoKey \/ note.type \in AddressTypes,
         NEW t, WrittenInOrder(changes[k], t, k),
         note.key = k /\ GivesTwice(t, k) /\ [tx_nr |-> n, type |-> note.type] = RecordOf(t, 2) =>
           \E i \in DOMAIN changes[k] : changes[k][i] = RecordOf(t, 1)
  PROVE  WrittenInOrder(Noted(changes, note, n)[k], t, k)
<1> DEFINE change == [tx_nr |-> n, type |-> note.type]
<1>1. CASE Noted(changes, note, n)[k] = changes[k]
  BY <1>1
<1>2. CASE k = note.key /\ Noted(changes, note, n)[k] = <<change>> \o changes[k]
  <2>1. change \in TypeChange
    <3>1. note.type \in AddressTypes
      BY <1>2, BlankAssumption
    <3> QED BY <3>1 DEF TypeChange
  <2>2. changes[k] \in Seq(TypeChange)
    BY DEF TypeChanges
  <2>3. GivesTwice(t, k) /\ change = RecordOf(t, 2) =>
          \E i \in DOMAIN changes[k] : changes[k][i] = RecordOf(t, 1)
    BY <1>2
  <2> HIDE DEF change
  <2> QED BY <1>2, <2>1, <2>2, <2>3, PrependedInOrder
<1> QED BY <1>1, <1>2, NotedPrepends

\* However far an add came.
LEMMA ChangesInOrder ==
  ASSUME NEW register \in Register, NEW tx \in Transaction, NEW place \in Nat,
         UnknownTypes(tx) = {}, NEW k \in Keys,
         NEW t, t = tx \/ t.tx_nr # tx.tx_nr, WrittenInOrder(register.changes[k], t, k)
  PROVE  WrittenInOrder(ChangesBefore(register, tx, place)[k], t, k)
<1> DEFINE n == tx.tx_nr
           notes == Notes(tx)
           Done(i) == IsNote(tx, i) /\ At(i, 3) < place
           once == IF Done(1) THEN Noted(register.changes, notes[1], n) ELSE register.changes
<1>1. ChangesBefore(register, tx, place) =
        IF Done(2) THEN Noted(once, notes[2], n) ELSE once
  BY DEF ChangesBefore
<1>2. register.changes \in TypeChanges /\ n \in Nat
  BY DEF Register, TypeChanges, Transaction
<1>3. DOMAIN notes = 1..Len(notes) /\ Len(notes) \in Nat
  BY NotesType
<1>4. \A i : Done(i) => /\ i \in DOMAIN notes /\ notes[i] \in Note
                        /\ notes[i].key = NoKey \/ notes[i].type \in AddressTypes
  <2>1. \A u \in UnknownTypes(tx) : place <= u
    OBVIOUS
  <2>2. \A i \in DOMAIN notes : At(i, 3) < place =>
          /\ notes[i] \in Note
          /\ notes[i].key = NoKey \/ notes[i].type \in AddressTypes
    BY <2>1, NotesPassedAreKnown
  <2> QED BY <1>3, <2>2 DEF IsNote
<1>5. Done(2) => Done(1)
  <2>1. 2 \in 1..Len(notes) => 1 \in 1..Len(notes)
    BY <1>3
  <2>2. At(2, 3) < place => At(1, 3) < place
    BY DEF At
  <2> QED BY <2>1, <2>2 DEF IsNote
<1>6. \A i : [tx_nr |-> n, type |-> notes[i].type] = RecordOf(tx, i)
  BY DEF RecordOf
<1>7. t # tx => \A i, j : RecordOf(tx, i) # RecordOf(t, j)
  BY DEF RecordOf
<1> HIDE DEF Done, notes
<1>8. once \in TypeChanges
  BY <1>2, <1>4, NotedType
<1>9. WrittenInOrder(once[k], t, k)
  <2>1. GivesTwice(t, k) => RecordOf(tx, 1) # RecordOf(t, 2)
    <3>1. CASE t = tx
      BY <3>1 DEF GivesTwice, RecordOf
    <3> QED BY <1>7, <3>1
  <2>2. CASE Done(1)
    <3>1. WrittenInOrder(Noted(register.changes, notes[1], n)[k], t, k)
      <4>1. [tx_nr |-> n, type |-> notes[1].type] = RecordOf(tx, 1)
        BY <1>6
      <4> QED BY <1>2, <1>4, <2>1, <2>2, <4>1, NotedInOrder
    <3> QED BY <2>2, <3>1
  <2> QED BY <2>2
<1>10. CASE Done(2)
  <2>1. notes[2].key = k /\ GivesTwice(t, k) /\ RecordOf(tx, 2) = RecordOf(t, 2) =>
          \E i \in DOMAIN once[k] : once[k][i] = RecordOf(t, 1)
    <3> HAVE notes[2].key = k /\ GivesTwice(t, k) /\ RecordOf(tx, 2) = RecordOf(t, 2)
    <3>1. t = tx /\ notes[1].key = k
      BY <1>7 DEF GivesTwice, notes
    <3>2. once = Noted(register.changes, notes[1], n)
      BY <1>5, <1>10
    <3>3. notes[1] \in Note
      BY <1>4, <1>5, <1>10
    <3>4. PICK i \in DOMAIN once[k] : once[k][i] = [tx_nr |-> n, type |-> notes[1].type]
      BY <1>2, <3>1, <3>2, <3>3, NotedIsThere
    <3> QED BY <1>6, <3>1, <3>4
  <2>2. [tx_nr |-> n, type |-> notes[2].type] = RecordOf(tx, 2)
    BY <1>6
  <2>3. notes[2] \in Note /\ (notes[2].key = NoKey \/ notes[2].type \in AddressTypes)
    BY <1>4, <1>10
  <2> HIDE DEF once
  <2>4. WrittenInOrder(Noted(once, notes[2], n)[k], t, k)
    BY <1>2, <1>8, <1>9, <2>1, <2>2, <2>3, NotedInOrder
  <2> QED BY <1>1, <1>10, <2>4
<1>11. CASE ~Done(2)
  BY <1>1, <1>9, <1>11
<1> QED BY <1>10, <1>11

\* The register an add leaves, whether it went through or was refused.
LEMMA RegisterInOrder ==
  ASSUME NEW register \in Register, NEW tx \in Transaction, UnknownTypes(tx) = {},
         NEW w \in RegisterAdded(register, tx) \cup RegisterRefused(register, tx),
         NEW k \in Keys,
         NEW t, t = tx \/ t.tx_nr # tx.tx_nr, WrittenInOrder(register.changes[k], t, k)
  PROVE  WrittenInOrder(w.changes[k], t, k)
<1>1. \A u \in UnknownTypes(tx) : \A p : p <= u
  OBVIOUS
<1>2. \E place \in Nat : \E r \in RegisterBefore(register, tx, place) : w.changes = r.changes
  <2>1. CASE w \in RegisterAdded(register, tx)
    <3>1. EndOfAsks(tx) \in Nat
      BY AsksType
    <3>2. PICK r \in RegisterBefore(register, tx, EndOfAsks(tx)) :
            w = [r EXCEPT !.max_tx_nr = tx.tx_nr,
                          !.transaction_count = (r.transaction_count + 1) % (MaxU32 + 1)]
      BY <2>1 DEF RegisterAdded
    <3>3. r \in Register
      BY <1>1, <3>1, RegisterBeforeType
    <3>4. w.changes = r.changes
      BY <3>2, <3>3 DEF Register
    <3> QED BY <3>1, <3>4
  <2>2. CASE w \in RegisterRefused(register, tx)
    <3>1. PICK place \in RoomPlaces(register, tx) \cup UnknownTypes(tx) :
            w \in RegisterBefore(register, tx, place)
      BY <2>2, Zenon DEF RegisterRefused
    <3>2. place \in Nat
      BY <3>1, RegisterPlacesType
    <3> QED BY <3>1, <3>2
  <2> QED BY <2>1, <2>2
<1>3. PICK place \in Nat : \E r \in RegisterBefore(register, tx, place) : w.changes = r.changes
  BY <1>2
<1>4. w.changes = ChangesBefore(register, tx, place)
  BY <1>1, <1>3, RegisterFinds
<1>5. WrittenInOrder(ChangesBefore(register, tx, place)[k], t, k)
  BY ChangesInOrder
<1> QED BY <1>4, <1>5

\* A transaction that is not held has no record yet.
LEMMA NewIsInOrder ==
  ASSUME NEW home, AnswerInv(home), NEW tx \in Arrivals, Admits(tx),
         refused \in {tx, NoTransaction}
  PROVE  NotesStand(addresses.changes, Known \cup {tx})
<1>1. /\ IInv /\ NotesStand(addresses.changes, Known)
      /\ TypesStand(Gives(addresses.changes), max_tx_nr, Held)
  BY DEF AnswerInv, LedgerInv, RetryInv
<1>2. Held \in SUBSET {tx} /\ Held \subseteq Known
  BY HeldIsAdded DEF Known
<1>3. CASE tx \in Known
  <2>1. Known \cup {tx} = Known
    BY <1>3
  <2> QED BY <1>1, <2>1
<1>4. CASE tx \notin Known
  <2>1. Held = {}
    BY <1>2, <1>4
  <2>2. tx.tx_nr \in Nat /\ max_tx_nr \in Nat /\ max_tx_nr < tx.tx_nr
    BY <1>1, AdmittedIsNew
  <2>3. ASSUME NEW k \in Keys, NEW j \in DOMAIN addresses.changes[k]
        PROVE  addresses.changes[k][j].tx_nr # tx.tx_nr
    <3> DEFINE c == addresses.changes[k][j]
    <3>1. c \in L!Entries(addresses.changes[k])
      BY DEF L!Entries
    <3>2. <<k, c.tx_nr, c.type>> \in Gives(addresses.changes)
      BY <3>1, GivesAre
    <3> HIDE DEF c
    <3>3. c.tx_nr <= max_tx_nr
      BY <1>1, <2>1, <3>2 DEF TypesStand
    <3> QED BY <2>2, <3>3 DEF c
  <2>4. \A k \in Keys : WrittenInOrder(addresses.changes[k], tx, k)
    BY <2>3 DEF WrittenInOrder
  <2> QED BY <1>1, <2>4 DEF NotesStand
<1> QED BY <1>3, <1>4

LEMMA NotesAfter ==
  ASSUME NEW home, AnswerInv(home), NEW tx \in Arrivals, UnknownTypes(tx) = {},
         refused \in {tx, NoTransaction}, AddOrRefuse(tx)
  PROVE  NotesStand(addresses'.changes, Known \cup {tx})
<1>1. /\ Admits(tx)
      /\ \/ addresses' = addresses
         \/ addresses' \in RegisterAdded(addresses, tx) \cup RegisterRefused(addresses, tx)
  BY AddsRegister
<1>2. NotesStand(addresses.changes, Known \cup {tx})
  BY <1>1, NewIsInOrder
<1>3. IInv /\ LedgerStands(home) /\ RefusedIsNext
  BY DEF AnswerInv, LedgerInv, RetryInv
<1>4. addresses \in Register /\ tx \in Transaction
  BY <1>3, SegmentAssumption DEF IInv, TypeOK
<1>5. OfOneNumber(Known \cup {tx})
  BY <1>1, <1>3, KnownWith
<1>6. CASE addresses' \in RegisterAdded(addresses, tx) \cup RegisterRefused(addresses, tx)
  <2> SUFFICES ASSUME NEW k \in Keys, NEW t \in Known \cup {tx}
               PROVE  WrittenInOrder(addresses'.changes[k], t, k)
    BY DEF NotesStand
  <2>1. t = tx \/ t.tx_nr # tx.tx_nr
    BY <1>5 DEF OfOneNumber
  <2>2. WrittenInOrder(addresses.changes[k], t, k)
    BY <1>2 DEF NotesStand
  <2> QED BY <1>4, <1>6, <2>1, <2>2, RegisterInOrder
<1> QED BY <1>1, <1>2, <1>6

-----------------------------------------------------------------------------
(***************************************************************************)
(* The ledger beside the chain, in every step.                             *)
(***************************************************************************)
SaidBy(t, home) == L!Roles(t, home) \X {t.tx_nr}
FactsSaid(A, home) == UNION {SaidBy(t, home) : t \in A}
TypesSaid(A) == UNION {L!Given(t) : t \in A}

LEMMA SaidWith ==
  ASSUME NEW A, NEW home, NEW tx
  PROVE  /\ FactsSaid(A \cup {tx}, home) = FactsSaid(A, home) \cup SaidBy(tx, home)
         /\ TypesSaid(A \cup {tx}) = TypesSaid(A) \cup L!Given(tx)
<1>1. FactsSaid(A \cup {tx}, home) = FactsSaid(A, home) \cup SaidBy(tx, home)
  BY DEF FactsSaid
<1>2. TypesSaid(A \cup {tx}) = TypesSaid(A) \cup L!Given(tx)
  <2> DEFINE Of(t) == L!Given(t)
  <2>1. TypesSaid(A \cup {tx}) = UNION {Of(t) : t \in A \cup {tx}}
    BY DEF TypesSaid
  <2>2. TypesSaid(A) = UNION {Of(t) : t \in A}
    BY DEF TypesSaid
  <2> HIDE DEF Of
  <2>3. UNION {Of(t) : t \in A \cup {tx}} = (UNION {Of(t) : t \in A}) \cup Of(tx)
    OBVIOUS
  <2> QED BY <2>1, <2>2, <2>3 DEF Of
<1> QED BY <1>1, <1>2

LEMMA Appended ==
  ASSUME NEW A, NEW run \in Seq(A), NEW tx \in A
  PROVE  /\ Append(run, tx) \in Seq(A)
         /\ Len(Append(run, tx)) = Len(run) + 1
         /\ Len(run) \in Nat /\ DOMAIN run = 1..Len(run)
         /\ DOMAIN Append(run, tx) = 1..(Len(run) + 1)
         /\ \A i \in DOMAIN run : Append(run, tx)[i] = run[i]
         /\ Append(run, tx)[Len(run) + 1] = tx
         /\ ToSet(Append(run, tx)) = ToSet(run) \cup {tx}
<1>1. /\ Append(run, tx) \in Seq(A)
      /\ Len(Append(run, tx)) = Len(run) + 1
      /\ Len(run) \in Nat /\ DOMAIN run = 1..Len(run)
      /\ DOMAIN Append(run, tx) = 1..(Len(run) + 1)
      /\ \A i \in DOMAIN run : Append(run, tx)[i] = run[i]
      /\ Append(run, tx)[Len(run) + 1] = tx
  OBVIOUS
<1> DEFINE more == Append(run, tx)
<1>2. ToSet(run) = {run[i] : i \in DOMAIN run} /\ ToSet(more) = {more[i] : i \in DOMAIN more}
  BY DEF ToSet
<1> HIDE DEF more
<1>3. DOMAIN more = DOMAIN run \cup {Len(run) + 1}
  BY <1>1 DEF more
<1>4. /\ \A i \in DOMAIN run : more[i] = run[i]
      /\ more[Len(run) + 1] = tx
  BY <1>1 DEF more
<1>5. ToSet(more) = ToSet(run) \cup {tx}
  BY <1>2, <1>3, <1>4
<1> QED BY <1>1, <1>5 DEF more

LEMMA LedgerAfterAdd ==
  ASSUME NEW home, AnswerInv(home), LedgerInv(home)', NEW tx \in Arrivals, tx.community = home,
         UnknownTypes(tx) = {}, refused \in {tx, NoTransaction}, StartsInRow(tx), Add(tx),
         ledger' = Append(ledger, tx)
  PROVE  LedgerStands(home)' /\ ToSet(ledger') = ToSet(ledger) \cup {tx}
<1>1. LedgerInv(home) /\ LedgerStands(home) /\ IInv /\ IInv'
  BY DEF AnswerInv, LedgerInv, RetryInv
<1>2. /\ ledger \in Seq(Arrivals)
      /\ Len(ledger) = transaction_count
      /\ \A i \in DOMAIN ledger : ledger[i].tx_nr = min_tx_nr + i - 1
      /\ CountedFacts = FactsSaid(ToSet(ledger), home)
      /\ CountedTypes = TypesSaid(ToSet(ledger))
  BY <1>1 DEF LedgerStands, FactsSaid, TypesSaid, SaidBy
<1>3. L!Enter(tx)
  BY <1>1, AddEnters
<1>4. /\ max_tx_nr' = tx.tx_nr /\ transaction_count' = transaction_count + 1
      /\ min_tx_nr' = IF transaction_count = 0 THEN tx.tx_nr ELSE min_tx_nr
      /\ Admits(tx)
  BY DEF Add
<1>5. transaction_count \in Nat /\ min_tx_nr \in Nat /\ tx.tx_nr \in Nat /\ segments' \in Seq(Index)
  BY <1>1, <1>4, AdmittedIsNew DEF IInv, TypeOK
<1>6. (IF transaction_count' = 0 THEN NoCommunity ELSE segments'[1].community) = home
  <2>1. HomeStands(segments', transaction_count', home)
    BY DEF LedgerInv
  <2>2. transaction_count' # 0
    BY <1>4, <1>5
  <2> QED BY <1>5, <2>1, <2>2, HomeIs
<1>7. CountedFacts' = CountedFacts \cup SaidBy(tx, home)
  BY <1>3, <1>6 DEF L!Enter, SaidBy
<1>8. CountedTypes' = CountedTypes \cup L!Given(tx)
  BY <1>3 DEF L!Enter
<1>9. /\ ledger' \in Seq(Arrivals)
      /\ Len(ledger') = Len(ledger) + 1
      /\ DOMAIN ledger = 1..Len(ledger)
      /\ DOMAIN ledger' = 1..(Len(ledger) + 1)
      /\ \A i \in DOMAIN ledger : ledger'[i] = ledger[i]
      /\ ledger'[Len(ledger) + 1] = tx
      /\ ToSet(ledger') = ToSet(ledger) \cup {tx}
  BY <1>2, Appended
<1>10. ASSUME NEW i \in DOMAIN ledger'
       PROVE  ledger'[i].tx_nr = min_tx_nr' + i - 1
  <2>1. CASE i \in DOMAIN ledger
    <3>1. transaction_count # 0 /\ i \in Nat
      BY <1>2, <1>5, <1>9, <2>1
    <3> QED BY <1>2, <1>4, <1>9, <2>1, <3>1
  <2>2. CASE i \notin DOMAIN ledger
    <3>1. i = transaction_count + 1 /\ ledger'[i] = tx
      BY <1>2, <1>5, <1>9, <2>2
    <3>2. CASE transaction_count = 0
      BY <1>4, <1>5, <3>1, <3>2
    <3>3. CASE transaction_count # 0
      <4>1. max_tx_nr = min_tx_nr + transaction_count - 1 /\ tx.tx_nr = max_tx_nr + 1
        BY <1>1, <1>4, <3>3 DEF IInv, Admits
      <4> QED BY <1>4, <1>5, <3>1, <3>3, <4>1
    <3> QED BY <3>2, <3>3
  <2> QED BY <2>1, <2>2
<1>11. /\ CountedFacts' = FactsSaid(ToSet(ledger'), home)
       /\ CountedTypes' = TypesSaid(ToSet(ledger'))
  <2>1. /\ FactsSaid(ToSet(ledger) \cup {tx}, home) = FactsSaid(ToSet(ledger), home) \cup SaidBy(tx, home)
        /\ TypesSaid(ToSet(ledger) \cup {tx}) = TypesSaid(ToSet(ledger)) \cup L!Given(tx)
    BY SaidWith
  <2>2. CountedFacts' = FactsSaid(ToSet(ledger'), home)
    BY <1>2, <1>7, <1>9, <2>1
  <2>3. CountedTypes' = TypesSaid(ToSet(ledger'))
    BY <1>2, <1>8, <1>9, <2>1
  <2> QED BY <2>2, <2>3
<1>12. ledger' \in Seq(Arrivals) /\ Len(ledger') = transaction_count'
  BY <1>2, <1>4, <1>9
<1> QED BY <1>9, <1>10, <1>11, <1>12 DEF LedgerStands, FactsSaid, TypesSaid, SaidBy

LEMMA LedgerAfterRefusal ==
  ASSUME NEW home, AnswerInv(home), LedgerInv(home)', LeavesLedger, ledger' = ledger
  PROVE  LedgerStands(home)' /\ ToSet(ledger') = ToSet(ledger)
<1>1. LedgerInv(home) /\ LedgerStands(home)
  BY DEF AnswerInv
<1>2. /\ ledger \in Seq(Arrivals)
      /\ Len(ledger) = transaction_count
      /\ \A i \in DOMAIN ledger : ledger[i].tx_nr = min_tx_nr + i - 1
      /\ CountedFacts = FactsSaid(ToSet(ledger), home)
      /\ CountedTypes = TypesSaid(ToSet(ledger))
  BY <1>1 DEF LedgerStands, FactsSaid, TypesSaid, SaidBy
<1>3. UNCHANGED L!ledgerVars
  BY <1>1, RefusalStutters
<1>4. CountedFacts' = CountedFacts /\ CountedTypes' = CountedTypes
  BY <1>3 DEF L!ledgerVars
<1>5. transaction_count' = transaction_count /\ min_tx_nr' = min_tx_nr
  BY DEF LeavesLedger, counters
<1>6. /\ CountedFacts' = FactsSaid(ToSet(ledger'), home)
      /\ CountedTypes' = TypesSaid(ToSet(ledger'))
  BY <1>2, <1>4
<1> QED BY <1>2, <1>5, <1>6 DEF LedgerStands, FactsSaid, TypesSaid, SaidBy

LEMMA NoLedgerStands ==
  ASSUME NEW home, Emptied, ledger' = <<>>
  PROVE  LedgerStands(home)' /\ ToSet(ledger') = {}
<1>1. /\ segments' = <<>> /\ addresses' = EmptyRegister
      /\ min_tx_nr' = 0 /\ max_tx_nr' = 0 /\ transaction_count' = 0
  BY DEF Emptied
<1>2. CountedFacts' = {} /\ CountedTypes' = {}
  BY <1>1, CountedAreNext, NothingIsCounted
<1>3. ToSet(ledger') = {}
  BY DEF ToSet
<1>4. FactsSaid({}, home) = {} /\ TypesSaid({}) = {}
  BY DEF FactsSaid, TypesSaid
<1>5. CountedFacts' = FactsSaid(ToSet(ledger'), home) /\ CountedTypes' = TypesSaid(ToSet(ledger'))
  BY <1>2, <1>3, <1>4
<1>6. ledger' \in Seq(Arrivals) /\ Len(ledger') = 0 /\ DOMAIN ledger' = {}
  OBVIOUS
<1> QED BY <1>1, <1>3, <1>5, <1>6 DEF LedgerStands, FactsSaid, TypesSaid, SaidBy

-----------------------------------------------------------------------------
(***************************************************************************)
(* Each way an add may end keeps the invariant.                            *)
(***************************************************************************)
LEMMA CoversFewer ==
  ASSUME NEW row, NEW A, NEW K, NEW B \in SUBSET A, SpansCover(row, A, K)
  PROVE  SpansCover(row, B, K)
  BY DEF SpansCover

LEMMA FewerInOrder ==
  ASSUME NEW changes, NEW K, NEW K2 \in SUBSET K, NotesStand(changes, K)
  PROVE  NotesStand(changes, K2)
  BY DEF NotesStand

LEMMA AddKeepsAnswers ==
  ASSUME NEW home, AnswerInv(home), LedgerInv(home)', NEW tx \in Arrivals, tx.community = home,
         UnknownTypes(tx) = {}, refused \in {tx, NoTransaction}, StartsInRow(tx), Add(tx),
         ledger' = Append(ledger, tx)
  PROVE  AnswerInv(home)'
<1>1. Admits(tx) /\ refused' = NoTransaction /\ IInv /\ LedgerStands(home) /\ RefusedIsNext
  BY DEF Add, AnswerInv, LedgerInv, RetryInv
<1>2. LedgerStands(home)' /\ ToSet(ledger') = ToSet(ledger) \cup {tx}
  BY LedgerAfterAdd
<1>3. Held' = {}
  BY <1>1, NothingIsHeld
<1>4. Known' = Known \cup {tx}
  <2>1. Known \cup {tx} = ToSet(ledger) \cup {tx}
    BY <1>1, KnownWith
  <2>2. Known' = ToSet(ledger') \cup Held'
    BY DEF Known
  <2> QED BY <1>2, <1>3, <2>1, <2>2
<1>5. RefusedIsNext'
  BY <1>1, SegmentAssumption DEF RefusedIsNext
<1>6. PICK s \in SegmentsHolding(tx) : segments' = Row(tx, s)
  BY DEF Add
<1>7. /\ DaysStand(Row(tx, s), Known \cup {tx}, {})
      /\ SpansCover(Row(tx, s), ToSet(ledger) \cup {tx}, Known \cup {tx})
  BY <1>1, RowAfterHolding
<1>8. DaysStand(segments', Known', Held') /\ SpansCover(segments', ToSet(ledger'), Known')
  BY <1>2, <1>3, <1>4, <1>6, <1>7
<1>9. NotesStand(addresses'.changes, Known')
  BY <1>4, NotesAfter DEF AddOrRefuse
<1> QED BY <1>2, <1>5, <1>8, <1>9 DEF AnswerInv

LEMMA RegisterRefusalKeepsAnswers ==
  ASSUME NEW home, AnswerInv(home), LedgerInv(home)', LeavesLedger,
         NEW tx \in Arrivals, tx.community = home,
         UnknownTypes(tx) = {}, refused \in {tx, NoTransaction}, StartsInRow(tx),
         RefusedInRegister(tx), ledger' = ledger
  PROVE  AnswerInv(home)'
<1>1. Admits(tx) /\ RetryInv /\ IInv /\ LedgerStands(home) /\ RefusedIsNext
  BY DEF RefusedInRegister, AnswerInv, LedgerInv, RetryInv
<1>2. LedgerStands(home)' /\ ToSet(ledger') = ToSet(ledger)
  BY LedgerAfterRefusal
<1>3. Held' = {tx}
  BY <1>1, HeldByRegister
<1>4. Known' = Known \cup {tx}
  <2>1. Known \cup {tx} = ToSet(ledger) \cup {tx}
    BY <1>1, KnownWith
  <2>2. Known' = ToSet(ledger') \cup Held'
    BY DEF Known
  <2> QED BY <1>2, <1>3, <2>1, <2>2
<1>5. RefusedIsNext'
  BY <1>1 DEF RefusedIsNext, RefusedInRegister, Admits, counters
<1>6. PICK s \in SegmentsHolding(tx) : segments' = Row(tx, s)
  BY DEF RefusedInRegister
<1>7. /\ DaysStand(Row(tx, s), Known \cup {tx}, {tx})
      /\ SpansCover(Row(tx, s), ToSet(ledger) \cup {tx}, Known \cup {tx})
  BY <1>1, RowAfterHolding
<1>8. SpansCover(Row(tx, s), ToSet(ledger), Known \cup {tx})
  <2>1. ToSet(ledger) \in SUBSET (ToSet(ledger) \cup {tx})
    OBVIOUS
  <2> QED BY <1>7, <2>1, CoversFewer
<1>9. DaysStand(segments', Known', Held') /\ SpansCover(segments', ToSet(ledger'), Known')
  BY <1>2, <1>3, <1>4, <1>6, <1>7, <1>8
<1>10. NotesStand(addresses'.changes, Known')
  BY <1>4, NotesAfter DEF AddOrRefuse
<1> QED BY <1>2, <1>5, <1>9, <1>10 DEF AnswerInv

LEMMA SegmentRefusalKeepsAnswers ==
  ASSUME NEW home, AnswerInv(home), LedgerInv(home)', LeavesLedger,
         NEW tx \in Arrivals, tx.community = home,
         refused \in {tx, NoTransaction}, StartsInRow(tx),
         RefusedInSegment(tx), ledger' = ledger
  PROVE  AnswerInv(home)'
<1>1. /\ Admits(tx) /\ IInv /\ LedgerInv(home) /\ LedgerStands(home) /\ RefusedIsNext
      /\ NotesStand(addresses.changes, Known)
  BY DEF RefusedInSegment, AnswerInv, LedgerInv, RetryInv
<1>2. LedgerStands(home)' /\ ToSet(ledger') = ToSet(ledger)
  BY LedgerAfterRefusal
<1>3. /\ addresses' = addresses
      /\ refused' = IF Accepts(Segment(tx), tx) THEN tx ELSE NoTransaction
      /\ max_tx_nr' = max_tx_nr /\ transaction_count' = transaction_count
  BY DEF RefusedInSegment, counters
<1>4. RefusedIsNext'
  BY <1>1, <1>3, SegmentAssumption DEF RefusedIsNext, Admits
<1>5. PICK s \in SegmentsRefusing(tx) : segments' = Row(tx, s)
  BY DEF RefusedInSegment
<1>6. Known' = ToSet(ledger') \cup Held'
  BY DEF Known
<1>7. CASE Accepts(Segment(tx), tx)
  <2>1. Held' = {tx}
    BY <1>1, <1>7, HeldBySegment
  <2>2. Known' = Known \cup {tx}
    <3>1. Known \cup {tx} = ToSet(ledger) \cup {tx}
      BY <1>1, KnownWith
    <3> QED BY <1>2, <1>6, <2>1, <3>1
  <2>3. /\ DaysStand(Row(tx, s), Known \cup {tx}, {tx})
        /\ SpansCover(Row(tx, s), ToSet(ledger), Known \cup {tx})
    BY <1>1, <1>7, RowAfterRefusing
  <2>4. DaysStand(segments', Known', Held') /\ SpansCover(segments', ToSet(ledger'), Known')
    BY <1>2, <1>5, <2>1, <2>2, <2>3
  <2>5. NotesStand(addresses'.changes, Known')
    BY <1>1, <1>3, <2>2, NewIsInOrder
  <2> QED BY <1>2, <1>4, <2>4, <2>5 DEF AnswerInv
<1>8. CASE ~Accepts(Segment(tx), tx)
  <2>1. Held = {} /\ Held' = {}
    BY <1>1, <1>8, HeldBySegment
  <2>2. Known' = Known
    BY <1>2, <1>6, <2>1 DEF Known
  <2>3. /\ DaysStand(Row(tx, s), Known, Held)
        /\ SpansCover(Row(tx, s), ToSet(ledger), Known)
    BY <1>1, <1>8, RowAfterDropping
  <2>4. DaysStand(segments', Known', Held') /\ SpansCover(segments', ToSet(ledger'), Known')
    BY <1>2, <1>5, <2>1, <2>2, <2>3
  <2>5. NotesStand(addresses'.changes, Known')
    BY <1>1, <1>3, <2>2
  <2> QED BY <1>2, <1>4, <2>4, <2>5 DEF AnswerInv
<1> QED BY <1>7, <1>8

LEMMA OpeningRefusalKeepsAnswers ==
  ASSUME NEW home, AnswerInv(home), LedgerInv(home)', LeavesLedger,
         NEW tx \in Arrivals, refused \in {tx, NoTransaction}, RefusedOpening(tx), ledger' = ledger
  PROVE  AnswerInv(home)'
<1>1. /\ Admits(tx) /\ IsNewSegment(tx)
      /\ IInv /\ LedgerStands(home) /\ RefusedIsNext
  BY DEF RefusedOpening, AnswerInv, LedgerInv, RetryInv
<1>2. LedgerStands(home)' /\ ToSet(ledger') = ToSet(ledger)
  BY LedgerAfterRefusal
<1>3. /\ addresses' = addresses /\ segments' = segments /\ refused' = tx
      /\ max_tx_nr' = max_tx_nr /\ transaction_count' = transaction_count
  BY DEF RefusedOpening, counters
<1>4. RefusedIsNext'
  BY <1>1, <1>3 DEF RefusedIsNext, Admits
<1>5. Held \subseteq Held' /\ Held' \subseteq {tx}
  <2>1. Held' \subseteq {tx}
    BY <1>3 DEF Held
  <2> QED BY <2>1, HeldByOpening
<1>6. Known' = ToSet(ledger') \cup Held'
  BY DEF Known
<1>7. Learns(Known', Known, tx)
  BY <1>2, <1>5, <1>6 DEF Learns, Known
<1>8. DaysStand(segments', Known', Held') /\ SpansCover(segments', ToSet(ledger'), Known')
  <2>1. DaysStand(segments, Known', Held') /\ SpansCover(segments, ToSet(ledger), Known')
    BY <1>1, <1>5, <1>7, RowAfterOpening
  <2> QED BY <1>2, <1>3, <2>1
<1>9. NotesStand(addresses'.changes, Known')
  <2>1. NotesStand(addresses.changes, Known \cup {tx})
    BY <1>1, NewIsInOrder
  <2>2. Known' \in SUBSET (Known \cup {tx})
    BY <1>7 DEF Learns
  <2>3. NotesStand(addresses.changes, Known')
    BY <2>1, <2>2, FewerInOrder
  <2> QED BY <1>3, <2>3
<1> QED BY <1>2, <1>4, <1>8, <1>9 DEF AnswerInv

LEMMA NothingIsKnown ==
  ASSUME NEW changes, NEW H
  PROVE  /\ SpansCover(<<>>, {}, {})
         /\ DaysStand(<<>>, {}, H)
         /\ NotesStand(changes, {})
  BY DEF SpansCover, DaysStand, NotesStand

LEMMA EmptiedKeepsAnswers ==
  ASSUME NEW home, LedgerInv(home)', Emptied, ledger' = <<>>
  PROVE  AnswerInv(home)'
<1>1. segments' = <<>> /\ refused' = NoTransaction
  BY DEF Emptied
<1>2. LedgerStands(home)' /\ ToSet(ledger') = {}
  BY NoLedgerStands
<1>3. Held' = {}
  BY <1>1, NothingIsHeld
<1>4. Known' = {}
  <2>1. Known' = ToSet(ledger') \cup Held'
    BY DEF Known
  <2> QED BY <1>2, <1>3, <2>1
<1>5. RefusedIsNext'
  BY <1>1, SegmentAssumption DEF RefusedIsNext
<1>6. /\ SpansCover(segments', ToSet(ledger'), Known')
      /\ DaysStand(segments', Known', Held')
      /\ NotesStand(addresses'.changes, Known')
  BY <1>1, <1>2, <1>4, NothingIsKnown
<1> QED BY <1>2, <1>5, <1>6 DEF AnswerInv

LEMMA InitAnswerInv ==
  ASSUME NEW home, InitLedger
  PROVE  AnswerInv(home)
<1>1. /\ Init /\ ledger = <<>> /\ segments = <<>> /\ addresses = EmptyRegister
      /\ refused = NoTransaction
      /\ min_tx_nr = 0 /\ max_tx_nr = 0 /\ transaction_count = 0
  BY DEF InitLedger, Init
<1>2. LedgerInv(home)
  BY <1>1, InitLedgerInv
<1>3. Held = {} /\ ToSet(ledger) = {} /\ Known = {}
  <2>1. Held = {}
    BY <1>1, SegmentAssumption DEF Held
  <2>2. ToSet(ledger) = {}
    BY <1>1 DEF ToSet
  <2> QED BY <2>1, <2>2 DEF Known
<1>4. LedgerStands(home)
  <2>1. CountedFacts = {} /\ CountedTypes = {}
    BY <1>1, CountedAre, NothingIsCounted
  <2>2. FactsSaid({}, home) = {} /\ TypesSaid({}) = {}
    BY DEF FactsSaid, TypesSaid
  <2>3. ledger \in Seq(Arrivals) /\ Len(ledger) = 0 /\ DOMAIN ledger = {}
    BY <1>1
  <2> QED BY <1>1, <1>3, <2>1, <2>2, <2>3 DEF LedgerStands, FactsSaid, TypesSaid, SaidBy
<1>5. RefusedIsNext
  BY <1>1, SegmentAssumption DEF RefusedIsNext
<1>6. /\ SpansCover(segments, ToSet(ledger), Known)
      /\ DaysStand(segments, Known, Held)
      /\ NotesStand(addresses.changes, Known)
  BY <1>1, <1>3, NothingIsKnown
<1> QED BY <1>2, <1>4, <1>5, <1>6 DEF AnswerInv

LEMMA StutterKeepsAnswers ==
  ASSUME NEW home, AnswerInv(home), LedgerInv(home)', UNCHANGED answerVars
  PROVE  AnswerInv(home)'
<1>1. /\ UNCHANGED vars /\ ledger' = ledger /\ segments' = segments /\ addresses' = addresses
      /\ refused' = refused /\ max_tx_nr' = max_tx_nr /\ transaction_count' = transaction_count
  BY DEF answerVars, vars, counters
<1>2. LedgerInv(home) /\ RetryInv'
  BY DEF AnswerInv, LedgerInv
<1>3. LeavesLedger
  BY <1>1, <1>2, StutterKeeps
<1>4. LedgerStands(home)'
  BY <1>1, <1>3, LedgerAfterRefusal
<1>5. Held' = Held /\ Known' = Known
  BY <1>1, HeldStays DEF Known
<1>6. RefusedIsNext'
  BY <1>1 DEF RefusedIsNext, AnswerInv
<1> QED BY <1>1, <1>4, <1>5, <1>6 DEF AnswerInv

\* The invariant is inductive for the documented caller.
LEMMA EveryStepAnswers ==
  ASSUME NEW home, AnswerInv(home), [NextLedger]_answerVars,
         \A tx \in Arrivals : tx.community = home /\ UnknownTypes(tx) = {}
  PROVE  AnswerInv(home)'
<1>1. LedgerInv(home) /\ RetryInv
  BY DEF AnswerInv, LedgerInv
<1>2. LedgerInv(home)' /\ RetryInv'
  BY <1>1, EveryStep DEF LedgerInv
<1>3. CASE Lifecycle /\ ledger' = <<>>
  <2>1. Emptied
    BY <1>3 DEF Lifecycle, Initialise, Release, Reset
  <2> QED BY <1>2, <1>3, <2>1, EmptiedKeepsAnswers
<1>4. ASSUME NEW tx \in Arrivals, Deliver(tx)
      PROVE  AnswerInv(home)'
  <2>1. refused \in {tx, NoTransaction} /\ StartsInRow(tx) /\ tx.community = home /\ UnknownTypes(tx) = {}
    BY <1>4 DEF Deliver
  <2>2. CASE Add(tx) /\ ledger' = Append(ledger, tx)
    BY <1>2, <2>1, <2>2, AddKeepsAnswers
  <2>3. CASE RefusedOpening(tx) /\ ledger' = ledger
    BY <1>1, <1>2, <2>1, <2>3, OpeningRefusalKeeps, OpeningRefusalKeepsAnswers
  <2>4. CASE RefusedInSegment(tx) /\ ledger' = ledger
    BY <1>1, <1>2, <2>1, <2>4, SegmentRefusalKeeps, SegmentRefusalKeepsAnswers
  <2>5. CASE RefusedInRegister(tx) /\ ledger' = ledger
    BY <1>1, <1>2, <2>1, <2>5, RegisterRefusalKeeps, RegisterRefusalKeepsAnswers
  <2> QED BY <1>4, <2>2, <2>3, <2>4, <2>5 DEF Deliver
<1>5. CASE UNCHANGED answerVars
  BY <1>2, <1>5, StutterKeepsAnswers
<1> QED BY <1>3, <1>4, <1>5 DEF NextLedger

LEMMA AnswerInvHolds ==
  ASSUME NEW home,
         \A tx \in Arrivals : tx.community = home /\ UnknownTypes(tx) = {}
  PROVE  LedgerSpec => []AnswerInv(home)
<1>1. InitLedger => AnswerInv(home)
  BY InitAnswerInv
<1>2. AnswerInv(home) /\ [NextLedger]_answerVars => AnswerInv(home)'
  BY EveryStepAnswers
<1> QED BY <1>1, <1>2, PTL DEF LedgerSpec

-----------------------------------------------------------------------------
(***************************************************************************)
(* The row of segments as the queries find it.                             *)
(***************************************************************************)
RunFrom(base) == base..(base + segment_transactions - 1)

LEMMA SegmentOfRow ==
  ASSUME IInv, NEW i \in DOMAIN segments
  PROVE  /\ segments[i] \in Index
         /\ segment_transactions \in Nat \ {0}
         /\ i \in Nat /\ first_segment + i - 1 \in Nat
         /\ segments[i].base_tx_nr \in Nat
         /\ segments[i].base_tx_nr = (first_segment + i - 1) * segment_transactions
         /\ SegmentStands(segments[i], segments[i].base_tx_nr, segment_transactions)
<1>1. /\ segments \in Seq(Index) /\ first_segment \in Nat
      /\ RowStands(segments, first_segment, segment_transactions)
      /\ ready => segment_transactions \in SegmentSizes
      /\ ~ready => segments = <<>>
  BY DEF IInv, TypeOK
<1>2. i \in Nat /\ i >= 1 /\ segments # <<>> /\ segments[i] \in Index
  BY <1>1
<1>3. segment_transactions \in Nat \ {0}
  <2>1. segment_transactions \in SegmentSizes
    BY <1>1, <1>2, Zenon
  <2>2. segment_transactions \in 1..MaxU32
    BY <2>1, SegmentAssumption
  <2> QED BY <2>2, WidthAssumption
<1>4. SegmentStands(segments[i], (first_segment + i - 1) * segment_transactions, segment_transactions)
  BY <1>1 DEF RowStands
<1>5. segments[i].base_tx_nr = (first_segment + i - 1) * segment_transactions
  BY <1>4 DEF SegmentStands
<1>6. segments[i].base_tx_nr \in Nat
  BY <1>2 DEF Index
<1>7. first_segment + i - 1 \in Nat
  BY <1>1, <1>2
<1> QED BY <1>2, <1>3, <1>4, <1>5, <1>6, <1>7

LEMMA SegmentsApart ==
  ASSUME IInv, NEW i \in DOMAIN segments, NEW j \in DOMAIN segments,
         NEW n \in RunFrom(segments[i].base_tx_nr), n \in RunFrom(segments[j].base_tx_nr)
  PROVE  i = j
<1> DEFINE a == first_segment + i - 1
           b == first_segment + j - 1
           size == segment_transactions
<1>1. /\ size \in Nat \ {0} /\ a \in Nat /\ b \in Nat
      /\ n \in (a * size)..(a * size + size - 1)
      /\ n \in (b * size)..(b * size + size - 1)
  BY SegmentOfRow DEF RunFrom
<1>2. a # b => i # j
  OBVIOUS
<1>3. a = b => i = j
  <2>1. i \in Nat /\ j \in Nat /\ first_segment \in Nat
    BY SegmentOfRow DEF IInv, TypeOK
  <2> QED BY <2>1
<1> HIDE DEF a, b, size
<1>4. a = b
  BY <1>1, RunsAreApart
<1> QED BY <1>3, <1>4

LEMMA SpanOfRow ==
  ASSUME IInv, NEW i \in DOMAIN segments, NEW n, InSpan(segments[i], n)
  PROVE  n \in Nat /\ n \in RunFrom(segments[i].base_tx_nr)
<1> DEFINE s == segments[i]
           size == segment_transactions
<1>1. /\ s \in Index /\ size \in Nat \ {0} /\ s.base_tx_nr \in Nat
      /\ SegmentStands(s, s.base_tx_nr, size)
  BY SegmentOfRow
<1>2. s.min_tx_nr \in Nat /\ s.max_tx_nr \in Nat
  BY <1>1, TableIsNumbers
<1> HIDE DEF s
<1>3. /\ s.min_tx_nr \in s.base_tx_nr..(s.base_tx_nr + size - 1)
      /\ s.max_tx_nr \in s.base_tx_nr..(s.base_tx_nr + size - 1)
      /\ n \in s.min_tx_nr..s.max_tx_nr
  BY <1>1 DEF SegmentStands, InSpan, s
<1> QED BY <1>1, <1>2, <1>3 DEF RunFrom, s

\* A transaction known whose number is below another's is in the ledger.
LEMMA BelowIsLedger ==
  ASSUME NEW home, IInv, LedgerStands(home), RefusedIsNext,
         NEW t \in Known, NEW u \in Known, t.tx_nr < u.tx_nr
  PROVE  t \in ToSet(ledger)
<1>1. \A v \in ToSet(ledger) : v.tx_nr \in Nat /\ v.tx_nr <= max_tx_nr
  BY LedgerIsRun
<1>2. transaction_count = 0 => ToSet(ledger) = {}
  BY LedgerIsRun
<1>3. \A v \in Held : /\ v = refused /\ v.tx_nr \in Nat
                      /\ transaction_count # 0 => v.tx_nr = max_tx_nr + 1
  BY HeldIsNext
<1>4. max_tx_nr \in Nat
  BY DEF IInv, TypeOK
<1>5. ASSUME t \in Held
      PROVE  FALSE
  <2>1. CASE u \in Held
    BY <1>3, <1>5, <2>1
  <2>2. CASE u \in ToSet(ledger)
    <3>1. transaction_count # 0
      BY <1>2, <2>2
    <3> QED BY <1>1, <1>3, <1>4, <1>5, <2>2, <3>1
  <2> QED BY <2>1, <2>2 DEF Known
<1> QED BY <1>5 DEF Known

\* A segment that counts something is filled with what is known.
LEMMA SpanFilled ==
  ASSUME NEW home, AnswerInv(home), NEW i \in DOMAIN segments,
         segments[i].transaction_count # 0
  PROVE  SpanIsFilled(segments[i], Known)
<1> DEFINE s == segments[i]
           size == segment_transactions
<1>1. /\ IInv /\ LedgerStands(home) /\ RefusedIsNext
      /\ SpansCover(segments, ToSet(ledger), Known)
      /\ DaysStand(segments, Known, Held)
  BY DEF AnswerInv, LedgerInv, RetryInv
<1>2. /\ s \in Index /\ size \in Nat \ {0} /\ s.base_tx_nr \in Nat
      /\ SegmentStands(s, s.base_tx_nr, size)
  BY <1>1, SegmentOfRow
<1>3. s.min_tx_nr \in Nat /\ s.max_tx_nr \in Nat /\ s.transaction_count \in Nat
  BY <1>2, TableIsNumbers
<1>4. DaysAreOf(s, Known)
  BY <1>1 DEF DaysStand, SegmentDated
<1>5. \A n : InSpan(s, n) => \E t \in Known : t.tx_nr = n
  BY <1>1 DEF SpansCover
<1>6. /\ s.min_tx_nr \in s.base_tx_nr..(s.base_tx_nr + size - 1)
      /\ s.max_tx_nr = s.min_tx_nr + s.transaction_count - 1
  BY <1>2 DEF SegmentStands
<1>7. InSpan(s, s.min_tx_nr) /\ s.base_tx_nr <= s.min_tx_nr
  <2> HIDE DEF s
  <2>1. s.transaction_count # 0
    BY DEF s
  <2> QED BY <1>2, <1>3, <1>6, <2>1 DEF InSpan
<1>8. ASSUME NEW p \in DaysNoted(s), NEW t \in Known,
             s.base_tx_nr <= t.tx_nr, t.tx_nr < s.base_tx_nr + s.day_max_tx[p] - 1
      PROVE  InSpan(s, t.tx_nr)
  <2>1. /\ s.day_max_tx[p] \in Nat /\ s.day_max_tx[p] <= size
        /\ t.tx_nr \in Nat
    <3>1. p \in DOMAIN s.day_max_tx
      BY DEF DaysNoted
    <3>2. s.day_max_tx[p] <= size
      BY <1>2, <3>1 DEF SegmentStands
    <3>3. Dated(Known)
      BY <1>1, KnownIsRun
    <3> QED BY <1>2, <3>1, <3>2, <3>3, TableIsNumbers DEF Dated
  <2>2. PICK u \in Known : s.day_max_tx[p] = u.tx_nr - s.base_tx_nr + 1
    BY <1>4 DEF DaysAreOf
  <2>3. u.tx_nr \in Nat
    BY <1>1, KnownIsRun DEF Dated
  <2>4. t.tx_nr < u.tx_nr
    <3> HIDE DEF s
    <3> QED BY <1>2, <1>8, <2>1, <2>2, <2>3
  <2>5. t \in ToSet(ledger)
    BY <1>1, <2>4, BelowIsLedger
  <2>6. PICK j \in DOMAIN segments : InSpan(segments[j], t.tx_nr)
    BY <1>1, <2>5 DEF SpansCover
  <2>7. t.tx_nr \in RunFrom(segments[j].base_tx_nr)
    BY <1>1, <2>6, SpanOfRow
  <2>8. t.tx_nr \in RunFrom(s.base_tx_nr)
    <3> HIDE DEF s
    <3> QED BY <1>2, <1>8, <2>1 DEF RunFrom
  <2>9. i = j
    BY <1>1, <2>7, <2>8, SegmentsApart
  <2> QED BY <2>6, <2>9
<1> HIDE DEF s
<1> QED BY <1>5, <1>7, <1>8 DEF SpanIsFilled, s

-----------------------------------------------------------------------------
(***************************************************************************)
(* What is pending is not in the ledger, and all else that is known is.    *)
(***************************************************************************)
LEMMA PendingIsHeld ==
  ASSUME NEW home, AnswerInv(home)
  PROVE  /\ \A t \in ToSet(ledger) : t.tx_nr \notin Pending
         /\ \A t \in Known : t.tx_nr \notin Pending => t \in ToSet(ledger)
<1>1. /\ IInv /\ LedgerStands(home) /\ RefusedIsNext
      /\ refused \in Arrivals \cup {NoTransaction} /\ max_tx_nr \in Nat
  BY DEF AnswerInv, LedgerInv, RetryInv, IInv, TypeOK
<1>2. ASSUME NEW t \in ToSet(ledger), t.tx_nr \in Pending
      PROVE  FALSE
  <2>1. refused # NoTransaction /\ t.tx_nr = refused.tx_nr /\ refused \in Arrivals
    BY <1>1, <1>2 DEF Pending
  <2>2. t.tx_nr \in Nat /\ t.tx_nr <= max_tx_nr
    BY <1>1, LedgerIsRun
  <2>3. transaction_count # 0
    BY <1>1, LedgerIsRun
  <2> QED BY <1>1, <2>1, <2>2, <2>3 DEF RefusedIsNext
<1>3. ASSUME NEW t \in Held
      PROVE  t.tx_nr \in Pending
  <2>1. t \in Arrivals /\ t = refused
    BY <1>1, HeldIsNext
  <2> QED BY <2>1, SegmentAssumption DEF Pending
<1> QED BY <1>2, <1>3 DEF Known

LEMMA KnownIsBounded ==
  ASSUME NEW home, AnswerInv(home)
  PROVE  \E top \in Int : \A t \in Known : t.tx_nr <= top
<1>1. IInv /\ LedgerStands(home) /\ RefusedIsNext /\ max_tx_nr \in Nat
  BY DEF AnswerInv, LedgerInv, RetryInv, IInv, TypeOK
<1>2. /\ \A t \in ToSet(ledger) : t.tx_nr \in Nat /\ t.tx_nr <= max_tx_nr
      /\ transaction_count = 0 => ToSet(ledger) = {}
  BY <1>1, LedgerIsRun
<1>3. CASE Held = {}
  BY <1>1, <1>2, <1>3 DEF Known
<1>4. ASSUME NEW h \in Held
      PROVE  \E top \in Int : \A t \in Known : t.tx_nr <= top
  <2>1. h.tx_nr \in Nat /\ h = refused /\ (transaction_count # 0 => h.tx_nr = max_tx_nr + 1)
    BY <1>1, HeldIsNext
  <2>2. \A t \in Held : t = h
    BY <2>1 DEF Held
  <2>3. \A t \in ToSet(ledger) : t.tx_nr <= h.tx_nr
    BY <1>1, <1>2, <2>1
  <2>4. \A t \in Known : t.tx_nr <= h.tx_nr
    BY <2>1, <2>2, <2>3 DEF Known
  <2> QED BY <2>1, <2>4
<1> QED BY <1>3, <1>4

(***************************************************************************)
(* The days of one segment, and of the row.                                *)
(***************************************************************************)
LEMMA SegmentDays ==
  ASSUME NEW home, AnswerInv(home), DaysInOrder(Arrivals), NEW i \in DOMAIN segments,
         NEW from \in Int, NEW to \in Int
  PROVE  /\ \A t \in Known : InSpan(segments[i], t.tx_nr) /\ Inside(t, from, to) =>
              t.tx_nr \in RangeOfDays(segments[i], from, to)
         /\ \A n \in RangeOfDays(segments[i], from, to) :
              \E t \in Known : t.tx_nr = n /\ Inside(t, from, to)
<1> DEFINE s == segments[i]
<1>1. /\ IInv /\ LedgerStands(home) /\ RefusedIsNext
      /\ DaysStand(segments, Known, Held)
  BY DEF AnswerInv, LedgerInv, RetryInv
<1>2. /\ Known \subseteq Arrivals /\ Dated(Known) /\ OfOneNumber(Known) /\ Gapless(Known)
  BY <1>1, KnownIsRun
<1>3. DaysInOrder(Known)
  BY <1>2 DEF DaysInOrder
<1>4. SpanIsDated(s, Known) /\ DaysAreOf(s, Known) /\ s \in Index
  BY <1>1, SegmentOfRow DEF DaysStand, SegmentDated
<1>5. CASE s.transaction_count = 0
  <2>1. RangeOfDays(s, from, to) = {} /\ \A n : ~InSpan(s, n)
    BY <1>5 DEF RangeOfDays, InSpan
  <2> QED BY <2>1
<1>6. CASE s.transaction_count # 0
  <2>1. SpanIsFilled(s, Known)
    BY <1>6, SpanFilled
  <2> HIDE DEF s
  <2>2. ASSUME NEW t \in Known, InSpan(s, t.tx_nr), Inside(t, from, to)
        PROVE  t.tx_nr \in RangeOfDays(s, from, to)
    BY <1>2, <1>3, <1>4, <1>6, <2>1, <2>2, DaysAreAnswered
  <2>3. ASSUME NEW n \in RangeOfDays(s, from, to)
        PROVE  \E t \in Known : t.tx_nr = n /\ Inside(t, from, to)
    BY <1>2, <1>3, <1>4, <1>6, <2>1, AnsweredAreTheDays
  <2> QED BY <2>2, <2>3 DEF s
<1> QED BY <1>5, <1>6

DaysOfRow(from, to) == UNION {RangeOfDays(segments[i], from, to) : i \in DOMAIN segments}

LEMMA RowDays ==
  ASSUME NEW home, AnswerInv(home), DaysInOrder(Arrivals), NEW from \in Int, NEW to \in Int
  PROVE  /\ \A t \in ToSet(ledger) : Inside(t, from, to) => t.tx_nr \in DaysOfRow(from, to)
         /\ \A n \in DaysOfRow(from, to) : \E t \in Known : t.tx_nr = n /\ Inside(t, from, to)
<1>1. ASSUME NEW t \in ToSet(ledger), Inside(t, from, to)
      PROVE  t.tx_nr \in DaysOfRow(from, to)
  <2>1. PICK i \in DOMAIN segments : InSpan(segments[i], t.tx_nr)
    BY DEF AnswerInv, SpansCover
  <2>2. t.tx_nr \in RangeOfDays(segments[i], from, to)
    BY <1>1, <2>1, SegmentDays DEF Known
  <2> QED BY <2>2 DEF DaysOfRow
<1>2. ASSUME NEW n \in DaysOfRow(from, to)
      PROVE  \E t \in Known : t.tx_nr = n /\ Inside(t, from, to)
  <2>1. PICK i \in DOMAIN segments : n \in RangeOfDays(segments[i], from, to)
    BY DEF DaysOfRow
  <2> QED BY <2>1, SegmentDays
<1> QED BY <1>1, <1>2

\* Between two transactions confirmed in a span of days, all are.
LEMMA BetweenIsInside ==
  ASSUME NEW K, Dated(K), OfOneNumber(K), Gapless(K), DaysInOrder(K),
         NEW from \in Int, NEW to \in Int,
         NEW a \in K, Inside(a, from, to), NEW b \in K, Inside(b, from, to),
         NEW n \in a.tx_nr..b.tx_nr
  PROVE  \E t \in K : t.tx_nr = n /\ Inside(t, from, to)
<1>1. PICK t \in K : t.tx_nr = n
  BY DEF Gapless
<1>2. a.tx_nr <= t.tx_nr /\ t.tx_nr <= b.tx_nr /\ a.tx_nr \in Nat /\ t.tx_nr \in Nat /\ b.tx_nr \in Nat
  BY <1>1 DEF Dated
<1>3. /\ Day(a.second) \in Int /\ Day(t.second) \in Int /\ Day(b.second) \in Int
      /\ Day(from) \in Int /\ Day(to) \in Int
  BY DayIsInt DEF Dated
<1>4. Day(a.second) <= Day(t.second)
  <2>1. CASE a.tx_nr = t.tx_nr
    <3>1. a = t
      BY <2>1 DEF OfOneNumber
    <3> QED BY <1>3, <3>1
  <2>2. CASE a.tx_nr < t.tx_nr
    BY <2>2 DEF DaysInOrder
  <2> QED BY <1>2, <2>1, <2>2
<1>5. Day(t.second) <= Day(b.second)
  <2>1. CASE t.tx_nr = b.tx_nr
    <3>1. t = b
      BY <2>1 DEF OfOneNumber
    <3> QED BY <1>3, <3>1
  <2>2. CASE t.tx_nr < b.tx_nr
    BY <2>2 DEF DaysInOrder
  <2> QED BY <1>2, <2>1, <2>2
<1>6. Inside(t, from, to)
  BY <1>3, <1>4, <1>5 DEF Inside
<1> QED BY <1>1, <1>6

\* grdb_chain_range_of_days.
LEMMA RangeIsTheDays ==
  ASSUME NEW home, AnswerInv(home), DaysInOrder(Arrivals), NEW from \in Int, NEW to \in Int
  PROVE  ChainRange(from, to) \ Pending
           = {tx.tx_nr : tx \in {t \in ToSet(ledger) : Inside(t, from, to)}}
<1> DEFINE D == DaysOfRow(from, to)
<1>1. /\ \A t \in ToSet(ledger) : Inside(t, from, to) => t.tx_nr \in D
      /\ \A n \in D : \E t \in Known : t.tx_nr = n /\ Inside(t, from, to)
  BY RowDays
<1>2. ChainRange(from, to) = IF D = {} THEN {} ELSE Min(D)..Max(D)
  BY DEF ChainRange, DaysOfRow
<1>3. IInv /\ LedgerStands(home) /\ RefusedIsNext
  BY DEF AnswerInv, LedgerInv, RetryInv
<1>4. /\ Known \subseteq Arrivals /\ Dated(Known) /\ OfOneNumber(Known) /\ Gapless(Known)
  BY <1>3, KnownIsRun
<1>5. DaysInOrder(Known)
  BY <1>4 DEF DaysInOrder
<1>6. D \in SUBSET Nat
  BY <1>1, <1>4 DEF Dated
<1> HIDE DEF D
<1>7. D # {} => /\ Min(D) \in D /\ Max(D) \in D
                /\ \A n \in D : n \in Min(D)..Max(D)
  <2> HAVE D # {}
  <2>1. PICK top \in Int : \A t \in Known : t.tx_nr <= top
    BY KnownIsBounded
  <2>2. \A n \in D : n <= top
    BY <1>1, <2>1
  <2>3. Min(D) \in D /\ \A n \in D : Min(D) <= n
    BY <1>6, SmallestNumber
  <2>4. Max(D) \in D /\ \A n \in D : n <= Max(D)
    <3>1. D \in SUBSET Int
      BY <1>6
    <3> QED BY <2>2, <3>1, GreatestNumber
  <2> QED BY <1>6, <2>3, <2>4
<1>8. ASSUME NEW n \in ChainRange(from, to), n \notin Pending
      PROVE  \E t \in ToSet(ledger) : t.tx_nr = n /\ Inside(t, from, to)
  <2>1. D # {} /\ n \in Min(D)..Max(D)
    BY <1>2
  <2>2. PICK a \in Known : a.tx_nr = Min(D) /\ Inside(a, from, to)
    BY <1>1, <1>7, <2>1
  <2>3. PICK b \in Known : b.tx_nr = Max(D) /\ Inside(b, from, to)
    BY <1>1, <1>7, <2>1
  <2>4. PICK t \in Known : t.tx_nr = n /\ Inside(t, from, to)
    BY <1>4, <1>5, <2>1, <2>2, <2>3, BetweenIsInside
  <2>5. t \in ToSet(ledger)
    BY <1>8, <2>4, PendingIsHeld
  <2> QED BY <2>4, <2>5
<1>9. ASSUME NEW t \in ToSet(ledger), Inside(t, from, to)
      PROVE  t.tx_nr \in ChainRange(from, to) \ Pending
  <2>1. t.tx_nr \in D
    BY <1>1, <1>9
  <2>2. t.tx_nr \in ChainRange(from, to)
    BY <1>2, <1>7, <2>1
  <2> QED BY <2>2, PendingIsHeld
<1> QED BY <1>8, <1>9

(***************************************************************************)
(* The days of a chain are those of its ledger: whatever the days the      *)
(* segments' tables begin at, the gaps in them and the slots a refused add *)
(* has written, grdb_chain_range_of_days answers with the transactions     *)
(* confirmed in the span asked for and, while one is to be added again,    *)
(* with that one at most besides.                                          *)
(***************************************************************************)
THEOREM DaysAreTheLedgers ==
  ASSUME NEW home \in Communities,
         \A tx \in Arrivals : tx.community = home /\ UnknownTypes(tx) = {},
         DaysInOrder(Arrivals)
  PROVE  LedgerSpec => []DaysSpanTheLedger
<1>1. AnswerInv(home) => DaysSpanTheLedger
  <2> SUFFICES ASSUME AnswerInv(home), NEW filter \in Filters
               PROVE  ChainRange(filter.from, filter.to) \ Pending
                        = {tx.tx_nr : tx \in {t \in ToSet(ledger) :
                                                Inside(t, filter.from, filter.to)}}
    BY DEF DaysSpanTheLedger
  <2>1. filter.from \in Int /\ filter.to \in Int
    BY AskedAssumption DEF Filter
  <2> QED BY <2>1, RangeIsTheDays
<1>2. LedgerSpec => []AnswerInv(home)
  BY AnswerInvHolds
<1> QED BY <1>1, <1>2, PTL

-----------------------------------------------------------------------------
(***************************************************************************)
(* A segment holds a number of its span in the sets of the roles that the  *)
(* transaction of that number has, and in no others.                       *)
(***************************************************************************)
LEMMA RolesAreHeld ==
  ASSUME NEW home, AnswerInv(home), NEW t \in ToSet(ledger), NEW i \in DOMAIN segments,
         InSpan(segments[i], t.tx_nr), NEW name
  PROVE  Holds(segments[i], name, t.tx_nr - segments[i].base_tx_nr) <=> name \in L!Roles(t, home)
<1> DEFINE s == segments[i]
           n == t.tx_nr
           base == s.base_tx_nr
<1>1. IInv /\ LedgerStands(home) /\ segments \in Seq(Index)
  BY DEF AnswerInv, LedgerInv, RetryInv, IInv, TypeOK
<1>2. /\ n \in Nat /\ n <= max_tx_nr
      /\ OfOneNumber(ToSet(ledger))
  BY <1>1, LedgerIsRun
<1>3. n \in RunFrom(base) /\ base \in Nat
  BY <1>1, SpanOfRow, SegmentOfRow
<1>4. FactsSaid(ToSet(ledger), home) = Through(FactsIn(segments), max_tx_nr)
  BY <1>1, CountedAre DEF LedgerStands, FactsSaid, SaidBy
<1>5. ASSUME Holds(s, name, n - base)
      PROVE  name \in L!Roles(t, home)
  <2>1. << name, n - base >> \in s.sets
    BY <1>5 DEF Holds
  <2>2. base + (n - base) = n
    BY <1>2, <1>3
  <2>3. << name, n >> \in FactsIn(segments)
    <3>1. << name, base + (n - base) >> \in FactsOf(s)
      BY <2>1 DEF FactsOf
    <3> QED BY <2>2, <3>1 DEF FactsIn
  <2>4. << name, n >> \in Through(FactsIn(segments), max_tx_nr)
    BY <1>2, <2>3 DEF Through
  <2>5. PICK u \in ToSet(ledger) : << name, n >> \in SaidBy(u, home)
    BY <1>4, <2>4 DEF FactsSaid
  <2>6. name \in L!Roles(u, home) /\ u.tx_nr = n
    BY <2>5 DEF SaidBy
  <2>7. u = t
    BY <1>2, <2>6 DEF OfOneNumber
  <2> QED BY <2>6, <2>7
<1>6. ASSUME name \in L!Roles(t, home)
      PROVE  Holds(s, name, n - base)
  <2>1. << name, n >> \in SaidBy(t, home)
    BY <1>6 DEF SaidBy
  <2>2. << name, n >> \in FactsIn(segments)
    BY <1>4, <2>1 DEF FactsSaid, Through
  <2>3. PICK j \in DOMAIN segments : << name, n >> \in FactsOf(segments[j])
    BY <2>2 DEF FactsIn
  <2>4. PICK m \in segments[j].sets : << name, n >> = << m[1], segments[j].base_tx_nr + m[2] >>
    BY <2>3 DEF FactsOf
  <2>5. /\ segments[j].base_tx_nr \in Nat
        /\ segments[j].sets \subseteq SetNames \X U32
        /\ m[2] < segment_transactions /\ segment_transactions \in Nat
    <3>1. segments[j] \in Index
      BY <1>1
    <3>2. SegmentStands(segments[j], segments[j].base_tx_nr, segment_transactions)
      BY <1>1, SegmentOfRow
    <3>3. m[2] < segment_transactions
      BY <3>2 DEF SegmentStands
    <3>4. segment_transactions \in Nat
      BY <1>1, SegmentOfRow
    <3> QED BY <3>1, <3>3, <3>4 DEF Index
  <2>6. m = << m[1], m[2] >> /\ m[2] \in Nat
    <3>1. m \in SetNames \X U32
      BY <2>5
    <3> QED BY <3>1, WidthAssumption DEF U32
  <2>7. name = m[1] /\ n = segments[j].base_tx_nr + m[2]
    BY <2>4
  <2>8. n \in RunFrom(segments[j].base_tx_nr)
    BY <2>5, <2>6, <2>7 DEF RunFrom
  <2>9. i = j
    BY <1>1, <1>3, <2>8, SegmentsApart
  <2>10. m[2] = n - base
    BY <1>3, <2>6, <2>7, <2>9
  <2>11. << name, n - base >> \in s.sets
    BY <2>6, <2>7, <2>9, <2>10
  <2> QED BY <2>11 DEF Holds
<1> QED BY <1>5, <1>6

\* A set that holds something is found from its key or coin.
LEMMA HeldIsFound ==
  ASSUME IInv, NEW i \in DOMAIN segments, NEW offset
  PROVE  /\ \A key : \A role \in {"balance", "signed", "other"} :
              Holds(segments[i], << role, key >>, offset) => FindsKey(segments[i], key)
         /\ \A coin : Holds(segments[i], << "coin", coin >>, offset) => FindsCoin(segments[i], coin)
<1> DEFINE s == segments[i]
<1>1. SetsReachable(s) /\ s.sets \subseteq SetNames \X U32
  BY SegmentOfRow DEF SegmentStands, Index
<1>2. ASSUME NEW role \in {"balance", "signed", "other"}, NEW key, Holds(s, << role, key >>, offset)
      PROVE  FindsKey(s, key)
  <2>1. << << role, key >>, offset >> \in s.sets
    BY <1>2 DEF Holds
  <2>2. << role, key >> \in SetNames
    BY <1>1, <2>1
  <2>3. key \in Keys
    BY <2>2 DEF SetNames
  <2>4. s.addresses[key] \in 1..s.address_sets
    BY <1>1, <2>1 DEF SetsReachable
  <2> QED BY <2>3, <2>4 DEF FindsKey
<1>3. ASSUME NEW coin, Holds(s, << "coin", coin >>, offset)
      PROVE  FindsCoin(s, coin)
  <2>1. << << "coin", coin >>, offset >> \in s.sets
    BY <1>3 DEF Holds
  <2>2. s.coin_communities[coin] \in 1..s.coin_sets
    BY <1>1, <2>1 DEF SetsReachable
  <2> QED BY <2>2 DEF FindsCoin
<1> QED BY <1>2, <1>3

(***************************************************************************)
(* A filter of one segment, part by part, against the transaction itself.  *)
(***************************************************************************)
LEMMA RoleFits ==
  ASSUME NEW home, AnswerInv(home), NEW t \in ToSet(ledger), NEW i \in DOMAIN segments,
         InSpan(segments[i], t.tx_nr), NEW filter \in Filter
  PROVE  HasRole(segments[i], filter, t.tx_nr - segments[i].base_tx_nr)
           <=> /\ filter.role = "balance" => << "balance", filter.key >> \in L!Roles(t, home)
               /\ filter.role = "involved" =>
                    \E role \in {"balance", "signed", "other"} :
                      << role, filter.key >> \in L!Roles(t, home)
<1> DEFINE s == segments[i]
           offset == t.tx_nr - segments[i].base_tx_nr
<1>1. \A name : Holds(s, name, offset) <=> name \in L!Roles(t, home)
  BY RolesAreHeld
<1>2. \A key : \A role \in {"balance", "signed", "other"} :
         Holds(s, << role, key >>, offset) => FindsKey(s, key)
  BY HeldIsFound DEF AnswerInv, LedgerInv, RetryInv
<1>3. filter.role \in {"none", "involved", "balance"}
  BY DEF Filter
<1> HIDE DEF s, offset
<1>4. CASE filter.role = "none"
  BY <1>4 DEF HasRole, s, offset
<1>5. CASE filter.role = "balance"
  <2>1. HasRole(s, filter, offset)
           <=> FindsKey(s, filter.key) /\ Holds(s, << "balance", filter.key >>, offset)
    BY <1>5 DEF HasRole
  <2>2. HasRole(s, filter, offset) <=> << "balance", filter.key >> \in L!Roles(t, home)
    BY <1>1, <1>2, <2>1
  <2> QED BY <1>5, <2>2 DEF s, offset
<1>6. CASE filter.role = "involved"
  <2>1. HasRole(s, filter, offset)
           <=> /\ FindsKey(s, filter.key)
               /\ \E role \in {"balance", "signed", "other"} :
                    Holds(s, << role, filter.key >>, offset)
    BY <1>6 DEF HasRole
  <2>2. HasRole(s, filter, offset)
           <=> \E role \in {"balance", "signed", "other"} :
                 << role, filter.key >> \in L!Roles(t, home)
    BY <1>1, <1>2, <2>1
  <2> QED BY <1>6, <2>2 DEF s, offset
<1> QED BY <1>3, <1>4, <1>5, <1>6

LEMMA TypeFits ==
  ASSUME NEW home, AnswerInv(home), NEW t \in ToSet(ledger), NEW i \in DOMAIN segments,
         InSpan(segments[i], t.tx_nr), NEW filter
  PROVE  HasType(segments[i], filter, t.tx_nr - segments[i].base_tx_nr)
           <=> (filter.type # "none" => filter.type = t.type)
<1>1. << "type", filter.type >> \in L!Roles(t, home) <=> filter.type = t.type
  BY DEF L!Roles
<1>2. Holds(segments[i], << "type", filter.type >>, t.tx_nr - segments[i].base_tx_nr)
        <=> << "type", filter.type >> \in L!Roles(t, home)
  BY RolesAreHeld
<1> QED BY <1>1, <1>2 DEF HasType

LEMMA HomeOfLedger ==
  ASSUME NEW home \in Communities, AnswerInv(home),
         \A tx \in Arrivals : tx.community = home,
         NEW t \in ToSet(ledger)
  PROVE  ledger[1].community = home
<1>1. ledger \in Seq(Arrivals)
  BY DEF AnswerInv, LedgerStands
<1>2. 1 \in DOMAIN ledger
  BY <1>1 DEF ToSet
<1>3. ledger[1] \in Arrivals
  BY <1>1, <1>2
<1> QED BY <1>3

LEMMA CoinFits ==
  ASSUME NEW home \in Communities, AnswerInv(home), NEW t \in ToSet(ledger),
         NEW i \in DOMAIN segments, InSpan(segments[i], t.tx_nr), NEW filter \in Filter
  PROVE  HasCoin(segments[i], filter, t.tx_nr - segments[i].base_tx_nr)
           <=> (filter.coin # NoCommunity =>
                  IF filter.coin = home
                  THEN << "foreign", NoCommunity >> \notin L!Roles(t, home)
                  ELSE << "coin", filter.coin >> \in L!Roles(t, home))
<1> DEFINE s == segments[i]
           offset == t.tx_nr - segments[i].base_tx_nr
<1>1. \A name : Holds(s, name, offset) <=> name \in L!Roles(t, home)
  BY RolesAreHeld
<1>2. \A coin : Holds(s, << "coin", coin >>, offset) => FindsCoin(s, coin)
  BY HeldIsFound DEF AnswerInv, LedgerInv, RetryInv
<1>3. s.community = home
  BY DEF AnswerInv, LedgerInv, HomeStands, InSpan
<1>4. home # NoCommunity
  BY BlankAssumption
<1> HIDE DEF s, offset
<1>5. CASE filter.coin = NoCommunity
  <2>1. HasCoin(s, filter, offset)
    BY <1>3, <1>4, <1>5 DEF HasCoin
  <2> QED BY <1>5, <2>1 DEF s, offset
<1>6. CASE filter.coin = home
  <2>1. HasCoin(s, filter, offset) <=> ~Holds(s, << "foreign", NoCommunity >>, offset)
    BY <1>3, <1>4, <1>6 DEF HasCoin
  <2> QED BY <1>1, <1>4, <1>6, <2>1 DEF s, offset
<1>7. CASE filter.coin # NoCommunity /\ filter.coin # home
  <2>1. HasCoin(s, filter, offset)
           <=> FindsCoin(s, filter.coin) /\ Holds(s, << "coin", filter.coin >>, offset)
    BY <1>3, <1>7 DEF HasCoin
  <2> QED BY <1>1, <1>2, <1>7, <2>1 DEF s, offset
<1> QED BY <1>5, <1>6, <1>7

LEMMA SpanFits ==
  ASSUME NEW home, AnswerInv(home), NEW t \in ToSet(ledger), NEW i \in DOMAIN segments,
         InSpan(segments[i], t.tx_nr), NEW filter \in Filter,
         DaysInOrder(Arrivals) \/ (filter.from = 0 /\ filter.to = 0)
  PROVE  t.tx_nr \in Span(segments[i], filter)
           <=> /\ filter.min # 0 => t.tx_nr >= filter.min
               /\ filter.max # 0 => t.tx_nr <= filter.max
               /\ Inside(t, filter.from, filter.to)
<1> DEFINE s == segments[i]
<1>1. IInv /\ LedgerStands(home) /\ RefusedIsNext
  BY DEF AnswerInv, LedgerInv, RetryInv
<1>2. t \in Known /\ OfOneNumber(Known)
  BY <1>1, KnownIsRun DEF Known
<1>3. (filter.from # 0 \/ filter.to # 0 => t.tx_nr \in RangeOfDays(s, filter.from, filter.to))
        <=> Inside(t, filter.from, filter.to)
  <2>1. CASE filter.from = 0 /\ filter.to = 0
    BY <2>1 DEF Inside
  <2>2. CASE ~(filter.from = 0 /\ filter.to = 0)
    <3>1. filter.from \in Int /\ filter.to \in Int
      BY DEF Filter
    <3>2. DaysInOrder(Arrivals)
      BY <2>2
    <3>3. /\ Inside(t, filter.from, filter.to) => t.tx_nr \in RangeOfDays(s, filter.from, filter.to)
          /\ \A n \in RangeOfDays(s, filter.from, filter.to) :
               \E u \in Known : u.tx_nr = n /\ Inside(u, filter.from, filter.to)
      BY <1>2, <3>1, <3>2, SegmentDays
    <3>4. t.tx_nr \in RangeOfDays(s, filter.from, filter.to) => Inside(t, filter.from, filter.to)
      BY <1>2, <3>3 DEF OfOneNumber
    <3> QED BY <2>2, <3>3, <3>4
  <2> QED BY <2>1, <2>2
<1>4. t.tx_nr \in s.min_tx_nr..s.max_tx_nr
  BY DEF InSpan
<1> HIDE DEF s
<1>5. t.tx_nr \in Span(s, filter)
        <=> /\ filter.min # 0 => t.tx_nr >= filter.min
            /\ filter.max # 0 => t.tx_nr <= filter.max
            /\ (filter.from # 0 \/ filter.to # 0 =>
                  t.tx_nr \in RangeOfDays(s, filter.from, filter.to))
  BY <1>4 DEF Span
<1> QED BY <1>3, <1>5 DEF s

(***************************************************************************)
(* What a filter matches in a row: the transactions of the ledger that fit *)
(* it, and no other but the one pending.                                   *)
(***************************************************************************)
LEMMA MatchesFit ==
  ASSUME NEW home \in Communities, AnswerInv(home),
         \A tx \in Arrivals : tx.community = home,
         NEW t \in ToSet(ledger), NEW i \in DOMAIN segments,
         InSpan(segments[i], t.tx_nr), NEW filter \in Filter,
         DaysInOrder(Arrivals) \/ (filter.from = 0 /\ filter.to = 0)
  PROVE  t.tx_nr \in Matches(segments[i], filter) <=> Fits(t, filter)
<1> DEFINE s == segments[i]
           n == t.tx_nr
           offset == t.tx_nr - segments[i].base_tx_nr
<1>1. n \in Matches(s, filter)
        <=> /\ n \in Span(s, filter)
            /\ HasRole(s, filter, offset)
            /\ HasType(s, filter, offset)
            /\ HasCoin(s, filter, offset)
  BY DEF Matches, InSpan
<1>2. ledger[1].community = home
  BY HomeOfLedger
<1>3. n \in Span(s, filter)
        <=> /\ filter.min # 0 => t.tx_nr >= filter.min
            /\ filter.max # 0 => t.tx_nr <= filter.max
            /\ Inside(t, filter.from, filter.to)
  BY SpanFits
<1>4. HasRole(s, filter, offset)
        <=> /\ filter.role = "balance" => << "balance", filter.key >> \in L!Roles(t, home)
            /\ filter.role = "involved" =>
                 \E role \in {"balance", "signed", "other"} :
                   << role, filter.key >> \in L!Roles(t, home)
  BY RoleFits
<1>5. HasType(s, filter, offset) <=> (filter.type # "none" => filter.type = t.type)
  BY TypeFits
<1>6. HasCoin(s, filter, offset)
        <=> (filter.coin # NoCommunity =>
               IF filter.coin = home
               THEN << "foreign", NoCommunity >> \notin L!Roles(t, home)
               ELSE << "coin", filter.coin >> \in L!Roles(t, home))
  BY CoinFits
<1> DEFINE roles == L!Roles(t, home)
<1>7. Fits(t, filter)
        <=> /\ filter.role = "balance" => << "balance", filter.key >> \in roles
            /\ filter.role = "involved" =>
                 \E role \in {"balance", "signed", "other"} : << role, filter.key >> \in roles
            /\ filter.type # "none" => filter.type = t.type
            /\ (filter.coin # NoCommunity =>
                  IF filter.coin = home
                  THEN << "foreign", NoCommunity >> \notin roles
                  ELSE << "coin", filter.coin >> \in roles)
            /\ filter.min # 0 => t.tx_nr >= filter.min
            /\ filter.max # 0 => t.tx_nr <= filter.max
            /\ Inside(t, filter.from, filter.to)
  BY <1>2 DEF Fits
<1> HIDE DEF s, n, offset, roles
<1>8. n \in Matches(s, filter) <=> Fits(t, filter)
  BY <1>1, <1>3, <1>4, <1>5, <1>6, <1>7 DEF roles
<1> QED BY <1>8 DEF s, n

LEMMA MatchIsKnown ==
  ASSUME NEW home, AnswerInv(home), NEW i \in DOMAIN segments, NEW filter,
         NEW n \in Matches(segments[i], filter)
  PROVE  InSpan(segments[i], n) /\ \E t \in Known : t.tx_nr = n
<1>1. InSpan(segments[i], n)
  <2>1. segments[i].transaction_count # 0 /\ n \in Span(segments[i], filter)
    BY DEF Matches
  <2> QED BY <2>1 DEF Span, InSpan
<1> QED BY <1>1 DEF AnswerInv, SpansCover

LEMMA MatchesAreTheLedgers ==
  ASSUME NEW home \in Communities, AnswerInv(home),
         \A tx \in Arrivals : tx.community = home,
         NEW filter \in Filter,
         DaysInOrder(Arrivals) \/ (filter.from = 0 /\ filter.to = 0)
  PROVE  ChainMatches(filter) \ Pending = LedgerMatches(filter)
<1>1. ASSUME NEW n \in ChainMatches(filter), n \notin Pending
      PROVE  \E t \in ToSet(ledger) : n = t.tx_nr /\ Fits(t, filter)
  <2>1. PICK i \in DOMAIN segments : n \in Matches(segments[i], filter)
    BY DEF ChainMatches
  <2>2. InSpan(segments[i], n)
    BY <2>1, MatchIsKnown
  <2>3. PICK t \in Known : t.tx_nr = n
    BY <2>1, MatchIsKnown
  <2>4. t \in ToSet(ledger)
    BY <1>1, <2>3, PendingIsHeld
  <2>5. Fits(t, filter)
    BY <2>1, <2>2, <2>3, <2>4, MatchesFit
  <2> QED BY <2>3, <2>4, <2>5
<1>2. ASSUME NEW t \in ToSet(ledger), Fits(t, filter)
      PROVE  t.tx_nr \in ChainMatches(filter) /\ t.tx_nr \notin Pending
  <2>1. PICK i \in DOMAIN segments : InSpan(segments[i], t.tx_nr)
    BY DEF AnswerInv, SpansCover
  <2>2. t.tx_nr \in Matches(segments[i], filter)
    BY <1>2, <2>1, MatchesFit
  <2>3. t.tx_nr \in ChainMatches(filter)
    BY <2>2 DEF ChainMatches
  <2> QED BY <2>3, PendingIsHeld
<1> QED BY <1>1, <1>2 DEF LedgerMatches

(***************************************************************************)
(* The segment size changes no answer: whatever the sizes of the segments, *)
(* the refusals and the adds repeated after them, a filter matches exactly *)
(* the transactions of the ledger that fit it, each read by itself, and    *)
(* while an add waits to be made again that one number at most besides.    *)
(***************************************************************************)
THEOREM FiltersAnswer ==
  ASSUME NEW home \in Communities,
         \A tx \in Arrivals : tx.community = home /\ UnknownTypes(tx) = {},
         DaysInOrder(Arrivals)
  PROVE  LedgerSpec => []FiltersAnswerTheLedger
<1>1. AnswerInv(home) => FiltersAnswerTheLedger
  <2> SUFFICES ASSUME AnswerInv(home), NEW filter \in Filters
               PROVE  ChainMatches(filter) \ Pending = LedgerMatches(filter)
    BY DEF FiltersAnswerTheLedger
  <2> QED BY AskedAssumption, MatchesAreTheLedgers
<1>2. LedgerSpec => []AnswerInv(home)
  BY AnswerInvHolds
<1> QED BY <1>1, <1>2, PTL

-----------------------------------------------------------------------------
(***************************************************************************)
(* The newest match.  Segments of the row hold ever larger numbers, so the *)
(* last one that answers has the newest of all.                            *)
(***************************************************************************)
LEMMA RunsInOrder ==
  ASSUME IInv, NEW i \in DOMAIN segments, NEW j \in DOMAIN segments, i < j,
         NEW n \in RunFrom(segments[i].base_tx_nr), NEW m \in RunFrom(segments[j].base_tx_nr)
  PROVE  n < m
<1> DEFINE a == first_segment + i - 1
           b == first_segment + j - 1
           size == segment_transactions
<1>1. /\ size \in Nat \ {0} /\ a \in Nat /\ b \in Nat
      /\ n \in (a * size)..(a * size + size - 1)
      /\ m \in (b * size)..(b * size + size - 1)
  BY SegmentOfRow DEF RunFrom
<1>2. a + 1 <= b
  <2>1. i \in Nat /\ j \in Nat /\ first_segment \in Nat
    BY SegmentOfRow DEF IInv, TypeOK
  <2> QED BY <2>1
<1> HIDE DEF a, b, size
<1>3. (a + 1) * size <= b * size
  <2>1. PICK d \in Nat : b = (a + 1) + d
    <3>1. b - (a + 1) \in Nat /\ b = (a + 1) + (b - (a + 1))
      BY <1>1, <1>2
    <3> QED BY <3>1
  <2>2. b * size = (a + 1) * size + d * size /\ d * size \in Nat
    BY <1>1, <2>1
  <2>3. (a + 1) * size \in Nat
    BY <1>1
  <2> QED BY <2>2, <2>3
<1>4. (a + 1) * size = a * size + size /\ a * size \in Nat /\ b * size \in Nat
  BY <1>1
<1> QED BY <1>1, <1>3, <1>4

LEMMA NewestOfRow ==
  ASSUME NEW home, AnswerInv(home), NEW filter
  PROVE  /\ ChainMatches(filter) = {} => ChainNewest(filter) = 0
         /\ ChainMatches(filter) # {} =>
              /\ ChainNewest(filter) \in ChainMatches(filter)
              /\ \A n \in ChainMatches(filter) : n <= ChainNewest(filter)
<1> DEFINE answering == {i \in DOMAIN segments : Matches(segments[i], filter) # {}}
           all == ChainMatches(filter)
<1>1. IInv /\ segments \in Seq(Index)
  BY DEF AnswerInv, LedgerInv, RetryInv, IInv, TypeOK
<1>2. \A i \in DOMAIN segments : \A n \in Matches(segments[i], filter) :
         InSpan(segments[i], n) /\ n \in Nat /\ n \in RunFrom(segments[i].base_tx_nr)
  BY <1>1, MatchIsKnown, SpanOfRow
<1>3. \A n : n \in all <=> \E i \in DOMAIN segments : n \in Matches(segments[i], filter)
  BY DEF ChainMatches
<1>4. CASE all = {}
  <2>1. answering = {}
    BY <1>3, <1>4
  <2>2. ChainNewest(filter) = 0
    BY <2>1 DEF ChainNewest
  <2> QED BY <1>4, <2>2
<1>5. CASE all # {}
  <2>1. answering # {} /\ answering \in SUBSET Int /\ Len(segments) \in Nat
        /\ \A i \in answering : i <= Len(segments)
    BY <1>1, <1>3, <1>5
  <2> DEFINE last == Max(answering)
             M == Matches(segments[last], filter)
  <2>2. last \in answering /\ \A i \in answering : i <= last
    <3>1. Len(segments) \in Int
      BY <2>1
    <3> HIDE DEF answering
    <3> QED BY <2>1, <3>1, GreatestNumber
  <2>3. last \in DOMAIN segments /\ M # {}
    BY <2>2
  <2>4. ChainNewest(filter) = Max(M)
    BY <2>1 DEF ChainNewest
  <2> HIDE DEF last
  <2>5. /\ M \in SUBSET Int
        /\ \E top \in Int : \A n \in M : n <= top
    <3>1. \A n \in M : n \in Nat /\ InSpan(segments[last], n)
      BY <1>2, <2>3
    <3>2. segments[last].max_tx_nr \in Int /\ segments[last].min_tx_nr \in Int
      <4>1. segments[last] \in Index
        BY <1>1, <2>3
      <4>2. segments[last].max_tx_nr \in Nat /\ segments[last].min_tx_nr \in Nat
        BY <4>1, TableIsNumbers
      <4> QED BY <4>2
    <3>3. \A n \in M : n <= segments[last].max_tx_nr
      BY <3>1, <3>2 DEF InSpan
    <3>4. M \in SUBSET Int
      BY <3>1
    <3> QED BY <3>2, <3>3, <3>4
  <2> HIDE DEF M
  <2>6. Max(M) \in M /\ \A n \in M : n <= Max(M)
    BY <2>3, <2>5, GreatestNumber
  <2>7. Max(M) \in all
    BY <1>3, <2>3, <2>6 DEF M
  <2>8. ASSUME NEW n \in all
        PROVE  n <= Max(M)
    <3>1. PICK i \in DOMAIN segments : n \in Matches(segments[i], filter)
      BY <1>3, <2>8
    <3>2. i <= last
      BY <2>2, <3>1
    <3>3. CASE i = last
      BY <2>6, <3>1, <3>3 DEF M
    <3>4. CASE i < last
      <4>1. n \in RunFrom(segments[i].base_tx_nr) /\ n \in Nat
        BY <1>2, <3>1
      <4>2. Max(M) \in RunFrom(segments[last].base_tx_nr) /\ Max(M) \in Nat
        BY <1>2, <2>3, <2>6 DEF M
      <4>3. n < Max(M)
        BY <1>1, <2>3, <3>4, <4>1, <4>2, RunsInOrder
      <4> QED BY <4>1, <4>2, <4>3
    <3>5. i \in Int /\ last \in Int
      BY <1>1, <2>3
    <3> QED BY <3>2, <3>3, <3>4, <3>5
  <2> HIDE DEF all, answering
  <2> QED BY <1>5, <2>4, <2>7, <2>8 DEF all
<1> QED BY <1>4, <1>5

(***************************************************************************)
(* Register and segments on when a balance last moved.                     *)
(***************************************************************************)
BalanceOf(key) == [AnyTransaction EXCEPT !.role = "balance", !.key = key]

LEMMA BalanceFits ==
  ASSUME NEW home \in Communities, AnswerInv(home),
         \A tx \in Arrivals : tx.community = home,
         NEW key \in Keys, NEW t \in ToSet(ledger)
  PROVE  /\ BalanceOf(key) \in Filter /\ BalanceOf(key).from = 0 /\ BalanceOf(key).to = 0
         /\ Fits(t, BalanceOf(key)) <=> << "balance", key >> \in L!Roles(t, home)
<1>1. BalanceOf(key) = [role |-> "balance", key |-> key, type |-> "none", coin |-> NoCommunity,
                        min |-> 0, max |-> 0, from |-> 0, to |-> 0]
  <2> DEFINE any == [role |-> "none", key |-> NoKey, type |-> "none", coin |-> NoCommunity,
                     min |-> 0, max |-> 0, from |-> 0, to |-> 0]
  <2>1. AnyTransaction = any
    BY DEF AnyTransaction
  <2>2. BalanceOf(key) = [[any EXCEPT !.role = "balance"] EXCEPT !.key = key]
    BY <2>1 DEF BalanceOf
  <2>3. [any EXCEPT !.role = "balance"]
          = [role |-> "balance", key |-> NoKey, type |-> "none", coin |-> NoCommunity,
             min |-> 0, max |-> 0, from |-> 0, to |-> 0]
    OBVIOUS
  <2> QED BY <2>2, <2>3
<1>2. BalanceOf(key) \in Filter
  BY <1>1 DEF Filter, TransactionTypes
<1>3. ledger[1].community = home
  BY HomeOfLedger
<1>4. Fits(t, BalanceOf(key)) <=> << "balance", key >> \in L!Roles(t, home)
  BY <1>1, <1>3 DEF Fits, Inside
<1> QED BY <1>1, <1>2, <1>4

LEMMA BalancesAgree ==
  ASSUME NEW home \in Communities, AnswerInv(home),
         \A tx \in Arrivals : tx.community = home,
         NEW key \in Keys, Pending = {}
  PROVE  LastBalance(addresses, key) = ChainNewest(BalanceOf(key))
<1> DEFINE F == Through(FactsIn(segments), max_tx_nr)
           all == ChainMatches(BalanceOf(key))
           newest == ChainNewest(BalanceOf(key))
<1>1. /\ IInv /\ LedgerStands(home) /\ RefusedIsNext
      /\ MovesStand(addresses.last_balance_tx, FactsIn(segments), max_tx_nr, Held)
      /\ max_tx_nr \in Nat /\ addresses \in Register /\ RegisterReachable(addresses)
      /\ refused \in Arrivals \cup {NoTransaction}
  BY DEF AnswerInv, LedgerInv, RetryInv, IInv, TypeOK
<1>2. Held = {}
  <2>1. refused = NoTransaction
    BY DEF Pending
  <2> QED BY <2>1, SegmentAssumption DEF Held
<1>3. PICK m \in 0..max_tx_nr : IsLastMove(F, key, m) /\ addresses.last_balance_tx[key] = m
  BY <1>1, <1>2 DEF MovesStand
<1>4. LastBalance(addresses, key) = m
  <2>1. m # 0 => KnowsKey(addresses, key)
    BY <1>1, <1>3 DEF RegisterReachable
  <2> QED BY <1>3, <2>1 DEF LastBalance
<1>5. F = FactsSaid(ToSet(ledger), home)
  BY <1>1, CountedAre DEF LedgerStands, FactsSaid, SaidBy
<1>6. \A n : n \in all <=> \E t \in ToSet(ledger) :
                                n = t.tx_nr /\ << "balance", key >> \in L!Roles(t, home)
  <2>1. ASSUME NEW t \in ToSet(ledger)
        PROVE  /\ BalanceOf(key) \in Filter /\ BalanceOf(key).from = 0 /\ BalanceOf(key).to = 0
               /\ Fits(t, BalanceOf(key)) <=> << "balance", key >> \in L!Roles(t, home)
    BY BalanceFits
  <2>2. CASE ToSet(ledger) = {}
    <3>1. ASSUME NEW n \in all
          PROVE  FALSE
      <4>1. PICK i \in DOMAIN segments : n \in Matches(segments[i], BalanceOf(key))
        BY DEF ChainMatches
      <4>2. \E t \in Known : t.tx_nr = n
        BY <4>1, MatchIsKnown
      <4> QED BY <1>2, <2>2, <4>2 DEF Known
    <3> QED BY <2>2, <3>1
  <2>3. CASE ToSet(ledger) # {}
    <3>1. BalanceOf(key) \in Filter /\ BalanceOf(key).from = 0 /\ BalanceOf(key).to = 0
      BY <2>1, <2>3
    <3>2. all \ Pending = LedgerMatches(BalanceOf(key))
      BY <3>1, MatchesAreTheLedgers
    <3>3. all = {t.tx_nr : t \in {u \in ToSet(ledger) : Fits(u, BalanceOf(key))}}
      BY <3>2 DEF LedgerMatches
    <3> HIDE DEF all
    <3> QED BY <2>1, <3>3
  <2> QED BY <2>2, <2>3
<1>7. /\ all = {} => newest = 0
      /\ all # {} => newest \in all /\ \A n \in all : n <= newest
  BY NewestOfRow
<1>8. all \subseteq Nat
  BY <1>1, <1>6, LedgerIsRun
<1> HIDE DEF all, newest
<1>9. IsLastMove(F, key, newest) /\ newest \in Nat
  <2>1. newest \in Nat
    <3>1. CASE all = {}
      BY <1>7, <3>1
    <3>2. CASE all # {}
      BY <1>7, <1>8, <3>2
    <3> QED BY <3>1, <3>2
  <2>2. newest = 0 \/ << << "balance", key >>, newest >> \in F
    <3>1. CASE all = {}
      BY <1>7, <3>1
    <3>2. CASE all # {}
      <4>1. PICK t \in ToSet(ledger) : newest = t.tx_nr /\ << "balance", key >> \in L!Roles(t, home)
        BY <1>6, <1>7, <3>2
      <4>2. << << "balance", key >>, newest >> \in SaidBy(t, home)
        BY <4>1 DEF SaidBy
      <4> QED BY <1>5, <4>2 DEF FactsSaid
    <3> QED BY <3>1, <3>2
  <2>3. ASSUME NEW f \in F, f[1] = << "balance", key >>
        PROVE  f[2] <= newest
    <3>1. PICK t \in ToSet(ledger) : f \in SaidBy(t, home)
      BY <1>5 DEF FactsSaid
    <3>2. f[1] \in L!Roles(t, home) /\ f[2] = t.tx_nr
      BY <3>1 DEF SaidBy
    <3>3. f[2] \in all
      BY <1>6, <2>3, <3>2
    <3> QED BY <1>7, <3>3
  <2> HIDE DEF F
  <2> QED BY <2>1, <2>2, <2>3 DEF IsLastMove
<1>10. m \in Nat
  BY <1>1, <1>3
<1> HIDE DEF F
<1>11. m = newest
  BY <1>3, <1>9, <1>10, OneLastMove
<1> QED BY <1>4, <1>11 DEF newest

-----------------------------------------------------------------------------
(***************************************************************************)
(* Types as of a number.  Up to the last number the register's records are *)
(* the types the ledger's transactions give.                               *)
(***************************************************************************)
LEMMA RecordsAreGiven ==
  ASSUME NEW home, AnswerInv(home), NEW key \in Keys
  PROVE  /\ \A i \in DOMAIN addresses.changes[key] :
              addresses.changes[key][i].tx_nr <= max_tx_nr =>
                \E t \in ToSet(ledger) : \E h \in DOMAIN Notes(t) :
                  Notes(t)[h].key = key /\ addresses.changes[key][i] = RecordOf(t, h)
         /\ \A t \in ToSet(ledger) : \A h \in DOMAIN Notes(t) :
              Notes(t)[h].key = key =>
                \E i \in DOMAIN addresses.changes[key] : addresses.changes[key][i] = RecordOf(t, h)
<1> DEFINE records == addresses.changes[key]
<1>1. /\ IInv /\ LedgerStands(home)
      /\ addresses \in Register /\ max_tx_nr \in Nat
  BY DEF AnswerInv, LedgerInv, RetryInv, IInv, TypeOK
<1>2. records \in Seq(TypeChange)
  BY <1>1 DEF Register
<1>3. Through(Gives(addresses.changes), max_tx_nr) = TypesSaid(ToSet(ledger))
  BY <1>1, CountedAre DEF LedgerStands, TypesSaid
<1>4. key # NoKey
  BY BlankAssumption
<1>5. ASSUME NEW t \in ToSet(ledger)
      PROVE  \A n, y : << key, n, y >> \in L!Given(t) <=>
                 \E h \in DOMAIN Notes(t) : /\ Notes(t)[h].key = key
                                            /\ n = t.tx_nr /\ y = Notes(t)[h].type
  <2>1. t \in Transaction
    BY <1>1, LedgerIsRun
  <2>2. L!Given(t) = UNION {GivenBy(Notes(t)[i], t.tx_nr) : i \in DOMAIN Notes(t)}
    BY <2>1, GivenByNotes
  <2>3. \A n, y : \A i \in DOMAIN Notes(t) :
           << key, n, y >> \in GivenBy(Notes(t)[i], t.tx_nr) <=>
             /\ Notes(t)[i].key = key
             /\ n = t.tx_nr /\ y = Notes(t)[i].type
    BY <1>4 DEF GivenBy
  <2> QED BY <2>2, <2>3
<1>6. \A n, y : << key, n, y >> \in Gives(addresses.changes) <=>
                  \E i \in DOMAIN records : records[i].tx_nr = n /\ records[i].type = y
  <2>1. \A c : c \in L!Entries(records) <=> \E i \in DOMAIN records : c = records[i]
    BY DEF L!Entries
  <2> QED BY <2>1, GivesAre
<1>7. \A i \in DOMAIN records : records[i] = [tx_nr |-> records[i].tx_nr, type |-> records[i].type]
                                /\ records[i].tx_nr \in Nat
  <2> SUFFICES ASSUME NEW i \in DOMAIN records
               PROVE  /\ records[i] = [tx_nr |-> records[i].tx_nr, type |-> records[i].type]
                      /\ records[i].tx_nr \in Nat
    OBVIOUS
  <2> DEFINE record == records[i]
  <2>1. record \in TypeChange
    BY <1>2
  <2> HIDE DEF record
  <2>2. record = [tx_nr |-> record.tx_nr, type |-> record.type] /\ record.tx_nr \in Nat
    BY <2>1 DEF TypeChange
  <2> QED BY <2>2 DEF record
<1>8. ASSUME NEW i \in DOMAIN records, records[i].tx_nr <= max_tx_nr
      PROVE  \E t \in ToSet(ledger) : \E h \in DOMAIN Notes(t) :
               Notes(t)[h].key = key /\ records[i] = RecordOf(t, h)
  <2> DEFINE n == records[i].tx_nr
             y == records[i].type
  <2>1. << key, n, y >> \in Gives(addresses.changes)
    BY <1>6
  <2>2. << key, n, y >> \in TypesSaid(ToSet(ledger))
    BY <1>3, <1>8, <2>1 DEF Through
  <2>3. PICK t \in ToSet(ledger) : << key, n, y >> \in L!Given(t)
    BY <2>2 DEF TypesSaid
  <2>4. PICK h \in DOMAIN Notes(t) : /\ Notes(t)[h].key = key
                                     /\ n = t.tx_nr /\ y = Notes(t)[h].type
    BY <1>5, <2>3
  <2>5. records[i] = RecordOf(t, h)
    BY <1>7, <2>4 DEF RecordOf
  <2> QED BY <2>4, <2>5
<1>9. ASSUME NEW t \in ToSet(ledger), NEW h \in DOMAIN Notes(t), Notes(t)[h].key = key
      PROVE  \E i \in DOMAIN records : records[i] = RecordOf(t, h)
  <2>1. << key, t.tx_nr, Notes(t)[h].type >> \in L!Given(t)
    BY <1>5, <1>9
  <2>2. << key, t.tx_nr, Notes(t)[h].type >> \in TypesSaid(ToSet(ledger))
    BY <2>1 DEF TypesSaid
  <2>3. << key, t.tx_nr, Notes(t)[h].type >> \in Gives(addresses.changes)
    BY <1>3, <2>2 DEF Through
  <2>4. PICK i \in DOMAIN records : records[i].tx_nr = t.tx_nr /\ records[i].type = Notes(t)[h].type
    BY <1>6, <2>3
  <2>5. records[i] = RecordOf(t, h)
    BY <1>7, <2>4 DEF RecordOf
  <2> QED BY <2>5
<1> QED BY <1>8, <1>9

\* The records of a key are in order and once each.
LEMMA RecordsInOrder ==
  ASSUME NEW home, AnswerInv(home), NEW key \in Keys
  PROVE  \E top : NewestFirst(addresses.changes[key], top)
BY DEF AnswerInv, LedgerInv, RetryInv, RecordedUpTo

(***************************************************************************)
(* The latest note of the ledger up to a number.                           *)
(***************************************************************************)
Latest(given, g) ==
  g \in given /\ \A h \in given : h[1] < g[1] \/ (h[1] = g[1] /\ h[2] <= g[2])

LEMMA LatestIsThere ==
  ASSUME NEW n \in Nat, NEW given \in SUBSET ((1..n) \X (1..2)), given # {}
  PROVE  \E g \in given : Latest(given, g)
<1> DEFINE S == {g[1] : g \in given}
<1>1. S \in SUBSET Int /\ S # {} /\ \A i \in S : i <= n
  OBVIOUS
<1>2. Max(S) \in S /\ \A i \in S : i <= Max(S)
  <2>1. n \in Int
    OBVIOUS
  <2> HIDE DEF S
  <2> QED BY <1>1, <2>1, GreatestNumber
<1> DEFINE a == Max(S)
<1> HIDE DEF a
<1>3. \A h \in given : /\ h = << h[1], h[2] >>
                       /\ h[1] \in Nat /\ h[2] \in Nat /\ h[1] <= a
                       /\ h[2] = 1 \/ h[2] = 2
  BY <1>2 DEF a
<1>4. PICK one \in given : one[1] = a
  BY <1>2 DEF a
<1>5. CASE << a, 2 >> \in given
  <2>1. \A h \in given : h[1] < a \/ (h[1] = a /\ h[2] <= 2)
    BY <1>3, <1>4
  <2>2. << a, 2 >>[1] = a /\ << a, 2 >>[2] = 2
    OBVIOUS
  <2>3. Latest(given, << a, 2 >>)
    BY <1>5, <2>1, <2>2 DEF Latest
  <2> QED BY <1>5, <2>3
<1>6. CASE << a, 2 >> \notin given
  <2>1. \A h \in given : h[1] = a => h[2] = 1
    BY <1>3, <1>6
  <2>2. one[2] = 1
    BY <1>4, <2>1
  <2>3. \A h \in given : h[1] < a \/ (h[1] = a /\ h[2] <= 1)
    BY <1>3, <1>4, <2>1
  <2>4. Latest(given, one)
    BY <1>4, <2>2, <2>3 DEF Latest
  <2> QED BY <2>4
<1> QED BY <1>5, <1>6

LEMMA GivenAre ==
  ASSUME NEW home, IInv, LedgerStands(home), NEW key, NEW n
  PROVE  /\ Len(ledger) \in Nat
         /\ GivenUpTo(key, n) \in SUBSET ((1..Len(ledger)) \X (1..2))
         /\ \A g \in GivenUpTo(key, n) :
              /\ g[1] \in DOMAIN ledger /\ g[2] \in DOMAIN Notes(ledger[g[1]])
              /\ ledger[g[1]] \in ToSet(ledger) /\ ledger[g[1]].tx_nr <= n
              /\ Notes(ledger[g[1]])[g[2]].key = key
         /\ \A t \in ToSet(ledger) : \A h \in DOMAIN Notes(t) :
              t.tx_nr <= n /\ Notes(t)[h].key = key =>
                \E i \in DOMAIN ledger : t = ledger[i] /\ << i, h >> \in GivenUpTo(key, n)
<1>1. ledger \in Seq(Arrivals)
  BY DEF LedgerStands
<1>2. Len(ledger) \in Nat /\ DOMAIN ledger = 1..Len(ledger)
  BY <1>1
<1>3. \A t : t \in ToSet(ledger) <=> \E i \in DOMAIN ledger : t = ledger[i]
  BY DEF ToSet
<1>4. ASSUME NEW g \in GivenUpTo(key, n)
      PROVE  /\ g \in (1..Len(ledger)) \X (1..2)
             /\ g[1] \in DOMAIN ledger /\ g[2] \in DOMAIN Notes(ledger[g[1]])
             /\ ledger[g[1]] \in ToSet(ledger) /\ ledger[g[1]].tx_nr <= n
             /\ Notes(ledger[g[1]])[g[2]].key = key
  <2>1. g \in (DOMAIN ledger) \X (1..2)
    BY DEF GivenUpTo
  <2>2. g[1] \in DOMAIN ledger
    BY <2>1
  <2>3. /\ g[2] \in DOMAIN Notes(ledger[g[1]]) /\ ledger[g[1]].tx_nr <= n
        /\ Notes(ledger[g[1]])[g[2]].key = key
    BY DEF GivenUpTo
  <2> QED BY <1>2, <1>3, <2>1, <2>2, <2>3
<1>5. ASSUME NEW t \in ToSet(ledger), NEW h \in DOMAIN Notes(t),
             t.tx_nr <= n, Notes(t)[h].key = key
      PROVE  \E i \in DOMAIN ledger : t = ledger[i] /\ << i, h >> \in GivenUpTo(key, n)
  <2>1. PICK i \in DOMAIN ledger : t = ledger[i]
    BY <1>3
  <2>2. h \in 1..2
    <3>1. t \in Transaction
      BY LedgerIsRun
    <3> QED BY <3>1, TwoNotesAtMost
  <2>3. << i, h >> \in (DOMAIN ledger) \X (1..2) /\ << i, h >>[1] = i /\ << i, h >>[2] = h
    BY <2>2
  <2>4. << i, h >> \in GivenUpTo(key, n)
    BY <1>5, <2>1, <2>3 DEF GivenUpTo
  <2> QED BY <2>1, <2>4
<1> QED BY <1>2, <1>4, <1>5

(***************************************************************************)
(* Walking down a key's records from the newest finds the type the ledger  *)
(* gave last: of a transaction that gives two, the second.                 *)
(***************************************************************************)
LEMMA TypesAgree ==
  ASSUME NEW home, AnswerInv(home), NEW key \in Keys, NEW n \in Nat, n <= max_tx_nr
  PROVE  TypeAt(addresses, key, n) = LedgerTypeAt(key, n)
<1> DEFINE records == addresses.changes[key]
           below == {i \in DOMAIN records : records[i].tx_nr <= n}
           given == GivenUpTo(key, n)
<1>1. /\ IInv /\ LedgerStands(home) /\ RegisterReachable(addresses)
      /\ addresses \in Register /\ max_tx_nr \in Nat /\ min_tx_nr \in Nat
  BY DEF AnswerInv, LedgerInv, RetryInv, IInv, TypeOK
<1>2. records \in Seq(TypeChange)
  BY <1>1 DEF Register
<1>3. /\ DOMAIN records = 1..Len(records) /\ Len(records) \in Nat
      /\ \A i \in DOMAIN records : records[i].tx_nr \in Nat
  BY <1>2, RecordsAreNumbered
<1>4. TypeAt(addresses, key, n) = TypeBelow(records, n)
  <2>1. CASE KnowsKey(addresses, key)
    BY <2>1, TypeAtWalks
  <2>2. CASE ~KnowsKey(addresses, key)
    <3>1. records = <<>>
      BY <1>1, <2>2 DEF RegisterReachable
    <3>2. TypeBelow(records, n) = "nothing"
      BY <3>1 DEF TypeBelow
    <3> QED BY <2>2, <3>2, TypeAtWalks
  <2> QED BY <2>1, <2>2
<1>5. /\ \A i \in below : \E t \in ToSet(ledger) : \E h \in DOMAIN Notes(t) :
            Notes(t)[h].key = key /\ records[i] = RecordOf(t, h)
      /\ \A t \in ToSet(ledger) : \A h \in DOMAIN Notes(t) :
            Notes(t)[h].key = key => \E i \in DOMAIN records : records[i] = RecordOf(t, h)
  <2>1. \A i \in below : i \in DOMAIN records /\ records[i].tx_nr <= max_tx_nr
    BY <1>1, <1>3
  <2> HIDE DEF below
  <2> QED BY <2>1, RecordsAreGiven
<1>6. /\ Len(ledger) \in Nat
      /\ given \in SUBSET ((1..Len(ledger)) \X (1..2))
      /\ \A g \in given :
           /\ g[1] \in DOMAIN ledger /\ g[2] \in DOMAIN Notes(ledger[g[1]])
           /\ ledger[g[1]] \in ToSet(ledger) /\ ledger[g[1]].tx_nr <= n
           /\ Notes(ledger[g[1]])[g[2]].key = key
      /\ \A t \in ToSet(ledger) : \A h \in DOMAIN Notes(t) :
           t.tx_nr <= n /\ Notes(t)[h].key = key =>
             \E i \in DOMAIN ledger : t = ledger[i] /\ << i, h >> \in given
  BY <1>1, GivenAre
<1> HIDE DEF given
<1>7. \A t \in ToSet(ledger) : \A h : RecordOf(t, h).tx_nr = t.tx_nr
                                      /\ RecordOf(t, h).type = Notes(t)[h].type
  BY DEF RecordOf
<1>8. \A i \in below : \E g \in given : records[i] = RecordOf(ledger[g[1]], g[2])
  <2> SUFFICES ASSUME NEW i \in below
               PROVE  \E g \in given : records[i] = RecordOf(ledger[g[1]], g[2])
    OBVIOUS
  <2>1. PICK t \in ToSet(ledger) : \E h \in DOMAIN Notes(t) :
          Notes(t)[h].key = key /\ records[i] = RecordOf(t, h)
    BY <1>5
  <2>2. PICK h \in DOMAIN Notes(t) : Notes(t)[h].key = key /\ records[i] = RecordOf(t, h)
    BY <2>1
  <2>3. t.tx_nr <= n
    BY <1>7, <2>2
  <2>4. PICK j \in DOMAIN ledger : t = ledger[j] /\ << j, h >> \in given
    BY <1>6, <2>2, <2>3
  <2>5. << j, h >>[1] = j /\ << j, h >>[2] = h
    OBVIOUS
  <2> QED BY <2>2, <2>4, <2>5
<1>9. \A g \in given : \E i \in below : records[i] = RecordOf(ledger[g[1]], g[2])
  <2> SUFFICES ASSUME NEW g \in given
               PROVE  \E i \in below : records[i] = RecordOf(ledger[g[1]], g[2])
    OBVIOUS
  <2>1. PICK i \in DOMAIN records : records[i] = RecordOf(ledger[g[1]], g[2])
    BY <1>5, <1>6
  <2>2. records[i].tx_nr <= n
    BY <1>6, <1>7, <2>1
  <2> QED BY <2>1, <2>2
<1>10. CASE given = {}
  <2>1. below = {}
    BY <1>8, <1>10
  <2>2. TypeBelow(records, n) = "nothing"
    BY <2>1 DEF TypeBelow
  <2>3. LedgerTypeAt(key, n) = "nothing"
    BY <1>10 DEF LedgerTypeAt, given
  <2> QED BY <1>4, <2>2, <2>3
<1>11. CASE given # {}
  <2> DEFINE p == Min(below)
             last == CHOOSE g \in given : Latest(given, g)
  <2>1. below # {} /\ below \in SUBSET Nat
    BY <1>3, <1>9, <1>11
  <2>2. TypeBelow(records, n) = records[p].type
    BY <2>1 DEF TypeBelow
  <2>3. p \in below /\ \A i \in below : p <= i
    <3> HIDE DEF below
    <3> QED BY <2>1, SmallestNumber
  <2>4. last \in given /\ Latest(given, last)
    <3>1. \E g \in given : Latest(given, g)
      BY <1>6, <1>11, LatestIsThere
    <3> QED BY <3>1
  <2>5. LedgerTypeAt(key, n) = Notes(ledger[last[1]])[last[2]].type
    BY <1>11 DEF LedgerTypeAt, given, Latest
  <2> HIDE DEF last, p
  <2>6. PICK g \in given : records[p] = RecordOf(ledger[g[1]], g[2])
    BY <1>8, <2>3
  <2>7. PICK q \in below : records[q] = RecordOf(ledger[last[1]], last[2])
    BY <1>9, <2>4
  <2> DEFINE latest == ledger[last[1]]
             holder == ledger[g[1]]
  <2>8. latest \in ToSet(ledger) /\ holder \in ToSet(ledger) /\ latest.tx_nr \in Nat /\ holder.tx_nr \in Nat
    BY <1>1, <1>6, <2>4, <2>6, LedgerIsRun
  <2>9. records[p].tx_nr = holder.tx_nr /\ records[q].tx_nr = latest.tx_nr
    BY <1>7, <2>6, <2>7, <2>8
  <2>10. PICK top : NewestFirst(records, top)
    BY RecordsInOrder
  <2>11. p <= q /\ p \in DOMAIN records /\ q \in DOMAIN records /\ p \in Nat /\ q \in Nat
    BY <1>3, <2>3, <2>7
  <2>12. latest.tx_nr <= holder.tx_nr
    <3>1. CASE p = q
      BY <2>8, <2>9, <3>1
    <3>2. CASE p < q
      BY <2>9, <2>10, <2>11, <3>2 DEF NewestFirst
    <3> QED BY <2>11, <3>1, <3>2
  <2>13. g[1] = last[1] /\ g[2] <= last[2]
    <3>1. g[1] < last[1] \/ (g[1] = last[1] /\ g[2] <= last[2])
      BY <2>4, <2>6 DEF Latest
    <3>2. ~(g[1] < last[1])
      <4>1. latest.tx_nr = min_tx_nr + last[1] - 1 /\ holder.tx_nr = min_tx_nr + g[1] - 1
        BY <1>1, <1>6, <2>4, <2>6 DEF LedgerStands
      <4>2. g[1] \in Nat /\ last[1] \in Nat
        BY <1>6, <2>4, <2>6
      <4> QED BY <1>1, <2>12, <4>1, <4>2
    <3> QED BY <3>1, <3>2
  <2>14. CASE g[2] = last[2]
    BY <1>4, <1>7, <2>2, <2>5, <2>6, <2>8, <2>13, <2>14
  <2>15. CASE g[2] # last[2]
    <3>1. g[2] = 1 /\ last[2] = 2
      <4>1. g[2] \in 1..2 /\ last[2] \in 1..2
        BY <1>6, <2>4, <2>6
      <4> QED BY <2>13, <2>15, <4>1
    <3>2. DOMAIN Notes(latest) = 1..2 /\ Notes(latest)[1].key = key /\ Notes(latest)[2].key = key
      <4>1. 1 \in DOMAIN Notes(latest) /\ 2 \in DOMAIN Notes(latest)
        BY <1>6, <2>4, <2>6, <2>13, <3>1
      <4>2. DOMAIN Notes(latest) \subseteq 1..2
        <5>1. latest \in Transaction
          BY <1>1, <2>8, LedgerIsRun
        <5> QED BY <5>1, TwoNotesAtMost
      <4>3. Notes(latest)[1].key = key /\ Notes(latest)[2].key = key
        BY <1>6, <2>4, <2>6, <2>13, <3>1
      <4>4. 1..2 = {1, 2}
        OBVIOUS
      <4> QED BY <4>1, <4>2, <4>3, <4>4
    <3>3. WrittenInOrder(records, latest, key)
      BY <2>8 DEF AnswerInv, NotesStand, Known
    <3>4. records[q] = [tx_nr |-> latest.tx_nr, type |-> Notes(latest)[2].type]
      BY <2>7, <3>1 DEF RecordOf
    <3>5. records[p] = [tx_nr |-> latest.tx_nr, type |-> Notes(latest)[1].type]
      BY <2>6, <2>13, <3>1 DEF RecordOf
    <3>6. Notes(latest)[1].type = Notes(latest)[2].type
      <4> SUFFICES ASSUME Notes(latest)[1].type # Notes(latest)[2].type
                   PROVE  FALSE
        OBVIOUS
      <4>1. PICK i \in DOMAIN records :
              q < i /\ records[i] = [tx_nr |-> latest.tx_nr, type |-> Notes(latest)[1].type]
        BY <2>11, <3>2, <3>3, <3>4 DEF WrittenInOrder
      <4>2. i = p
        BY <2>10, <2>11, <3>5, <4>1 DEF NewestFirst
      <4> QED BY <2>11, <4>1, <4>2
    <3>7. records[p].type = Notes(latest)[1].type
      BY <3>5
    <3>8. LedgerTypeAt(key, n) = Notes(latest)[2].type
      BY <2>5, <3>1
    <3> QED BY <1>4, <2>2, <3>6, <3>7, <3>8
  <2> QED BY <2>14, <2>15
<1> QED BY <1>10, <1>11

(***************************************************************************)
(* The register and the segments are written by separate calls that may    *)
(* each be refused and then repeated.  When no add waits, they agree on    *)
(* the last number that moved a balance; and at any time the register      *)
(* gives an address as of every counted number the type the ledger last    *)
(* gave it by then.                                                        *)
(***************************************************************************)
THEOREM RegisterAgrees ==
  ASSUME NEW home \in Communities,
         \A tx \in Arrivals : tx.community = home /\ UnknownTypes(tx) = {}
  PROVE  LedgerSpec => []RegisterAgreesWithTheSegments
<1>1. AnswerInv(home) => RegisterAgreesWithTheSegments
  <2> SUFFICES ASSUME AnswerInv(home), NEW key \in Keys
               PROVE  /\ Pending = {} =>
                           LastBalance(addresses, key) = ChainNewest(BalanceOf(key))
                      /\ \A n \in min_tx_nr..max_tx_nr :
                           TypeAt(addresses, key, n) = LedgerTypeAt(key, n)
    BY DEF RegisterAgreesWithTheSegments, BalanceOf
  <2>1. Pending = {} => LastBalance(addresses, key) = ChainNewest(BalanceOf(key))
    BY BalancesAgree
  <2>2. ASSUME NEW n \in min_tx_nr..max_tx_nr
        PROVE  TypeAt(addresses, key, n) = LedgerTypeAt(key, n)
    <3>1. min_tx_nr \in Nat /\ max_tx_nr \in Nat
      BY DEF AnswerInv, LedgerInv, RetryInv, IInv, TypeOK
    <3>2. n \in Nat /\ n <= max_tx_nr
      BY <3>1
    <3> QED BY <3>2, TypesAgree
  <2> QED BY <2>1, <2>2
<1>2. LedgerSpec => []AnswerInv(home)
  BY AnswerInvHolds
<1> QED BY <1>1, <1>2, PTL

-----------------------------------------------------------------------------
(***************************************************************************)
(* Pages.  InOrder gives each of the numbers the place that as many of     *)
(* them come before.                                                       *)
(***************************************************************************)
Comes(m, n, descending) == IF descending THEN m > n ELSE m < n

Rank(n, S, descending) == Cardinality(Before(n, S, descending))

LEMMA ComesInOrder ==
  ASSUME NEW descending \in BOOLEAN
  PROVE  /\ \A n \in Nat : ~Comes(n, n, descending)
         /\ \A n, m \in Nat : n = m \/ Comes(n, m, descending) \/ Comes(m, n, descending)
         /\ \A n, m, o \in Nat : Comes(n, m, descending) /\ Comes(m, o, descending)
                                   => Comes(n, o, descending)
<1>1. CASE descending
  BY <1>1 DEF Comes
<1>2. CASE ~descending
  BY <1>2 DEF Comes
<1> QED BY <1>1, <1>2

LEMMA RankIsBelow ==
  ASSUME NEW S \in SUBSET Nat, IsFiniteSet(S), NEW descending \in BOOLEAN
  PROVE  /\ Cardinality(S) \in Nat
         /\ \A n \in S : Rank(n, S, descending) \in 0..(Cardinality(S) - 1)
         /\ \A n, m \in S : Comes(n, m, descending) =>
              Rank(n, S, descending) < Rank(m, S, descending)
<1> DEFINE d == descending
<1>1. Cardinality(S) \in Nat
  BY FS_CardinalityType
<1>2. \A n \in S : \A x : x \in Before(n, S, d) <=> x \in S /\ Comes(x, n, d)
  BY DEF Before, Comes
<1>3. ASSUME NEW n \in S
      PROVE  /\ IsFiniteSet(Before(n, S, d)) /\ Rank(n, S, d) \in Nat
             /\ Rank(n, S, d) < Cardinality(S)
  <2>1. Before(n, S, d) \in SUBSET S
    BY <1>2
  <2>2. n \notin Before(n, S, d)
    BY <1>2, ComesInOrder
  <2>3. /\ IsFiniteSet(Before(n, S, d))
        /\ Cardinality(Before(n, S, d)) <= Cardinality(S)
        /\ Cardinality(S) = Cardinality(Before(n, S, d)) => S = Before(n, S, d)
    BY <2>1, FS_Subset
  <2>4. Cardinality(Before(n, S, d)) \in Nat
    BY <2>3, FS_CardinalityType
  <2> QED BY <1>1, <2>2, <2>3, <2>4 DEF Rank
<1>4. ASSUME NEW n \in S, NEW m \in S, Comes(n, m, d)
      PROVE  Rank(n, S, d) < Rank(m, S, d)
  <2>1. Before(n, S, d) \in SUBSET Before(m, S, d)
    BY <1>2, <1>4, ComesInOrder
  <2>2. n \in Before(m, S, d) /\ n \notin Before(n, S, d)
    BY <1>2, <1>4, ComesInOrder
  <2>3. /\ Cardinality(Before(n, S, d)) <= Cardinality(Before(m, S, d))
        /\ Cardinality(Before(m, S, d)) = Cardinality(Before(n, S, d)) =>
             Before(m, S, d) = Before(n, S, d)
    BY <1>3, <2>1, FS_Subset
  <2>4. Rank(n, S, d) \in Nat /\ Rank(m, S, d) \in Nat
    BY <1>3
  <2> QED BY <2>2, <2>3, <2>4 DEF Rank
<1>5. \A n \in S : Rank(n, S, d) \in 0..(Cardinality(S) - 1)
  BY <1>1, <1>3
<1> QED BY <1>1, <1>4, <1>5

LEMMA RanksAreTaken ==
  ASSUME NEW S \in SUBSET Nat, IsFiniteSet(S), NEW descending \in BOOLEAN,
         NEW i \in 0..(Cardinality(S) - 1)
  PROVE  \E n \in S : Rank(n, S, descending) = i
<1> DEFINE places == 0..(Cardinality(S) - 1)
           f == [n \in S |-> Rank(n, S, descending)]
<1>1. /\ Cardinality(S) \in Nat
      /\ \A n \in S : Rank(n, S, descending) \in 0..(Cardinality(S) - 1)
      /\ \A n, m \in S : Comes(n, m, descending) =>
           Rank(n, S, descending) < Rank(m, S, descending)
  BY RankIsBelow
<1>2. f \in [S -> places]
  BY <1>1
<1>3. ASSUME NEW n \in S, NEW m \in S, f[n] = f[m]
      PROVE  n = m
  <2>1. Rank(n, S, descending) = Rank(m, S, descending) /\ Rank(n, S, descending) \in Nat
    BY <1>1, <1>3
  <2>2. ~Comes(n, m, descending) /\ ~Comes(m, n, descending)
    BY <1>1, <2>1
  <2> QED BY <2>2, ComesInOrder
<1>4. f \in Injection(S, places)
  BY <1>2, <1>3 DEF Injection, IsInjective
<1>5. IsFiniteSet(places) /\ Cardinality(places) = Cardinality(S)
  <2>1. 0 \in Int /\ Cardinality(S) - 1 \in Int
    BY <1>1
  <2>2. IsFiniteSet(places)
        /\ Cardinality(places) = IF 0 > Cardinality(S) - 1 THEN 0 ELSE Cardinality(S) - 1 - 0 + 1
    BY <2>1, FS_Interval
  <2> QED BY <1>1, <2>2
<1> HIDE DEF f, places
<1>6. f \in Surjection(S, places)
  BY <1>4, <1>5, FS_Injection
<1>7. PICK n \in S : f[n] = i
  BY <1>6 DEF Surjection, places
<1> QED BY <1>7 DEF f

LEMMA InOrderIs ==
  ASSUME NEW S \in SUBSET Nat, IsFiniteSet(S), NEW descending \in BOOLEAN
  PROVE  /\ Cardinality(S) \in Nat
         /\ InOrder(S, descending) \in Seq(S)
         /\ Len(InOrder(S, descending)) = Cardinality(S)
         /\ DOMAIN InOrder(S, descending) = 1..Cardinality(S)
         /\ \A i \in 1..Cardinality(S) : Rank(InOrder(S, descending)[i], S, descending) = i - 1
         /\ \A n \in S : \A i \in 1..Cardinality(S) :
              Rank(n, S, descending) = i - 1 => InOrder(S, descending)[i] = n
<1> DEFINE c == Cardinality(S)
           order == InOrder(S, descending)
           At1(i) == CHOOSE n \in S : Rank(n, S, descending) = i - 1
<1>1. /\ c \in Nat
      /\ \A n \in S : Rank(n, S, descending) \in 0..(c - 1)
      /\ \A n, m \in S : Comes(n, m, descending) =>
           Rank(n, S, descending) < Rank(m, S, descending)
  BY RankIsBelow
<1>2. order = [i \in 1..c |-> At1(i)]
  BY DEF InOrder, Rank
<1>3. ASSUME NEW i \in 1..c
      PROVE  At1(i) \in S /\ Rank(At1(i), S, descending) = i - 1
  <2>1. i - 1 \in 0..(c - 1)
    BY <1>1
  <2>2. \E n \in S : Rank(n, S, descending) = i - 1
    BY <2>1, RanksAreTaken
  <2> QED BY <2>2
<1>4. ASSUME NEW n \in S, NEW m \in S, Rank(n, S, descending) = Rank(m, S, descending)
      PROVE  n = m
  <2>1. Rank(n, S, descending) \in Nat
    BY <1>1
  <2>2. ~Comes(n, m, descending) /\ ~Comes(m, n, descending)
    BY <1>1, <1>4, <2>1
  <2> QED BY <2>2, ComesInOrder
<1> HIDE DEF c, order, At1
<1>5. order \in [1..c -> S]
  BY <1>2, <1>3
<1>6. order \in Seq(S) /\ Len(order) = c /\ DOMAIN order = 1..c
  BY <1>1, <1>5
<1>7. \A i \in 1..c : order[i] \in S /\ Rank(order[i], S, descending) = i - 1
  BY <1>2, <1>3
<1>8. ASSUME NEW n \in S, NEW i \in 1..c, Rank(n, S, descending) = i - 1
      PROVE  order[i] = n
  BY <1>4, <1>7, <1>8
<1> QED BY <1>1, <1>6, <1>7, <1>8 DEF c, order

\* Numbers that all come before others are in order before them.
LEMMA OrderOfBoth ==
  ASSUME NEW A \in SUBSET Nat, IsFiniteSet(A), NEW B \in SUBSET Nat, IsFiniteSet(B),
         NEW descending \in BOOLEAN,
         \A a \in A : \A b \in B : Comes(a, b, descending)
  PROVE  /\ IsFiniteSet(A \cup B)
         /\ Cardinality(A \cup B) = Cardinality(A) + Cardinality(B)
         /\ InOrder(A \cup B, descending) = InOrder(A, descending) \o InOrder(B, descending)
<1> DEFINE d == descending
           C == A \cup B
           p == Cardinality(A)
           q == Cardinality(B)
           first == InOrder(A, d)
           second == InOrder(B, d)
           whole == InOrder(C, d)
<1>1. \A n, m \in Nat : ~(Comes(n, m, d) /\ Comes(m, n, d))
  BY ComesInOrder
<1>2. A \cap B = {}
  BY ComesInOrder
<1>3. IsFiniteSet(C) /\ Cardinality(C) = p + q /\ p \in Nat /\ q \in Nat
  <2>1. IsFiniteSet(C) /\ Cardinality(C) = p + q - Cardinality(A \cap B)
    BY FS_Union
  <2>2. Cardinality(A \cap B) = 0
    BY <1>2, FS_EmptySet
  <2> QED BY <2>1, <2>2, FS_CardinalityType
<1>4. C \in SUBSET Nat
  OBVIOUS
<1>5. /\ first \in Seq(A) /\ Len(first) = p /\ DOMAIN first = 1..p
      /\ \A i \in 1..p : Rank(first[i], A, d) = i - 1
  BY InOrderIs
<1>6. /\ second \in Seq(B) /\ Len(second) = q /\ DOMAIN second = 1..q
      /\ \A i \in 1..q : Rank(second[i], B, d) = i - 1
  BY InOrderIs
<1>7. /\ whole \in Seq(C) /\ Len(whole) = p + q /\ DOMAIN whole = 1..(p + q)
      /\ \A n \in C : \A i \in 1..(p + q) : Rank(n, C, d) = i - 1 => whole[i] = n
  <2> DEFINE r == Cardinality(C)
  <2>1. /\ whole \in Seq(C) /\ Len(whole) = r /\ DOMAIN whole = 1..r
        /\ \A n \in C : \A i \in 1..r : Rank(n, C, d) = i - 1 => whole[i] = n
    <3> HIDE DEF C
    <3> QED BY <1>3, <1>4, InOrderIs
  <2>2. r = p + q
    BY <1>3
  <2> HIDE DEF r, C, p, q, whole, d
  <2> QED BY <2>1, <2>2
<1>8. ASSUME NEW n \in A
      PROVE  Rank(n, C, d) = Rank(n, A, d)
  <2>1. Before(n, C, d) = Before(n, A, d)
    <3>1. \A S : \A x : x \in Before(n, S, d) <=> x \in S /\ Comes(x, n, d)
      BY DEF Before, Comes
    <3>2. \A x \in B : ~Comes(x, n, d)
      BY <1>1
    <3>3. \A x : x \in Before(n, C, d) <=> x \in Before(n, A, d)
      <4>1. \A x : x \in C <=> x \in A \/ x \in B
        OBVIOUS
      <4> HIDE DEF C
      <4> QED BY <3>1, <3>2, <4>1, Zenon
    <3> HIDE DEF C
    <3> QED BY <3>3
  <2> QED BY <2>1 DEF Rank
<1>9. ASSUME NEW n \in B
      PROVE  Rank(n, C, d) = p + Rank(n, B, d)
  <2>1. Before(n, C, d) = A \cup Before(n, B, d) /\ Before(n, B, d) \in SUBSET B
    <3>1. \A S : \A x : x \in Before(n, S, d) <=> x \in S /\ Comes(x, n, d)
      BY DEF Before, Comes
    <3>2. \A x \in A : Comes(x, n, d)
      OBVIOUS
    <3>3. \A x : x \in Before(n, C, d) <=> x \in A \/ x \in Before(n, B, d)
      <4>1. \A x : x \in C <=> x \in A \/ x \in B
        OBVIOUS
      <4> HIDE DEF C, d
      <4> QED BY <3>1, <3>2, <4>1, Zenon
    <3>4. \A x : x \in Before(n, B, d) => x \in B
      <4> HIDE DEF C, d
      <4> QED BY <3>1, Zenon
    <3> HIDE DEF C, d
    <3>5. Before(n, C, d) = A \cup Before(n, B, d)
      BY <3>3
    <3> QED BY <3>4, <3>5
  <2>2. IsFiniteSet(Before(n, B, d))
    BY <2>1, FS_Subset
  <2>3. A \cap Before(n, B, d) = {}
    BY <1>2, <2>1
  <2>4. Cardinality(A \cup Before(n, B, d)) = p + Cardinality(Before(n, B, d)) - 0
    BY <2>2, <2>3, FS_Union, FS_EmptySet
  <2>5. Rank(n, B, d) \in Nat
    BY <2>2, FS_CardinalityType DEF Rank
  <2>6. Rank(n, C, d) = p + Rank(n, B, d) - 0
    <3> HIDE DEF C, p, d
    <3> QED BY <2>1, <2>4, Zenon DEF Rank
  <2> HIDE DEF C, p, d
  <2> QED BY <1>3, <2>5, <2>6
<1>10. \A i \in 1..p : first[i] \in A
  BY <1>5
<1>11. \A i \in 1..q : second[i] \in B
  BY <1>6
<1> HIDE DEF p, q, first, second, whole, C, d
<1>12. ASSUME NEW i \in 1..(p + q)
       PROVE  whole[i] = (first \o second)[i]
  <2>1. CASE i <= p
    <3>1. i \in 1..p
      BY <1>3, <2>1
    <3>2. first[i] \in C /\ Rank(first[i], C, d) = i - 1
      BY <1>5, <1>8, <1>10, <3>1 DEF C
    <3>3. whole[i] = first[i]
      BY <1>7, <3>2
    <3>4. (first \o second)[i] = first[i]
      BY <1>3, <1>5, <1>6, <3>1
    <3> QED BY <3>3, <3>4
  <2>2. CASE i > p
    <3>1. i - p \in 1..q
      BY <1>3, <2>2
    <3>2. second[i - p] \in C /\ Rank(second[i - p], C, d) = p + (i - p - 1)
      BY <1>6, <1>9, <1>11, <3>1 DEF C
    <3>3. Rank(second[i - p], C, d) = i - 1
      BY <1>3, <3>2
    <3>4. whole[i] = second[i - p]
      BY <1>7, <3>2, <3>3
    <3>5. (first \o second)[i] = second[i - p]
      BY <1>3, <1>5, <1>6, <2>2
    <3> QED BY <3>4, <3>5
  <2>3. i <= p \/ i > p
    BY <1>3
  <2> QED BY <2>1, <2>2, <2>3, Zenon
<1>13. whole = first \o second
  <2>1. first \in Seq(C) /\ second \in Seq(C)
    BY <1>5, <1>6 DEF C
  <2>2. first \o second \in Seq(C) /\ Len(first \o second) = p + q
    BY <1>5, <1>6, <2>1, ConcatProperties
  <2>3. Len(whole) = Len(first \o second)
        /\ \A i \in 1..Len(whole) : whole[i] = (first \o second)[i]
    BY <1>7, <1>12, <2>2
  <2> QED BY <1>7, <2>2, <2>3, SeqEqual
<1> QED BY <1>3, <1>13 DEF p, q, first, second, whole, C, d

(***************************************************************************)
(* A page cut out of a sequence that is continued: what is left of it is   *)
(* cut out of the continuation, past what is left of the skip.             *)
(***************************************************************************)
Cut(s, skip, size) == SubSeq(s, skip + 1, Min({skip + size, Len(s)}))

CutLen(n, skip, size) ==
  IF n <= skip THEN 0 ELSE IF skip + size <= n THEN size ELSE n - skip

LEMMA CutIs ==
  ASSUME NEW A, NEW s \in Seq(A), NEW skip \in Nat, NEW size \in Nat
  PROVE  /\ Cut(s, skip, size) \in Seq(A)
         /\ Len(Cut(s, skip, size)) = CutLen(Len(s), skip, size)
         /\ CutLen(Len(s), skip, size) \in Nat /\ CutLen(Len(s), skip, size) <= size
         /\ \A i \in 1..CutLen(Len(s), skip, size) : Cut(s, skip, size)[i] = s[skip + i]
<1> DEFINE end == Min({skip + size, Len(s)})
           len == CutLen(Len(s), skip, size)
<1>1. Len(s) \in Nat /\ DOMAIN s = 1..Len(s)
  OBVIOUS
<1>2. end = IF skip + size <= Len(s) THEN skip + size ELSE Len(s)
  <2>1. skip + size \in Int /\ Len(s) \in Int
    BY <1>1
  <2> QED BY <2>1, SmallerOfTwo
<1>3. end \in Int /\ skip + 1 \in Int /\ end <= Len(s)
  <2> DEFINE n == Len(s)
  <2>1. n \in Nat /\ end = IF skip + size <= n THEN skip + size ELSE n
    BY <1>1, <1>2
  <2> HIDE DEF end, n
  <2>2. end \in Int /\ skip + 1 \in Int /\ end <= n
    BY <2>1
  <2> QED BY <2>2 DEF n
<1>4. \A i \in (skip + 1)..end : s[i] \in A
  <2>1. \A i \in (skip + 1)..end : i \in 1..Len(s)
    <3> HIDE DEF end
    <3> QED BY <1>1, <1>3
  <2> QED BY <2>1, ElementOfSeq
<1>5. /\ SubSeq(s, skip + 1, end) \in Seq(A)
      /\ Len(SubSeq(s, skip + 1, end)) = IF skip + 1 <= end THEN end - (skip + 1) + 1 ELSE 0
      /\ \A i \in 1..(end - (skip + 1) + 1) : SubSeq(s, skip + 1, end)[i] = s[(skip + 1) + i - 1]
  <2> HIDE DEF end
  <2> QED BY <1>3, <1>4, SubSeqProperties
<1>6. Cut(s, skip, size) = SubSeq(s, skip + 1, end)
  BY DEF Cut
<1> HIDE DEF end
<1>7. /\ len = IF skip + 1 <= end THEN end - (skip + 1) + 1 ELSE 0
      /\ len \in Nat /\ len <= size
  <2> DEFINE n == Len(s)
  <2>1. n \in Nat /\ end = IF skip + size <= n THEN skip + size ELSE n
    BY <1>1, <1>2
  <2>2. len = IF n <= skip THEN 0 ELSE IF skip + size <= n THEN size ELSE n - skip
    BY DEF CutLen
  <2> HIDE DEF n, len
  <2> QED BY <2>1, <2>2
<1>8. len \in Nat /\ len <= size
  BY <1>7
<1> HIDE DEF len
<1>9. ASSUME NEW i \in 1..len
      PROVE  Cut(s, skip, size)[i] = s[skip + i]
  <2>1. i \in 1..(end - (skip + 1) + 1) /\ (skip + 1) + i - 1 = skip + i
    BY <1>3, <1>7, <1>8
  <2>2. SubSeq(s, skip + 1, end)[i] = s[(skip + 1) + i - 1]
    BY <1>5, <2>1
  <2> QED BY <1>6, <2>1, <2>2
<1>10. Cut(s, skip, size) \in Seq(A) /\ Len(Cut(s, skip, size)) = len
  BY <1>5, <1>6, <1>7
<1> QED BY <1>8, <1>9, <1>10 DEF len

LEMMA CutOfBoth ==
  ASSUME NEW A, NEW s \in Seq(A), NEW t \in Seq(A), NEW skip \in Nat, NEW size \in Nat
  PROVE  Cut(s \o t, skip, size)
           = Cut(s, skip, size)
               \o Cut(t, SkipLeft(skip, Len(s)), size - Len(Cut(s, skip, size)))
<1> DEFINE a == Len(s)
           b == Len(t)
           here == Cut(s, skip, size)
           left == SkipLeft(skip, a)
           rest == size - Len(here)
           there == Cut(t, left, rest)
           whole == Cut(s \o t, skip, size)
           p == CutLen(a, skip, size)
           q == CutLen(b, left, rest)
           r == CutLen(a + b, skip, size)
<1>1. /\ a \in Nat /\ b \in Nat
      /\ s \o t \in Seq(A) /\ Len(s \o t) = a + b
      /\ \A i \in 1..(a + b) : (s \o t)[i] = IF i <= a THEN s[i] ELSE t[i - a]
  BY ConcatProperties
<1>2. /\ here \in Seq(A) /\ Len(here) = p /\ p \in Nat /\ p <= size
      /\ \A i \in 1..p : here[i] = s[skip + i]
  BY CutIs
<1>3. left = (IF skip <= a THEN 0 ELSE skip - a) /\ left \in Nat
  BY <1>1 DEF SkipLeft
<1>4. rest = size - p /\ rest \in Nat
  BY <1>2
<1>5. /\ there \in Seq(A) /\ Len(there) = q /\ q \in Nat
      /\ \A i \in 1..q : there[i] = t[left + i]
  <2>1. left \in Nat /\ rest \in Nat
    BY <1>3, <1>4
  <2> HIDE DEF left, rest
  <2> QED BY <2>1, CutIs
<1>6. /\ whole \in Seq(A) /\ Len(whole) = r /\ r \in Nat
      /\ \A i \in 1..r : whole[i] = (s \o t)[skip + i]
  <2> DEFINE both == s \o t
  <2>1. both \in Seq(A) /\ Len(both) = a + b
    BY <1>1
  <2> HIDE DEF both
  <2>2. LET cut == Cut(both, skip, size)
            n == CutLen(Len(both), skip, size)
        IN  /\ cut \in Seq(A) /\ Len(cut) = n /\ n \in Nat
            /\ \A i \in 1..n : cut[i] = both[skip + i]
    BY <2>1, CutIs
  <2> QED BY <2>1, <2>2 DEF both
<1>7. /\ here \o there \in Seq(A) /\ Len(here \o there) = p + q
      /\ \A i \in 1..(p + q) : (here \o there)[i] = IF i <= p THEN here[i] ELSE there[i - p]
  <2> HIDE DEF here, there, p, q
  <2> QED BY <1>2, <1>5, ConcatProperties
<1> HIDE DEF here, there, whole, left, rest
<1>8. /\ p = IF a <= skip THEN 0 ELSE IF skip + size <= a THEN size ELSE a - skip
      /\ q = IF b <= left THEN 0 ELSE IF left + rest <= b THEN rest ELSE b - left
      /\ r = IF a + b <= skip THEN 0 ELSE IF skip + size <= a + b THEN size ELSE a + b - skip
  BY DEF CutLen
<1> HIDE DEF a, b, p, q, r
<1>9. r = p + q /\ (r = 0 \/ skip + r <= a + b) /\ (p = 0 \/ skip + p <= a)
      /\ (p < r => skip + p = a + left)
  <2>1. CASE skip < a
    <3>1. CASE skip + size <= a
      BY <1>1, <1>3, <1>4, <1>8, <2>1, <3>1
    <3>2. CASE skip + size > a
      BY <1>1, <1>3, <1>4, <1>8, <2>1, <3>2
    <3> QED BY <1>1, <3>1, <3>2
  <2>2. CASE skip >= a
    BY <1>1, <1>3, <1>4, <1>8, <2>2
  <2> QED BY <1>1, <2>1, <2>2
<1>10. ASSUME NEW i \in 1..r
       PROVE  whole[i] = (here \o there)[i]
  <2>1. skip + i \in 1..(a + b) /\ i \in 1..(p + q) /\ i \in Nat
    BY <1>1, <1>6, <1>9
  <2>2. whole[i] = IF skip + i <= a THEN s[skip + i] ELSE t[skip + i - a]
    <3> DEFINE both == s \o t
    <3>1. \A j \in 1..(a + b) : both[j] = IF j <= a THEN s[j] ELSE t[j - a]
      BY <1>1
    <3>2. whole[i] = both[skip + i]
      BY <1>6
    <3>3. a \in Nat
      BY <1>1
    <3> HIDE DEF both
    <3>4. both[skip + i] = IF skip + i <= a THEN s[skip + i] ELSE t[skip + i - a]
      BY <2>1, <3>1, <3>3
    <3> QED BY <3>2, <3>4, Zenon
  <2>3. CASE i <= p
    <3>1. skip + i <= a /\ i \in 1..p
      BY <1>1, <1>2, <1>9, <2>1, <2>3
    <3> QED BY <1>2, <1>7, <2>1, <2>2, <2>3, <3>1
  <2>4. CASE i > p
    <3>1. ~(skip + i <= a) /\ skip + i - a = left + (i - p) /\ i - p \in 1..q
      BY <1>1, <1>2, <1>3, <1>5, <1>9, <2>1, <2>4
    <3>2. whole[i] = t[left + (i - p)]
      BY <2>2, <3>1
    <3>3. (here \o there)[i] = there[i - p]
      BY <1>2, <1>7, <2>1, <2>4
    <3> QED BY <1>5, <3>1, <3>2, <3>3
  <2>5. i <= p \/ i > p
    BY <1>2, <2>1
  <2> QED BY <2>3, <2>4, <2>5, Zenon
<1>11. Len(whole) = Len(here \o there)
       /\ \A i \in 1..Len(whole) : whole[i] = (here \o there)[i]
  BY <1>6, <1>7, <1>9, <1>10
<1>12. whole = here \o there
  BY <1>6, <1>7, <1>11, SeqEqual
<1> QED BY <1>12 DEF here, there, whole, left, rest, a

-----------------------------------------------------------------------------
(***************************************************************************)
(* A fold from the left is a function of the sets of places, each set      *)
(* taken from its largest place down.  There is such a function, and on    *)
(* the places up to i it takes the i-th step.                              *)
(***************************************************************************)
Folds(g, n, b, step) ==
  \A s \in SUBSET (1..n) : g[s] = IF s = {} THEN b ELSE step[Max(s)][g[s \ {Max(s)}]]

LEMMA LargestPlace ==
  ASSUME NEW n \in Nat, NEW s \in SUBSET (1..n), s # {}
  PROVE  /\ Max(s) \in s /\ Max(s) \in 1..n
         /\ \A i \in s : i <= Max(s)
         /\ n \in s => Max(s) = n
<1>1. s \in SUBSET Int /\ n \in Int /\ \A i \in s : i <= n
  OBVIOUS
<1> DEFINE m == Max(s)
<1>2. m \in s /\ \A i \in s : i <= m
  BY <1>1, GreatestNumber
<1> HIDE DEF m
<1>3. m \in 1..n
  BY <1>2
<1>4. n \in s => m = n
  BY <1>2, <1>3
<1> QED BY <1>2, <1>3, <1>4 DEF m

LEMMA FoldsExist ==
  ASSUME NEW n \in Nat, NEW D, NEW b \in D, NEW step \in [1..n -> [D -> D]]
  PROVE  \E g \in [SUBSET (1..n) -> D] : Folds(g, n, b, step)
<1> DEFINE Works(m) == \E g \in [SUBSET (1..m) -> D] : Folds(g, m, b, step)
           S == {m \in 0..n : Works(m)}
<1>1. 0 \in S
  <2> DEFINE g == [s \in SUBSET (1..0) |-> b]
  <2>1. g \in [SUBSET (1..0) -> D]
    OBVIOUS
  <2>2. \A s \in SUBSET (1..0) : s = {} /\ g[s] = b
    OBVIOUS
  <2> HIDE DEF g
  <2>3. Folds(g, 0, b, step)
    BY <2>2 DEF Folds
  <2>4. Works(0)
    BY <2>1, <2>3
  <2> HIDE DEF Works
  <2> QED BY <2>4
<1>2. ASSUME NEW m \in 1..n, m - 1 \in S
      PROVE  m \in S
  <2>1. PICK g \in [SUBSET (1..(m - 1)) -> D] : Folds(g, m - 1, b, step)
    BY <1>2
  <2> DEFINE Value(s) == IF m \in s THEN step[m][g[s \ {m}]] ELSE g[s]
             h == [s \in SUBSET (1..m) |-> Value(s)]
  <2>2. \A s \in SUBSET (1..m) : /\ s \ {m} \in SUBSET (1..(m - 1))
                                 /\ m \notin s => s \in SUBSET (1..(m - 1))
    OBVIOUS
  <2>3. step[m] \in [D -> D]
    OBVIOUS
  <2>4. \A s \in SUBSET (1..m) : Value(s) \in D
    <3> SUFFICES ASSUME NEW s \in SUBSET (1..m)
                 PROVE  Value(s) \in D
      OBVIOUS
    <3>1. CASE m \in s
      BY <2>1, <2>2, <2>3, <3>1
    <3>2. CASE m \notin s
      BY <2>1, <2>2, <3>2
    <3> QED BY <3>1, <3>2
  <2>5. h \in [SUBSET (1..m) -> D]
    <3> HIDE DEF Value
    <3> QED BY <2>4
  <2>6. \A s \in SUBSET (1..m) : h[s] = Value(s)
    <3> HIDE DEF Value
    <3> QED OBVIOUS
  <2> HIDE DEF h
  <2>7. ASSUME NEW s \in SUBSET (1..m)
        PROVE  h[s] = IF s = {} THEN b ELSE step[Max(s)][h[s \ {Max(s)}]]
    <3>1. CASE m \in s
      <4>1. Max(s) = m /\ s # {}
        BY <3>1, LargestPlace
      <4>2. s \ {m} \in SUBSET (1..m) /\ m \notin s \ {m}
        OBVIOUS
      <4>3. h[s \ {m}] = g[s \ {m}] /\ h[s] = step[m][g[s \ {m}]]
        BY <2>6, <3>1, <4>2
      <4> QED BY <4>1, <4>3, Zenon
    <3>2. CASE m \notin s
      <4>1. s \in SUBSET (1..(m - 1)) /\ h[s] = g[s]
        BY <2>2, <2>6, <3>2
      <4>2. g[s] = IF s = {} THEN b ELSE step[Max(s)][g[s \ {Max(s)}]]
        BY <2>1, <4>1 DEF Folds
      <4>3. h[s \ {Max(s)}] = g[s \ {Max(s)}]
        <5>1. s \ {Max(s)} \in SUBSET (1..m) /\ m \notin s \ {Max(s)}
          BY <3>2
        <5> QED BY <2>6, <5>1
      <4> QED BY <4>1, <4>2, <4>3, Zenon
    <3> QED BY <3>1, <3>2, Zenon
  <2>8. Folds(h, m, b, step)
    BY <2>7, Zenon DEF Folds
  <2>9. Works(m)
    BY <2>5, <2>8
  <2> HIDE DEF Works
  <2> QED BY <2>9
<1>3. 0..n \subseteq S
  <2> HIDE DEF S
  <2> QED BY <1>1, <1>2, UpTo
<1>4. Works(n)
  <2> HIDE DEF Works
  <2> QED BY <1>3
<1> QED BY <1>4

\* A function of places that takes the steps of a fold.
Unfolds(g, n, D, b, step) ==
  /\ g[{}] = b
  /\ \A s \in SUBSET (1..n) : s # {} /\ g[s \ {Max(s)}] \in D =>
        g[s] = step[Max(s)][g[s \ {Max(s)}]]

\* What a fold comes to, place by place.
LEMMA FoldClimbs ==
  ASSUME NEW n \in Nat, NEW D, NEW b \in D, NEW step \in [1..n -> [D -> D]], NEW g,
         Unfolds(g, n, D, b, step)
  PROVE  Climbs([i \in 0..n |-> g[1..i]], n, D, b, step)
<1> DEFINE f == [i \in 0..n |-> g[1..i]]
           S == {i \in 0..n : g[1..i] \in D}
<1>0. g[{}] = b /\ \A s \in SUBSET (1..n) : s # {} /\ g[s \ {Max(s)}] \in D =>
                   g[s] = step[Max(s)][g[s \ {Max(s)}]]
  BY DEF Unfolds
<1>1. 1..0 = {}
  OBVIOUS
<1>2. ASSUME NEW i \in 1..n, g[1..(i - 1)] \in D
      PROVE  g[1..i] = step[i][g[1..(i - 1)]] /\ g[1..i] \in D
  <2>1. 1..i \in SUBSET (1..n) /\ 1..i # {} /\ (1..i) \ {i} = 1..(i - 1)
    OBVIOUS
  <2>2. Max(1..i) = i
    <3>1. i \in Nat /\ i \in 1..i /\ 1..i \in SUBSET (1..i)
      OBVIOUS
    <3> QED BY <2>1, <3>1, LargestPlace
  <2>3. g[1..i] = step[i][g[1..(i - 1)]]
    BY <1>0, <1>2, <2>1, <2>2, Zenon
  <2>4. step[i] \in [D -> D]
    OBVIOUS
  <2> QED BY <1>2, <2>3, <2>4
<1>3. 0 \in S
  BY <1>0, <1>1
<1>4. ASSUME NEW i \in 1..n, i - 1 \in S
      PROVE  i \in S
  <2>1. g[1..(i - 1)] \in D /\ i \in 0..n
    BY <1>4
  <2>2. g[1..i] \in D
    BY <1>2, <2>1
  <2> QED BY <2>1, <2>2
<1>5. \A i \in 0..n : g[1..i] \in D
  <2>1. 0..n \subseteq S
    <3> HIDE DEF S
    <3> QED BY <1>3, <1>4, UpTo
  <2> QED BY <2>1
<1>6. f \in [0..n -> D]
  BY <1>5
<1>7. f[0] = b
  BY <1>0, <1>1
<1>8. ASSUME NEW i \in 1..n
      PROVE  f[i] = step[i][f[i - 1]]
  <2>1. i - 1 \in 0..n /\ i \in 0..n
    OBVIOUS
  <2>2. f[i - 1] = g[1..(i - 1)] /\ f[i] = g[1..i]
    BY <2>1
  <2>3. g[1..i] = step[i][g[1..(i - 1)]]
    BY <1>2, <1>5, <2>1
  <2> QED BY <2>2, <2>3, Zenon
<1> HIDE DEF f
<1>9. Climbs(f, n, D, b, step)
  BY <1>6, <1>7, <1>8 DEF Climbs
<1> QED BY <1>9 DEF f

-----------------------------------------------------------------------------
(***************************************************************************)
(* The segments a page walks, from the end it starts at.                   *)
(***************************************************************************)
RowFrom(descending) == IF descending THEN Reverse(segments) ELSE segments

MatchesUpTo(row, filter, k) == UNION {Matches(row[i], filter) : i \in 1..k}

LEMMA RowFromIs ==
  ASSUME NEW home, AnswerInv(home), NEW descending \in BOOLEAN
  PROVE  LET row == RowFrom(descending)
             n == Len(segments)
         IN  /\ n \in Nat /\ DOMAIN segments = 1..n
             /\ Len(row) = n /\ DOMAIN row = 1..n
             /\ \A i \in 1..n : row[i] = segments[IF descending THEN n - i + 1 ELSE i]
<1>1. segments \in Seq(Index)
  BY DEF AnswerInv, LedgerInv, RetryInv, IInv, TypeOK
<1> DEFINE n == Len(segments)
<1>2. n \in Nat /\ DOMAIN segments = 1..n
  BY <1>1
<1>3. CASE descending
  <2>1. RowFrom(descending) = [i \in 1..n |-> segments[(n - i) + 1]]
    BY <1>3 DEF RowFrom, Reverse
  <2> DEFINE row == [i \in 1..n |-> segments[(n - i) + 1]]
  <2>2. DOMAIN row = 1..n /\ \A i \in 1..n : row[i] = segments[n - i + 1]
    OBVIOUS
  <2>3. row \in Seq(Index) /\ Len(row) = n
    <3>1. \A i \in 1..n : (n - i) + 1 \in 1..n
      BY <1>2
    <3>2. \A i \in 1..n : segments[(n - i) + 1] \in Index
      BY <1>1, <1>2, <3>1
    <3>3. row \in [1..n -> Index]
      BY <3>2
    <3> HIDE DEF row, n
    <3> QED BY <1>2, <3>3
  <2> HIDE DEF row, n
  <2> QED BY <1>2, <1>3, <2>1, <2>2, <2>3 DEF row, n
<1>4. CASE ~descending
  <2>1. RowFrom(descending) = segments
    BY <1>4 DEF RowFrom
  <2> QED BY <1>2, <1>4, <2>1
<1> QED BY <1>3, <1>4

LEMMA MatchesAreFinite ==
  ASSUME NEW home, AnswerInv(home), NEW i \in DOMAIN segments, NEW filter
  PROVE  /\ Matches(segments[i], filter) \in SUBSET Nat
         /\ IsFiniteSet(Matches(segments[i], filter))
         /\ \A n \in Matches(segments[i], filter) : n \in RunFrom(segments[i].base_tx_nr)
<1> DEFINE s == segments[i]
           M == Matches(s, filter)
<1>1. IInv
  BY DEF AnswerInv, LedgerInv, RetryInv
<1>2. \A n \in M : InSpan(s, n) /\ n \in Nat /\ n \in RunFrom(s.base_tx_nr)
  BY <1>1, MatchIsKnown, SpanOfRow
<1>3. s.min_tx_nr \in Int /\ s.max_tx_nr \in Int
  <2>1. s \in Index
    BY <1>1, SegmentOfRow
  <2>2. s.max_tx_nr \in Nat /\ s.min_tx_nr \in Nat
    BY <2>1, TableIsNumbers
  <2> QED BY <2>2
<1>4. M \in SUBSET (s.min_tx_nr..s.max_tx_nr)
  BY <1>2 DEF InSpan
<1> HIDE DEF s, M
<1>5. IsFiniteSet(M)
  <2>1. IsFiniteSet(s.min_tx_nr..s.max_tx_nr)
    BY <1>3, FS_Interval
  <2> QED BY <1>4, <2>1, FS_Subset
<1> QED BY <1>2, <1>5 DEF s, M

LEMMA RowInOrder ==
  ASSUME NEW home, AnswerInv(home), NEW descending \in BOOLEAN, NEW filter
  PROVE  LET row == RowFrom(descending)
             n == Len(segments)
         IN  /\ \A i \in 1..n : /\ Matches(row[i], filter) \in SUBSET Nat
                                /\ IsFiniteSet(Matches(row[i], filter))
             /\ \A i, j \in 1..n : i < j =>
                  \A a \in Matches(row[i], filter) : \A b \in Matches(row[j], filter) :
                    Comes(a, b, descending)
             /\ MatchesUpTo(row, filter, n) = ChainMatches(filter)
<1> DEFINE row == RowFrom(descending)
           n == Len(segments)
           Of(i) == IF descending THEN n - i + 1 ELSE i
<1>1. /\ n \in Nat /\ DOMAIN segments = 1..n
      /\ \A i \in 1..n : row[i] = segments[Of(i)]
  BY RowFromIs
<1>2. /\ \A i \in 1..n : Of(i) \in 1..n
      /\ \A i, j \in 1..n : i < j => IF descending THEN Of(j) < Of(i) ELSE Of(i) < Of(j)
      /\ \A i \in 1..n : \E j \in 1..n : Of(j) = i
  <2>1. CASE descending
    <3>1. \A i \in 1..n : n - i + 1 \in 1..n /\ n - (n - i + 1) + 1 = i
      BY <1>1
    <3>2. \A i, j \in 1..n : i < j => n - j + 1 < n - i + 1
      BY <1>1
    <3> HIDE DEF n
    <3> QED BY <2>1, <3>1, <3>2
  <2>2. CASE ~descending
    <3> HIDE DEF n
    <3> QED BY <2>2
  <2> QED BY <2>1, <2>2
<1> HIDE DEF row, n, Of
<1>3. \A i \in 1..n : /\ Matches(row[i], filter) \in SUBSET Nat
                      /\ IsFiniteSet(Matches(row[i], filter))
  BY <1>1, <1>2, MatchesAreFinite
<1>4. ASSUME NEW i \in 1..n, NEW j \in 1..n, i < j,
             NEW a \in Matches(row[i], filter), NEW b \in Matches(row[j], filter)
      PROVE  Comes(a, b, descending)
  <2>1. /\ Of(i) \in DOMAIN segments /\ a \in Matches(segments[Of(i)], filter)
        /\ Of(j) \in DOMAIN segments /\ b \in Matches(segments[Of(j)], filter)
    BY <1>1, <1>2
  <2>2. /\ a \in RunFrom(segments[Of(i)].base_tx_nr) /\ a \in Nat
        /\ b \in RunFrom(segments[Of(j)].base_tx_nr) /\ b \in Nat
    BY <2>1, MatchesAreFinite
  <2>3. IInv
    BY DEF AnswerInv, LedgerInv, RetryInv
  <2>4. CASE descending
    <3>1. Of(j) < Of(i)
      BY <1>2, <1>4, <2>4
    <3>2. b < a
      BY <2>1, <2>2, <2>3, <3>1, RunsInOrder
    <3> QED BY <2>2, <2>4, <3>2 DEF Comes
  <2>5. CASE ~descending
    <3>1. Of(i) < Of(j)
      BY <1>2, <1>4, <2>5
    <3>2. a < b
      BY <2>1, <2>2, <2>3, <3>1, RunsInOrder
    <3> QED BY <2>2, <2>5, <3>2 DEF Comes
  <2> QED BY <2>4, <2>5
<1>5. MatchesUpTo(row, filter, n) = ChainMatches(filter)
  <2>1. \A m : m \in MatchesUpTo(row, filter, n) <=> \E i \in 1..n : m \in Matches(row[i], filter)
    BY DEF MatchesUpTo
  <2>2. \A m : m \in ChainMatches(filter) <=> \E i \in 1..n : m \in Matches(segments[i], filter)
    BY <1>1 DEF ChainMatches
  <2>3. ASSUME NEW m, m \in MatchesUpTo(row, filter, n)
        PROVE  m \in ChainMatches(filter)
    <3>1. PICK i \in 1..n : m \in Matches(row[i], filter)
      BY <2>1, <2>3
    <3>2. Of(i) \in 1..n /\ row[i] = segments[Of(i)]
      BY <1>1, <1>2
    <3> QED BY <2>2, <3>1, <3>2
  <2>4. ASSUME NEW m, m \in ChainMatches(filter)
        PROVE  m \in MatchesUpTo(row, filter, n)
    <3>1. PICK j \in 1..n : m \in Matches(segments[j], filter)
      BY <2>2, <2>4
    <3>2. PICK i \in 1..n : Of(i) = j
      BY <1>2
    <3>3. row[i] = segments[j]
      BY <1>1, <3>2
    <3> QED BY <2>1, <3>1, <3>3
  <2> QED BY <2>3, <2>4
<1> QED BY <1>3, <1>4, <1>5 DEF row, n

\* What is matched up to a place, and what the next one adds.
LEMMA MatchesOnward ==
  ASSUME NEW home, AnswerInv(home), NEW descending \in BOOLEAN, NEW filter,
         NEW k \in 0..Len(segments)
  PROVE  LET row == RowFrom(descending)
             U(i) == MatchesUpTo(row, filter, i)
         IN  /\ U(k) \in SUBSET Nat /\ IsFiniteSet(U(k))
             /\ k = 0 => U(k) = {}
             /\ k # 0 =>
                  /\ U(k) = U(k - 1) \cup Matches(row[k], filter)
                  /\ \A a \in U(k - 1) : \A b \in Matches(row[k], filter) :
                       Comes(a, b, descending)
<1> DEFINE row == RowFrom(descending)
           n == Len(segments)
           M(i) == Matches(row[i], filter)
           U(i) == MatchesUpTo(row, filter, i)
           S == {i \in 0..n : IsFiniteSet(U(i))}
<1>1. /\ n \in Nat
      /\ \A i \in 1..n : M(i) \in SUBSET Nat /\ IsFiniteSet(M(i))
      /\ \A i, j \in 1..n : i < j => \A a \in M(i) : \A b \in M(j) : Comes(a, b, descending)
  BY RowFromIs, RowInOrder
<1>2. \A i : \A m : m \in U(i) <=> \E j \in 1..i : m \in M(j)
  BY DEF MatchesUpTo
<1>3. k \in 0..n
  OBVIOUS
<1> HIDE DEF row, n, M, U
<1>4. U(0) = {}
  BY <1>2
<1>5. ASSUME NEW i \in 1..n
      PROVE  /\ U(i) = U(i - 1) \cup M(i)
             /\ \A a \in U(i - 1) : \A b \in M(i) : Comes(a, b, descending)
  <2>1. 1..i = (1..(i - 1)) \cup {i}
    OBVIOUS
  <2>2. \A m : m \in U(i) <=> m \in U(i - 1) \/ m \in M(i)
    BY <1>2, <2>1
  <2>3. \A j \in 1..(i - 1) : j \in 1..n /\ j < i
    BY <1>1
  <2>4. \A a \in U(i - 1) : \A b \in M(i) : Comes(a, b, descending)
    BY <1>1, <1>2, <2>3
  <2> QED BY <2>2, <2>4
<1>6. \A i \in 0..n : IsFiniteSet(U(i))
  <2>1. 0 \in S
    BY <1>1, <1>4, FS_EmptySet
  <2>2. ASSUME NEW i \in 1..n, i - 1 \in S
        PROVE  i \in S
    <3>1. IsFiniteSet(U(i - 1)) /\ i \in 0..n
      BY <1>1, <2>2
    <3>2. IsFiniteSet(U(i - 1) \cup M(i))
      BY <1>1, <3>1, FS_Union
    <3>3. IsFiniteSet(U(i))
      BY <1>5, <3>2
    <3> QED BY <3>1, <3>3
  <2>3. 0..n \subseteq S
    <3> HIDE DEF S
    <3> QED BY <1>1, <2>1, <2>2, UpTo
  <2> QED BY <2>3
<1>7. U(k) \in SUBSET Nat
  <2>1. \A j \in 1..k : j \in 1..n
    BY <1>1, <1>3
  <2> QED BY <1>1, <1>2, <2>1
<1>8. k # 0 => k \in 1..n
  BY <1>1, <1>3
<1>9. k # 0 => /\ U(k) = U(k - 1) \cup M(k)
               /\ \A a \in U(k - 1) : \A b \in M(k) : Comes(a, b, descending)
  BY <1>5, <1>8
<1> QED BY <1>3, <1>4, <1>6, <1>7, <1>9 DEF row, M, U

(***************************************************************************)
(* The walk of grdb_chain_listing, segment by segment.                     *)
(***************************************************************************)
WalkOver(acc, matches, descending) ==
  LET here == Page(matches, acc.skip, acc.size, descending)
  IN  [out   |-> acc.out \o here,
       size  |-> acc.size - Len(here),
       skip  |-> SkipLeft(acc.skip, Cardinality(matches)),
       count |-> acc.count + Cardinality(matches)]

Walking == [out : Seq(Nat), size : Nat, skip : Nat, count : Nat]

\* Where the walk is when it has been over the numbers of U.
WalkedOver(U, skip, size, descending) ==
  LET out == Page(U, skip, size, descending)
  IN  [out   |-> out,
       size  |-> size - Len(out),
       skip  |-> SkipLeft(skip, Cardinality(U)),
       count |-> Cardinality(U)]

\* Finitely many numbers.
Numbers(M) == M \in SUBSET Nat /\ IsFiniteSet(M)

LEMMA SeqOfMore ==
  ASSUME NEW A, NEW B, A \subseteq B, NEW s \in Seq(A)
  PROVE  s \in Seq(B)
<1>1. /\ Len(s) \in Nat /\ s \in [1..Len(s) -> A]
  OBVIOUS
<1>2. s \in [1..Len(s) -> B]
  BY <1>1
<1> QED BY <1>1, <1>2

LEMMA PageIsCut ==
  ASSUME NEW M, Numbers(M), NEW skip \in Nat, NEW size \in Nat,
         NEW descending \in BOOLEAN
  PROVE  /\ Page(M, skip, size, descending) = Cut(InOrder(M, descending), skip, size)
         /\ Page(M, skip, size, descending) \in Seq(Nat)
         /\ Len(Page(M, skip, size, descending)) \in Nat
         /\ Len(Page(M, skip, size, descending)) <= size
         /\ InOrder(M, descending) \in Seq(Nat)
         /\ Len(InOrder(M, descending)) = Cardinality(M) /\ Cardinality(M) \in Nat
<1> DEFINE order == InOrder(M, descending)
<1>1. Page(M, skip, size, descending) = Cut(order, skip, size)
  BY DEF Page, Cut
<1>2. order \in Seq(M) /\ Len(order) = Cardinality(M) /\ Cardinality(M) \in Nat
  BY InOrderIs DEF Numbers
<1>3. order \in Seq(Nat)
  <2>1. M \subseteq Nat
    BY DEF Numbers
  <2> HIDE DEF order
  <2> QED BY <1>2, <2>1, SeqOfMore
<1> HIDE DEF order
<1>4. Cut(order, skip, size) \in Seq(Nat) /\ Len(Cut(order, skip, size)) \in Nat
      /\ Len(Cut(order, skip, size)) <= size
  BY <1>3, CutIs
<1> QED BY <1>1, <1>2, <1>3, <1>4 DEF order

LEMMA WalkingStays ==
  ASSUME NEW M, Numbers(M), NEW acc \in Walking, NEW descending \in BOOLEAN
  PROVE  WalkOver(acc, M, descending) \in Walking
<1>1. acc.out \in Seq(Nat) /\ acc.size \in Nat /\ acc.skip \in Nat /\ acc.count \in Nat
  BY DEF Walking
<1> DEFINE here == Page(M, acc.skip, acc.size, descending)
           c == Cardinality(M)
<1>2. here \in Seq(Nat) /\ Len(here) \in Nat /\ Len(here) <= acc.size /\ c \in Nat
  BY <1>1, PageIsCut
<1> HIDE DEF here, c
<1>3. acc.out \o here \in Seq(Nat) /\ acc.size - Len(here) \in Nat /\ acc.count + c \in Nat
  BY <1>1, <1>2
<1>4. SkipLeft(acc.skip, c) \in Nat
  BY <1>1, <1>2 DEF SkipLeft
<1> QED BY <1>3, <1>4 DEF WalkOver, Walking, here, c

LEMMA WalkStarts ==
  ASSUME NEW skip \in Nat, NEW size \in Nat, NEW descending \in BOOLEAN
  PROVE  WalkedOver({}, skip, size, descending)
           = [out |-> << >>, size |-> size, skip |-> skip, count |-> 0]
<1>2. Numbers({}) /\ Cardinality({}) = 0
  BY FS_EmptySet DEF Numbers
<1> DEFINE order == InOrder({}, descending)
           out == Page({}, skip, size, descending)
<1>3. out = Cut(order, skip, size) /\ order \in Seq(Nat) /\ Len(order) = 0
  BY <1>2, PageIsCut
<1> HIDE DEF order, out
<1>4. Len(out) = 0 /\ out \in Seq(Nat)
  <2>1. Len(Cut(order, skip, size)) = CutLen(Len(order), skip, size)
        /\ Cut(order, skip, size) \in Seq(Nat)
    BY <1>3, CutIs
  <2>2. CutLen(0, skip, size) = 0
    BY DEF CutLen
  <2> QED BY <1>3, <2>1, <2>2
<1>5. out = << >>
  BY <1>4
<1>6. SkipLeft(skip, 0) = skip /\ size - 0 = size
  BY DEF SkipLeft
<1> QED BY <1>2, <1>4, <1>5, <1>6 DEF WalkedOver, out

LEMMA WalkGoesOn ==
  ASSUME NEW skip \in Nat, NEW size \in Nat, NEW d \in BOOLEAN,
         NEW U, Numbers(U), NEW M, Numbers(M),
         \A a \in U : \A b \in M : Comes(a, b, d)
  PROVE  WalkOver(WalkedOver(U, skip, size, d), M, d) = WalkedOver(U \cup M, skip, size, d)
<1> DEFINE V == U \cup M
           out == Page(U, skip, size, d)
           p == Cardinality(U)
           q == Cardinality(M)
           left == SkipLeft(skip, p)
           rest == size - Len(out)
           here == Page(M, left, rest, d)
           both == Page(V, skip, size, d)
           s == InOrder(U, d)
           t == InOrder(M, d)
<1>2. /\ out = Cut(s, skip, size) /\ out \in Seq(Nat) /\ Len(out) \in Nat /\ Len(out) <= size
      /\ s \in Seq(Nat) /\ Len(s) = p /\ p \in Nat
  BY PageIsCut
<1>3. left \in Nat /\ rest \in Nat
  <2> HIDE DEF out, p
  <2> QED BY <1>2 DEF SkipLeft
<1>4. /\ here = Cut(t, left, rest) /\ here \in Seq(Nat) /\ Len(here) \in Nat /\ Len(here) <= rest
      /\ t \in Seq(Nat) /\ Len(t) = q /\ q \in Nat
  <2> HIDE DEF left, rest
  <2> QED BY <1>3, PageIsCut
<1>5. Numbers(V) /\ Cardinality(V) = p + q /\ InOrder(V, d) = s \o t
  BY OrderOfBoth DEF Numbers
<1>6. both = Cut(s \o t, skip, size)
  <2>1. Page(V, skip, size, d) = Cut(InOrder(V, d), skip, size)
    <3> HIDE DEF V
    <3> QED BY <1>5, PageIsCut
  <2> QED BY <1>5, <2>1
<1>7. both = out \o here
  <2>1. Cut(s \o t, skip, size)
          = Cut(s, skip, size) \o Cut(t, SkipLeft(skip, Len(s)), size - Len(Cut(s, skip, size)))
    <3>1. s \in Seq(Nat) /\ t \in Seq(Nat)
      BY <1>2, <1>4
    <3> HIDE DEF s, t
    <3> QED BY <3>1, CutOfBoth
  <2> QED BY <1>2, <1>4, <1>6, <2>1
<1>8. Len(both) = Len(out) + Len(here)
  <2> HIDE DEF both, out, here
  <2> QED BY <1>2, <1>4, <1>7, ConcatProperties
<1>9. SkipLeft(left, q) = SkipLeft(skip, p + q)
  <2> HIDE DEF p, q
  <2> QED BY <1>2, <1>4 DEF SkipLeft
<1>10. rest - Len(here) = size - Len(both)
  <2> HIDE DEF both, out, here
  <2> QED BY <1>2, <1>4, <1>8
<1>11. WalkedOver(U, skip, size, d) = [out |-> out, size |-> rest, skip |-> left, count |-> p]
  BY DEF WalkedOver
<1>12. WalkedOver(V, skip, size, d)
         = [out |-> both, size |-> size - Len(both), skip |-> SkipLeft(skip, p + q),
            count |-> p + q]
  <2> HIDE DEF V
  <2> QED BY <1>5 DEF WalkedOver
<1> DEFINE acc == [out |-> out, size |-> rest, skip |-> left, count |-> p]
<1>13. WalkOver(acc, M, d)
         = [out |-> out \o here, size |-> rest - Len(here), skip |-> SkipLeft(left, q),
            count |-> p + q]
  <2> HIDE DEF out, rest, left, p
  <2>1. acc.out = out /\ acc.size = rest /\ acc.skip = left /\ acc.count = p
    OBVIOUS
  <2> HIDE DEF acc
  <2> QED BY <2>1 DEF WalkOver
<1> HIDE DEF out, rest, left, here, both, acc
<1> QED BY <1>7, <1>9, <1>10, <1>11, <1>12, <1>13 DEF acc

\* A function that takes the fold's steps ends where the climb does.
LEMMA FoldComesTo ==
  ASSUME NEW n \in Nat, NEW D, NEW b \in D, NEW step \in [1..n -> [D -> D]],
         NEW f, Climbs(f, n, D, b, step), NEW g, Unfolds(g, n, D, b, step)
  PROVE  g[1..n] = f[n]
<1> DEFINE h == [i \in 0..n |-> g[1..i]]
           S == {i \in 0..n : h[i] = f[i]}
<1>1. Climbs(h, n, D, b, step)
  BY FoldClimbs
<1>2. \A i \in 0..n : h[i] = g[1..i]
  OBVIOUS
<1> HIDE DEF h
<1>3. 0 \in S
  BY <1>1 DEF Climbs
<1>4. ASSUME NEW i \in 1..n, i - 1 \in S
      PROVE  i \in S
  <2>1. i \in 0..n /\ h[i - 1] = f[i - 1]
    BY <1>4
  <2>2. h[i] = step[i][h[i - 1]] /\ f[i] = step[i][f[i - 1]]
    BY <1>1 DEF Climbs
  <2> QED BY <2>1, <2>2
<1>5. 0..n \subseteq S
  <2> HIDE DEF S
  <2> QED BY <1>3, <1>4, UpTo
<1>6. n \in 0..n
  OBVIOUS
<1> QED BY <1>2, <1>5, <1>6

\* The function that grdb_chain_listing's fold is defined by.
ListingBy(g, row, filter, page) ==
  [s \in SUBSET (DOMAIN row) |->
     IF s = {} THEN [out |-> << >>, size |-> page.size, skip |-> page.skip, count |-> 0]
     ELSE WalkOver(g[s \ {Max(s)}], Matches(row[Max(s)], filter), page.descending)]

LEMMA ListingIs ==
  ASSUME NEW filter, NEW page
  PROVE  ChainListing(filter, page)
           = (CHOOSE g : g = ListingBy(g, RowFrom(page.descending), filter, page))
                [DOMAIN RowFrom(page.descending)]
BY Zenon DEF ChainListing, ListingBy, RowFrom, FoldLeft, MapThenFoldSet, WalkOver

\* The count walks the row as it stands.
CountBy(g, filter) ==
  [s \in SUBSET (DOMAIN segments) |->
     IF s = {} THEN 0
     ELSE g[s \ {Max(s)}] + Cardinality(Matches(segments[Max(s)], filter))]

LEMMA CountIs ==
  ASSUME NEW filter
  PROVE  ChainCount(filter) = (CHOOSE g : g = CountBy(g, filter))[DOMAIN segments]
BY Zenon DEF ChainCount, CountBy, FoldLeft, MapThenFoldSet

LEMMA ListingWalks ==
  ASSUME NEW home, AnswerInv(home), NEW filter,
         NEW page \in [skip : Nat, size : Nat, descending : BOOLEAN]
  PROVE  ChainListing(filter, page)
           = WalkedOver(ChainMatches(filter), page.skip, page.size, page.descending)
<1> DEFINE d == page.descending
           skip == page.skip
           size == page.size
           row == RowFrom(d)
           n == Len(segments)
           M(i) == Matches(row[i], filter)
           U(i) == MatchesUpTo(row, filter, i)
           b == [out |-> << >>, size |-> size, skip |-> skip, count |-> 0]
           step == [i \in 1..n |-> [acc \in Walking |-> WalkOver(acc, M(i), d)]]
           f == [i \in 0..n |-> WalkedOver(U(i), skip, size, d)]
<1>1. skip \in Nat /\ size \in Nat /\ d \in BOOLEAN
  OBVIOUS
<1>2. /\ n \in Nat /\ DOMAIN row = 1..n
      /\ \A i \in 1..n : Numbers(M(i))
      /\ U(n) = ChainMatches(filter)
  BY <1>1, RowFromIs, RowInOrder DEF Numbers
<1>3. /\ U(0) = {}
      /\ \A i \in 1..n : /\ Numbers(U(i - 1)) /\ U(i) = U(i - 1) \cup M(i)
                         /\ \A x \in U(i - 1) : \A y \in M(i) : Comes(x, y, d)
  <2>1. U(0) = {}
    <3>1. 0 \in 0..Len(segments)
      BY <1>2
    <3> QED BY <1>1, <3>1, MatchesOnward
  <2>2. ASSUME NEW i \in 1..n
        PROVE  /\ Numbers(U(i - 1)) /\ U(i) = U(i - 1) \cup M(i)
               /\ \A x \in U(i - 1) : \A y \in M(i) : Comes(x, y, d)
    <3>1. i - 1 \in 0..Len(segments) /\ i \in 0..Len(segments) /\ i # 0
      BY <1>2
    <3>2. Numbers(U(i - 1))
      BY <1>1, <3>1, MatchesOnward DEF Numbers
    <3>3. /\ U(i) = U(i - 1) \cup M(i)
          /\ \A x \in U(i - 1) : \A y \in M(i) : Comes(x, y, d)
      BY <1>1, <3>1, MatchesOnward
    <3> QED BY <3>2, <3>3
  <2> QED BY <2>1, <2>2
<1>4. ChainListing(filter, page)
        = (CHOOSE g : g = ListingBy(g, row, filter, page))[DOMAIN row]
  BY ListingIs
<1> HIDE DEF row, n, M, U, d, skip, size
<1>5. b \in Walking
  <2>1. << >> \in Seq(Nat) /\ 0 \in Nat
    OBVIOUS
  <2> QED BY <1>1, <2>1 DEF Walking
<1>6. step \in [1..n -> [Walking -> Walking]]
  <2>1. \A i \in 1..n : \A acc \in Walking : WalkOver(acc, M(i), d) \in Walking
    BY <1>1, <1>2, WalkingStays
  <2> QED BY <2>1
<1>7. Climbs(f, n, Walking, b, step)
  <2>1. f[0] = b
    <3>1. f[0] = WalkedOver(U(0), skip, size, d)
      BY <1>2
    <3>2. WalkedOver({}, skip, size, d) = b
      BY <1>1, WalkStarts
    <3> QED BY <1>3, <3>1, <3>2
  <2>2. ASSUME NEW i \in 1..n
        PROVE  f[i] = WalkOver(f[i - 1], M(i), d)
    <3>1. i \in 0..n /\ i - 1 \in 0..n
      BY <1>2
    <3>2. f[i] = WalkedOver(U(i), skip, size, d) /\ f[i - 1] = WalkedOver(U(i - 1), skip, size, d)
      BY <3>1
    <3>3. Numbers(U(i - 1)) /\ Numbers(M(i)) /\ U(i) = U(i - 1) \cup M(i)
          /\ \A x \in U(i - 1) : \A y \in M(i) : Comes(x, y, d)
      BY <1>2, <1>3
    <3>4. WalkOver(WalkedOver(U(i - 1), skip, size, d), M(i), d)
            = WalkedOver(U(i - 1) \cup M(i), skip, size, d)
      BY <1>1, <3>3, WalkGoesOn
    <3> QED BY <3>2, <3>3, <3>4
  <2> DEFINE S == {i \in 0..n : f[i] \in Walking}
  <2>3. 0 \in S
    BY <1>2, <1>5, <2>1
  <2>4. ASSUME NEW i \in 1..n, i - 1 \in S
        PROVE  i \in S
    <3>1. f[i - 1] \in Walking /\ i \in 0..n /\ Numbers(M(i))
      BY <1>2, <2>4
    <3> HIDE DEF f
    <3>2. WalkOver(f[i - 1], M(i), d) \in Walking
      BY <1>1, <3>1, WalkingStays
    <3> QED BY <2>2, <3>1, <3>2
  <2>5. 0..n \subseteq S
    <3> HIDE DEF S
    <3> QED BY <1>2, <2>3, <2>4, UpTo
  <2>6. f \in [0..n -> Walking]
    BY <2>5
  <2>7. \A i \in 1..n : f[i] = step[i][f[i - 1]]
    <3> SUFFICES ASSUME NEW i \in 1..n
                 PROVE  f[i] = step[i][f[i - 1]]
      OBVIOUS
    <3>1. i - 1 \in 0..n
      BY <1>2
    <3>2. f[i - 1] \in Walking
      BY <2>5, <3>1
    <3> HIDE DEF f
    <3>3. step[i][f[i - 1]] = WalkOver(f[i - 1], M(i), d)
      BY <3>2
    <3> QED BY <2>2, <3>3
  <2> HIDE DEF f
  <2> QED BY <2>1, <2>6, <2>7 DEF Climbs
<1> HIDE DEF f
<1>8. \E h : h = ListingBy(h, row, filter, page)
  <2>1. PICK g \in [SUBSET (1..n) -> Walking] : Folds(g, n, b, step)
    BY <1>2, <1>5, <1>6, FoldsExist
  <2>2. ASSUME NEW s \in SUBSET (1..n)
        PROVE  g[s] = IF s = {} THEN b
                      ELSE WalkOver(g[s \ {Max(s)}], Matches(row[Max(s)], filter), d)
    <3>1. CASE s = {}
      BY <2>1, <3>1 DEF Folds
    <3>2. CASE s # {}
      <4>1. Max(s) \in 1..n /\ s \ {Max(s)} \in SUBSET (1..n)
        BY <1>2, <3>2, LargestPlace
      <4>2. g[s] = step[Max(s)][g[s \ {Max(s)}]]
        BY <2>1, <3>2 DEF Folds
      <4>3. g[s \ {Max(s)}] \in Walking
        BY <2>1, <4>1
      <4>4. \A i \in 1..n : \A acc \in Walking : step[i][acc] = WalkOver(acc, M(i), d)
        OBVIOUS
      <4> HIDE DEF step
      <4> QED BY <3>2, <4>1, <4>2, <4>3, <4>4 DEF M
    <3> QED BY <3>1, <3>2
  <2>3. g = [s \in SUBSET (1..n) |->
               IF s = {} THEN b
               ELSE WalkOver(g[s \ {Max(s)}], Matches(row[Max(s)], filter), d)]
    <3>1. g = [s \in SUBSET (1..n) |-> g[s]]
      BY <2>1
    <3> QED BY <2>2, <3>1, Zenon
  <2>4. g = ListingBy(g, row, filter, page)
    BY <1>2, <2>3, Zenon DEF ListingBy, d, skip, size
  <2> QED BY <2>4
<1> DEFINE c == CHOOSE g : g = ListingBy(g, row, filter, page)
<1>9. c = ListingBy(c, row, filter, page)
  BY <1>8
<1> HIDE DEF c
<1>10. c = [s \in SUBSET (1..n) |->
              IF s = {} THEN b
              ELSE WalkOver(c[s \ {Max(s)}], Matches(row[Max(s)], filter), d)]
  BY <1>2, <1>9, Zenon DEF ListingBy, d, skip, size
<1>11. \A s \in SUBSET (1..n) :
         c[s] = IF s = {} THEN b
                ELSE WalkOver(c[s \ {Max(s)}], Matches(row[Max(s)], filter), d)
  BY <1>10, Zenon
<1>12. c[{}] = b
  BY <1>11
<1>13. ASSUME NEW s \in SUBSET (1..n), s # {}, c[s \ {Max(s)}] \in Walking
       PROVE  c[s] = step[Max(s)][c[s \ {Max(s)}]]
  <2>1. Max(s) \in 1..n
    BY <1>2, <1>13, LargestPlace
  <2>2. c[s] = WalkOver(c[s \ {Max(s)}], M(Max(s)), d)
    BY <1>11, <1>13 DEF M
  <2>3. \A i \in 1..n : \A acc \in Walking : step[i][acc] = WalkOver(acc, M(i), d)
    OBVIOUS
  <2> HIDE DEF step
  <2> QED BY <1>13, <2>1, <2>2, <2>3
<1> HIDE DEF b, step
<1>14. c[1..n] = f[n]
  <2>1. \A s \in SUBSET (1..n) : s # {} /\ c[s \ {Max(s)}] \in Walking =>
           c[s] = step[Max(s)][c[s \ {Max(s)}]]
    BY <1>13
  <2>2. Unfolds(c, n, Walking, b, step)
    BY <1>12, <2>1, Zenon DEF Unfolds
  <2>3. n \in Nat
    BY <1>2
  <2> QED BY <2>2, <2>3, <1>5, <1>6, <1>7, FoldComesTo
<1>15. f[n] = WalkedOver(U(n), skip, size, d)
  <2>1. n \in 0..n
    BY <1>2
  <2> QED BY <2>1 DEF f
<1> QED BY <1>2, <1>4, <1>14, <1>15 DEF c, d, skip, size

LEMMA CountWalks ==
  ASSUME NEW home, AnswerInv(home), NEW filter
  PROVE  ChainCount(filter) = Cardinality(ChainMatches(filter))
<1> DEFINE row == RowFrom(FALSE)
           n == Len(segments)
           M(i) == Matches(segments[i], filter)
           U(i) == MatchesUpTo(row, filter, i)
           step == [i \in 1..n |-> [acc \in Nat |-> acc + Cardinality(M(i))]]
           f == [i \in 0..n |-> Cardinality(U(i))]
<1>1. row = segments
  BY DEF RowFrom
<1>2. /\ n \in Nat /\ DOMAIN segments = 1..n
      /\ \A i \in 1..n : Numbers(M(i)) /\ Cardinality(M(i)) \in Nat
      /\ U(n) = ChainMatches(filter)
  <2>1. /\ n \in Nat /\ DOMAIN segments = 1..n
        /\ \A i \in 1..n : Numbers(M(i))
        /\ U(n) = ChainMatches(filter)
    BY <1>1, RowFromIs, RowInOrder DEF Numbers
  <2>2. \A i \in 1..n : Cardinality(M(i)) \in Nat
    <3> HIDE DEF M
    <3> QED BY <2>1, FS_CardinalityType DEF Numbers
  <2> QED BY <2>1, <2>2
<1>3. /\ U(0) = {}
      /\ \A i \in 1..n : /\ Numbers(U(i - 1)) /\ U(i) = U(i - 1) \cup M(i)
                         /\ \A x \in U(i - 1) : \A y \in M(i) : Comes(x, y, FALSE)
  <2>1. U(0) = {}
    <3>1. 0 \in 0..Len(segments)
      BY <1>2
    <3> QED BY <3>1, MatchesOnward
  <2>2. ASSUME NEW i \in 1..n
        PROVE  /\ Numbers(U(i - 1)) /\ U(i) = U(i - 1) \cup M(i)
               /\ \A x \in U(i - 1) : \A y \in M(i) : Comes(x, y, FALSE)
    <3>1. i - 1 \in 0..Len(segments) /\ i \in 0..Len(segments) /\ i # 0
      BY <1>2
    <3>2. Numbers(U(i - 1))
      BY <3>1, MatchesOnward DEF Numbers
    <3>3. /\ U(i) = U(i - 1) \cup M(i)
          /\ \A x \in U(i - 1) : \A y \in M(i) : Comes(x, y, FALSE)
      BY <1>1, <3>1, MatchesOnward
    <3> QED BY <3>2, <3>3
  <2> QED BY <2>1, <2>2
<1>4. ChainCount(filter) = (CHOOSE g : g = CountBy(g, filter))[DOMAIN segments]
  BY CountIs
<1> HIDE DEF row, n, M, U
<1>5. step \in [1..n -> [Nat -> Nat]]
  <2>1. \A i \in 1..n : \A acc \in Nat : acc + Cardinality(M(i)) \in Nat
    BY <1>2
  <2> QED BY <2>1
<1>6. Climbs(f, n, Nat, 0, step)
  <2>1. f[0] = 0
    <3>1. f[0] = Cardinality(U(0))
      BY <1>2
    <3> QED BY <1>3, <3>1, FS_EmptySet
  <2>2. ASSUME NEW i \in 1..n
        PROVE  f[i] = f[i - 1] + Cardinality(M(i)) /\ f[i - 1] \in Nat
    <3>1. i \in 0..n /\ i - 1 \in 0..n
      BY <1>2
    <3>2. f[i] = Cardinality(U(i)) /\ f[i - 1] = Cardinality(U(i - 1))
      BY <3>1
    <3>3. Numbers(U(i - 1)) /\ Numbers(M(i)) /\ U(i) = U(i - 1) \cup M(i)
          /\ \A x \in U(i - 1) : \A y \in M(i) : Comes(x, y, FALSE)
      BY <1>2, <1>3
    <3>4. Cardinality(U(i - 1) \cup M(i)) = Cardinality(U(i - 1)) + Cardinality(M(i))
      <4> DEFINE A == U(i - 1)
                 B == M(i)
      <4>1. A \in SUBSET Nat /\ IsFiniteSet(A) /\ B \in SUBSET Nat /\ IsFiniteSet(B)
            /\ \A x \in A : \A y \in B : Comes(x, y, FALSE)
        BY <3>3 DEF Numbers
      <4> HIDE DEF A, B
      <4>2. Cardinality(A \cup B) = Cardinality(A) + Cardinality(B)
        BY <4>1, OrderOfBoth
      <4> QED BY <4>2 DEF A, B
    <3>5. Cardinality(U(i - 1)) \in Nat
      BY <3>3, FS_CardinalityType DEF Numbers
    <3> QED BY <3>2, <3>3, <3>4, <3>5
  <2> DEFINE S == {i \in 0..n : f[i] \in Nat}
  <2>3. 0 \in S
    BY <1>2, <2>1
  <2>4. ASSUME NEW i \in 1..n, i - 1 \in S
        PROVE  i \in S
    <3>1. f[i - 1] \in Nat /\ i \in 0..n /\ Cardinality(M(i)) \in Nat
      BY <1>2, <2>4
    <3> HIDE DEF f
    <3> QED BY <2>2, <3>1
  <2>5. 0..n \subseteq S
    <3> HIDE DEF S
    <3> QED BY <1>2, <2>3, <2>4, UpTo
  <2>6. f \in [0..n -> Nat]
    BY <2>5
  <2> HIDE DEF f
  <2>7. \A i \in 1..n : f[i] = step[i][f[i - 1]]
    <3>1. \A i \in 1..n : \A acc \in Nat : step[i][acc] = acc + Cardinality(M(i))
      OBVIOUS
    <3> HIDE DEF step
    <3> QED BY <2>2, <3>1
  <2> QED BY <2>1, <2>6, <2>7 DEF Climbs
<1> HIDE DEF f
<1>7. \A i \in 1..n : \A acc \in Nat : step[i][acc] = acc + Cardinality(M(i))
  OBVIOUS
<1> HIDE DEF step
<1>8. \E h : h = CountBy(h, filter)
  <2>1. PICK g \in [SUBSET (1..n) -> Nat] : Folds(g, n, 0, step)
    BY <1>2, <1>5, FoldsExist
  <2>2. ASSUME NEW s \in SUBSET (1..n)
        PROVE  g[s] = IF s = {} THEN 0
                      ELSE g[s \ {Max(s)}] + Cardinality(Matches(segments[Max(s)], filter))
    <3>1. CASE s = {}
      BY <2>1, <3>1 DEF Folds
    <3>2. CASE s # {}
      <4>1. Max(s) \in 1..n /\ s \ {Max(s)} \in SUBSET (1..n)
        BY <1>2, <3>2, LargestPlace
      <4>2. g[s] = step[Max(s)][g[s \ {Max(s)}]]
        BY <2>1, <3>2 DEF Folds
      <4>3. g[s \ {Max(s)}] \in Nat
        BY <2>1, <4>1
      <4> QED BY <1>7, <3>2, <4>1, <4>2, <4>3 DEF M
    <3> QED BY <3>1, <3>2
  <2>3. g = [s \in SUBSET (1..n) |->
               IF s = {} THEN 0
               ELSE g[s \ {Max(s)}] + Cardinality(Matches(segments[Max(s)], filter))]
    <3>1. g = [s \in SUBSET (1..n) |-> g[s]]
      BY <2>1
    <3> QED BY <2>2, <3>1, Zenon
  <2>4. g = CountBy(g, filter)
    BY <1>2, <2>3, Zenon DEF CountBy
  <2> QED BY <2>4
<1> DEFINE c == CHOOSE g : g = CountBy(g, filter)
<1>9. c = CountBy(c, filter)
  BY <1>8
<1> HIDE DEF c
<1>10. c = [s \in SUBSET (1..n) |->
              IF s = {} THEN 0
              ELSE c[s \ {Max(s)}] + Cardinality(Matches(segments[Max(s)], filter))]
  BY <1>2, <1>9, Zenon DEF CountBy
<1>11. \A s \in SUBSET (1..n) :
         c[s] = IF s = {} THEN 0
                ELSE c[s \ {Max(s)}] + Cardinality(Matches(segments[Max(s)], filter))
  BY <1>10, Zenon
<1>12. c[{}] = 0
  BY <1>11
<1>13. ASSUME NEW s \in SUBSET (1..n), s # {}, c[s \ {Max(s)}] \in Nat
       PROVE  c[s] = step[Max(s)][c[s \ {Max(s)}]]
  <2>1. Max(s) \in 1..n
    BY <1>2, <1>13, LargestPlace
  <2>2. c[s] = c[s \ {Max(s)}] + Cardinality(M(Max(s)))
    BY <1>11, <1>13 DEF M
  <2> QED BY <1>7, <1>13, <2>1, <2>2
<1>14. c[1..n] = f[n]
  <2>1. \A s \in SUBSET (1..n) : s # {} /\ c[s \ {Max(s)}] \in Nat =>
           c[s] = step[Max(s)][c[s \ {Max(s)}]]
    BY <1>13
  <2>2. Unfolds(c, n, Nat, 0, step)
    BY <1>12, <2>1, Zenon DEF Unfolds
  <2> DEFINE D == Nat
             b == 0
  <2>3. /\ n \in Nat /\ b \in D /\ step \in [1..n -> [D -> D]]
        /\ Climbs(f, n, D, b, step) /\ Unfolds(c, n, D, b, step)
    BY <1>2, <1>5, <1>6, <2>2
  <2> HIDE DEF D, b
  <2> QED BY <2>3, FoldComesTo
<1>15. f[n] = Cardinality(U(n))
  <2>1. n \in 0..n
    BY <1>2
  <2> QED BY <2>1 DEF f
<1> QED BY <1>2, <1>4, <1>14, <1>15 DEF c

LEMMA NewestIs ==
  ASSUME NEW home, AnswerInv(home), NEW filter
  PROVE  ChainNewest(filter) = Max({0} \cup ChainMatches(filter))
<1> DEFINE all == ChainMatches(filter)
           newest == ChainNewest(filter)
           S == {0} \cup all
<1>1. all \in SUBSET Nat
  BY MatchesAreFinite DEF ChainMatches
<1>2. /\ all = {} => newest = 0
      /\ all # {} => newest \in all /\ \A n \in all : n <= newest
  BY NewestOfRow
<1> HIDE DEF all, newest
<1>3. newest \in S /\ newest \in Nat /\ \A n \in S : n <= newest
  <2>1. CASE all = {}
    BY <1>2, <2>1
  <2>2. CASE all # {}
    <3>1. newest \in Nat /\ newest \in S /\ \A n \in all : n <= newest
      BY <1>1, <1>2, <2>2
    <3> QED BY <3>1
  <2> QED BY <2>1, <2>2
<1>4. Max(S) \in S /\ \A n \in S : n <= Max(S)
  <2>1. newest \in Int /\ S \in SUBSET Int /\ S # {}
    BY <1>1, <1>3
  <2> HIDE DEF S
  <2> QED BY <1>3, <2>1, GreatestNumber
<1>5. Max(S) \in Nat
  <2>1. S \in SUBSET Nat
    BY <1>1
  <2> HIDE DEF S
  <2> QED BY <1>4, <2>1
<1> DEFINE m == Max(S)
<1>6. m \in Nat /\ m <= newest /\ newest <= m
  BY <1>3, <1>4, <1>5
<1> HIDE DEF m
<1>7. m = newest
  BY <1>3, <1>6
<1> QED BY <1>7 DEF m, all, newest

-----------------------------------------------------------------------------
(***************************************************************************)
(* With no add left half-done, a page, a count and the newest match are    *)
(* those of the whole ledger: grdb_chain_listing, cutting what is left of  *)
(* the page out of one segment after the other, cuts the page that one     *)
(* sequence of all matches would give; no match is skipped twice, given    *)
(* twice or lost at a border, from either end.                             *)
(***************************************************************************)
THEOREM PagesCut ==
  ASSUME NEW home \in Communities,
         \A tx \in Arrivals : tx.community = home /\ UnknownTypes(tx) = {},
         DaysInOrder(Arrivals)
  PROVE  LedgerSpec => []PagesCutTheLedger
<1>1. AnswerInv(home) => PagesCutTheLedger
  <2> SUFFICES ASSUME AnswerInv(home), Pending = {}, NEW filter \in Filters, NEW page \in Pages
               PROVE  LET listing == ChainListing(filter, page)
                          whole   == LedgerMatches(filter)
                      IN  /\ listing.out = Page(whole, page.skip, page.size, page.descending)
                          /\ listing.count = Cardinality(whole)
                          /\ ChainCount(filter) = Cardinality(whole)
                          /\ ChainNewest(filter) = Max({0} \cup whole)
    BY DEF PagesCutTheLedger
  <2> DEFINE all == ChainMatches(filter)
  <2>1. filter \in Filter /\ page \in [skip : Nat, size : Nat, descending : BOOLEAN]
    BY AskedAssumption
  <2>2. LedgerMatches(filter) = all
    <3>1. all \ Pending = LedgerMatches(filter)
      BY <2>1, MatchesAreTheLedgers
    <3> QED BY <3>1
  <2>3. ChainListing(filter, page) = WalkedOver(all, page.skip, page.size, page.descending)
    BY <2>1, ListingWalks
  <2>4. ChainCount(filter) = Cardinality(all) /\ ChainNewest(filter) = Max({0} \cup all)
    BY CountWalks, NewestIs
  <2> HIDE DEF all
  <2>5. /\ ChainListing(filter, page).out = Page(all, page.skip, page.size, page.descending)
        /\ ChainListing(filter, page).count = Cardinality(all)
    BY <2>3 DEF WalkedOver
  <2> QED BY <2>2, <2>4, <2>5
<1>2. LedgerSpec => []AnswerInv(home)
  BY AnswerInvHolds
<1> QED BY <1>1, <1>2, PTL

=============================================================================
