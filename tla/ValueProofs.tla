------------------------------ MODULE ValueProofs ------------------------------
(***************************************************************************)
(* Timestamps and validation for every width of seconds and nanoseconds;   *)
(* amounts for every number of decimal places and every width: rounding,   *)
(* printing, reading back what was printed, spans of time, and the factors *)
(* of a decay.                                                             *)
(*                                                                         *)
(* Powers of ten and fractions are recursive functions.  What they come to *)
(* is shown by the least number for which it would fail.                   *)
(***************************************************************************)
EXTENDS Validation, Amounts, FiniteSetTheorems, CountingProofs

(***************************************************************************)
(* Division that rounds towards minus infinity, as the references use it.  *)
(***************************************************************************)
LEMMA FloorDivision ==
  ASSUME NEW a \in Int, NEW n \in Nat \ {0}
  PROVE  /\ a \div n \in Int
         /\ a % n \in 0 .. n - 1
         /\ a = (a \div n) * n + (a % n)
  OBVIOUS

(***************************************************************************)
(* Division as the code has it: the carry and the rest are whole and part. *)
(***************************************************************************)
LEMMA CarryAndRest ==
  ASSUME NEW nanos \in Int
  PROVE  /\ Carry(nanos) \in Int
         /\ IsFraction(Rest(nanos))
         /\ Rest(nanos) \in Int
         /\ nanos = Carry(nanos) * NanosPerSecond + Rest(nanos)
<1> DEFINE n == NanosPerSecond
           q == Quotient(nanos)
           r == Remainder(nanos)
<1>1. n \in Nat \ {0}
  BY TimestampAssumption
<1>2. q \in Int /\ r \in Int /\ nanos = q * n + r /\ r > -n /\ r < n
  <2>1. CASE nanos >= 0
    <3>1. q = nanos \div n
      BY <2>1 DEF Quotient
    <3> QED
      BY <3>1, <1>1, FloorDivision DEF Remainder
  <2>2. CASE nanos < 0
    <3>1. q = -((-nanos) \div n)
      BY <2>2 DEF Quotient
    <3>2. -nanos \in Int
      OBVIOUS
    <3>3. (-nanos) \div n \in Int /\ (-nanos) % n \in 0 .. n - 1
          /\ -nanos = ((-nanos) \div n) * n + ((-nanos) % n)
      BY <3>2, <1>1, FloorDivision
    <3>4. r = nanos - q * n
      BY DEF Remainder
    <3> QED
      BY <3>1, <3>3, <3>4, <1>1
  <2> QED
    BY <2>1, <2>2
<1>3. CASE r < 0
  <2>1. Carry(nanos) = q - 1 /\ Rest(nanos) = r + n
    BY <1>3 DEF Carry, Rest
  <2>2. (q - 1) * n = q * n - n
    BY <1>1, <1>2
  <2> HIDE DEF q, r
  <2> QED
    BY <2>1, <2>2, <1>1, <1>2, <1>3 DEF IsFraction
<1>4. CASE ~(r < 0)
  <2>1. Carry(nanos) = q /\ Rest(nanos) = r
    BY <1>4 DEF Carry, Rest
  <2> HIDE DEF q, r
  <2> QED
    BY <2>1, <1>1, <1>2, <1>4 DEF IsFraction
<1> QED
  BY <1>3, <1>4

(***************************************************************************)
(* Additions stay in the range, and are exact where the sum does.          *)
(***************************************************************************)
LEMMA SaturatingSeconds ==
  ASSUME NEW a \in Seconds, NEW b \in Int
  PROVE  /\ SecondsAdd(a, b) \in Seconds
         /\ SecondsSub(a, b) \in Seconds
         /\ a + b \in Seconds => SecondsAdd(a, b) = a + b
         /\ a - b \in Seconds => SecondsSub(a, b) = a - b
         /\ a + b > MaxSecond => SecondsAdd(a, b) = MaxSecond
         /\ a + b < MinSecond => SecondsAdd(a, b) = MinSecond
         /\ a - b > MaxSecond => SecondsSub(a, b) = MaxSecond
         /\ a - b < MinSecond => SecondsSub(a, b) = MinSecond
  BY TimestampAssumption DEF SecondsAdd, SecondsSub, Seconds, MinSecond

(***************************************************************************)
(* The difference of any two timestamps, before it is looked at again.     *)
(***************************************************************************)
LEMMA DifferenceFacts ==
  ASSUME NEW t1 \in Timestamps, NEW t2 \in Timestamps
  PROVE  LET nanos == t1.nanos - t2.nanos
             apart == Instant(t1) - Instant(t2)
             seconds == t1.seconds - t2.seconds
         IN  /\ Minus(t1, t2) \in [seconds : Seconds, nanos : Int]
             /\ Minus(t1, t2).nanos = Rest(nanos)
             /\ Minus(t1, t2).seconds
                  = SecondsAdd(SecondsSub(t1.seconds, t2.seconds), Carry(nanos))
             /\ apart = (seconds + Carry(nanos)) * NanosPerSecond + Rest(nanos)
             /\ apart \div NanosPerSecond = seconds + Carry(nanos)
<1> DEFINE nanos == t1.nanos - t2.nanos
           seconds == t1.seconds - t2.seconds
           apart == Instant(t1) - Instant(t2)
           n == NanosPerSecond
           c == Carry(nanos)
           r == Rest(nanos)
<1>1. /\ t1.seconds \in Seconds /\ t2.seconds \in Seconds
      /\ t1.seconds \in Int /\ t2.seconds \in Int
      /\ t1.nanos \in Int /\ t2.nanos \in Int
  BY TimestampAssumption DEF Timestamps, Seconds, MinSecond
<1>2. n \in Nat \ {0}
  BY TimestampAssumption
<1>3. c \in Int /\ r \in 0 .. n - 1 /\ r \in Int /\ nanos = c * n + r
  BY <1>1, CarryAndRest DEF IsFraction
<1>4. Minus(t1, t2) = [seconds |-> SecondsAdd(SecondsSub(t1.seconds, t2.seconds), c),
                       nanos |-> r]
  BY DEF Minus, Normalize
<1>5. SecondsAdd(SecondsSub(t1.seconds, t2.seconds), c) \in Seconds
  BY <1>1, <1>3, SaturatingSeconds
<1>6. apart = (t1.seconds * n + t1.nanos) - (t2.seconds * n + t2.nanos)
  BY DEF Instant
<1>7. seconds \in Int /\ (seconds + c) * n = t1.seconds * n - t2.seconds * n + c * n
  <2> HIDE DEF c, r, nanos
  <2> QED
    BY <1>1, <1>2, <1>3
<1>8. apart = (seconds + c) * n + r
  <2>1. nanos = t1.nanos - t2.nanos
    OBVIOUS
  <2>2. t1.seconds * n \in Int /\ t2.seconds * n \in Int /\ c * n \in Int
    BY <1>1, <1>2, <1>3
  <2> HIDE DEF c, r, nanos, apart, seconds
  <2> QED
    BY <1>1, <1>2, <1>3, <1>6, <1>7, <2>1, <2>2
<1>9. apart \div n = seconds + c
  <2>1. seconds + c \in Int
    BY <1>3, <1>7
  <2> HIDE DEF c, r, nanos, apart, seconds
  <2> QED
    BY <1>2, <1>3, <1>8, <2>1, WholeIsUnique
<1> QED
  BY <1>3, <1>4, <1>5, <1>8, <1>9

(***************************************************************************)
(* What a refusal says: one of three results, and strings of the three.    *)
(***************************************************************************)
Reasons ==
  [result : {"invalid_field", "invalid_transaction_type", "crypto_sign_invalid"},
   fields : SUBSET Fields]

(***************************************************************************)
(* The lists of checks are written as tuples.                              *)
(***************************************************************************)
LEMMA TuplesAreSequences ==
  ASSUME NEW S, NEW a \in S, NEW b \in S, NEW c \in S, NEW d \in S, NEW e \in S, NEW f \in S
  PROVE  <<>> \in Seq(S) /\ <<a, b, c>> \in Seq(S) /\ <<a, b, c, d, e, f>> \in Seq(S)
  OBVIOUS

Check == [fails : BOOLEAN, why : Reasons]

(***************************************************************************)
(* Each list is a sequence of checks.                                      *)
(***************************************************************************)
LEMMA ListsOfChecks ==
  ASSUME NEW tx \in Candidate, NEW enable_verify \in BOOLEAN
  PROVE  /\ TransactionChecks(tx) \in Seq(Check)
         /\ CrossGroupChecks(tx) \in Seq(Check)
         /\ SignatureChecks(tx, enable_verify) \in Seq(Check)
<1> USE DEF Check
<1> DEFINE first == TransactionChecks(tx)
           second == CrossGroupChecks(tx)
           third == SignatureChecks(tx, enable_verify)
<1>1. /\ Reason("invalid_field", Fields) \in Reasons
      /\ Reason("invalid_field", {"message"}) \in Reasons
      /\ Reason("invalid_transaction_type", {"message"}) \in Reasons
      /\ Reason("crypto_sign_invalid", {"message"}) \in Reasons
  BY DEF Reason, Reasons, Fields
<1>2. first \in Seq(Check)
  <2> DEFINE late == tx.confirmed_at.seconds < EarliestConfirmation
             apart == Timespan(tx) > MaxTimespan
             asking(fails, fields) == [fails |-> fails, why |-> Reason("invalid_field", fields)]
  <2>1. /\ (~tx.numbered) \in BOOLEAN /\ (~tx.bodied) \in BOOLEAN
        /\ (~tx.in_community) \in BOOLEAN /\ (~tx.anchored) \in BOOLEAN
    OBVIOUS
  <2>2. late \in BOOLEAN /\ apart \in BOOLEAN
    OBVIOUS
  <2>3. \A b \in BOOLEAN, fields \in {Fields, {"message"}} : asking(b, fields) \in Check
    BY <1>1
  <2>4. first = <<asking(~tx.numbered, Fields), asking(~tx.bodied, {"message"}),
                  asking(late, Fields), asking(~tx.in_community, {"message"}),
                  asking(apart, Fields), asking(~tx.anchored, {"message"})>>
    BY DEF TransactionChecks
  <2>5. /\ asking(~tx.numbered, Fields) \in Check
        /\ asking(~tx.bodied, {"message"}) \in Check
        /\ asking(late, Fields) \in Check
        /\ asking(~tx.in_community, {"message"}) \in Check
        /\ asking(apart, Fields) \in Check
        /\ asking(~tx.anchored, {"message"}) \in Check
    <3> HIDE DEF late, apart, asking, Check
    <3> QED
      BY <2>1, <2>2, <2>3, Zenon
  <2> HIDE DEF Check
  <2> QED
    BY <2>4, <2>5, TuplesAreSequences
<1>3. second \in Seq(Check)
  <2> DEFINE badly == tx.cross_group_type = "inbound" /\ ~tx.paired_anchor
             other == tx.type \notin PairTypes
             a == [fails |-> other, why |-> Reason("invalid_transaction_type", {"message"})]
             b == [fails |-> ~tx.paired_community, why |-> Reason("invalid_field", {"message"})]
             c == [fails |-> badly, why |-> Reason("invalid_field", {"message"})]
  <2>1. badly \in BOOLEAN /\ other \in BOOLEAN /\ (~tx.paired_community) \in BOOLEAN
    OBVIOUS
  <2>2. \A fails \in BOOLEAN, why \in Reasons : [fails |-> fails, why |-> why] \in Check
    OBVIOUS
  <2>3. a \in Check /\ b \in Check /\ c \in Check
    <3> HIDE DEF badly, other, Check
    <3> QED
      BY <1>1, <2>1, <2>2, Zenon
  <2>4. second = <<>> \/ second = <<a, b, c>>
    BY DEF CrossGroupChecks
  <2>5. <<>> \in Seq(Check) /\ <<a, b, c>> \in Seq(Check)
    <3> HIDE DEF a, b, c, Check
    <3> QED
      BY <2>3, TuplesAreSequences
  <2> QED
    BY <2>4, <2>5, Zenon
<1>4. third \in Seq(Check)
  <2> DEFINE pairs == tx.signature_pairs
  <2>1. /\ pairs \in Seq({"good", "forged", "no_key", "no_signature"})
        /\ Len(pairs) \in Nat /\ DOMAIN pairs = 1 .. Len(pairs)
    BY DEF Candidate
  <2>2. ASSUME NEW i \in DOMAIN pairs
        PROVE  third[i] \in Check
    <3>1. CASE pairs[i] = "forged"
      <4>1. third[i] = [fails |-> UseSodium /\ enable_verify,
                        why |-> Reason("crypto_sign_invalid", {"message"})]
        BY <2>2, <3>1 DEF SignatureChecks
      <4>2. (UseSodium /\ enable_verify) \in BOOLEAN
        OBVIOUS
      <4> QED
        BY <1>1, <4>1, <4>2
    <3>2. CASE pairs[i] # "forged"
      <4>1. third[i] = [fails |-> pairs[i] # "good",
                        why |-> Reason("invalid_field", {"message"})]
        BY <2>2, <3>2 DEF SignatureChecks
      <4> QED
        BY <1>1, <4>1
    <3> QED
      BY <3>1, <3>2
  <2>3. DOMAIN third = 1 .. Len(pairs)
    BY <2>1 DEF SignatureChecks
  <2>4. third \in [1 .. Len(pairs) -> Check]
    <3>1. third = [i \in DOMAIN pairs |-> third[i]]
      BY DEF SignatureChecks
    <3> HIDE DEF third, pairs, Check
    <3> QED
      BY <2>1, <2>2, <3>1
  <2> QED
    <3> HIDE DEF third, pairs, Check
    <3> QED
      BY <2>1, <2>4
<1> QED
  BY <1>2, <1>3, <1>4

(***************************************************************************)
(* validateCommon refuses with nothing but reasons.                        *)
(***************************************************************************)
LEMMA ReasonsGiven ==
  ASSUME NEW tx \in Candidate, NEW enable_verify \in BOOLEAN
  PROVE  Refusals(tx, enable_verify) \subseteq Reasons
<1> DEFINE checks == Checks(tx, enable_verify)
<1>1. checks \in Seq(Check)
  BY ListsOfChecks DEF Checks
<1>2. ASSUME NEW i \in DOMAIN checks PROVE checks[i] \in Check
  <2> HIDE DEF checks
  <2> QED
    BY <1>1, <1>2
<1>3. \A i \in DOMAIN checks : checks[i].why \in Reasons
  BY <1>2 DEF Check
<1> QED
  BY <1>3 DEF Refusals

(***************************************************************************)
(* The invariant: types, and no copy out of reach.                         *)
(***************************************************************************)
ValidationInv == ValidationTypeOK /\ NoCopyIsLost

(***************************************************************************)
(* No details, no copies.                                                  *)
(***************************************************************************)
LEMMA ValidationBegins == ValidationInit => ValidationInv
<1> SUFFICES ASSUME ValidationInit PROVE ValidationInv
  OBVIOUS
<1>1. details \in Details /\ details.malloced \subseteq details.set /\ strings = {}
  BY DEF ValidationInit, EmptyDetails, Details
<1>2. asked \in Candidate /\ answer \in Answers
  BY CandidateAssumption DEF ValidationInit, NotAsked, Answers
<1> QED
  BY <1>1, <1>2 DEF ValidationInv, ValidationTypeOK, NoCopyIsLost

(***************************************************************************)
(* A fill of an empty struct meets no copy of another.                     *)
(***************************************************************************)
LEMMA FillKeepsCopies ==
  ASSUME ValidationInv, NEW fields \in SUBSET Fields, Fill(fields)
  PROVE  /\ details' \in Details
         /\ details'.malloced \subseteq details'.set
         /\ strings' \subseteq Fields \X {"allocator", "host"}
         /\ NoCopyIsLost'
<1>1. /\ details \in Details /\ details.malloced \subseteq details.set
      /\ strings \subseteq Fields \X {"allocator", "host"} /\ NoCopyIsLost
  BY DEF ValidationInv, ValidationTypeOK
<1>2. CASE details.set # {}
  <2>1. UNCHANGED detailsVars
    BY <1>2 DEF Fill
  <2> QED
    BY <1>1, <2>1 DEF detailsVars, NoCopyIsLost
<1>3. CASE details.set = {}
  <2>1. PICK refused \in SUBSET fields :
          /\ details' = [set |-> fields, malloced |-> FlagsWith(fields, refused)]
          /\ strings' = strings \cup {<<f, IF f \in refused THEN "host" ELSE "allocator">>
                                     : f \in fields}
    BY <1>3 DEF Fill, Filled
  <2>2. details.malloced = {} /\ strings = {}
    BY <1>1, <1>3 DEF NoCopyIsLost
  <2>3. FlagsWith(fields, refused) = refused
    BY <2>2 DEF FlagsWith
  <2>4. details'.set = fields /\ details'.malloced = refused
    BY <2>1, <2>3
  <2>5. \A s \in strings' :
          \E f \in fields : s = <<f, IF f \in refused THEN "host" ELSE "allocator">>
    BY <2>1, <2>2
  <2>6. NoCopyIsLost'
    BY <2>4, <2>5 DEF NoCopyIsLost
  <2> QED
    BY <2>1, <2>3, <2>4, <2>5, <2>6 DEF Details
<1> QED
  BY <1>2, <1>3

(***************************************************************************)
(* Each call keeps the types and the copies.                               *)
(***************************************************************************)
LEMMA ValidationGoesOn ==
  ValidationInv /\ [ValidationNext]_validationVars => ValidationInv'
<1> SUFFICES ASSUME ValidationInv, [ValidationNext]_validationVars PROVE ValidationInv'
  OBVIOUS
<1>1. /\ details \in Details /\ details.malloced \subseteq details.set
      /\ strings \subseteq Fields \X {"allocator", "host"} /\ NoCopyIsLost
      /\ asked \in Candidate /\ answer \in Answers
  BY DEF ValidationInv, ValidationTypeOK
<1>2. ASSUME NEW enable_verify \in BOOLEAN, NEW given \in BOOLEAN,
             Validate(enable_verify, given)
      PROVE  ValidationInv'
  <2>1. asked' = asked
    BY <1>2 DEF Validate
  <2>2. CASE UNCHANGED detailsVars /\ answer' \in Answers
    BY <1>1, <2>1, <2>2 DEF ValidationInv, ValidationTypeOK, NoCopyIsLost, detailsVars
  <2>3. CASE \E why \in Refusals(asked, enable_verify) :
               /\ answer' = [result |-> why.result, verified |-> enable_verify]
               /\ IF given THEN Fill(why.fields) ELSE UNCHANGED detailsVars
    <3>1. PICK why \in Refusals(asked, enable_verify) :
               /\ answer' = [result |-> why.result, verified |-> enable_verify]
               /\ IF given THEN Fill(why.fields) ELSE UNCHANGED detailsVars
      BY <2>3
    <3>2. why \in Reasons
      BY <1>1, ReasonsGiven
    <3>3. why.fields \in SUBSET Fields /\ answer' \in Answers
      BY <3>1, <3>2 DEF Reasons, Answers
    <3>4. CASE given
      BY <1>1, <2>1, <3>1, <3>3, <3>4, FillKeepsCopies DEF ValidationInv, ValidationTypeOK
    <3>5. CASE ~given
      BY <2>2, <3>1, <3>3, <3>5
    <3> QED
      BY <3>4, <3>5
  <2>4. \/ UNCHANGED detailsVars /\ answer' \in Answers
        \/ \E why \in Refusals(asked, enable_verify) :
               /\ answer' = [result |-> why.result, verified |-> enable_verify]
               /\ IF given THEN Fill(why.fields) ELSE UNCHANGED detailsVars
    BY <1>2 DEF Validate, Answers
  <2> QED
    BY <2>2, <2>3, <2>4
<1>3. CASE DetailsInit /\ UNCHANGED <<asked, answer>>
  <2>1. strings = {}
    BY <1>1, <1>3 DEF DetailsInit, Pointed, NoCopyIsLost
  <2>2. details' \in Details /\ details'.malloced \subseteq details'.set /\ strings' = {}
    BY <1>3, <2>1 DEF DetailsInit, EmptyDetails, Details
  <2> QED
    BY <1>1, <1>3, <2>2 DEF ValidationInv, ValidationTypeOK, NoCopyIsLost
<1>4. CASE DetailsRelease /\ UNCHANGED <<asked, answer>>
  <2>1. details' = details /\ strings' \subseteq strings
    BY <1>4 DEF DetailsRelease
  <2> QED
    BY <1>1, <1>4, <2>1 DEF ValidationInv, ValidationTypeOK, NoCopyIsLost
<1>5. CASE UNCHANGED validationVars
  BY <1>1, <1>5 DEF ValidationInv, ValidationTypeOK, NoCopyIsLost, validationVars, detailsVars
<1> QED
  BY <1>2, <1>3, <1>4, <1>5 DEF ValidationNext

(***************************************************************************)
(* The nanoseconds of two timestamps are less than six seconds apart.      *)
(***************************************************************************)
LEMMA CarryIsShort ==
  ASSUME NEW t1 \in Timestamps, NEW t2 \in Timestamps
  PROVE  Carry(t1.nanos - t2.nanos) \in -6 .. 5
<1> DEFINE nanos == t1.nanos - t2.nanos
           n == NanosPerSecond
           c == Carry(nanos)
           r == Rest(nanos)
<1>1. nanos \in Int /\ nanos > -6 * n /\ nanos < 6 * n
  BY TimestampAssumption DEF Timestamps
<1>2. n \in Nat \ {0}
  BY TimestampAssumption
<1>3. c \in Int /\ r \in 0 .. n - 1 /\ nanos = c * n + r
  BY <1>1, CarryAndRest DEF IsFraction
<1>4. c < 6
  <2> HIDE DEF c, r, nanos
  <2>1. SUFFICES ASSUME c >= 6 PROVE FALSE
    BY <1>3
  <2>2. c * n >= 6 * n
    BY <2>1, <1>2, <1>3
  <2> QED
    BY <2>2, <1>1, <1>2, <1>3
<1>5. c >= -6
  <2> HIDE DEF c, r, nanos
  <2>1. SUFFICES ASSUME c <= -7 PROVE FALSE
    BY <1>3
  <2>2. c * n <= -7 * n
    BY <2>1, <1>2, <1>3
  <2> QED
    BY <2>2, <1>1, <1>2, <1>3
<1> QED
  BY <1>3, <1>4, <1>5

(***************************************************************************)
(* DifferenceIsExact of any two timestamps.                                *)
(***************************************************************************)
LEMMA DifferenceHolds == asked \in Candidate => DifferenceIsExact
<1> SUFFICES ASSUME asked \in Candidate PROVE DifferenceIsExact
  OBVIOUS
<1> DEFINE t1 == asked.created_at
           t2 == asked.confirmed_at
           seconds == t1.seconds - t2.seconds
           c == Carry(t1.nanos - t2.nanos)
           r == Rest(t1.nanos - t2.nanos)
           apart == Instant(t1) - Instant(t2)
<1>1. t1 \in Timestamps /\ t2 \in Timestamps
  BY DEF Candidate
<1>2. t1.seconds \in Seconds /\ t2.seconds \in Int /\ t1.nanos - t2.nanos \in Int
  BY <1>1, TimestampAssumption DEF Timestamps, Seconds, MinSecond
<1>3. c \in Int /\ IsFraction(r)
  BY <1>2, CarryAndRest
<1>4. /\ Minus(t1, t2).nanos = r
      /\ Minus(t1, t2).seconds = SecondsAdd(SecondsSub(t1.seconds, t2.seconds), c)
      /\ apart = (seconds + c) * NanosPerSecond + r
      /\ apart \div NanosPerSecond = seconds + c
  BY <1>1, DifferenceFacts
<1>5. ASSUME seconds \in Seconds, apart \div NanosPerSecond \in Seconds
      PROVE  Instant(Minus(t1, t2)) = apart
  <2>1. SecondsSub(t1.seconds, t2.seconds) = seconds
    BY <1>2, <1>5, SaturatingSeconds
  <2>2. SecondsAdd(seconds, c) = seconds + c
    BY <1>3, <1>4, <1>5, SaturatingSeconds
  <2> QED
    BY <1>4, <2>1, <2>2 DEF Instant
<1> QED
  BY <1>3, <1>4, <1>5 DEF DifferenceIsExact

(***************************************************************************)
(* RunawayIsPinned of any two: the carry is shorter than the way to zero.  *)
(***************************************************************************)
LEMMA RunawayHolds == asked \in Candidate => RunawayIsPinned
<1> SUFFICES ASSUME asked \in Candidate PROVE RunawayIsPinned
  OBVIOUS
<1> DEFINE t1 == asked.created_at
           t2 == asked.confirmed_at
           d == t1.seconds - t2.seconds
           c == Carry(t1.nanos - t2.nanos)
           r == Rest(t1.nanos - t2.nanos)
           apart == Instant(t1) - Instant(t2)
           s == Minus(t1, t2).seconds
           n == NanosPerSecond
<1>1. t1 \in Timestamps /\ t2 \in Timestamps
  BY DEF Candidate
<1>2. t1.seconds \in Seconds /\ t2.seconds \in Int /\ t1.nanos - t2.nanos \in Int
      /\ t1.seconds \in Int /\ t1.nanos \in Int /\ t2.nanos \in Int
  BY <1>1, TimestampAssumption DEF Timestamps, Seconds, MinSecond
<1>3. c \in -6 .. 5 /\ IsFraction(r)
  BY <1>1, <1>2, CarryAndRest, CarryIsShort
<1>4. /\ s = SecondsAdd(SecondsSub(t1.seconds, t2.seconds), c)
      /\ apart = (d + c) * n + r
  BY <1>1, DifferenceFacts
<1>5. n \in Nat \ {0} /\ MaxSecond \in Nat /\ MaxSecond >= 6 /\ MinSecond = -MaxSecond - 1
  BY TimestampAssumption DEF MinSecond
<1>6. /\ d > MaxSecond => s >= MaxSecond - 6
      /\ d < MinSecond => s <= MinSecond + 6
      /\ d + c < 0 => s < 0
      /\ d + c >= 0 => s >= 0
  <2>1. /\ SecondsSub(t1.seconds, t2.seconds) \in Seconds
        /\ d \in Seconds => SecondsSub(t1.seconds, t2.seconds) = d
        /\ d > MaxSecond => SecondsSub(t1.seconds, t2.seconds) = MaxSecond
        /\ d < MinSecond => SecondsSub(t1.seconds, t2.seconds) = MinSecond
    BY <1>2, SaturatingSeconds
  <2> DEFINE e == SecondsSub(t1.seconds, t2.seconds)
  <2>2. /\ e + c \in Seconds => s = e + c
        /\ e + c > MaxSecond => s = MaxSecond
        /\ e + c < MinSecond => s = MinSecond
    <3>1. e \in Seconds /\ c \in Int /\ s = SecondsAdd(e, c)
      BY <1>3, <1>4, <2>1
    <3> HIDE DEF e, c, s
    <3> QED
      BY <3>1, SaturatingSeconds
  <2>3. d \in Int /\ c \in Int
    BY <1>2, <1>3
  <2> HIDE DEF c, d, e, s
  <2> QED
    BY <1>3, <1>5, <2>1, <2>2, <2>3 DEF Seconds, e
<1>7. (d + c < 0) = (apart < 0)
  <2>1. d + c \in Int /\ r \in 0 .. n - 1
    BY <1>2, <1>3 DEF IsFraction
  <2> DEFINE q == d + c
  <2>2. apart = q * n + r
    BY <1>4
  <2>3. q < 0 => q * n <= -n
    <3> HIDE DEF q
    <3> QED
      BY <1>5, <2>1 DEF q
  <2>4. q >= 0 => q * n >= 0
    <3> HIDE DEF q
    <3> QED
      BY <1>5, <2>1 DEF q
  <2>5. q * n \in Int
    BY <1>5, <2>1
  <2> HIDE DEF q, r, apart, c, d
  <2> QED
    BY <1>5, <2>1, <2>2, <2>3, <2>4, <2>5 DEF q
<1>8. (apart < 0) = (Instant(t1) < Instant(t2))
  <2>1. Instant(t1) \in Int /\ Instant(t2) \in Int
    BY <1>2, <1>5 DEF Instant
  <2> HIDE DEF t1, t2
  <2> QED
    BY <2>1 DEF apart
<1>9. (s < 0) = (Instant(t1) < Instant(t2))
  <2>1. s \in Int
    <3>1. Minus(t1, t2) \in [seconds : Seconds, nanos : Int]
      BY <1>1, DifferenceFacts
    <3> QED
      BY <3>1, <1>5 DEF Seconds
  <2>2. d + c \in Int
    BY <1>2, <1>3
  <2> HIDE DEF s, d, c, apart
  <2> QED
    BY <1>6, <1>7, <1>8, <2>1, <2>2
<1> QED
  BY <1>6, <1>9 DEF RunawayIsPinned

(***************************************************************************)
(* PlusUndoesMinus of any two.                                             *)
(***************************************************************************)
LEMMA PlusHolds == asked \in Candidate => PlusUndoesMinus
<1> SUFFICES ASSUME asked \in Candidate PROVE PlusUndoesMinus
  OBVIOUS
<1> DEFINE t1 == asked.created_at
           t2 == asked.confirmed_at
           difference == Minus(t1, t2)
           n == NanosPerSecond
           met == {t1.seconds - t2.seconds,
                   (Instant(t1) - Instant(t2)) \div n,
                   difference.seconds + t2.seconds,
                   Instant(t1) \div n}
           nanos == difference.nanos + t2.nanos
           c == Carry(nanos)
           r == Rest(nanos)
           whole == difference.seconds + t2.seconds
<1>1. t1 \in Timestamps /\ t2 \in Timestamps /\ n \in Nat \ {0}
  BY TimestampAssumption DEF Candidate
<1>2. /\ t2.seconds \in Int /\ t2.nanos \in Int /\ t1.seconds \in Int /\ t1.nanos \in Int
      /\ difference.seconds \in Seconds /\ difference.seconds \in Int /\ difference.nanos \in Int
  BY <1>1, DifferenceFacts, TimestampAssumption DEF Timestamps, Seconds, MinSecond
<1> SUFFICES ASSUME met \subseteq Seconds PROVE Instant(Plus(difference, t2)) = Instant(t1)
  BY DEF PlusUndoesMinus
<1>3. Instant(difference) = Instant(t1) - Instant(t2)
  BY DifferenceHolds DEF DifferenceIsExact
<1>4. c \in Int /\ r \in 0 .. n - 1 /\ nanos = c * n + r
  <2>1. nanos \in Int
    BY <1>2
  <2> QED
    BY <2>1, CarryAndRest DEF IsFraction
<1>5. Instant(t1) = (whole + c) * n + r
  <2>1. Instant(t1) = Instant(difference) + Instant(t2)
    <3>1. Instant(t1) \in Int /\ Instant(t2) \in Int
      BY <1>1, <1>2 DEF Instant
    <3> QED
      BY <1>3, <3>1
  <2>2. Instant(difference) + Instant(t2)
          = (difference.seconds * n + difference.nanos) + (t2.seconds * n + t2.nanos)
    BY DEF Instant
  <2>3. (whole + c) * n = difference.seconds * n + t2.seconds * n + c * n
    <3> HIDE DEF difference, c
    <3> QED
      BY <1>1, <1>2, <1>4
  <2>4. difference.seconds * n \in Int /\ t2.seconds * n \in Int /\ c * n \in Int
    BY <1>1, <1>2, <1>4
  <2>5. nanos = difference.nanos + t2.nanos
    OBVIOUS
  <2> HIDE DEF difference, c, r, nanos, whole
  <2> QED
    BY <1>2, <1>4, <2>1, <2>2, <2>3, <2>4, <2>5
<1>6. Instant(t1) \div n = whole + c
  <2>1. whole + c \in Int
    BY <1>2, <1>4
  <2> HIDE DEF c, r, whole
  <2> QED
    BY <1>1, <1>4, <1>5, <2>1, WholeIsUnique
<1>7. SecondsAdd(difference.seconds, t2.seconds) = whole
  BY <1>2, SaturatingSeconds
<1>8. SecondsAdd(whole, c) = whole + c
  <2>1. whole \in Seconds /\ whole + c \in Seconds
    BY <1>6
  <2> QED
    BY <2>1, <1>4, SaturatingSeconds
<1>9. Plus(difference, t2) = [seconds |-> whole + c, nanos |-> r]
  BY <1>7, <1>8 DEF Plus, Normalize
<1> QED
  BY <1>5, <1>9 DEF Instant

(***************************************************************************)
(* Of no refusal, there is none to make: the first check that fails is the *)
(* least, and a list with one that fails has a first.                      *)
(***************************************************************************)
LEMMA FirstFailureIsFound ==
  ASSUME NEW tx \in Candidate, NEW enable_verify \in BOOLEAN,
         NEW n \in Nat, DOMAIN Checks(tx, enable_verify) = 1 .. n
  PROVE  (Refusals(tx, enable_verify) = {})
           <=> \A i \in 1 .. n : ~Checks(tx, enable_verify)[i].fails
<1> DEFINE checks == Checks(tx, enable_verify)
           failing == {i \in 1 .. n : checks[i].fails}
           firsts == {i \in DOMAIN checks :
                        checks[i].fails /\ \A j \in 1 .. i - 1 : ~checks[j].fails}
<1>1. Refusals(tx, enable_verify) = {checks[i].why : i \in firsts}
  BY DEF Refusals
<1>2. failing # {} => firsts # {}
  <2> SUFFICES ASSUME failing # {} PROVE firsts # {}
    OBVIOUS
  <2>1. failing \in SUBSET Nat
    OBVIOUS
  <2>2. PICK i \in failing : \A j \in failing : i <= j
    <3> HIDE DEF failing
    <3> QED
      BY <2>1, LeastNumber
  <2>3. i \in 1 .. n /\ checks[i].fails
    OBVIOUS
  <2>4. ASSUME NEW j \in 1 .. i - 1 PROVE ~checks[j].fails
    <3>1. j \in 1 .. n /\ ~(i <= j)
      BY <2>3
    <3> HIDE DEF checks
    <3> QED
      BY <2>2, <3>1
  <2> QED
    BY <2>3, <2>4
<1>3. firsts # {} => failing # {}
  <2>1. DOMAIN checks = 1 .. n
    OBVIOUS
  <2> HIDE DEF checks
  <2> QED
    BY <2>1
<1>4. (Refusals(tx, enable_verify) = {}) <=> (firsts = {})
  <2> HIDE DEF checks, firsts
  <2> QED
    BY <1>1
<1>5. (failing = {}) <=> \A i \in 1 .. n : ~checks[i].fails
  <2> HIDE DEF checks
  <2> QED
    OBVIOUS
<1> QED
  <2> HIDE DEF failing, firsts
  <2> QED
    BY <1>2, <1>3, <1>4, <1>5

(***************************************************************************)
(* The checks fall into the three lists they are put together from.        *)
(***************************************************************************)
LEMMA NoneFailsInEither ==
  ASSUME NEW S, NEW s \in Seq(S), NEW t \in Seq(S)
  PROVE  /\ s \o t \in Seq(S)
         /\ (\A i \in 1 .. Len(s \o t) : ~(s \o t)[i].fails)
              <=> /\ \A i \in 1 .. Len(s) : ~s[i].fails
                  /\ \A i \in 1 .. Len(t) : ~t[i].fails
<1>1. /\ s \o t \in Seq(S) /\ Len(s) \in Nat /\ Len(t) \in Nat
      /\ Len(s \o t) = Len(s) + Len(t)
  OBVIOUS
<1>2. \A i \in 1 .. Len(s) : i \in 1 .. Len(s \o t) /\ (s \o t)[i] = s[i]
  OBVIOUS
<1>3. \A i \in 1 .. Len(t) :
        i + Len(s) \in 1 .. Len(s \o t) /\ (s \o t)[i + Len(s)] = t[i]
  OBVIOUS
<1>4. \A i \in 1 .. Len(s \o t) :
        i \in 1 .. Len(s) \/ (i - Len(s) \in 1 .. Len(t) /\ (s \o t)[i] = t[i - Len(s)])
  OBVIOUS
<1> QED
  BY <1>1, <1>2, <1>3, <1>4

(***************************************************************************)
(* The time between, pinned or not, is as long as in exact arithmetic: the *)
(* span allowed is that far from the ends of the range.                    *)
(***************************************************************************)
LEMMA TimespanIsExact ==
  ASSUME NEW tx \in Candidate
  PROVE  (Timespan(tx) > MaxTimespan) <=> ~IsInTime(tx)
<1> DEFINE t1 == tx.created_at
           t2 == tx.confirmed_at
           d == t1.seconds - t2.seconds
           c == Carry(t1.nanos - t2.nanos)
           e == SecondsSub(t1.seconds, t2.seconds)
           s == Minus(t1, t2).seconds
<1>1. t1 \in Timestamps /\ t2 \in Timestamps
  BY DEF Candidate
<1>2. t1.seconds \in Seconds /\ t2.seconds \in Int /\ d \in Int
  BY <1>1, TimestampAssumption DEF Timestamps, Seconds, MinSecond
<1>3. c \in -6 .. 5
  BY <1>1, CarryIsShort
<1>4. /\ s = SecondsAdd(e, c)
      /\ (Instant(t1) - Instant(t2)) \div NanosPerSecond = d + c
  BY <1>1, DifferenceFacts
<1>5. /\ e \in Seconds
      /\ d \in Seconds => e = d
      /\ d > MaxSecond => e = MaxSecond
      /\ d < MinSecond => e = MinSecond
  BY <1>2, SaturatingSeconds
<1>6. /\ s \in Seconds
      /\ e + c \in Seconds => s = e + c
      /\ e + c > MaxSecond => s = MaxSecond
      /\ e + c < MinSecond => s = MinSecond
  <2>1. c \in Int
    BY <1>3
  <2> HIDE DEF e, c, s
  <2> QED
    BY <1>4, <1>5, <2>1, SaturatingSeconds
<1>7. MaxSecond \in Nat /\ MaxTimespan \in Nat /\ MaxTimespan + 6 < MaxSecond
      /\ MinSecond = -MaxSecond - 1
  BY TimestampAssumption, CandidateAssumption DEF MinSecond
<1>8. s \in -MaxTimespan .. MaxTimespan <=> d + c \in -MaxTimespan .. MaxTimespan
  <2> HIDE DEF s, e, d, c
  <2> QED
    BY <1>2, <1>3, <1>5, <1>6, <1>7 DEF Seconds
<1>9. (Timespan(tx) > MaxTimespan) <=> ~(s \in -MaxTimespan .. MaxTimespan)
  <2>1. Timespan(tx) = IF s < 0 THEN -s ELSE s
    BY DEF Timespan
  <2>2. s \in Int
    BY <1>6, <1>7 DEF Seconds
  <2> HIDE DEF s
  <2> QED
    BY <1>7, <2>1, <2>2
<1>10. IsInTime(tx) <=> d + c \in -MaxTimespan .. MaxTimespan
  BY <1>4 DEF IsInTime
<1> QED
  BY <1>8, <1>9, <1>10

(***************************************************************************)
(* No check fails of exactly the transactions that are acceptable.         *)
(***************************************************************************)
LEMMA ChecksAreAcceptance ==
  ASSUME NEW tx \in Candidate, NEW enable_verify \in BOOLEAN
  PROVE  (Refusals(tx, enable_verify) = {}) <=> IsAcceptable(tx, enable_verify)
<1> DEFINE first == TransactionChecks(tx)
           second == CrossGroupChecks(tx)
           third == SignatureChecks(tx, enable_verify)
           NoneFails(list) == \A i \in 1 .. Len(list) : ~list[i].fails
<1>1. first \in Seq(Check) /\ second \in Seq(Check) /\ third \in Seq(Check)
  BY ListsOfChecks
<1>2. /\ Checks(tx, enable_verify) \in Seq(Check)
      /\ NoneFails(Checks(tx, enable_verify))
           <=> NoneFails(first) /\ NoneFails(second) /\ NoneFails(third)
  <2>1. Checks(tx, enable_verify) = (first \o second) \o third
    BY DEF Checks
  <2>2. /\ first \o second \in Seq(Check)
        /\ NoneFails(first \o second) <=> NoneFails(first) /\ NoneFails(second)
    <3> HIDE DEF first, second
    <3> QED
      BY <1>1, NoneFailsInEither
  <2>3. /\ (first \o second) \o third \in Seq(Check)
        /\ NoneFails((first \o second) \o third)
             <=> NoneFails(first \o second) /\ NoneFails(third)
    <3> DEFINE both == first \o second
    <3>1. both \in Seq(Check)
      BY <2>2
    <3> HIDE DEF both, third
    <3>2. /\ both \o third \in Seq(Check)
          /\ NoneFails(both \o third) <=> NoneFails(both) /\ NoneFails(third)
      BY <1>1, <3>1, NoneFailsInEither
    <3> QED
      BY <3>2 DEF both
  <2> HIDE DEF first, second, third, NoneFails
  <2> QED
    BY <2>1, <2>2, <2>3
<1>3. (Refusals(tx, enable_verify) = {}) <=> NoneFails(Checks(tx, enable_verify))
  <2>1. Len(Checks(tx, enable_verify)) \in Nat
        /\ DOMAIN Checks(tx, enable_verify) = 1 .. Len(Checks(tx, enable_verify))
    BY <1>2
  <2> QED
    BY <2>1, FirstFailureIsFound
<1>4. NoneFails(first)
        <=> /\ tx.numbered /\ tx.bodied /\ tx.in_community /\ tx.anchored
            /\ ~(tx.confirmed_at.seconds < EarliestConfirmation)
            /\ ~(Timespan(tx) > MaxTimespan)
  <2>1. Len(first) = 6
    BY DEF TransactionChecks
  <2>2. /\ first[1].fails = ~tx.numbered
        /\ first[2].fails = ~tx.bodied
        /\ first[3].fails = (tx.confirmed_at.seconds < EarliestConfirmation)
        /\ first[4].fails = ~tx.in_community
        /\ first[5].fails = (Timespan(tx) > MaxTimespan)
        /\ first[6].fails = ~tx.anchored
    BY DEF TransactionChecks
  <2>3. NoneFails(first) <=> /\ ~first[1].fails /\ ~first[2].fails /\ ~first[3].fails
                             /\ ~first[4].fails /\ ~first[5].fails /\ ~first[6].fails
    <3> HIDE DEF first
    <3> QED
      BY <2>1
  <2> HIDE DEF NoneFails, first
  <2> QED
    BY <2>2, <2>3
<1>5. NoneFails(second) <=> (tx.cross_group_type # "local" => IsPaired(tx))
  <2>1. CASE tx.cross_group_type = "local"
    BY <2>1 DEF CrossGroupChecks
  <2>2. CASE tx.cross_group_type # "local"
    <3>1. /\ Len(second) = 3
          /\ second[1].fails = (tx.type \notin PairTypes)
          /\ second[2].fails = ~tx.paired_community
          /\ second[3].fails = (tx.cross_group_type = "inbound" /\ ~tx.paired_anchor)
      BY <2>2 DEF CrossGroupChecks
    <3>2. NoneFails(second) <=> ~second[1].fails /\ ~second[2].fails /\ ~second[3].fails
      <4> HIDE DEF second
      <4> QED
        BY <3>1
    <3> HIDE DEF NoneFails, second
    <3> QED
      BY <2>2, <3>1, <3>2 DEF IsPaired
  <2> QED
    BY <2>1, <2>2
<1>6. NoneFails(third) <=> IsSigned(tx, enable_verify)
  <2> DEFINE pairs == tx.signature_pairs
             may == {"good"} \cup (IF UseSodium /\ enable_verify THEN {} ELSE {"forged"})
  <2>1. /\ pairs \in Seq({"good", "forged", "no_key", "no_signature"})
        /\ Len(pairs) \in Nat /\ DOMAIN pairs = 1 .. Len(pairs)
    BY DEF Candidate
  <2>2. DOMAIN third = 1 .. Len(pairs) /\ Len(third) = Len(pairs)
    <3>1. DOMAIN third = 1 .. Len(pairs)
      BY <2>1 DEF SignatureChecks
    <3>2. DOMAIN third = 1 .. Len(third) /\ Len(third) \in Nat
      <4> HIDE DEF third
      <4> QED
        BY <1>1
    <3> HIDE DEF third, pairs
    <3> QED
      BY <2>1, <3>1, <3>2
  <2>3. ASSUME NEW i \in 1 .. Len(pairs)
        PROVE  ~third[i].fails <=> pairs[i] \in may
    <3>1. CASE pairs[i] = "forged"
      <4>1. third[i].fails = (UseSodium /\ enable_verify)
        BY <2>1, <2>3, <3>1 DEF SignatureChecks
      <4> HIDE DEF third, pairs
      <4> QED
        BY <3>1, <4>1, Zenon
    <3>2. CASE pairs[i] # "forged"
      <4>1. third[i].fails = (pairs[i] # "good")
        BY <2>1, <2>3, <3>2 DEF SignatureChecks
      <4> HIDE DEF third, pairs
      <4> QED
        BY <3>2, <4>1
    <3> QED
      BY <3>1, <3>2
  <2>4. IsSigned(tx, enable_verify) <=> \A i \in 1 .. Len(pairs) : pairs[i] \in may
    BY <2>1 DEF IsSigned
  <2> HIDE DEF third, pairs, may
  <2> QED
    BY <2>2, <2>3, <2>4
<1>7. ~(tx.confirmed_at.seconds < EarliestConfirmation)
        <=> tx.confirmed_at.seconds >= EarliestConfirmation
  BY CandidateAssumption, TimestampAssumption DEF Candidate, Timestamps, Seconds, MinSecond
<1> QED
  <2> HIDE DEF first, second, third, NoneFails
  <2> QED
    BY <1>2, <1>3, <1>4, <1>5, <1>6, <1>7, TimespanIsExact DEF IsAcceptable

(***************************************************************************)
(* A call answers for the transaction at hand, and no other call does.     *)
(***************************************************************************)
LEMMA SuccessStays ==
  ValidationInv /\ SuccessIsDeserved /\ [ValidationNext]_validationVars => SuccessIsDeserved'
<1> SUFFICES ASSUME ValidationInv, SuccessIsDeserved, [ValidationNext]_validationVars
             PROVE  SuccessIsDeserved'
  OBVIOUS
<1>1. ASSUME NEW enable_verify \in BOOLEAN, NEW given \in BOOLEAN,
             Validate(enable_verify, given)
      PROVE  SuccessIsDeserved'
  <2>1. asked' = asked /\ asked \in Candidate
    BY <1>1 DEF Validate, ValidationInv, ValidationTypeOK
  <2>2. (Refusals(asked, enable_verify) = {}) <=> IsAcceptable(asked, enable_verify)
    BY <2>1, ChecksAreAcceptance
  <2>3. CASE answer' = [result |-> "invalid_error_details_state", verified |-> enable_verify]
    BY <2>3 DEF SuccessIsDeserved
  <2>4. CASE /\ Refusals(asked, enable_verify) = {}
             /\ answer' = [result |-> "success", verified |-> enable_verify]
    <3>1. IsAcceptable(asked, enable_verify)
      BY <2>2, <2>4
    <3>2. IsAcceptable(asked', answer'.verified)
      BY <2>1, <2>4, <3>1
    <3>3. answer'.result = "success"
      BY <2>4
    <3> QED
      BY <3>2, <3>3 DEF SuccessIsDeserved
  <2>5. CASE \E why \in Refusals(asked, enable_verify) :
               answer' = [result |-> why.result, verified |-> enable_verify]
    <3>1. PICK why \in Refusals(asked, enable_verify) :
               answer' = [result |-> why.result, verified |-> enable_verify]
      BY <2>5
    <3>2. why \in Reasons
      BY <2>1, ReasonsGiven
    <3>3. answer'.result # "success"
      BY <3>1, <3>2 DEF Reasons
    <3>4. ~IsAcceptable(asked, enable_verify)
      BY <2>2, <3>1
    <3>5. ~IsAcceptable(asked', answer'.verified)
      BY <2>1, <3>1, <3>4
    <3> QED
      BY <3>3, <3>5 DEF SuccessIsDeserved
  <2> QED
    BY <1>1, <2>3, <2>4, <2>5 DEF Validate
<1>2. CASE UNCHANGED <<asked, answer>>
  BY <1>2 DEF SuccessIsDeserved
<1> QED
  BY <1>1, <1>2 DEF ValidationNext, validationVars

(***************************************************************************)
(* All of it, always.                                                      *)
(***************************************************************************)
LEMMA ValidationHolds == ValidationSpec => [](ValidationInv /\ SuccessIsDeserved)
<1>1. ValidationInit => SuccessIsDeserved
  BY DEF ValidationInit, NotAsked, SuccessIsDeserved
<1> QED
  BY <1>1, ValidationBegins, ValidationGoesOn, SuccessStays, PTL DEF ValidationSpec

(***************************************************************************)
(* Types of validation and its details, for every width and candidate.     *)
(***************************************************************************)
THEOREM ValidationTypes == ValidationSpec => []ValidationTypeOK
<1>1. ValidationInv => ValidationTypeOK
  BY DEF ValidationInv
<1> QED
  BY <1>1, ValidationHolds, PTL

(***************************************************************************)
(* grdi_validate_complete_transaction answers success for exactly the      *)
(* transactions that are acceptable, and refuses all others: with any      *)
(* number of signatures, and whatever timestamps the wire brings.          *)
(***************************************************************************)
THEOREM SuccessExactlyWhenAcceptable == ValidationSpec => []SuccessIsDeserved
  BY ValidationHolds, PTL

(***************************************************************************)
(* Each string of a refusal goes back to the memory it was taken from,     *)
(* whichever of them the allocator had room for.                           *)
(***************************************************************************)
THEOREM CopiesGoBack == ValidationSpec => []NoCopyIsLost
<1>1. ValidationInv => NoCopyIsLost
  BY DEF ValidationInv
<1> QED
  BY <1>1, ValidationHolds, PTL

(***************************************************************************)
(* grdd_timestamp_minus is exact away from the ends of 64 bits, at them it *)
(* keeps its sign, and plus gives back what it took.                       *)
(***************************************************************************)
THEOREM TimestampArithmetic == ValidationSpec => []TimestampsAreExact
<1>1. ValidationInv => TimestampsAreExact
  <2>1. ValidationInv => asked \in Candidate
    BY DEF ValidationInv, ValidationTypeOK
  <2> QED
    BY <2>1, DifferenceHolds, RunawayHolds, PlusHolds DEF TimestampsAreExact
<1> QED
  BY <1>1, ValidationHolds, PTL

-----------------------------------------------------------------------------
(***************************************************************************)
(* Reading digits: times ten and the next one.  There is a function that   *)
(* does so, which a recursive definition alone does not say.               *)
(***************************************************************************)
Tenfold(f, n, b, d) == f = [i \in 0..n |-> IF i = 0 THEN b ELSE f[i - 1] * 10 + d[i]]

LEMMA TenfoldExists ==
  ASSUME NEW n \in Nat, NEW b \in Nat, NEW d \in [0..n -> Nat]
  PROVE  \E f \in [0..n -> Nat] : Tenfold(f, n, b, d)
<1> DEFINE step == [i \in 1..n |-> [x \in Nat |-> x * 10 + d[i]]]
<1>1. step \in [1..n -> [Nat -> Nat]]
  <2>1. \A i \in 1..n : d[i] \in Nat
    OBVIOUS
  <2>2. \A i \in 1..n : \A x \in Nat : x * 10 + d[i] \in Nat
    BY <2>1
  <2> QED BY <2>2
<1>2. \A i \in 1..n : \A x \in Nat : step[i][x] = x * 10 + d[i]
  OBVIOUS
<1> HIDE DEF step
<1>3. PICK f : Steps(f, n, b, step) /\ Climbs(f, n, Nat, b, step)
  BY <1>1, StepsExist
<1>4. f \in [0..n -> Nat] /\ f[0] = b /\ \A i \in 1..n : f[i] = step[i][f[i - 1]]
  BY <1>3 DEF Climbs
<1>5. \A i \in 0..n : f[i] = IF i = 0 THEN b ELSE f[i - 1] * 10 + d[i]
  <2> SUFFICES ASSUME NEW i \in 0..n, i # 0 PROVE f[i] = f[i - 1] * 10 + d[i]
    BY <1>4
  <2>1. i \in 1..n /\ i - 1 \in 0..n
    OBVIOUS
  <2>2. f[i - 1] \in Nat
    BY <1>4, <2>1
  <2> QED BY <1>2, <1>4, <2>1, <2>2
<1> QED BY <1>4, <1>5 DEF Tenfold

\* What the recursive definition of the powers of ten says.
LEMMA Pow10Unfolds ==
  /\ Pow10 \in [0..Digits -> Nat]
  /\ Pow10[0] = 1
  /\ \A n \in 1..Digits : Pow10[n] = 10 * Pow10[n - 1]
<1> DEFINE d == [i \in 0..Digits |-> 0]
<1>1. Digits \in Nat
  BY AmountsAssumption
<1>2. PICK f \in [0..Digits -> Nat] :
        f = [i \in 0..Digits |-> IF i = 0 THEN 1 ELSE f[i - 1] * 10 + d[i]]
  <2>1. d \in [0..Digits -> Nat] /\ 1 \in Nat
    OBVIOUS
  <2> HIDE DEF d
  <2>2. \E f \in [0..Digits -> Nat] : Tenfold(f, Digits, 1, d)
    BY <1>1, <2>1, TenfoldExists
  <2> QED BY <2>2 DEF Tenfold
<1>3. f = [n \in 0..Digits |-> IF n = 0 THEN 1 ELSE 10 * f[n - 1]]
  <2> SUFFICES ASSUME NEW n \in 0..Digits
               PROVE  f[n] = IF n = 0 THEN 1 ELSE 10 * f[n - 1]
    BY <1>2
  <2>1. n # 0 => n - 1 \in 0..Digits
    BY <1>1
  <2>2. n # 0 => f[n - 1] \in Nat
    BY <1>2, <2>1
  <2>3. f[n] = IF n = 0 THEN 1 ELSE f[n - 1] * 10 + 0
    BY <1>2
  <2> QED BY <2>2, <2>3
<1>4. Pow10 = [n \in 0..Digits |-> IF n = 0 THEN 1 ELSE 10 * Pow10[n - 1]]
  <2> DEFINE P(g) == g = [n \in 0..Digits |-> IF n = 0 THEN 1 ELSE 10 * g[n - 1]]
  <2>1. P(f)
    BY <1>3
  <2>2. Pow10 = CHOOSE g : P(g)
    BY DEF Pow10
  <2> HIDE DEF P
  <2>3. P(Pow10)
    BY <2>1, <2>2, Zenon
  <2> QED BY <2>3 DEF P
<1>5. Pow10 = f
  <2> DEFINE Same == {n \in 0..Digits : Pow10[n] = f[n]}
  <2>1. 0 \in Same
    BY <1>1, <1>3, <1>4
  <2>2. ASSUME NEW n \in 1..Digits, n - 1 \in Same PROVE n \in Same
    BY <1>1, <1>3, <1>4, <2>2
  <2>3. 0..Digits \subseteq Same
    <3> HIDE DEF Same
    <3> QED BY <1>1, <2>1, <2>2, UpTo
  <2>4. \A n \in 0..Digits : Pow10[n] = f[n]
    BY <2>3
  <2> QED BY <1>3, <1>4, <2>4
<1>6. \A n \in 1..Digits : n \in 0..Digits /\ n # 0
  BY <1>1
<1>7. 0 \in 0..Digits
  BY <1>1
<1>8. \A n \in 0..Digits : Pow10[n] = IF n = 0 THEN 1 ELSE 10 * Pow10[n - 1]
  BY <1>4, Zenon
<1>9. Pow10 \in [0..Digits -> Nat]
  BY <1>2, <1>5, Zenon
<1> QED
  BY <1>6, <1>7, <1>8, <1>9, Zenon

LEMMA Pow10IsPositive ==
  \A n \in 0..Digits : Pow10[n] \in Nat \ {0}
<1> DEFINE S == {n \in 0..Digits : Pow10[n] # 0}
<1>1. Digits \in Nat
  BY AmountsAssumption
<1>2. 0 \in S
  BY <1>1, Pow10Unfolds
<1>3. ASSUME NEW n \in 1..Digits, n - 1 \in S PROVE n \in S
  <2>1. Pow10[n - 1] \in Nat /\ Pow10[n - 1] # 0 /\ Pow10[n] = 10 * Pow10[n - 1] /\ n \in 0..Digits
    BY <1>1, <1>3, Pow10Unfolds
  <2> QED BY <2>1
<1>4. 0..Digits \subseteq S
  <2> HIDE DEF S
  <2> QED BY <1>1, <1>2, <1>3, UpTo
<1> QED BY <1>4, Pow10Unfolds

\* Powers of ten multiply by adding up.
LEMMA Pow10Adds ==
  ASSUME NEW i \in Nat, NEW j \in Nat, i + j <= Digits
  PROVE  Pow10[i + j] = Pow10[i] * Pow10[j]
<1> DEFINE S == {k \in 0..j : Pow10[i + k] = Pow10[i] * Pow10[k]}
<1>1. Digits \in Nat /\ i \in 0..Digits /\ j \in 0..Digits
  BY AmountsAssumption
<1>2. \A k \in 0..Digits : Pow10[k] \in Nat
  BY Pow10Unfolds
<1>3. 0 \in S
  BY <1>1, <1>2, Pow10Unfolds
<1>4. ASSUME NEW k \in 1..j, k - 1 \in S PROVE k \in S
  <2>1. /\ k \in 1..Digits /\ i + k \in 1..Digits
        /\ k - 1 \in 0..Digits /\ i + (k - 1) \in 0..Digits /\ (i + k) - 1 = i + (k - 1)
    BY <1>1
  <2>2. /\ Pow10[k] = 10 * Pow10[k - 1]
        /\ Pow10[i + k] = 10 * Pow10[i + (k - 1)]
    BY <2>1, Pow10Unfolds
  <2>3. Pow10[i + (k - 1)] = Pow10[i] * Pow10[k - 1]
    BY <1>4
  <2>4. \A x, y \in Nat : 10 * (x * y) = x * (10 * y)
    OBVIOUS
  <2>5. Pow10[i + k] = Pow10[i] * Pow10[k]
    BY <1>1, <1>2, <2>1, <2>2, <2>3, <2>4
  <2> QED BY <2>5
<1>5. 0..j \subseteq S
  <2> HIDE DEF S
  <2> QED BY <1>3, <1>4, UpTo
<1>6. j \in S
  <2> HIDE DEF S
  <2> QED BY <1>5
<1> QED BY <1>6

\* A larger exponent gives no smaller power.
LEMMA Pow10Grows ==
  ASSUME NEW i \in 0..Digits, NEW j \in 0..Digits, i <= j
  PROVE  Pow10[i] <= Pow10[j]
<1>1. Digits \in Nat /\ i \in Nat /\ j - i \in Nat /\ j - i \in 0..Digits /\ i + (j - i) = j
  BY AmountsAssumption
<1>2. Pow10[j] = Pow10[i] * Pow10[j - i]
  <2>1. i + (j - i) <= Digits
    BY <1>1
  <2>2. Pow10[i + (j - i)] = Pow10[i] * Pow10[j - i]
    BY <1>1, <2>1, Pow10Adds
  <2> QED BY <1>1, <2>2
<1>3. \A x, y \in Nat \ {0} : x <= x * y
  OBVIOUS
<1> QED BY <1>1, <1>2, <1>3, Pow10IsPositive

-----------------------------------------------------------------------------
\* A magnitude brought to the nearest multiple of a divisor.
NearestMultiple(m, divisor) == ((m + divisor \div 2) \div divisor) * divisor

\* The magnitude of an amount rounded to a multiple of an even divisor.
LEMMA RoundedMagnitude ==
  ASSUME NEW m \in Nat, NEW divisor \in Nat \ {0}, NEW half \in Nat, divisor = 2 * half
  PROVE  /\ NearestMultiple(m, divisor) \in Nat
         /\ divisor \div 2 = half
         /\ NearestMultiple(m, divisor) <= m + half
         /\ m < NearestMultiple(m, divisor) + half
         /\ NearestMultiple(m, divisor) % divisor = 0
         /\ (-NearestMultiple(m, divisor)) % divisor = 0
         /\ \A top \in Nat : top < NearestMultiple(m, divisor)
                             => (top \div divisor) * divisor + half <= m
<1> DEFINE r == NearestMultiple(m, divisor)
<1>1. divisor \div 2 = half
  OBVIOUS
<1> DEFINE q == (m + half) \div divisor
<1>2. m + half \in Nat
  OBVIOUS
<1>3. /\ q \in Nat /\ q * divisor \in Nat
      /\ q * divisor <= m + half
      /\ m + half < q * divisor + divisor
  BY <1>2, WholeAndRest
<1>4. r = q * divisor
  BY <1>1 DEF NearestMultiple
<1> HIDE DEF q, r
<1>5. r % divisor = 0 /\ (-r) % divisor = 0
  <2>1. q \in Int
    BY <1>3
  <2> QED BY <1>4, <2>1, MultiplesHaveNoRest
<1>6. ASSUME NEW top \in Nat, top < r PROVE (top \div divisor) * divisor + half <= m
  <2> DEFINE k == top \div divisor
  <2>1. k \in Nat /\ k * divisor \in Nat /\ k * divisor <= top
    BY WholeAndRest
  <2> HIDE DEF k
  <2>2. k * divisor < q * divisor
    BY <1>3, <1>4, <1>6, <2>1
  <2>3. k \in Int /\ q \in Int
    BY <1>3, <2>1
  <2>4. k * divisor + divisor <= q * divisor
    BY <2>2, <2>3, MultiplesAreApart
  <2>5. k * divisor + half <= m
    BY <1>3, <2>1, <2>4
  <2> QED BY <2>5 DEF k
<1>7. r \in Nat /\ r <= m + half /\ m + half < r + divisor
  BY <1>3, <1>4
<1>8. m < r + half
  <2> HIDE DEF q
  <2>1. ASSUME NEW a \in Nat, NEW b \in Nat, NEW h \in Nat, NEW d \in Nat,
               d = 2 * h, a + h < b + d
        PROVE  a < b + h
    BY <2>1
  <2>2. half \in Nat /\ divisor \in Nat /\ divisor = 2 * half
    OBVIOUS
  <2> QED BY <1>7, <2>1, <2>2
<1> QED BY <1>1, <1>5, <1>6, <1>7, <1>8 DEF r

\* Every divisor there is to round to, but 1, is even.
LEMMA DivisorsAreEven ==
  ASSUME NEW precision \in Nat, precision < Places
  PROVE  /\ Pow10[Places - precision] \in Nat \ {0}
         /\ \E half \in Nat : Pow10[Places - precision] = 2 * half
<1>1. /\ Places \in Nat /\ Digits \in Nat /\ Places <= Digits
  BY AmountsAssumption
<1>2. Places - precision \in 1..Digits /\ Places - precision \in 0..Digits
      /\ Places - precision - 1 \in 0..Digits
  BY <1>1
<1>3. Pow10[Places - precision] = 10 * Pow10[Places - precision - 1]
  BY <1>2, Pow10Unfolds
<1>4. Pow10[Places - precision - 1] \in Nat
  BY <1>2, Pow10Unfolds
<1>5. Pow10[Places - precision] = 2 * (5 * Pow10[Places - precision - 1])
      /\ 5 * Pow10[Places - precision - 1] \in Nat
  BY <1>3, <1>4
<1>6. Pow10[Places - precision] \in Nat \ {0}
  BY <1>2, Pow10IsPositive
<1>7. \E half \in Nat : Pow10[Places - precision] = 2 * half
  BY <1>5
<1> QED BY <1>6, <1>7

\* What rounding comes to.
LEMMA RoundedIsNearest ==
  ASSUME NEW value \in Units, NEW precision \in Nat, precision <= Places
  PROVE  LET divisor == Pow10[Places - precision]
             rounded == RoundToPrecision(value, precision)
             off == Magnitude(rounded.value - value)
         IN  IF rounded.ok
             THEN /\ rounded.value % divisor = 0
                  /\ 2 * off <= divisor
                  /\ 2 * off = divisor => Magnitude(rounded.value) > Magnitude(value)
             ELSE (MaxUnit \div divisor) * divisor + divisor \div 2 <= Magnitude(value)
<1> DEFINE divisor == Pow10[Places - precision]
           rounded == RoundToPrecision(value, precision)
           m == Magnitude(value)
<1>1. value \in Int /\ Places \in Nat /\ MaxUnit \in Nat
  BY AmountsAssumption DEF Units, MinUnit
<1>2. m \in Nat /\ (value < 0 => m = -value) /\ (~(value < 0) => m = value)
  BY <1>1 DEF Magnitude
<1>3. CASE precision = Places
  <2>1. rounded = Result(value)
    BY <1>1, <1>3 DEF RoundToPrecision
  <2>2. rounded.ok /\ rounded.value = value
    BY <2>1 DEF Result
  <2>3. divisor = 1
    <3>1. Places - precision = 0
      BY <1>1, <1>3
    <3> QED BY <3>1, Pow10Unfolds
  <2>4. Magnitude(rounded.value - value) = 0
    BY <1>1, <2>2 DEF Magnitude
  <2>5. \A n \in Int : n % 1 = 0
    OBVIOUS
  <2> QED BY <1>1, <2>2, <2>3, <2>4, <2>5
<1>4. CASE precision < Places
  <2>1. PICK half \in Nat : divisor = 2 * half
    BY <1>4, DivisorsAreEven
  <2>2. divisor \in Nat \ {0}
    BY <1>4, DivisorsAreEven
  <2> DEFINE r == NearestMultiple(m, divisor)
  <2>3. /\ r \in Nat
        /\ divisor \div 2 = half
        /\ r <= m + half
        /\ m < r + half
        /\ r % divisor = 0 /\ (-r) % divisor = 0
        /\ \A top \in Nat : top < r => (top \div divisor) * divisor + half <= m
    <3>1. m \in Nat
      BY <1>2
    <3> HIDE DEF divisor, m
    <3> QED BY <2>1, <2>2, <3>1, RoundedMagnitude
  <2>4. Rounded(value, divisor) = IF value < 0 THEN -r ELSE r
    BY DEF Rounded, NearestMultiple
  <2> DEFINE s == Rounded(value, divisor)
  <2>5. Magnitude(s) = r
    <3> HIDE DEF r
    <3> QED BY <2>3, <2>4 DEF Magnitude
  <2>6. rounded = IF Magnitude(s) > MaxUnit THEN Refused ELSE Result(s)
    BY <1>1, <1>4 DEF RoundToPrecision
  <2> HIDE DEF r, s, divisor, rounded, m
  <2>7. CASE r > MaxUnit
    <3>1. ~rounded.ok
      BY <2>5, <2>6, <2>7 DEF Refused
    <3>2. (MaxUnit \div divisor) * divisor + half <= m
      BY <1>1, <2>3, <2>7
    <3> QED BY <2>3, <3>1, <3>2 DEF m, divisor, rounded
  <2>8. CASE ~(r > MaxUnit)
    <3>1. rounded.ok /\ rounded.value = s
      BY <2>5, <2>6, <2>8 DEF Result
    <3>2. s = IF value < 0 THEN -r ELSE r
      BY <2>4 DEF s
    <3>3. s % divisor = 0
      BY <2>3, <3>2
    <3>4. Magnitude(s - value) = IF r >= m THEN r - m ELSE m - r
      BY <1>1, <1>2, <2>3, <3>2 DEF Magnitude
    <3>5. 2 * Magnitude(s - value) <= divisor
      BY <1>2, <2>1, <2>3, <3>4
    <3>6. 2 * Magnitude(s - value) = divisor => r > m
      BY <1>2, <2>1, <2>2, <2>3, <3>4
    <3>7. IF rounded.ok
          THEN /\ rounded.value % divisor = 0
               /\ 2 * Magnitude(rounded.value - value) <= divisor
               /\ 2 * Magnitude(rounded.value - value) = divisor =>
                    Magnitude(rounded.value) > m
          ELSE (MaxUnit \div divisor) * divisor + divisor \div 2 <= m
      BY <2>5, <3>1, <3>3, <3>5, <3>6
    <3> QED BY <3>7, Zenon DEF m, divisor, rounded
  <2> QED BY <2>7, <2>8
<1> QED BY <1>1, <1>3, <1>4

-----------------------------------------------------------------------------
\* A number has as many digits as there are powers of ten up to it, and one.
LEMMA DigitsCounted ==
  ASSUME NEW n \in Nat, n < Pow10[Digits]
  PROVE  \E j \in 0 .. Digits - 1 :
           /\ DigitsOf(n) = 1 + j
           /\ \A k \in 1..Digits : n >= Pow10[k] <=> k <= j
<1> DEFINE above == {k \in 1..Digits : n < Pow10[k]}
<1>1. Digits \in Nat /\ Digits \in 1..Digits
  BY AmountsAssumption
<1>2. \A k \in 1..Digits : k \in 0..Digits /\ k \in Nat /\ Pow10[k] \in Nat
  BY <1>1, Pow10Unfolds
<1>3. PICK t \in above : \A k \in above : t <= k
  <2>1. above \in SUBSET Nat /\ above # {}
    BY <1>1
  <2> HIDE DEF above
  <2> QED BY <2>1, LeastNumber
<1>4. t \in 1..Digits /\ t \in Nat /\ n < Pow10[t] /\ t - 1 \in 0 .. Digits - 1
  BY <1>1, <1>3
<1>5. ASSUME NEW k \in 1..Digits PROVE n >= Pow10[k] <=> k <= t - 1
  <2>1. CASE k <= t - 1
    <3>1. k \notin above
      <4> HIDE DEF above
      <4> QED BY <1>2, <1>3, <1>4, <2>1
    <3> QED BY <1>2, <2>1, <3>1
  <2>2. CASE ~(k <= t - 1)
    <3>1. t <= k /\ t \in 0..Digits /\ k \in 0..Digits
      BY <1>2, <1>4, <2>2
    <3>2. Pow10[t] <= Pow10[k]
      BY <3>1, Pow10Grows
    <3>3. Pow10[t] \in Nat /\ Pow10[k] \in Nat
      BY <1>2, <1>4
    <3> QED BY <1>4, <2>2, <3>2, <3>3
  <2> QED BY <2>1, <2>2
<1>6. {k \in 1..Digits : n >= Pow10[k]} = 1 .. t - 1
  <2> HIDE DEF above
  <2> QED BY <1>1, <1>4, <1>5
<1>7. Cardinality(1 .. t - 1) = t - 1
  <2>1. 1 \in Int /\ t - 1 \in Int
    BY <1>4
  <2>2. Cardinality(1 .. t - 1) = IF 1 > t - 1 THEN 0 ELSE (t - 1) - 1 + 1
    BY <2>1, FS_Interval
  <2> QED BY <1>4, <2>2
<1>8. DigitsOf(n) = 1 + (t - 1)
  BY <1>6, <1>7 DEF DigitsOf
<1> QED BY <1>4, <1>5, <1>8

\* The places after the point are digits of the number: with a digit before
\* the point there are no more than it has.
LEMMA DigitsBeforeThePoint ==
  ASSUME NEW m \in Nat, m < Pow10[Digits]
  PROVE  /\ DigitsOf(m) \in Nat \ {0}
         /\ DigitsOf(m \div One) \in Nat \ {0}
         /\ DigitsOf(m \div One) + Places <=
              IF DigitsOf(m) <= Places THEN Places + 1 ELSE DigitsOf(m)
<1> DEFINE whole == m \div One
<1>1. /\ Digits \in Nat /\ Places \in Nat /\ Places <= Digits
      /\ Places \in 0..Digits /\ Digits \in 0..Digits
  BY AmountsAssumption
<1>2. One \in Nat \ {0} /\ Pow10[Digits] \in Nat \ {0}
  BY <1>1, Pow10IsPositive DEF One
<1>3. whole \in Nat /\ whole * One \in Nat /\ whole * One <= m /\ whole <= m
  <2>1. whole \in Nat /\ whole * One \in Nat /\ whole * One <= m
    BY <1>2, WholeAndRest
  <2>2. \A x \in Nat, y \in Nat \ {0} : x <= x * y
    OBVIOUS
  <2> HIDE DEF whole
  <2> QED BY <1>2, <2>1, <2>2
<1> HIDE DEF whole
<1>4. whole < Pow10[Digits]
  BY <1>2, <1>3
<1>5. PICK j \in 0 .. Digits - 1 :
        /\ DigitsOf(m) = 1 + j
        /\ \A k \in 1..Digits : m >= Pow10[k] <=> k <= j
  BY DigitsCounted
<1>6. PICK i \in 0 .. Digits - 1 :
        /\ DigitsOf(whole) = 1 + i
        /\ \A k \in 1..Digits : whole >= Pow10[k] <=> k <= i
  BY <1>3, <1>4, DigitsCounted
<1>7. i \in Nat /\ j \in Nat
  BY <1>1
<1>8. ASSUME i # 0 PROVE i + Places <= j
  <2>1. i \in 1..Digits /\ i \in 0..Digits
    BY <1>1, <1>8
  <2>2. whole >= Pow10[i]
    BY <1>6, <1>7, <2>1
  <2>3. Pow10[i] \in Nat
    BY <2>1, Pow10Unfolds
  <2>4. Pow10[i] * One <= m
    <3>1. \A x, y, z \in Nat : x >= y => y * z <= x * z
      <4> TAKE x, y, z \in Nat
      <4> HAVE x >= y
      <4>1. PICK e \in Nat : x = y + e
        <5>1. x - y \in Nat /\ x = y + (x - y)
          OBVIOUS
        <5> QED BY <5>1
      <4>2. x * z = y * z + e * z /\ e * z \in Nat /\ y * z \in Nat
        BY <4>1
      <4> QED BY <4>2
    <3>2. Pow10[i] * One <= whole * One /\ Pow10[i] * One \in Nat
      BY <1>2, <1>3, <2>2, <2>3, <3>1
    <3> QED BY <1>3, <3>2
  <2>5. i + Places <= Digits
    <3> SUFFICES ASSUME Digits < i + Places PROVE FALSE
      BY <1>1, <1>7
    <3>1. /\ Digits - Places \in Nat /\ Digits - Places \in 0..Digits
          /\ Digits - Places <= i /\ (Digits - Places) + Places = Digits
      BY <1>1, <1>7
    <3>2. Pow10[Digits - Places] <= Pow10[i]
      BY <2>1, <3>1, Pow10Grows
    <3>3. Pow10[Digits] = Pow10[Digits - Places] * One
      <4>1. (Digits - Places) + Places <= Digits
        BY <1>1, <3>1
      <4>2. Pow10[(Digits - Places) + Places] = Pow10[Digits - Places] * Pow10[Places]
        BY <1>1, <3>1, <4>1, Pow10Adds
      <4> QED BY <3>1, <4>2 DEF One
    <3>4. Pow10[Digits - Places] \in Nat
      BY <3>1, Pow10Unfolds
    <3>5. ASSUME NEW x \in Nat, NEW y \in Nat, NEW z \in Nat, x <= y PROVE x * z <= y * z
      <4>1. PICK e \in Nat : y = x + e
        <5>1. y - x \in Nat /\ y = x + (y - x)
          BY <3>5
        <5> QED BY <5>1
      <4>2. y * z = x * z + e * z /\ e * z \in Nat /\ x * z \in Nat
        BY <4>1
      <4> QED BY <4>2
    <3>6. Pow10[Digits] <= Pow10[i] * One /\ Pow10[i] * One \in Nat
      BY <1>2, <2>3, <3>2, <3>3, <3>4, <3>5
    <3> QED BY <1>2, <2>4, <3>6
  <2>6. Pow10[i + Places] = Pow10[i] * One
    BY <1>1, <1>7, <2>5, Pow10Adds DEF One
  <2>7. i + Places \in 1..Digits
    BY <1>1, <1>7, <1>8, <2>5
  <2>8. m >= Pow10[i + Places]
    BY <2>4, <2>6, <1>2, <2>3
  <2> QED BY <1>5, <2>7, <2>8
<1>9. DigitsOf(whole) + Places <= IF DigitsOf(m) <= Places THEN Places + 1 ELSE DigitsOf(m)
  <2>1. CASE i = 0
    BY <1>1, <1>5, <1>6, <1>7, <2>1
  <2>2. CASE i # 0
    BY <1>1, <1>5, <1>6, <1>7, <1>8, <2>2
  <2> QED BY <2>1, <2>2
<1>10. DigitsOf(m) \in Nat \ {0} /\ DigitsOf(whole) \in Nat \ {0}
  BY <1>5, <1>6, <1>7
<1> QED BY <1>9, <1>10 DEF whole

\* What is asked for is what is written to, and the text ends within it.
LEMMA RoomIsReached ==
  ASSUME NEW m \in Nat, m < Pow10[Digits], NEW places \in 0..Places
  PROVE  /\ Room(m, places) \in Nat \ {0}
         /\ Reach(m, places) = Room(m, places)
         /\ Length(m, places) \in Nat
         /\ Length(m, places) < Room(m, places)
<1>1. Places \in Nat /\ places \in Nat /\ places <= Places
  BY AmountsAssumption
<1>2. /\ DigitsOf(m) \in Nat \ {0}
      /\ DigitsOf(m \div One) \in Nat \ {0}
      /\ DigitsOf(m \div One) + Places <=
           IF DigitsOf(m) <= Places THEN Places + 1 ELSE DigitsOf(m)
  BY DigitsBeforeThePoint
<1> QED BY <1>1, <1>2 DEF Room, Reach, Length

\* What is printed has no more digits than an amount may have, and zeros
\* below its precision.
LEMMA RoundedHasItsDigits ==
  ASSUME NEW value \in Units, NEW places \in 0..Places, RoundToPrecision(value, places).ok
  PROVE  /\ RoundToPrecision(value, places).value \in Int
         /\ Magnitude(RoundToPrecision(value, places).value) \in Nat
         /\ Magnitude(RoundToPrecision(value, places).value) < Pow10[Digits]
         /\ Magnitude(RoundToPrecision(value, places).value) % Pow10[Places - places] = 0
<1> DEFINE divisor == Pow10[Places - places]
<1>1. /\ value \in Int /\ Places \in Nat /\ MaxUnit \in Nat /\ Digits \in Nat
      /\ places \in Nat /\ places <= Places /\ Digits \in 0..Digits
      /\ -(MaxUnit + 1) <= value /\ value <= MaxUnit
  BY AmountsAssumption DEF Units, MinUnit
<1>2. MaxUnit + 1 < Pow10[Digits] /\ Pow10[Digits] \in Nat
  BY <1>1, DigitsAssumption, Pow10Unfolds
<1>3. CASE places = Places
  <2>1. RoundToPrecision(value, places).value = value
    BY <1>1, <1>3 DEF RoundToPrecision, Result
  <2>2. Magnitude(value) \in Nat /\ Magnitude(value) <= MaxUnit + 1
    BY <1>1 DEF Magnitude
  <2>3. Pow10[Places - places] = 1
    <3>1. Places - places = 0
      BY <1>1, <1>3
    <3> QED BY <3>1, Pow10Unfolds
  <2>4. \A n \in Nat : n % 1 = 0
    OBVIOUS
  <2> QED BY <1>1, <1>2, <2>1, <2>2, <2>3, <2>4
<1>4. CASE places < Places
  <2> DEFINE s == Rounded(value, divisor)
  <2>1. RoundToPrecision(value, places) = IF Magnitude(s) > MaxUnit THEN Refused ELSE Result(s)
    BY <1>1, <1>4 DEF RoundToPrecision
  <2> HIDE DEF s
  <2>2. RoundToPrecision(value, places).value = s /\ ~(Magnitude(s) > MaxUnit)
    BY <2>1 DEF Refused, Result
  <2>3. s \in Int /\ Magnitude(s) % divisor = 0
    <3>1. PICK half \in Nat : divisor = 2 * half
      BY <1>1, <1>4, DivisorsAreEven
    <3>2. divisor \in Nat \ {0}
      BY <1>1, <1>4, DivisorsAreEven
    <3>3. Magnitude(value) \in Nat
      BY <1>1 DEF Magnitude
    <3> HIDE DEF divisor
    <3>4. NearestMultiple(Magnitude(value), divisor) \in Nat
          /\ NearestMultiple(Magnitude(value), divisor) % divisor = 0
      BY <3>1, <3>2, <3>3, RoundedMagnitude
    <3>5. s = IF value < 0 THEN -NearestMultiple(Magnitude(value), divisor)
              ELSE NearestMultiple(Magnitude(value), divisor)
      BY DEF s, Rounded, NearestMultiple
    <3>6. s \in Int /\ Magnitude(s) = NearestMultiple(Magnitude(value), divisor)
      BY <3>4, <3>5 DEF Magnitude
    <3> QED BY <3>4, <3>6
  <2>4. Magnitude(s) \in Nat
    BY <2>3 DEF Magnitude
  <2> QED BY <1>1, <1>2, <2>2, <2>3, <2>4
<1> QED BY <1>1, <1>3, <1>4

\* What grdd_unit_to_string comes to.
LEMMA PrintedStaysInside ==
  ASSUME NEW value \in Units, NEW precision \in Nat, NEW size \in Nat
  PROVE  LET printed == ToString(size, value, precision)
         IN  /\ printed.reach <= size
             /\ printed.returns < size =>
                  printed.returns < printed.reach \/ printed.returns < 0
             /\ printed.returns >= size =>
                  ToString(printed.returns + 1, value, precision).returns
                    \in 0 .. printed.returns
<1> DEFINE places == IF precision > Places THEN Places ELSE precision
           rounded == RoundToPrecision(value, places)
           sign == IF rounded.value < 0 THEN 1 ELSE 0
           m == Magnitude(rounded.value)
           room == Room(m, places)
           reach == Reach(m, places)
           length == Length(m, places)
           To(n) == ToString(n, value, precision)
<1>1. places \in 0..Places
  BY AmountsAssumption
<1>2. \A n : To(n) = IF n = 0 THEN [returns |-> -1, reach |-> 0]
                     ELSE IF ~rounded.ok THEN [returns |-> -2, reach |-> 0]
                     ELSE IF n < sign + room THEN [returns |-> sign + room - 1, reach |-> sign]
                     ELSE [returns |-> sign + length, reach |-> sign + reach]
  BY DEF ToString
<1>3. rounded.ok => /\ room \in Nat \ {0} /\ reach = room
                    /\ length \in Nat /\ length < room
  <2> SUFFICES ASSUME rounded.ok PROVE room \in Nat \ {0} /\ reach = room
                                       /\ length \in Nat /\ length < room
    OBVIOUS
  <2>1. m \in Nat /\ m < Pow10[Digits]
    BY <1>1, RoundedHasItsDigits
  <2> HIDE DEF m, places
  <2> QED BY <1>1, <2>1, RoomIsReached
<1>4. sign \in {0, 1}
  OBVIOUS
<1> HIDE DEF places, rounded, sign, m, room, reach, length, To
<1>5. CASE size = 0
  <2>1. To(size).returns = -1 /\ To(size).reach = 0
    BY <1>2, <1>5
  <2> QED BY <1>5, <2>1 DEF To
<1>6. CASE size # 0 /\ ~rounded.ok
  <2>1. To(size).returns = -2 /\ To(size).reach = 0
    BY <1>2, <1>6
  <2> QED BY <1>6, <2>1 DEF To
<1>7. CASE size # 0 /\ rounded.ok /\ size < sign + room
  <2>1. To(size).returns = sign + room - 1 /\ To(size).reach = sign
    BY <1>2, <1>7
  <2>2. room \in Nat \ {0} /\ sign \in Nat /\ sign <= 1
    BY <1>3, <1>4, <1>7
  <2>3. sign + room - 1 \in Nat /\ (sign + room - 1) + 1 = sign + room /\ sign + room # 0
        /\ ~(sign + room - 1 < size) /\ sign <= size
    BY <1>7, <2>2
  <2>4. To(sign + room).returns = sign + length
    BY <1>2, <1>7, <2>2, <2>3
  <2>5. sign + length \in 0 .. sign + room - 1
    BY <1>3, <1>7, <2>2
  <2>6. To(To(size).returns + 1).returns \in 0 .. To(size).returns
    BY <2>1, <2>3, <2>4, <2>5
  <2> QED BY <1>7, <2>1, <2>3, <2>6 DEF To
<1>8. CASE size # 0 /\ rounded.ok /\ ~(size < sign + room)
  <2>1. To(size).returns = sign + length /\ To(size).reach = sign + reach
    BY <1>2, <1>8
  <2>2. sign + reach <= size /\ sign + length < sign + reach /\ ~(sign + length >= size)
    BY <1>3, <1>4, <1>8
  <2> QED BY <2>1, <2>2 DEF To
<1> QED BY <1>5, <1>6, <1>7, <1>8

-----------------------------------------------------------------------------
\* Whatever reads digits times ten and the next one is a function to naturals.
LEMMA TenfoldUnfolds ==
  ASSUME NEW n \in Nat, NEW b \in Nat, NEW d \in [0..n -> Nat], NEW f,
         Tenfold(f, n, b, d)
  PROVE  /\ f \in [0..n -> Nat]
         /\ f[0] = b
         /\ \A i \in 1..n : f[i] = f[i - 1] * 10 + d[i]
<1>1. \A i \in 0..n : f[i] = IF i = 0 THEN b ELSE f[i - 1] * 10 + d[i]
  BY Zenon DEF Tenfold
<1>2. f[0] = b
  BY <1>1
<1>3. \A i \in 1..n : f[i] = f[i - 1] * 10 + d[i]
  <2>1. \A i \in 1..n : i \in 0..n /\ i # 0
    OBVIOUS
  <2> QED BY <1>1, <2>1, Zenon
<1> DEFINE S == {i \in 0..n : f[i] \in Nat}
<1>4. 0 \in S
  BY <1>2
<1>5. ASSUME NEW i \in 1..n, i - 1 \in S PROVE i \in S
  <2>1. f[i - 1] \in Nat /\ d[i] \in Nat /\ i \in 0..n
    BY <1>5
  <2>2. f[i] \in Nat
    BY <1>3, <2>1
  <2> QED BY <2>1, <2>2
<1>6. 0..n \subseteq S
  <2> HIDE DEF S
  <2> QED BY <1>4, <1>5, UpTo
<1>7. \A i \in 0..n : f[i] \in Nat
  BY <1>6
<1>8. f = [i \in 0..n |-> f[i]]
  BY <1>1 DEF Tenfold
<1> QED BY <1>2, <1>3, <1>7, <1>8

\* What the first digits are read as.
LEMMA FractionUnfolds ==
  ASSUME NEW text, \A i \in 1..Places : Digit(text, i) \in 0..9
  PROVE  \E f \in [0..Places -> Nat] :
           /\ f[0] = 0
           /\ \A i \in 1..Places : f[i] = f[i - 1] * 10 + Digit(text, i)
           /\ FractionRead(text) = f[Places]
<1> DEFINE d == [i \in 0..Places |-> IF i = 0 THEN 0 ELSE Digit(text, i)]
           P(g) == g = [i \in 0..Places |-> IF i = 0 THEN 0 ELSE g[i - 1] * 10 + Digit(text, i)]
<1>1. Places \in Nat
  BY AmountsAssumption
<1>2. d \in [0..Places -> Nat] /\ \A i \in 1..Places : d[i] = Digit(text, i)
  BY <1>1
<1>3. ASSUME NEW g PROVE P(g) <=> Tenfold(g, Places, 0, d)
  <2>1. \A i \in 0..Places : (IF i = 0 THEN 0 ELSE g[i - 1] * 10 + Digit(text, i))
                               = (IF i = 0 THEN 0 ELSE g[i - 1] * 10 + d[i])
    OBVIOUS
  <2> HIDE DEF d
  <2> QED BY <2>1 DEF Tenfold
<1> HIDE DEF d
<1>4. \E g : Tenfold(g, Places, 0, d)
  <2>1. \E g \in [0..Places -> Nat] : Tenfold(g, Places, 0, d)
    BY <1>1, <1>2, TenfoldExists
  <2> QED BY <2>1
<1> DEFINE f == CHOOSE g : P(g)
<1>5. FractionRead(text) = f[Places]
  BY DEF FractionRead
<1>6. Tenfold(f, Places, 0, d)
  <2> HIDE DEF P
  <2> QED BY <1>3, <1>4
<1> HIDE DEF f
<1>7. /\ f \in [0..Places -> Nat]
      /\ f[0] = 0
      /\ \A i \in 1..Places : f[i] = f[i - 1] * 10 + d[i]
  <2> HIDE DEF P
  <2> QED BY <1>1, <1>2, <1>6, TenfoldUnfolds
<1> QED BY <1>2, <1>5, <1>7

\* One digit more leaves a number below ten times what it was below.
LEMMA OneMoreDigit ==
  ASSUME NEW a \in Nat, NEW b \in Nat, a < b, NEW e \in 0..9
  PROVE  a * 10 + e < 10 * b
<1>1. a + 1 <= b
  OBVIOUS
<1> QED BY <1>1

\* So many digits are less than the power of ten.
LEMMA FractionIsBelowOne ==
  ASSUME NEW d \in [1..Places -> 0..9], NEW f \in [0..Places -> Nat], f[0] = 0,
         \A i \in 1..Places : f[i] = f[i - 1] * 10 + d[i]
  PROVE  \A i \in 0..Places : f[i] < Pow10[i]
<1> DEFINE S == {i \in 0..Places : f[i] < Pow10[i]}
<1>1. Places \in Nat /\ Digits \in Nat /\ Places <= Digits
  BY AmountsAssumption
<1>2. 0 \in S
  BY <1>1, Pow10Unfolds
<1>3. ASSUME NEW i \in 1..Places, i - 1 \in S PROVE i \in S
  <2>1. i \in 1..Digits /\ i - 1 \in 0..Digits /\ i \in 0..Places /\ i - 1 \in 0..Places
    BY <1>1
  <2>2. Pow10[i] = 10 * Pow10[i - 1] /\ Pow10[i - 1] \in Nat
    BY <2>1, Pow10Unfolds
  <2>3. f[i - 1] < Pow10[i - 1] /\ f[i - 1] \in Nat /\ d[i] \in 0..9 /\ f[i] = f[i - 1] * 10 + d[i]
    BY <1>3, <2>1
  <2> HIDE DEF S
  <2>4. f[i] < Pow10[i]
    BY <2>2, <2>3, OneMoreDigit
  <2> QED BY <2>1, <2>4 DEF S
<1>4. 0..Places \subseteq S
  <2> HIDE DEF S
  <2> QED BY <1>1, <1>2, <1>3, UpTo
<1> QED BY <1>4

-----------------------------------------------------------------------------
\* Dividing by ten times as much is dividing and dividing by ten.
LEMMA DividedTwice ==
  ASSUME NEW a \in Nat, NEW n \in Nat \ {0}
  PROVE  (a \div n) \div 10 = a \div (10 * n)
<1> DEFINE q == a \div n
           s == a - q * n
           p == q \div 10
           t == q - p * 10
<1>1. q \in Nat /\ q * n \in Nat /\ s \in 0 .. n - 1 /\ a = q * n + s
  <2>1. /\ a \div n \in Nat /\ (a \div n) * n \in Nat
        /\ (a \div n) * n <= a /\ a < (a \div n) * n + n
    BY WholeAndRest
  <2> HIDE DEF q
  <2>2. q \in Nat /\ q * n \in Nat /\ q * n <= a /\ a < q * n + n
    BY <2>1 DEF q
  <2> QED BY <2>2
<1> HIDE DEF q, s
<1>2. p \in Nat /\ t \in 0..9 /\ q = p * 10 + t
  BY <1>1
<1> HIDE DEF p, t
<1>3. q * n = p * (10 * n) + t * n
  BY <1>2
<1>4. t * n \in Nat /\ t * n <= 9 * n
  <2>1. t \in Nat /\ 9 - t \in Nat /\ t + (9 - t) = 9
    BY <1>2
  <2>2. 9 * n = t * n + (9 - t) * n /\ t * n \in Nat /\ (9 - t) * n \in Nat
    BY <2>1
  <2> QED BY <2>2
<1>5. t * n + s \in 0 .. 10 * n - 1
  BY <1>1, <1>4
<1>6. 10 * n \in Nat \ {0} /\ p \in Int /\ p * (10 * n) \in Nat
  BY <1>2
<1>7. a = p * (10 * n) + (t * n + s)
  BY <1>1, <1>3, <1>4, <1>6
<1>8. a \div (10 * n) = p
  BY <1>5, <1>6, <1>7, WholeIsUnique
<1> QED BY <1>8 DEF p, q

\* The digits of a number down to a place, and the next one of them.
LEMMA NextDigit ==
  ASSUME NEW m \in Nat, NEW i \in 1..Places
  PROVE  /\ m \div Pow10[Places - i] \in Nat
         /\ m \div Pow10[Places - (i - 1)] \in Nat
         /\ \E digit \in 0..9 :
              /\ (m \div Pow10[Places - i]) % 10 = digit
              /\ m \div Pow10[Places - i] = (m \div Pow10[Places - (i - 1)]) * 10 + digit
<1>1. /\ Places \in Nat /\ Digits \in Nat /\ Places <= Digits
      /\ Places - (i - 1) \in 1..Digits /\ Places - i \in 0..Digits
      /\ Places - (i - 1) - 1 = Places - i /\ Places - (i - 1) \in 0..Digits
  BY AmountsAssumption
<1> DEFINE n == Pow10[Places - i]
           above == Pow10[Places - (i - 1)]
<1>2. n \in Nat \ {0} /\ above \in Nat \ {0}
  BY <1>1, Pow10IsPositive
<1>3. above = 10 * n
  <2>1. Pow10[Places - (i - 1)] = 10 * Pow10[Places - (i - 1) - 1]
    BY <1>1, Pow10Unfolds
  <2> QED BY <1>1, <2>1
<1> HIDE DEF n, above
<1> DEFINE g == m \div n
<1>4. g \in Nat /\ m \div above \in Nat
  BY <1>2, WholeAndRest
<1>5. g \div 10 = m \div above
  BY <1>2, <1>3, DividedTwice
<1> HIDE DEF g
<1>6. \E digit \in 0 .. 10 - 1 : g % 10 = digit /\ g = (g \div 10) * 10 + digit
  BY <1>4, RestOfDivision
<1>7. PICK digit \in 0..9 : g % 10 = digit /\ g = (g \div 10) * 10 + digit
  BY <1>6
<1>8. g = (m \div above) * 10 + digit
  BY <1>5, <1>7, Zenon
<1> QED BY <1>4, <1>7, <1>8, Zenon DEF g, n, above

\* A multiple of a power of ten has only zeros below.
LEMMA ZerosFollow ==
  ASSUME NEW m \in Nat, NEW p \in 0..Places, m % Pow10[Places - p] = 0,
         NEW i \in 1..Places, i > p
  PROVE  (m \div Pow10[Places - i]) % 10 = 0
<1>1. /\ Places \in Nat /\ Digits \in Nat /\ Places <= Digits /\ p \in Nat /\ i \in Nat
      /\ Places - i \in Nat /\ Places - i \in 0..Digits
      /\ i - p \in Nat /\ i - p \in 1..Digits /\ i - p - 1 \in 0..Digits
      /\ (i - p) + (Places - i) = Places - p /\ (i - p) + (Places - i) <= Digits
      /\ Places - p \in 0..Digits /\ i - p \in 0..Digits
  BY AmountsAssumption
<1> DEFINE whole == Pow10[Places - p]
           n == Pow10[Places - i]
           part == Pow10[i - p - 1]
           M == m \div whole
<1>2. whole \in Nat \ {0} /\ n \in Nat \ {0} /\ part \in Nat
  BY <1>1, Pow10IsPositive
<1>3. whole = (10 * part) * n
  <2>1. Pow10[(i - p) + (Places - i)] = Pow10[i - p] * Pow10[Places - i]
    BY <1>1, Pow10Adds
  <2>2. Pow10[i - p] = 10 * Pow10[i - p - 1]
    BY <1>1, Pow10Unfolds
  <2> QED BY <1>1, <2>1, <2>2
<1>4. m % whole = 0
  OBVIOUS
<1> HIDE DEF whole, n, part
<1>5. M \in Nat /\ m = M * whole
  <2>1. m \div whole \in Nat
    BY <1>2, WholeAndRest
  <2>2. PICK r \in 0 .. whole - 1 : m % whole = r /\ m = (m \div whole) * whole + r
    BY <1>2, RestOfDivision
  <2>3. r = 0
    BY <1>4, <2>2, Zenon
  <2> HIDE DEF M
  <2>4. M \in Nat /\ m = M * whole + 0
    BY <2>1, <2>2, <2>3, Zenon DEF M
  <2> QED BY <1>2, <2>4
<1> HIDE DEF M
<1> DEFINE k == M * part
<1>6. k \in Nat
  BY <1>2, <1>5
<1>7. m = (10 * k) * n + 0
  <2>1. M * ((10 * part) * n) = (10 * (M * part)) * n
    BY <1>2, <1>5
  <2>2. (10 * k) * n \in Nat
    BY <1>2, <1>6
  <2> QED BY <1>3, <1>5, <2>1, <2>2
<1> HIDE DEF k
<1>8. m \div n = 10 * k
  <2>1. 0 \in 0 .. n - 1 /\ 10 * k \in Int
    BY <1>2, <1>6
  <2>2. ((10 * k) * n + 0) \div n = 10 * k
    BY <1>2, <2>1, WholeIsUnique
  <2> QED BY <1>7, <2>2
<1>9. (10 * k) % 10 = 0
  BY <1>6
<1> QED BY <1>8, <1>9 DEF n

\* A text with the digits of a magnitude is read as that magnitude's fraction.
LEMMA FractionReadBack ==
  ASSUME NEW m \in Nat, NEW text,
         \A i \in 1..Places : Digit(text, i) = (m \div Pow10[Places - i]) % 10
  PROVE  /\ FractionRead(text) \in Nat
         /\ FractionRead(text) < One
         /\ m = (m \div One) * One + FractionRead(text)
<1> DEFINE g == [i \in 0..Places |-> m \div Pow10[Places - i]]
<1>1. Places \in Nat /\ Digits \in Nat /\ Places <= Digits /\ Places \in 0..Digits
      /\ Places \in 0..Places
  BY AmountsAssumption
<1>2. ASSUME NEW i \in 1..Places
      PROVE  /\ g[i] \in Nat /\ g[i - 1] \in Nat /\ Digit(text, i) \in 0..9
             /\ g[i] = g[i - 1] * 10 + Digit(text, i)
  <2>1. g[i] = m \div Pow10[Places - i] /\ g[i - 1] = m \div Pow10[Places - (i - 1)]
    BY <1>1
  <2> HIDE DEF g
  <2>2. Digit(text, i) = (m \div Pow10[Places - i]) % 10
    OBVIOUS
  <2>3. m \div Pow10[Places - i] \in Nat /\ m \div Pow10[Places - (i - 1)] \in Nat
    BY NextDigit
  <2>4. PICK digit \in 0..9 :
          /\ (m \div Pow10[Places - i]) % 10 = digit
          /\ m \div Pow10[Places - i] = (m \div Pow10[Places - (i - 1)]) * 10 + digit
    BY NextDigit
  <2> QED BY <2>1, <2>2, <2>3, <2>4, Zenon
<1>3. \A i \in 1..Places : Digit(text, i) \in 0..9
  BY <1>2
<1>4. PICK f \in [0..Places -> Nat] :
        /\ f[0] = 0
        /\ \A i \in 1..Places : f[i] = f[i - 1] * 10 + Digit(text, i)
        /\ FractionRead(text) = f[Places]
  BY <1>3, FractionUnfolds
<1>5. g[0] = m \div One /\ g[Places] = m
  <2>1. Places - 0 = Places /\ Places - Places = 0
    BY <1>1
  <2>2. m \div 1 = m
    OBVIOUS
  <2>3. g[0] = m \div Pow10[Places - 0] /\ g[Places] = m \div Pow10[Places - Places]
    BY <1>1
  <2> QED BY <2>1, <2>2, <2>3, Pow10Unfolds DEF One
<1>6. One \in Nat \ {0}
  BY <1>1, Pow10IsPositive DEF One
<1>7. m \div One \in Nat /\ (m \div One) * One \in Nat
  BY <1>6, WholeAndRest
<1> HIDE DEF g
<1> DEFINE S == {i \in 0..Places : g[i] \in Nat /\ g[i] = g[0] * Pow10[i] + f[i]}
<1>8. 0 \in S
  BY <1>1, <1>4, <1>5, <1>7, Pow10Unfolds
<1>9. ASSUME NEW i \in 1..Places, i - 1 \in S PROVE i \in S
  <2>1. i \in 0..Places /\ i - 1 \in 0..Places /\ i \in 1..Digits /\ i - 1 \in 0..Digits
    BY <1>1
  <2>2. Pow10[i] = 10 * Pow10[i - 1] /\ Pow10[i - 1] \in Nat
    BY <2>1, Pow10Unfolds
  <2>3. f[i - 1] \in Nat /\ f[i] = f[i - 1] * 10 + Digit(text, i)
    <3> HIDE DEF S
    <3> QED BY <1>4, <2>1
  <2>4. g[i - 1] = g[0] * Pow10[i - 1] + f[i - 1]
    BY <1>9
  <2>5. g[0] \in Nat
    BY <1>5, <1>7
  <2>6. g[i] = g[i - 1] * 10 + Digit(text, i) /\ g[i] \in Nat /\ Digit(text, i) \in Nat
    <3> HIDE DEF S
    <3>1. /\ g[i] = g[i - 1] * 10 + Digit(text, i) /\ g[i] \in Nat
          /\ Digit(text, i) \in 0..9
      BY <1>2, Zenon
    <3> QED BY <3>1
  <2>7. (g[0] * Pow10[i - 1] + f[i - 1]) * 10 = g[0] * (10 * Pow10[i - 1]) + f[i - 1] * 10
        /\ g[0] * (10 * Pow10[i - 1]) \in Nat
    <3> HIDE DEF S
    <3>1. ASSUME NEW x \in Nat, NEW y \in Nat, NEW z \in Nat
          PROVE  (x * y + z) * 10 = x * (10 * y) + z * 10 /\ x * (10 * y) \in Nat
      OBVIOUS
    <3> QED BY <2>2, <2>3, <2>5, <3>1
  <2>8. g[i] = g[0] * Pow10[i] + f[i]
    <3> HIDE DEF S
    <3>1. ASSUME NEW x \in Nat, NEW y \in Nat, NEW z \in Nat PROVE (x + y) + z = x + (y + z)
      OBVIOUS
    <3>2. f[i - 1] * 10 \in Nat
      BY <2>3
    <3>3. g[i] = (g[0] * Pow10[i] + f[i - 1] * 10) + Digit(text, i)
      BY <2>2, <2>4, <2>6, <2>7, Zenon
    <3>4. g[0] * Pow10[i] \in Nat
      BY <2>2, <2>7, Zenon
    <3> QED BY <2>3, <2>6, <3>1, <3>2, <3>3, <3>4
  <2> QED BY <2>1, <2>6, <2>8
<1>10. 0..Places \subseteq S
  <2> HIDE DEF S
  <2> QED BY <1>1, <1>8, <1>9, UpTo
<1>11. g[Places] = g[0] * Pow10[Places] + f[Places]
  BY <1>1, <1>10
<1>12. f[Places] \in Nat /\ f[Places] < One
  <2> DEFINE d == [i \in 1..Places |-> Digit(text, i)]
  <2>1. d \in [1..Places -> 0..9] /\ \A i \in 1..Places : f[i] = f[i - 1] * 10 + d[i]
    BY <1>3, <1>4
  <2> HIDE DEF d, S
  <2>2. \A i \in 0..Places : f[i] < Pow10[i]
    BY <1>4, <2>1, FractionIsBelowOne
  <2> QED BY <1>1, <1>4, <2>2 DEF One
<1> QED BY <1>4, <1>5, <1>11, <1>12 DEF One

\* What a printed amount is read as.
LEMMA PrintedReadBack ==
  ASSUME NEW value \in Units, NEW precision \in 0..Places,
         RoundToPrecision(value, precision).ok,
         Magnitude(RoundToPrecision(value, precision).value) \div One <= MaxInteger
  PROVE  FromString(Printed(RoundToPrecision(value, precision).value, precision))
           = RoundToPrecision(value, precision)
<1> DEFINE rounded == RoundToPrecision(value, precision)
           r == rounded.value
           m == Magnitude(r)
           text == Printed(r, precision)
           whole == m \div One
<1>1. /\ Places \in Nat /\ Digits \in Nat /\ Places <= Digits /\ MaxUnit \in Nat
      /\ precision \in Nat /\ precision <= Places /\ Places \in 0..Digits
  BY AmountsAssumption
<1>2. One \in Nat \ {0}
  BY <1>1, Pow10IsPositive DEF One
<1>3. r \in Int /\ m \in Nat /\ m % Pow10[Places - precision] = 0
  BY RoundedHasItsDigits
<1>4. rounded = Result(r)
  <2>1. rounded = Refused \/ \E v : rounded = Result(v)
    BY DEF RoundToPrecision
  <2> QED BY <2>1 DEF Refused, Result
<1>5. whole \in Nat /\ whole <= MaxInteger
  BY <1>2, <1>3, WholeAndRest
<1>6. MaxInteger \in Int /\ MaxInteger < MaxUnit
  <2>1. MaxUnit \div One \in Nat /\ (MaxUnit \div One) * One \in Nat
        /\ (MaxUnit \div One) * One <= MaxUnit
    BY <1>1, <1>2, WholeAndRest
  <2>2. \A x \in Nat, y \in Nat \ {0} : x <= x * y
    OBVIOUS
  <2>3. MaxUnit \div One <= MaxUnit
    BY <1>1, <1>2, <2>1, <2>2
  <2> QED BY <1>1, <2>1, <2>3 DEF MaxInteger
<1>7. /\ text.minus = (r < 0) /\ text.sign = "none" /\ text.integer = whole
      /\ text.point = (precision > 0) /\ text.junk = FALSE
      /\ text.digits = [i \in 1..precision |-> (m \div Pow10[Places - i]) % 10]
  BY DEF Printed
<1> HIDE DEF rounded, r, m, text, whole
<1>8. Len(text.digits) = precision
  <2>1. \A d : d = [i \in 1..precision |-> d[i]] => Len(d) = precision
    BY <1>1
  <2>2. text.digits = [i \in 1..precision |-> text.digits[i]]
    BY <1>7
  <2> QED BY <2>1, <2>2
<1>9. ASSUME NEW i \in 1..Places PROVE Digit(text, i) = (m \div Pow10[Places - i]) % 10
  <2>1. CASE i <= precision
    <3>1. precision > 0 /\ i \in 1..precision
      BY <1>1, <2>1
    <3>2. text.digits[i] = (m \div Pow10[Places - i]) % 10
      BY <1>7, <3>1, Zenon
    <3>3. Digit(text, i) = text.digits[i]
      BY <1>7, <1>8, <2>1, <3>1, Zenon DEF Digit
    <3> QED BY <3>2, <3>3, Zenon
  <2>2. CASE ~(i <= precision)
    <3>1. i > precision
      BY <1>1, <2>2
    <3>2. (m \div Pow10[Places - i]) % 10 = 0
      BY <1>3, <3>1, ZerosFollow
    <3>3. Digit(text, i) = 0
      BY <1>8, <2>2, Zenon DEF Digit
    <3> QED BY <3>2, <3>3, Zenon
  <2> QED BY <2>1, <2>2
<1>10. /\ FractionRead(text) \in Nat
       /\ FractionRead(text) < One
       /\ m = (m \div One) * One + FractionRead(text)
  BY <1>3, <1>9, FractionReadBack
<1>11. ~RoundsUp(text)
  <2>1. ~(Places + 1 <= precision)
    BY <1>1
  <2>2. Digit(text, Places + 1) = 0
    BY <1>8, <2>1, Zenon DEF Digit
  <2> QED BY <2>2 DEF RoundsUp
<1>12. IntegerRead(text) = whole
  <2>1. ~(whole > MaxUnit) /\ whole # NoInteger
    BY <1>1, <1>5, <1>6 DEF NoInteger
  <2> QED BY <1>7, <2>1 DEF IntegerRead
<1> DEFINE fraction == FractionRead(text)
<1> HIDE DEF fraction
<1>13. /\ fraction + 0 = fraction /\ ~(fraction >= One) /\ whole + 0 = whole
       /\ fraction \in Nat /\ m = whole * One + fraction /\ whole * One \in Nat
  BY <1>2, <1>5, <1>10 DEF fraction, whole
<1>14. Magnitude(whole) = whole /\ ~(whole > MaxInteger) /\ whole # NoInteger
  BY <1>5, <1>6 DEF Magnitude, NoInteger
<1>15. FromString(text) = Result(IF r < 0 THEN -whole * One - fraction
                                 ELSE whole * One + fraction)
  <2>1. fraction = FractionRead(text)
    BY DEF fraction
  <2> QED BY <1>7, <1>11, <1>12, <1>13, <1>14, <2>1, Zenon DEF FromString
<1>16. (IF r < 0 THEN -whole * One - fraction ELSE whole * One + fraction) = r
  <2>1. -whole * One - fraction = -m
    BY <1>13
  <2>2. IF r < 0 THEN m = -r ELSE m = r
    BY DEF m, Magnitude
  <2> QED BY <1>3, <1>13, <2>1, <2>2
<1> QED BY <1>4, <1>15, <1>16 DEF text, r, rounded

-----------------------------------------------------------------------------
\* A text of k decimals against a power of ten for each of them.
ReadsOn(d, tail, scale, k) ==
  /\ k \in Nat /\ d \in [1..k -> 0..9]
  /\ tail \in [0..k -> Nat] /\ tail[0] = 0
  /\ \A i \in 1..k : tail[i] = tail[i - 1] * 10 + d[i]
  /\ scale \in [0..k -> Nat] /\ scale[0] = 1
  /\ \A i \in 1..k : scale[i] = scale[i - 1] * 10

\* The first of them, read as FractionRead does.
ReadsFirst(f, text, d, k) ==
  /\ f \in [0..Places -> Nat] /\ f[0] = 0
  /\ \A i \in 1..Places : f[i] = f[i - 1] * 10 + Digit(text, i)
  /\ \A i \in 1..k : Digit(text, i) = d[i]

\* As far as both go, the digits are read alike.
LEMMA ReadAlike ==
  ASSUME NEW d, NEW tail, NEW scale, NEW k, ReadsOn(d, tail, scale, k),
         NEW f, NEW text, ReadsFirst(f, text, d, k),
         NEW n \in Nat, n <= k, n <= Places
  PROVE  f[n] = tail[n] /\ scale[n] = Pow10[n]
<1> DEFINE S == {i \in 0..n : f[i] = tail[i] /\ scale[i] = Pow10[i]}
<1>1. Places \in Nat /\ Digits \in Nat /\ Places <= Digits /\ k \in Nat
  BY AmountsAssumption DEF ReadsOn
<1>2. 0 \in S
  BY Pow10Unfolds DEF ReadsOn, ReadsFirst
<1>3. ASSUME NEW i \in 1..n, i - 1 \in S PROVE i \in S
  <2>1. i \in 1..k /\ i \in 1..Places /\ i \in 1..Digits /\ i - 1 \in 0..Digits /\ i - 1 \in 0..n
        /\ i - 1 \in 0..k /\ i \in 0..n
    BY <1>1
  <2>2. f[i - 1] = tail[i - 1] /\ scale[i - 1] = Pow10[i - 1]
    BY <1>3
  <2> HIDE DEF S
  <2>3. f[i] = f[i - 1] * 10 + Digit(text, i) /\ Digit(text, i) = d[i]
    BY <2>1 DEF ReadsFirst
  <2>4. tail[i] = tail[i - 1] * 10 + d[i] /\ scale[i] = scale[i - 1] * 10
    BY <2>1 DEF ReadsOn
  <2>5. f[i] = tail[i]
    BY <2>2, <2>3, <2>4, Zenon
  <2>6. Pow10[i] = 10 * Pow10[i - 1] /\ Pow10[i - 1] \in Nat
    BY <2>1, Pow10Unfolds
  <2>7. scale[i] = Pow10[i]
    BY <2>2, <2>4, <2>6
  <2> QED BY <2>1, <2>5, <2>7 DEF S
<1>4. 0..n \subseteq S
  <2> HIDE DEF S
  <2> QED BY <1>2, <1>3, UpTo
<1>5. n \in S
  <2> HIDE DEF S
  <2> QED BY <1>4
<1> QED BY <1>5

\* No more decimals than an amount has: read as they are.
LEMMA ShortIsExact ==
  ASSUME NEW d, NEW tail, NEW scale, NEW k, ReadsOn(d, tail, scale, k), k <= Places,
         NEW f, NEW text, ReadsFirst(f, text, d, k),
         \A i \in Nat : i > k => Digit(text, i) = 0
  PROVE  f[Places] * scale[k] = tail[k] * One
<1>1. /\ Places \in Nat /\ Digits \in Nat /\ Places <= Digits /\ k \in Nat /\ k <= k
      /\ Places - k \in Nat /\ Places - k \in 0..Digits /\ k \in 0..Digits
      /\ k + (Places - k) = Places
  BY AmountsAssumption DEF ReadsOn
<1>2. f[k] = tail[k] /\ scale[k] = Pow10[k]
  BY <1>1, ReadAlike
<1>3. tail[k] \in Nat
  BY <1>1 DEF ReadsOn
<1> DEFINE S == {j \in 0 .. Places - k : f[k + j] = tail[k] * Pow10[j]}
<1>4. 0 \in S
  BY <1>1, <1>2, <1>3, Pow10Unfolds
<1>5. ASSUME NEW j \in 1 .. Places - k, j - 1 \in S PROVE j \in S
  <2>1. /\ j \in 1..Digits /\ j - 1 \in 0..Digits /\ k + j \in 1..Places /\ k + j \in Nat
        /\ k + j > k /\ (k + j) - 1 = k + (j - 1) /\ j \in 0 .. Places - k
    BY <1>1
  <2>2. f[k + (j - 1)] = tail[k] * Pow10[j - 1]
    BY <1>5
  <2> HIDE DEF S
  <2>3. f[k + j] = f[(k + j) - 1] * 10 + Digit(text, k + j) /\ Digit(text, k + j) = 0
    BY <2>1 DEF ReadsFirst
  <2>4. Pow10[j] = 10 * Pow10[j - 1] /\ Pow10[j - 1] \in Nat
    BY <2>1, Pow10Unfolds
  <2>5. f[k + j] = (tail[k] * Pow10[j - 1]) * 10 + 0
    BY <2>1, <2>2, <2>3, Zenon
  <2>6. ASSUME NEW x \in Nat, NEW y \in Nat PROVE (x * y) * 10 + 0 = x * (10 * y)
    OBVIOUS
  <2>7. f[k + j] = tail[k] * Pow10[j]
    BY <1>3, <2>4, <2>5, <2>6
  <2> QED BY <2>1, <2>7 DEF S
<1>6. 0 .. Places - k \subseteq S
  <2> HIDE DEF S
  <2> QED BY <1>1, <1>4, <1>5, UpTo
<1>7. f[k + (Places - k)] = tail[k] * Pow10[Places - k]
  <2>1. Places - k \in 0 .. Places - k
    BY <1>1
  <2> QED BY <1>6, <2>1
<1>8. f[Places] = tail[k] * Pow10[Places - k]
  BY <1>1, <1>7
<1>9. One = Pow10[k] * Pow10[Places - k]
  <2>1. k + (Places - k) <= Digits
    BY <1>1
  <2>2. Pow10[k + (Places - k)] = Pow10[k] * Pow10[Places - k]
    BY <1>1, <2>1, Pow10Adds
  <2> QED BY <1>1, <2>2 DEF One
<1>10. Pow10[k] \in Nat /\ Pow10[Places - k] \in Nat
  BY <1>1, Pow10Unfolds
<1>11. ASSUME NEW x \in Nat, NEW y \in Nat, NEW z \in Nat PROVE (x * y) * z = x * (z * y)
  OBVIOUS
<1> HIDE DEF S
<1> QED BY <1>2, <1>3, <1>8, <1>9, <1>10, <1>11

(***************************************************************************)
(* More decimals than an amount has: what is cut off is the rest of a      *)
(* whole 2h, and its first digit alone says which half of it the rest is   *)
(* in.                                                                     *)
(***************************************************************************)
CutsOff(tail, scale, i, first, h, rest, up) ==
  /\ h \in Nat \ {0} /\ rest \in 0 .. 2 * h - 1
  /\ scale[i] = One * (2 * h)
  /\ tail[i] = first * (2 * h) + rest
  /\ rest >= h <=> up

LEMMA FirstDigitDecides ==
  ASSUME NEW d, NEW tail, NEW scale, NEW k, ReadsOn(d, tail, scale, k), k > Places,
         NEW f, NEW text, ReadsFirst(f, text, d, k)
  PROVE  \E h, rest : CutsOff(tail, scale, k, f[Places], h, rest, RoundsUp(text))
<1> DEFINE n == Places + 1
           first == f[Places]
           Cuts(i) == \E h, rest : CutsOff(tail, scale, i, first, h, rest, RoundsUp(text))
           S == {j \in 0 .. k - n : Cuts(n + j)}
<1>1. /\ Places \in Nat /\ k \in Nat /\ Places <= k /\ Places <= Places /\ k - n \in Nat
      /\ n \in Nat /\ n \in 1..k /\ n - 1 = Places /\ n + 0 = n /\ n + (k - n) = k
  BY AmountsAssumption DEF ReadsOn
<1>2. first = tail[Places] /\ scale[Places] = One
  BY <1>1, ReadAlike DEF One
<1>3. first \in Nat /\ One \in Nat
  <2>1. Places \in 0..Places /\ Places \in 0..Digits
    BY AmountsAssumption
  <2> QED BY <2>1, Pow10Unfolds DEF One, ReadsFirst
<1> HIDE DEF first
<1>4. Cuts(n)
  <2>1. /\ tail[n] = tail[n - 1] * 10 + d[n] /\ scale[n] = scale[n - 1] * 10
        /\ d[n] \in 0..9
    BY <1>1 DEF ReadsOn
  <2>2. tail[n] = first * 10 + d[n] /\ scale[n] = One * 10
    BY <1>1, <1>2, <2>1, Zenon
  <2>3. Digit(text, Places + 1) = d[n]
    BY <1>1 DEF ReadsFirst
  <2>4. d[n] >= 5 <=> RoundsUp(text)
    BY <2>3, Zenon DEF RoundsUp
  <2>5. 5 \in Nat \ {0} /\ 2 * 5 = 10 /\ d[n] \in 0 .. 2 * 5 - 1
    BY <2>1
  <2> HIDE DEF n
  <2>6. CutsOff(tail, scale, n, first, 5, d[n], RoundsUp(text))
    BY <2>2, <2>4, <2>5 DEF CutsOff
  <2> QED BY <2>6, Zenon
<1>5. 0 \in S
  <2> HIDE DEF Cuts
  <2>1. 0 \in 0 .. k - n
    BY <1>1
  <2> QED BY <1>1, <1>4, <2>1
<1>6. ASSUME NEW j \in 1 .. k - n, j - 1 \in S PROVE j \in S
  <2> DEFINE i == n + j
  <2>1. /\ j \in 0 .. k - n /\ j - 1 \in 0 .. k - n /\ i \in 1..k /\ i - 1 = n + (j - 1)
    BY <1>1
  <2>2. Cuts(i - 1)
    <3> HIDE DEF Cuts, i
    <3> QED BY <1>6, <2>1
  <2>3. PICK h, rest : CutsOff(tail, scale, i - 1, first, h, rest, RoundsUp(text))
    BY <2>2
  <2> HIDE DEF n, i, S, Cuts
  <2>4. tail[i] = tail[i - 1] * 10 + d[i] /\ scale[i] = scale[i - 1] * 10 /\ d[i] \in 0..9
    BY <2>1 DEF ReadsOn
  <2>5. /\ h \in Nat \ {0} /\ rest \in 0 .. 2 * h - 1
        /\ scale[i - 1] = One * (2 * h)
        /\ tail[i - 1] = first * (2 * h) + rest
        /\ rest >= h <=> RoundsUp(text)
    BY <2>3 DEF CutsOff
  <2> DEFINE g == 10 * h
             over == rest * 10 + d[i]
  <2>6. g \in Nat \ {0} /\ over \in 0 .. 2 * g - 1
    BY <2>4, <2>5
  <2>7. over >= g <=> rest >= h
    BY <2>4, <2>5
  <2>8. scale[i] = One * (2 * g)
    <3>1. ASSUME NEW x \in Nat, NEW y \in Nat PROVE (x * (2 * y)) * 10 = x * (2 * (10 * y))
      OBVIOUS
    <3> QED BY <1>3, <2>4, <2>5, <3>1
  <2>9. tail[i] = first * (2 * g) + over
    <3>1. ASSUME NEW x \in Nat, NEW y \in Nat, NEW z \in Nat, NEW w \in Nat
          PROVE  (x * (2 * y) + z) * 10 + w = x * (2 * (10 * y)) + (z * 10 + w)
      OBVIOUS
    <3>2. rest \in Nat /\ d[i] \in Nat /\ h \in Nat
      BY <2>4, <2>5
    <3> QED BY <1>3, <2>4, <2>5, <3>1, <3>2
  <2> HIDE DEF g, over
  <2>10. CutsOff(tail, scale, i, first, g, over, RoundsUp(text))
    BY <2>5, <2>6, <2>7, <2>8, <2>9, Zenon DEF CutsOff
  <2>11. Cuts(i)
    BY <2>10, Zenon DEF Cuts
  <2> QED BY <2>1, <2>11 DEF S, i
<1>7. 0 .. k - n \subseteq S
  <2> HIDE DEF S, n
  <2> QED BY <1>1, <1>5, <1>6, UpTo
<1>8. Cuts(n + (k - n))
  <2> HIDE DEF Cuts, n
  <2>1. k - n \in 0 .. k - n
    BY <1>1
  <2> QED BY <1>7, <2>1
<1>9. Cuts(k)
  <2> HIDE DEF Cuts, n
  <2> QED BY <1>1, <1>8
<1> QED BY <1>9 DEF first

Up(text) == IF RoundsUp(text) THEN 1 ELSE 0

\* A carry into the integer part is a carry all the same.
LEMMA AmountRead ==
  ASSUME NEW text \in Text, text.sign = "none", FromString(text).ok,
         FractionRead(text) \in Nat, FractionRead(text) < One
  PROVE  /\ IntegerRead(text) \in Nat
         /\ FromString(text).value =
              IF text.minus THEN -(IntegerRead(text) * One + (FractionRead(text) + Up(text)))
              ELSE IntegerRead(text) * One + (FractionRead(text) + Up(text))
<1> DEFINE fraction == FractionRead(text) + Up(text)
           carried == fraction >= One
           integer == IntegerRead(text) + (IF carried THEN 1 ELSE 0)
           amount == IF text.minus THEN -integer * One - (IF carried THEN 0 ELSE fraction)
                     ELSE integer * One + (IF carried THEN 0 ELSE fraction)
<1>1. One \in Nat \ {0} /\ MaxUnit \in Nat
  <2>1. Places \in 0..Digits
    BY AmountsAssumption
  <2> QED BY <2>1, AmountsAssumption, Pow10IsPositive DEF One
<1>2. IntegerRead(text) \in Nat
  <2>1. text.integer \in Nat \cup {NoInteger}
    BY DEF Text
  <2> QED BY <1>1, <2>1 DEF IntegerRead
<1>3. FromString(text) = Refused \/ FromString(text) = Result(amount)
  BY DEF FromString, Up
<1>4. FromString(text).value = amount
  <2> HIDE DEF amount
  <2> QED BY <1>3 DEF Refused, Result
<1>5. fraction \in Nat /\ (carried => fraction = One) /\ Up(text) \in {0, 1}
  BY <1>1 DEF Up
<1>6. amount = IF text.minus THEN -(IntegerRead(text) * One + fraction)
               ELSE IntegerRead(text) * One + fraction
  <2> DEFINE whole == IntegerRead(text)
  <2>1. whole \in Nat /\ whole * One \in Nat /\ (whole + 1) * One = whole * One + One
    BY <1>1, <1>2
  <2> HIDE DEF whole, fraction
  <2>2. CASE carried
    <3>1. amount = IF text.minus THEN -((whole + 1) * One) - 0 ELSE (whole + 1) * One + 0
      BY <2>2 DEF whole
    <3>2. (whole + 1) * One \in Nat /\ (whole + 1) * One = whole * One + fraction
      BY <1>1, <1>5, <2>1, <2>2
    <3> HIDE DEF amount
    <3> QED BY <2>1, <3>1, <3>2 DEF whole
  <2>3. CASE ~carried
    <3>1. amount = IF text.minus THEN -((whole + 0) * One) - fraction
                   ELSE (whole + 0) * One + fraction
      BY <2>3 DEF whole
    <3>2. whole + 0 = whole
      BY <2>1
    <3> HIDE DEF amount
    <3> QED BY <1>5, <2>1, <3>1, <3>2 DEF whole
  <2> QED BY <2>2, <2>3
<1> QED BY <1>2, <1>4, <1>6

\* How far what is read lies from what is written.
LEMMA OffByLessThanHalf ==
  ASSUME NEW d, NEW tail, NEW scale, NEW k, ReadsOn(d, tail, scale, k),
         NEW f, NEW text, ReadsFirst(f, text, d, k),
         \A i \in Nat : i > k => Digit(text, i) = 0
  PROVE  LET off == (f[Places] + Up(text)) * scale[k] - tail[k] * One
         IN  /\ f[Places] \in Nat /\ tail[k] \in Nat /\ scale[k] \in Nat \ {0}
             /\ 2 * off <= scale[k] /\ -(2 * off) < scale[k]
<1> DEFINE first == f[Places]
           off == (first + Up(text)) * scale[k] - tail[k] * One
<1>1. Places \in Nat /\ k \in Nat /\ k \in 0..k /\ Places \in 0..Places /\ Places \in 0..Digits
  BY AmountsAssumption DEF ReadsOn
<1>2. first \in Nat /\ tail[k] \in Nat /\ scale[k] \in Nat
  BY <1>1 DEF ReadsOn, ReadsFirst
<1>3. One \in Nat \ {0}
  BY <1>1, Pow10IsPositive DEF One
<1>4. CASE k <= Places
  <2>1. first * scale[k] = tail[k] * One
    BY <1>4, ShortIsExact
  <2>2. scale[k] # 0
    <3>1. k \in 0..Digits /\ k <= k
      BY <1>1, <1>4, AmountsAssumption
    <3>2. scale[k] = Pow10[k]
      BY <1>1, <1>4, <3>1, ReadAlike
    <3> QED BY <3>1, <3>2, Pow10IsPositive
  <2>3. Up(text) = 0
    <3>1. Places + 1 \in Nat /\ Places + 1 > k
      BY <1>1, <1>4
    <3>2. Digit(text, Places + 1) = 0
      BY <3>1
    <3> QED BY <3>2 DEF Up, RoundsUp
  <2> HIDE DEF first
  <2>4. first + Up(text) = first
    BY <1>2, <2>3
  <2>5. off = 0
    <3>1. off = tail[k] * One - tail[k] * One
      BY <2>1, <2>4, Zenon
    <3>2. tail[k] * One \in Nat
      BY <1>2, <1>3
    <3> QED BY <3>1, <3>2
  <2> HIDE DEF off
  <2>6. scale[k] \in Nat \ {0} /\ 2 * off <= scale[k] /\ -(2 * off) < scale[k]
    BY <1>2, <2>2, <2>5
  <2> QED BY <1>2, <2>6 DEF off, first
<1>5. CASE k > Places
  <2>1. PICK h, rest : CutsOff(tail, scale, k, first, h, rest, RoundsUp(text))
    BY <1>5, FirstDigitDecides
  <2>2. /\ h \in Nat \ {0} /\ rest \in 0 .. 2 * h - 1 /\ rest \in Nat
        /\ scale[k] = One * (2 * h)
        /\ tail[k] = first * (2 * h) + rest
        /\ rest >= h <=> RoundsUp(text)
    BY <2>1 DEF CutsOff
  <2> HIDE DEF first
  <2> DEFINE by == Up(text) * (2 * h) - rest
  <2>3. by \in Int /\ by <= h /\ -by < h
    <3>1. CASE RoundsUp(text)
      BY <2>2, <3>1 DEF Up
    <3>2. CASE ~RoundsUp(text)
      BY <2>2, <3>2 DEF Up
    <3> QED BY <3>1, <3>2
  <2>4. off = One * by
    <3>1. ASSUME NEW x \in Nat, NEW u \in Nat, NEW o \in Nat, NEW g \in Nat, NEW r \in Nat
          PROVE  (x + u) * (o * (2 * g)) - (x * (2 * g) + r) * o = o * (u * (2 * g) - r)
      OBVIOUS
    <3>2. Up(text) \in Nat /\ h \in Nat /\ One \in Nat
      BY <1>3, <2>2 DEF Up
    <3>3. (first + Up(text)) * (One * (2 * h)) - (first * (2 * h) + rest) * One = One * by
      BY <1>2, <2>2, <3>1, <3>2
    <3> QED BY <2>2, <3>3
  <2> HIDE DEF by, off
  <2>5. One * h \in Nat /\ One * by \in Int /\ One * by <= One * h /\ -(One * by) < One * h
    <3>1. ASSUME NEW o \in Nat \ {0}, NEW x \in Int, NEW y \in Nat
          PROVE  /\ x <= y => o * x <= o * y
                 /\ x < y => o * x < o * y
      <4>1. ASSUME x <= y PROVE o * x <= o * y
        <5>1. PICK e \in Nat : y = x + e
          <6>1. y - x \in Nat /\ y = x + (y - x)
            BY <4>1
          <6> QED BY <6>1
        <5>2. o * y = o * x + o * e /\ o * e \in Nat /\ o * x \in Int
          BY <5>1
        <5> QED BY <5>2
      <4>2. ASSUME x < y PROVE o * x < o * y
        <5>1. PICK e \in Nat : y = x + 1 + e
          <6>1. y - (x + 1) \in Nat /\ y = x + 1 + (y - (x + 1))
            BY <4>2
          <6> QED BY <6>1
        <5>2. o * y = o * x + o + o * e /\ o * e \in Nat /\ o * x \in Int
          BY <5>1
        <5> QED BY <5>2
      <4> QED BY <4>1, <4>2
    <3>2. -by \in Int /\ h \in Nat
      BY <2>2, <2>3
    <3>3. One * by <= One * h /\ One * (-by) < One * h
      BY <1>3, <2>3, <3>1, <3>2
    <3>4. One * (-by) = -(One * by) /\ One * by \in Int /\ One * h \in Nat
      BY <1>3, <2>3, <3>2
    <3> QED BY <3>3, <3>4
  <2>6. scale[k] = 2 * (One * h) /\ scale[k] # 0
    <3>1. ASSUME NEW x \in Nat \ {0}, NEW y \in Nat \ {0} PROVE x * (2 * y) = 2 * (x * y) /\ x * y # 0
      OBVIOUS
    <3> QED BY <1>3, <2>2, <2>5, <3>1
  <2>7. 2 * off <= scale[k] /\ -(2 * off) < scale[k]
    BY <2>4, <2>5, <2>6
  <2> QED BY <1>2, <2>6, <2>7 DEF off, first
<1> QED BY <1>1, <1>4, <1>5

\* What is read of a text of one sign.
LEMMA TextReadNearest ==
  ASSUME NEW text \in Text, text.sign = "none", FromString(text).ok
  PROVE  LET k == IF text.point THEN Len(text.digits) ELSE 0
             tail[i \in 0 .. k] == IF i = 0 THEN 0 ELSE tail[i - 1] * 10 + text.digits[i]
             scale[i \in 0 .. k] == IF i = 0 THEN 1 ELSE scale[i - 1] * 10
             exact == IntegerRead(text) * scale[k] + tail[k]
             amount == Magnitude(FromString(text).value)
             off == Magnitude(amount * scale[k] - exact * One)
         IN  /\ 2 * off <= scale[k]
             /\ 2 * off = scale[k] => amount * scale[k] > exact * One
             /\ FromString(text).value # 0 => text.minus = (FromString(text).value < 0)
<1> DEFINE k == IF text.point THEN Len(text.digits) ELSE 0
           d == [i \in 1..k |-> text.digits[i]]
           P(g) == g = [i \in 0 .. k |-> IF i = 0 THEN 0 ELSE g[i - 1] * 10 + text.digits[i]]
           Q(g) == g = [i \in 0 .. k |-> IF i = 0 THEN 1 ELSE g[i - 1] * 10]
           tail == CHOOSE g : P(g)
           scale == CHOOSE g : Q(g)
<1>1. /\ text.digits \in Seq(0..9) /\ text.point \in BOOLEAN /\ text.minus \in BOOLEAN
      /\ Places \in Nat
  BY AmountsAssumption DEF Text
<1>2. k \in Nat /\ \A i \in 1..k : text.point /\ i <= Len(text.digits) /\ text.digits[i] \in 0..9
  BY <1>1
<1>3. \A i \in Nat : i > k => Digit(text, i) = 0
  <2> SUFFICES ASSUME NEW i \in Nat, i > k PROVE Digit(text, i) = 0
    OBVIOUS
  <2>1. Len(text.digits) \in Nat
    BY <1>1
  <2> QED BY <1>1, <2>1 DEF Digit
<1>4. \A i \in 1..k : Digit(text, i) = text.digits[i]
  <2> HIDE DEF k
  <2> QED BY <1>2, Zenon DEF Digit
<1> HIDE DEF k
<1>5. d \in [1..k -> 0..9] /\ \A i \in 1..k : d[i] = text.digits[i]
  BY <1>2
<1>6. /\ tail \in [0..k -> Nat] /\ tail[0] = 0
      /\ \A i \in 1..k : tail[i] = tail[i - 1] * 10 + d[i]
  <2> DEFINE e == [i \in 0..k |-> IF i = 0 THEN 0 ELSE d[i]]
  <2>1. e \in [0..k -> Nat] /\ \A i \in 1..k : e[i] = d[i] /\ e[i] = text.digits[i]
    <3> HIDE DEF d
    <3>1. \A i \in 0..k : i # 0 => i \in 1..k
      BY <1>2
    <3>2. \A i \in 1..k : i \in 0..k /\ i # 0
      BY <1>2
    <3>3. \A i \in 0..k : (IF i = 0 THEN 0 ELSE d[i]) \in Nat
      BY <1>5, <3>1
    <3> QED BY <1>5, <3>2, <3>3
  <2>2. ASSUME NEW g PROVE P(g) <=> Tenfold(g, k, 0, e)
    <3> HIDE DEF d, e
    <3>1. \A i \in 0..k : i # 0 => i \in 1..k
      BY <1>2
    <3>2. \A i \in 0..k : (IF i = 0 THEN 0 ELSE g[i - 1] * 10 + text.digits[i])
                            = (IF i = 0 THEN 0 ELSE g[i - 1] * 10 + e[i])
      BY <2>1, <3>1
    <3> QED BY <3>2 DEF Tenfold
  <2> HIDE DEF e, d, P, Q
  <2>3. \E g \in [0..k -> Nat] : Tenfold(g, k, 0, e)
    BY <1>2, <2>1, TenfoldExists
  <2>4. Tenfold(tail, k, 0, e)
    BY <2>2, <2>3
  <2> HIDE DEF tail
  <2>5. /\ tail \in [0..k -> Nat] /\ tail[0] = 0
        /\ \A i \in 1..k : tail[i] = tail[i - 1] * 10 + e[i]
    <3>1. k \in Nat /\ 0 \in Nat
      BY <1>2
    <3>2. e \in [0..k -> Nat]
      BY <2>1
    <3> QED BY <3>1, <3>2, <2>4, TenfoldUnfolds
  <2>6. ASSUME NEW i \in 1..k PROVE tail[i] = tail[i - 1] * 10 + d[i]
    <3>1. e[i] = d[i]
      BY <2>1
    <3>2. tail[i] = tail[i - 1] * 10 + e[i]
      BY <2>5
    <3> QED BY <3>1, <3>2, Zenon
  <2> QED BY <2>5, <2>6, Zenon
<1>7. /\ scale \in [0..k -> Nat] /\ scale[0] = 1
      /\ \A i \in 1..k : scale[i] = scale[i - 1] * 10
  <2> DEFINE e == [i \in 0..k |-> 0]
  <2>1. e \in [0..k -> Nat] /\ \A i \in 0..k : e[i] = 0
    OBVIOUS
  <2> HIDE DEF e, d, P, tail
  <2>2. ASSUME NEW g \in [0..k -> Nat] PROVE Q(g) <=> Tenfold(g, k, 1, e)
    <3>1. \A i \in 0..k : i # 0 => i - 1 \in 0..k
      BY <1>2
    <3>2. \A i \in 0..k : i # 0 => g[i - 1] * 10 = g[i - 1] * 10 + e[i]
      BY <2>1, <3>1
    <3>3. \A i \in 0..k : (IF i = 0 THEN 1 ELSE g[i - 1] * 10)
                            = (IF i = 0 THEN 1 ELSE g[i - 1] * 10 + e[i])
      BY <3>2
    <3> QED BY <3>3 DEF Tenfold
  <2>3. PICK g \in [0..k -> Nat] : Tenfold(g, k, 1, e)
    BY <1>2, <2>1, TenfoldExists
  <2>4. Q(scale)
    <3> HIDE DEF Q
    <3> QED BY <2>2, <2>3
  <2> HIDE DEF scale
  <2>5. \A i \in 0..k : scale[i] = IF i = 0 THEN 1 ELSE scale[i - 1] * 10
    BY <2>4, Zenon
  <2> DEFINE S == {i \in 0..k : scale[i] \in Nat}
  <2>6. 0 \in S
    BY <1>2, <2>5
  <2>7. ASSUME NEW i \in 1..k, i - 1 \in S PROVE i \in S
    <3>1. i \in 0..k /\ i # 0 /\ scale[i - 1] \in Nat
      BY <1>2, <2>7
    <3>2. scale[i] \in Nat
      BY <2>5, <3>1
    <3> QED BY <3>1, <3>2
  <2>8. 0..k \subseteq S
    <3> HIDE DEF S
    <3> QED BY <1>2, <2>6, <2>7, UpTo
  <2>9. \A i \in 0..k : scale[i] \in Nat
    BY <2>8
  <2>10. scale \in [0..k -> Nat]
    BY <2>4, <2>9
  <2>11. \A i \in 1..k : i \in 0..k /\ i # 0
    BY <1>2
  <2>12. scale[0] = 1
    BY <1>2, <2>5
  <2> QED BY <2>5, <2>10, <2>11, <2>12, Zenon
<1> HIDE DEF d, tail, scale
<1>8. ReadsOn(d, tail, scale, k)
  BY <1>2, <1>5, <1>6, <1>7, Zenon DEF ReadsOn
<1>9. \A i \in 1..Places : Digit(text, i) \in 0..9
  <2> SUFFICES ASSUME NEW i \in 1..Places PROVE Digit(text, i) \in 0..9
    OBVIOUS
  <2>1. CASE i > k
    BY <1>1, <1>3, <2>1
  <2>2. CASE ~(i > k)
    <3>1. i \in 1..k
      BY <1>1, <1>2, <2>2
    <3> QED BY <1>2, <1>4, <3>1
  <2> QED BY <2>1, <2>2
<1>10. PICK f \in [0..Places -> Nat] :
         /\ f[0] = 0
         /\ \A i \in 1..Places : f[i] = f[i - 1] * 10 + Digit(text, i)
         /\ FractionRead(text) = f[Places]
  BY <1>9, FractionUnfolds
<1>11. ReadsFirst(f, text, d, k)
  BY <1>4, <1>5, <1>10, Zenon DEF ReadsFirst
<1> DEFINE first == f[Places]
           apart == (first + Up(text)) * scale[k] - tail[k] * One
<1>12. /\ first \in Nat /\ tail[k] \in Nat /\ scale[k] \in Nat \ {0}
       /\ 2 * apart <= scale[k] /\ -(2 * apart) < scale[k]
  BY <1>3, <1>8, <1>11, OffByLessThanHalf
<1>13. first < One /\ One \in Nat
  <2> DEFINE e == [i \in 1..Places |-> Digit(text, i)]
  <2>1. e \in [1..Places -> 0..9] /\ \A i \in 1..Places : f[i] = f[i - 1] * 10 + e[i]
    BY <1>9, <1>10
  <2> HIDE DEF e
  <2>2. \A i \in 0..Places : f[i] < Pow10[i]
    BY <1>10, <2>1, FractionIsBelowOne
  <2>3. Places \in 0..Places /\ Places \in 0..Digits
    BY AmountsAssumption
  <2> QED BY <2>2, <2>3, Pow10Unfolds DEF One
<1>14. FractionRead(text) = first
  BY <1>10
<1> HIDE DEF first
<1> DEFINE whole == IntegerRead(text)
           sum == whole * One + (first + Up(text))
<1>15. /\ whole \in Nat
       /\ FromString(text).value = IF text.minus THEN -sum ELSE sum
  <2>1. FractionRead(text) \in Nat /\ FractionRead(text) < One
    BY <1>12, <1>13, <1>14
  <2>2. /\ IntegerRead(text) \in Nat
        /\ FromString(text).value =
             IF text.minus THEN -(IntegerRead(text) * One + (FractionRead(text) + Up(text)))
             ELSE IntegerRead(text) * One + (FractionRead(text) + Up(text))
    BY <2>1, AmountRead
  <2> QED BY <1>14, <2>2
<1> DEFINE value == FromString(text).value
           exact == whole * scale[k] + tail[k]
<1> HIDE DEF whole, sum, value
<1>16. sum \in Nat /\ first + Up(text) \in Nat
  <2>1. first + Up(text) \in Nat
    BY <1>12, <1>13 DEF Up
  <2>2. whole * One \in Nat
    BY <1>12, <1>13, <1>15
  <2> QED BY <2>1, <2>2 DEF sum
<1>17. value = IF text.minus THEN -sum ELSE sum
  BY <1>15 DEF value
<1>18. Magnitude(value) = sum /\ (value # 0 => text.minus = (value < 0))
  <2>1. CASE text.minus = TRUE
    <3>1. value = -sum
      BY <1>17, <2>1, Zenon
    <3>2. Magnitude(value) = sum /\ (value # 0 => value < 0)
      BY <1>16, <3>1 DEF Magnitude
    <3>3. ASSUME value < 0 PROVE (value < 0) = TRUE
      BY <3>3
    <3> QED BY <2>1, <3>2, <3>3, Zenon
  <2>2. CASE text.minus = FALSE
    <3>1. value = sum
      BY <1>17, <2>2, Zenon
    <3>2. Magnitude(value) = sum /\ ~(value < 0)
      BY <1>16, <3>1 DEF Magnitude
    <3>3. ASSUME ~(value < 0) PROVE (value < 0) = FALSE
      BY <3>3
    <3> QED BY <2>2, <3>2, <3>3, Zenon
  <2> QED BY <1>1, <2>1, <2>2
<1>19. sum * scale[k] - exact * One = apart /\ sum * scale[k] \in Nat /\ exact * One \in Nat
  <2>1. ASSUME NEW w \in Nat, NEW o \in Nat, NEW x \in Nat, NEW c \in Nat, NEW t \in Nat
        PROVE  /\ (w * o + x) * c - (w * c + t) * o = x * c - t * o
               /\ (w * o + x) * c \in Nat /\ (w * c + t) * o \in Nat
    OBVIOUS
  <2>2. scale[k] \in Nat
    BY <1>12
  <2> DEFINE x == first + Up(text)
             c == scale[k]
             t == tail[k]
  <2>3. x \in Nat /\ c \in Nat /\ t \in Nat /\ whole \in Nat /\ One \in Nat
    BY <1>12, <1>13, <1>15, <1>16, <2>2
  <2> HIDE DEF x, c, t
  <2>4. /\ (whole * One + x) * c - (whole * c + t) * One = x * c - t * One
        /\ (whole * One + x) * c \in Nat /\ (whole * c + t) * One \in Nat
    BY <2>1, <2>3
  <2> QED BY <2>4, Zenon DEF sum, x, c, t
<1> HIDE DEF apart, exact
<1>20. apart \in Int
  BY <1>19
<1>21. /\ 2 * Magnitude(apart) <= scale[k]
       /\ 2 * Magnitude(apart) = scale[k] => apart > 0
  BY <1>12, <1>20 DEF Magnitude
<1>22. /\ 2 * Magnitude(Magnitude(value) * scale[k] - exact * One) <= scale[k]
       /\ 2 * Magnitude(Magnitude(value) * scale[k] - exact * One) = scale[k]
            => Magnitude(value) * scale[k] > exact * One
       /\ value # 0 => text.minus = (value < 0)
  <2>1. apart > 0 => sum * scale[k] > exact * One
    BY <1>19
  <2> QED BY <1>18, <1>19, <1>21, <2>1
<1> QED BY <1>22, Zenon DEF value, exact, whole, tail, scale, P, Q, k

-----------------------------------------------------------------------------
\* Every question there is.
AmountsInv ==
  \/ question = NoQuestion
  \/ \E value \in Units, precision \in Nat, size \in Nat :
       question = [kind |-> "print", value |-> value, precision |-> precision, size |-> size]
  \/ \E text \in Text : question = [kind |-> "read", text |-> text]
  \/ \E a, b, c \in Int : question = [kind |-> "spans", a |-> a, b |-> b, c |-> c]
  \/ \E duration \in Durations : question = [kind |-> "decay", duration |-> duration]

LEMMA AmountsHold == AmountsSpec => []AmountsInv
<1>1. AmountsInit => AmountsInv
  BY DEF AmountsInit, AmountsInv
<1>2. AmountsInv /\ [Ask]_question => AmountsInv'
  <2> SUFFICES ASSUME AmountsInv, [Ask]_question PROVE AmountsInv'
    OBVIOUS
  <2>1. CASE AskToPrint
    BY <2>1, QuestionsAssumption DEF AskToPrint, AmountsInv
  <2>2. CASE AskToRead
    BY <2>2, QuestionsAssumption DEF AskToRead, AmountsInv
  <2>3. CASE AskForSpans
    BY <2>3, QuestionsAssumption DEF AskForSpans, AmountsInv
  <2>4. CASE AskForDecay
    BY <2>4 DEF AskForDecay, AmountsInv
  <2>5. CASE UNCHANGED question
    BY <2>5 DEF AmountsInv
  <2> QED BY <2>1, <2>2, <2>3, <2>4, <2>5 DEF Ask
<1> QED BY <1>1, <1>2, PTL DEF AmountsSpec

(***************************************************************************)
(* grdd_unit_round_to_precision gives the nearest amount of the precision, *)
(* halves away from zero on either side of it, and refuses exactly what    *)
(* would leave the width: for every width and number of decimal places.    *)
(***************************************************************************)
THEOREM RoundingToPrecision == AmountsSpec => []RoundingIsNearest
<1>1. AmountsInv => RoundingIsNearest
  <2> SUFFICES ASSUME AmountsInv, Asks("print"), question.precision <= Places
               PROVE  RoundingIsNearest
    BY DEF RoundingIsNearest
  <2>1. question.value \in Units /\ question.precision \in Nat
    BY DEF AmountsInv, Asks, NoQuestion
  <2> QED BY <2>1, RoundedIsNearest DEF RoundingIsNearest
<1> QED BY <1>1, AmountsHold, PTL

(***************************************************************************)
(* grdd_unit_to_string writes to no byte past the buffer, whatever its     *)
(* size, and a caller who makes the room it is told about gets the text.   *)
(***************************************************************************)
THEOREM PrintingInside == AmountsSpec => []PrintingStaysInside
<1>1. AmountsInv => PrintingStaysInside
  <2> SUFFICES ASSUME AmountsInv, Asks("print") PROVE PrintingStaysInside
    BY DEF PrintingStaysInside
  <2>1. question.value \in Units /\ question.precision \in Nat /\ question.size \in Nat
    BY DEF AmountsInv, Asks, NoQuestion
  <2> QED BY <2>1, PrintedStaysInside DEF PrintingStaysInside
<1> QED BY <1>1, AmountsHold, PTL

(***************************************************************************)
(* grdd_unit_from_string reads what grdd_unit_to_string prints as the      *)
(* amount that was rounded: at every precision, for every amount whose     *)
(* integer part is one that is read, the negative ones too.                *)
(***************************************************************************)
THEOREM PrintingReadsBack == AmountsSpec => []PrintedIsReadBack
<1>1. AmountsInv => PrintedIsReadBack
  <2> SUFFICES ASSUME AmountsInv, Asks("print"), question.precision <= Places,
                      RoundToPrecision(question.value, question.precision).ok,
                      Magnitude(RoundToPrecision(question.value, question.precision).value)
                        \div One <= MaxInteger
               PROVE  FromString(Printed(
                        RoundToPrecision(question.value, question.precision).value,
                        question.precision))
                        = RoundToPrecision(question.value, question.precision)
    BY DEF PrintedIsReadBack
  <2>1. question.value \in Units /\ question.precision \in Nat
    BY DEF AmountsInv, Asks, NoQuestion
  <2>2. question.precision \in 0..Places
    BY <2>1, AmountsAssumption
  <2> QED BY <2>1, <2>2, PrintedReadBack
<1> QED BY <1>1, AmountsHold, PTL

(***************************************************************************)
(* grdd_unit_from_string reads a text of any number of digits as the       *)
(* amount nearest to it, halves away from zero: the one digit it looks at  *)
(* behind the decimals decides, and the carry it may cause reaches the     *)
(* integer part.                                                           *)
(***************************************************************************)
THEOREM ReadingIsNearest == AmountsSpec => []ReadIsNearest
<1>1. AmountsInv => ReadIsNearest
  <2> SUFFICES ASSUME AmountsInv, Asks("read"), question.text.sign = "none",
                      FromString(question.text).ok
               PROVE  ReadIsNearest
    BY DEF ReadIsNearest
  <2>1. question.text \in Text
    BY DEF AmountsInv, Asks, NoQuestion
  <2> QED BY <2>1, TextReadNearest, Zenon DEF ReadIsNearest
<1> QED BY <1>1, AmountsHold, PTL

(***************************************************************************)
(* grdd_unit_calculate_duration_seconds counts a span as the spans it is   *)
(* cut into, wherever the start of decay lies among them, and never more   *)
(* than the span.                                                          *)
(***************************************************************************)
THEOREM SpansOfTimeAddUp == AmountsSpec => []SpansAddUp
<1>1. AmountsInv => SpansAddUp
  <2> SUFFICES ASSUME AmountsInv, Asks("spans"),
                      question.a <= question.b, question.b <= question.c
               PROVE  SpansAddUp
    BY DEF SpansAddUp
  <2>1. PICK a, b, c \in Int : question = [kind |-> "spans", a |-> a, b |-> b, c |-> c]
    BY DEF AmountsInv, Asks, NoQuestion
  <2>2. question.a = a /\ question.b = b /\ question.c = c
    BY <2>1
  <2>3. a <= b /\ b <= c /\ a <= c /\ DecayStart \in Int
    BY <2>2, AmountsAssumption
  <2>4. /\ Duration(a, c).value = Clipped(a, c)
        /\ Duration(a, b).value = Clipped(a, b)
        /\ Duration(b, c).value = Clipped(b, c)
    BY <2>3 DEF Duration, Result
  <2>5. Clipped(a, c) = Clipped(a, b) + Clipped(b, c)
    BY <2>3 DEF Clipped
  <2>6. Clipped(a, c) \in 0 .. c - a
    BY <2>3 DEF Clipped
  <2> QED BY <2>2, <2>4, <2>5, <2>6 DEF SpansAddUp
<1> QED BY <1>1, AmountsHold, PTL

-----------------------------------------------------------------------------
(***************************************************************************)
(* The sum of what v gives for the members of a set of numbers below n,    *)
(* counted up from 0, and taken out of the set in any order.               *)
(***************************************************************************)
Adding(v, T, n) ==
  [i \in 1..n |-> [a \in Nat |-> IF i - 1 \in T THEN a + v[i - 1] ELSE a]]

Sums(u, v, T, n) ==
  /\ u \in [0..n -> Nat]
  /\ u[0] = 0
  /\ \A i \in 1..n : u[i] = IF i - 1 \in T THEN u[i - 1] + v[i - 1] ELSE u[i - 1]

Total(v, T, n) == (CHOOSE u : Sums(u, v, T, n))[n]

LEMMA SumsExist ==
  ASSUME NEW n \in Nat, NEW v, \A i \in 0..n - 1 : v[i] \in Nat, NEW T
  PROVE  \E u : Sums(u, v, T, n)
<1> DEFINE step == Adding(v, T, n)
<1>1. step \in [1..n -> [Nat -> Nat]]
  <2>1. \A i \in 1..n : v[i - 1] \in Nat
    OBVIOUS
  <2>2. \A i \in 1..n : [a \in Nat |-> IF i - 1 \in T THEN a + v[i - 1] ELSE a] \in [Nat -> Nat]
    BY <2>1
  <2> QED BY <2>2 DEF Adding
<1>2. \A i \in 1..n : \A a \in Nat : step[i][a] = IF i - 1 \in T THEN a + v[i - 1] ELSE a
  BY DEF Adding
<1> HIDE DEF step
<1>3. PICK u : Climbs(u, n, Nat, 0, step)
  <2> DEFINE D == Nat
             b == 0
  <2>1. b \in D /\ step \in [1..n -> [D -> D]]
    BY <1>1
  <2> HIDE DEF D, b
  <2>2. \E u : Climbs(u, n, D, b, step)
    BY <2>1, StepsExist
  <2> QED BY <2>2 DEF D, b
<1>4. u \in [0..n -> Nat] /\ u[0] = 0 /\ \A i \in 1..n : u[i] = step[i][u[i - 1]]
  BY <1>3 DEF Climbs
<1>5. \A i \in 1..n : u[i] = IF i - 1 \in T THEN u[i - 1] + v[i - 1] ELSE u[i - 1]
  <2>1. \A i \in 1..n : u[i - 1] \in Nat
    BY <1>4
  <2> QED BY <1>2, <1>4, <2>1
<1>6. Sums(u, v, T, n)
  BY <1>4, <1>5 DEF Sums
<1> QED BY <1>6

LEMMA TotalIs ==
  ASSUME NEW n \in Nat, NEW v, \A i \in 0..n - 1 : v[i] \in Nat, NEW T, NEW u, Sums(u, v, T, n)
  PROVE  Total(v, T, n) = u[n]
<1> DEFINE w == CHOOSE x : Sums(x, v, T, n)
           S == {i \in 0..n : w[i] = u[i]}
<1>1. Sums(w, v, T, n)
  OBVIOUS
<1> HIDE DEF w
<1>2. 0 \in S
  BY <1>1 DEF Sums
<1>3. ASSUME NEW i \in 1..n, i - 1 \in S
      PROVE  i \in S
  <2>1. /\ u[i] = IF i - 1 \in T THEN u[i - 1] + v[i - 1] ELSE u[i - 1]
        /\ w[i] = IF i - 1 \in T THEN w[i - 1] + v[i - 1] ELSE w[i - 1]
    BY <1>1 DEF Sums
  <2>2. w[i - 1] = u[i - 1] /\ i \in 0..n
    BY <1>3
  <2>3. w[i] = u[i]
    <3>1. CASE i - 1 \in T
      BY <2>1, <2>2, <3>1
    <3>2. CASE i - 1 \notin T
      BY <2>1, <2>2, <3>2
    <3> QED BY <3>1, <3>2
  <2> QED BY <2>2, <2>3
<1>4. 0..n \subseteq S
  <2> HIDE DEF S
  <2> QED BY <1>2, <1>3, UpTo
<1>5. w[n] = u[n]
  BY <1>4
<1> QED BY <1>5 DEF Total, w

LEMMA TotalOfNone ==
  ASSUME NEW n \in Nat, NEW v, \A i \in 0..n - 1 : v[i] \in Nat
  PROVE  Total(v, {}, n) = 0
<1>1. PICK u : Sums(u, v, {}, n)
  BY SumsExist
<1> DEFINE S == {i \in 0..n : u[i] = 0}
<1>2. 0 \in S
  BY <1>1 DEF Sums
<1>3. ASSUME NEW i \in 1..n, i - 1 \in S
      PROVE  i \in S
  BY <1>1, <1>3 DEF Sums
<1>4. 0..n \subseteq S
  <2> HIDE DEF S
  <2> QED BY <1>2, <1>3, UpTo
<1>5. u[n] = 0
  BY <1>4
<1> QED BY <1>1, <1>5, TotalIs

LEMMA TotalWithout ==
  ASSUME NEW n \in Nat, NEW v, \A i \in 0..n - 1 : v[i] \in Nat,
         NEW T \in SUBSET (0..n - 1), NEW x \in T
  PROVE  /\ Total(v, T, n) = v[x] + Total(v, T \ {x}, n)
         /\ Total(v, T, n) \in Nat
<1>1. PICK u : Sums(u, v, T, n)
  BY SumsExist
<1>2. PICK w : Sums(w, v, T \ {x}, n)
  BY SumsExist
<1> DEFINE S == {i \in 0..n : u[i] = IF x < i THEN v[x] + w[i] ELSE w[i]}
<1>3. x \in 0..n - 1 /\ v[x] \in Nat
  OBVIOUS
<1>4. 0 \in S
  BY <1>1, <1>2, <1>3 DEF Sums
<1>5. ASSUME NEW i \in 1..n, i - 1 \in S
      PROVE  i \in S
  <2>1. /\ u[i - 1] \in Nat /\ w[i - 1] \in Nat /\ v[i - 1] \in Nat
        /\ u[i] = IF i - 1 \in T THEN u[i - 1] + v[i - 1] ELSE u[i - 1]
        /\ w[i] = IF i - 1 \in T \ {x} THEN w[i - 1] + v[i - 1] ELSE w[i - 1]
    BY <1>1, <1>2 DEF Sums
  <2>2. u[i - 1] = IF x < i - 1 THEN v[x] + w[i - 1] ELSE w[i - 1]
    BY <1>5
  <2>3. CASE i - 1 = x
    BY <1>3, <2>1, <2>2, <2>3
  <2>4. CASE i - 1 # x
    <3>1. i - 1 \in T <=> i - 1 \in T \ {x}
      BY <2>4
    <3>2. x < i - 1 <=> x < i
      BY <1>3, <2>4
    <3> QED BY <1>3, <2>1, <2>2, <3>1, <3>2
  <2> QED BY <2>3, <2>4
<1>6. 0..n \subseteq S
  <2> HIDE DEF S
  <2> QED BY <1>4, <1>5, UpTo
<1>7. u[n] = v[x] + w[n]
  <2>1. n \in 0..n /\ x < n
    BY <1>3
  <2> QED BY <1>6, <2>1
<1>8. u[n] \in Nat
  BY <1>1 DEF Sums
<1>9. Total(v, T, n) = u[n] /\ Total(v, T \ {x}, n) = w[n]
  BY <1>1, <1>2, TotalIs
<1> QED BY <1>7, <1>8, <1>9

\* A member at a time, as the folds of the community modules choose them.
TakesOut(c, v, T) ==
  \A s \in SUBSET T :
    c[s] = IF s = {} THEN 0 ELSE v[CHOOSE x \in s : TRUE] + c[s \ {CHOOSE x \in s : TRUE}]

LEMMA TakingOutWorks ==
  ASSUME NEW n \in Nat, NEW v, \A i \in 0..n - 1 : v[i] \in Nat, NEW T \in SUBSET (0..n - 1)
  PROVE  TakesOut([s \in SUBSET T |-> Total(v, s, n)], v, T)
<1> DEFINE c == [s \in SUBSET T |-> Total(v, s, n)]
<1>1. \A s \in SUBSET T : c[s] = Total(v, s, n)
  OBVIOUS
<1> HIDE DEF c
<1>2. ASSUME NEW s \in SUBSET T
      PROVE  c[s] = IF s = {} THEN 0
                    ELSE v[CHOOSE x \in s : TRUE] + c[s \ {CHOOSE x \in s : TRUE}]
  <2>1. CASE s = {}
    BY <1>1, <2>1, TotalOfNone
  <2>2. CASE s # {}
    <3> DEFINE x == CHOOSE x \in s : TRUE
    <3>1. x \in s
      BY <2>2
    <3> HIDE DEF x
    <3>2. s \in SUBSET (0..n - 1) /\ s \ {x} \in SUBSET T
      OBVIOUS
    <3>3. Total(v, s, n) = v[x] + Total(v, s \ {x}, n)
      BY <3>1, <3>2, TotalWithout
    <3>4. c[s] = v[x] + c[s \ {x}]
      BY <1>1, <3>2, <3>3
    <3> QED BY <2>2, <3>4 DEF x
  <2> QED BY <2>1, <2>2
<1>3. TakesOut(c, v, T)
  BY <1>2, Zenon DEF TakesOut
<1> QED BY <1>3 DEF c

LEMMA TakingOutIsTotal ==
  ASSUME NEW n \in Nat, NEW v, \A i \in 0..n - 1 : v[i] \in Nat, NEW T \in SUBSET (0..n - 1),
         NEW c, TakesOut(c, v, T)
  PROVE  c[T] = Total(v, T, n)
<1> DEFINE N == Cardinality(T)
           S == {k \in 0..N : \A s \in SUBSET T : Cardinality(s) = k => c[s] = Total(v, s, n)}
<1>1. IsFiniteSet(T) /\ N \in Nat
  <2>1. IsFiniteSet(0..n - 1)
    BY FS_Interval
  <2>2. IsFiniteSet(T)
    BY <2>1, FS_Subset
  <2> QED BY <2>2, FS_CardinalityType
<1>2. \A s \in SUBSET T : IsFiniteSet(s)
  BY <1>1, FS_Subset
<1> HIDE DEF N
<1>3. 0 \in S
  <2> SUFFICES ASSUME NEW s \in SUBSET T, Cardinality(s) = 0
               PROVE  c[s] = Total(v, s, n)
    BY <1>1
  <2>1. s = {}
    BY <1>2, FS_EmptySet
  <2>2. c[s] = 0
    BY <2>1 DEF TakesOut
  <2> QED BY <2>1, <2>2, TotalOfNone
<1>4. ASSUME NEW k \in 1..N, k - 1 \in S
      PROVE  k \in S
  <2>1. \A s \in SUBSET T : Cardinality(s) = k - 1 => c[s] = Total(v, s, n)
    BY <1>4
  <2> SUFFICES ASSUME NEW s \in SUBSET T, Cardinality(s) = k
               PROVE  c[s] = Total(v, s, n)
    BY <1>1
  <2>2. s # {}
    BY <1>1, FS_EmptySet
  <2> DEFINE x == CHOOSE x \in s : TRUE
  <2>3. x \in s
    BY <2>2
  <2>4. c[s] = v[x] + c[s \ {x}]
    BY <2>2, Zenon DEF TakesOut
  <2> HIDE DEF x
  <2>5. s \ {x} \in SUBSET T /\ Cardinality(s \ {x}) = k - 1
    BY <1>2, <2>3, FS_RemoveElement
  <2>6. c[s \ {x}] = Total(v, s \ {x}, n)
    BY <2>1, <2>5
  <2>7. Total(v, s, n) = v[x] + Total(v, s \ {x}, n)
    <3>1. s \in SUBSET (0..n - 1)
      OBVIOUS
    <3> QED BY <2>3, <3>1, TotalWithout
  <2> QED BY <2>4, <2>6, <2>7
<1>5. 0..N \subseteq S
  <2> HIDE DEF S
  <2> QED BY <1>1, <1>3, <1>4, UpTo
<1>6. N \in 0..N /\ T \in SUBSET T
  BY <1>1
<1> QED BY <1>5, <1>6 DEF N

-----------------------------------------------------------------------------
(***************************************************************************)
(* Powers of two, for every exponent.                                      *)
(***************************************************************************)
Doublings(f, n) ==
  /\ f \in [0..n -> Nat]
  /\ f[0] = 1
  /\ \A i \in 1..n : f[i] = 2 * f[i - 1]

LEMMA DoublingsExist ==
  ASSUME NEW n \in Nat
  PROVE  \E f : Doublings(f, n)
<1> DEFINE step == [i \in 1..n |-> [x \in Nat |-> 2 * x]]
           D == Nat
<1>1. step \in [1..n -> [D -> D]] /\ 1 \in D
  OBVIOUS
<1>2. \A i \in 1..n : \A x \in Nat : step[i][x] = 2 * x
  OBVIOUS
<1> HIDE DEF step, D
<1>3. PICK f : Climbs(f, n, D, 1, step)
  BY <1>1, StepsExist
<1>4. f \in [0..n -> Nat] /\ f[0] = 1 /\ \A i \in 1..n : f[i] = step[i][f[i - 1]]
  BY <1>3 DEF Climbs, D
<1>5. \A i \in 1..n : f[i] = 2 * f[i - 1]
  <2>1. \A i \in 1..n : f[i - 1] \in Nat
    BY <1>4
  <2> QED BY <1>2, <1>4, <2>1
<1>6. Doublings(f, n)
  BY <1>4, <1>5 DEF Doublings
<1> QED BY <1>6

LEMMA DoublingsAgree ==
  ASSUME NEW n \in Nat, NEW m \in Nat, n <= m, NEW f, Doublings(f, n), NEW g, Doublings(g, m)
  PROVE  f[n] = g[n]
<1> DEFINE S == {i \in 0..n : f[i] = g[i]}
<1>1. 0 \in S
  BY DEF Doublings
<1>2. ASSUME NEW i \in 1..n, i - 1 \in S
      PROVE  i \in S
  <2>1. i \in 1..m /\ i \in 0..n
    OBVIOUS
  <2>2. f[i] = 2 * f[i - 1] /\ g[i] = 2 * g[i - 1]
    BY <2>1 DEF Doublings
  <2> QED BY <1>2, <2>1, <2>2
<1>3. 0..n \subseteq S
  <2> HIDE DEF S
  <2> QED BY <1>1, <1>2, UpTo
<1> QED BY <1>3

LEMMA Pow2Unfolds ==
  /\ Pow2[0] = 1
  /\ \A n \in Nat : Pow2[n] \in Nat \ {0} /\ Pow2[n + 1] = 2 * Pow2[n]
<1> DEFINE f(n) == CHOOSE x : Doublings(x, n)
           h == [n \in Nat |-> f(n)[n]]
           P(g) == g = [n \in Nat |-> IF n = 0 THEN 1 ELSE 2 * g[n - 1]]
<1>1. \A n \in Nat : Doublings(f(n), n)
  BY DoublingsExist
<1>2. \A n \in Nat : h[n] = f(n)[n]
  OBVIOUS
<1>3. h = [n \in Nat |-> h[n]]
  OBVIOUS
<1> HIDE DEF f, h
<1>4. ASSUME NEW n \in Nat
      PROVE  h[n] = IF n = 0 THEN 1 ELSE 2 * h[n - 1]
  <2>1. CASE n = 0
    BY <1>1, <1>2, <2>1 DEF Doublings
  <2>2. CASE n # 0
    <3>1. n - 1 \in Nat /\ n - 1 <= n /\ n \in 1..n
      BY <2>2
    <3>2. f(n)[n] = 2 * f(n)[n - 1]
      BY <1>1, <3>1 DEF Doublings
    <3>3. f(n - 1)[n - 1] = f(n)[n - 1]
      BY <1>1, <3>1, DoublingsAgree
    <3> QED BY <1>2, <2>2, <3>1, <3>2, <3>3
  <2> QED BY <2>1, <2>2
<1>5. P(h)
  BY <1>3, <1>4, Zenon
<1>6. Pow2 = CHOOSE g : P(g)
  BY DEF Pow2
<1> HIDE DEF P
<1>7. P(Pow2)
  BY <1>5, <1>6, Zenon
<1>8. \A n \in Nat : Pow2[n] = IF n = 0 THEN 1 ELSE 2 * Pow2[n - 1]
  BY <1>7, Zenon DEF P
<1>9. Pow2[0] = 1
  BY <1>8
<1>10. \A n \in Nat : Pow2[n + 1] = 2 * Pow2[n]
  <2> SUFFICES ASSUME NEW n \in Nat
               PROVE  Pow2[n + 1] = 2 * Pow2[n]
    OBVIOUS
  <2>1. n + 1 \in Nat /\ n + 1 # 0 /\ (n + 1) - 1 = n
    OBVIOUS
  <2>2. Pow2[n + 1] = 2 * Pow2[(n + 1) - 1]
    BY <1>8, <2>1
  <2> QED BY <2>1, <2>2
<1>11. ASSUME NEW n \in Nat
       PROVE  Pow2[n] \in Nat \ {0}
  <2> DEFINE S == {i \in 0..n : Pow2[i] \in Nat \ {0}}
  <2>1. 0 \in S
    BY <1>9
  <2>2. ASSUME NEW i \in 1..n, i - 1 \in S
        PROVE  i \in S
    <3>1. i - 1 \in Nat /\ (i - 1) + 1 = i /\ i \in 0..n /\ Pow2[i - 1] \in Nat \ {0}
      BY <2>2
    <3>2. Pow2[i] = 2 * Pow2[i - 1]
      BY <1>10, <3>1
    <3> QED BY <3>1, <3>2
  <2>3. 0..n \subseteq S
    <3> HIDE DEF S
    <3> QED BY <2>1, <2>2, UpTo
  <2> QED BY <2>3
<1> QED BY <1>9, <1>10, <1>11

\* Two to a power is above it, grows with it, and multiplies by adding up.
LEMMA Pow2Above ==
  ASSUME NEW n \in Nat
  PROVE  n < Pow2[n]
<1> DEFINE S == {i \in 0..n : i < Pow2[i]}
<1>1. 0 \in S
  BY Pow2Unfolds
<1>2. ASSUME NEW i \in 1..n, i - 1 \in S
      PROVE  i \in S
  <2>1. i - 1 \in Nat /\ (i - 1) + 1 = i /\ i \in 0..n /\ i - 1 < Pow2[i - 1]
    BY <1>2
  <2>2. Pow2[i] = 2 * Pow2[i - 1] /\ Pow2[i - 1] \in Nat
    BY <2>1, Pow2Unfolds
  <2> QED BY <2>1, <2>2
<1>3. 0..n \subseteq S
  <2> HIDE DEF S
  <2> QED BY <1>1, <1>2, UpTo
<1> QED BY <1>3

LEMMA Pow2Adds ==
  ASSUME NEW m \in Nat, NEW n \in Nat
  PROVE  Pow2[m + n] = Pow2[m] * Pow2[n]
<1> DEFINE S == {i \in 0..n : Pow2[m + i] = Pow2[m] * Pow2[i]}
           p == Pow2[m]
<1>1. p \in Nat /\ Pow2[m + 0] = p /\ Pow2[0] = 1
  BY Pow2Unfolds
<1>2. 0 \in S
  BY <1>1
<1>3. ASSUME NEW i \in 1..n, i - 1 \in S
      PROVE  i \in S
  <2> DEFINE q == Pow2[i - 1]
  <2>1. i - 1 \in Nat /\ (i - 1) + 1 = i /\ i \in 0..n
        /\ m + (i - 1) \in Nat /\ (m + (i - 1)) + 1 = m + i
    OBVIOUS
  <2>2. Pow2[m + (i - 1)] = p * q
    BY <1>3
  <2>3. Pow2[i] = 2 * q /\ q \in Nat
    BY <2>1, Pow2Unfolds
  <2>4. Pow2[m + i] = 2 * Pow2[m + (i - 1)]
    BY <2>1, Pow2Unfolds
  <2> HIDE DEF p, q
  <2>5. 2 * (p * q) = p * (2 * q)
    BY <1>1, <2>3
  <2>6. Pow2[m + i] = p * Pow2[i]
    BY <2>2, <2>3, <2>4, <2>5
  <2> QED BY <2>1, <2>6 DEF p
<1>4. 0..n \subseteq S
  <2> HIDE DEF S
  <2> QED BY <1>2, <1>3, UpTo
<1> QED BY <1>4

LEMMA Pow2Grows ==
  ASSUME NEW m \in Nat, NEW n \in Nat, m <= n
  PROVE  Pow2[m] <= Pow2[n]
<1> DEFINE e == n - m
           p == Pow2[m]
           q == Pow2[e]
<1>1. e \in Nat /\ m + e = n
  OBVIOUS
<1>2. Pow2[n] = p * q
  BY <1>1, Pow2Adds
<1>3. p \in Nat /\ q \in Nat /\ 1 <= q
  BY <1>1, Pow2Unfolds
<1> HIDE DEF p, q
<1>4. 1 * p <= q * p
  BY <1>3, ProductsGrow
<1>5. 1 * p = p /\ q * p = p * q
  BY <1>3
<1> QED BY <1>2, <1>4, <1>5 DEF p

-----------------------------------------------------------------------------
(***************************************************************************)
(* The bits of a number: what is halved away, with the bits so far, is the *)
(* number; and after as many halvings as it says nothing is left.          *)
(***************************************************************************)
Halved(e, s) ==
  /\ e \in [0..s -> Nat]
  /\ e[0] = s
  /\ \A i \in 1..s : e[i] = e[i - 1] \div 2

LEMMA Halves ==
  ASSUME NEW a \in Nat
  PROVE  /\ a \div 2 \in Nat
         /\ (a % 2) \in {0, 1}
         /\ a = 2 * (a \div 2) + (a % 2)
<1>1. a \div 2 \in Int /\ (a % 2) \in 0..1 /\ a = (a \div 2) * 2 + (a % 2)
  <2>1. a \in Int /\ 2 \in Nat \ {0} /\ 2 - 1 = 1
    OBVIOUS
  <2>2. a \div 2 \in Int /\ (a % 2) \in 0 .. 2 - 1 /\ a = (a \div 2) * 2 + (a % 2)
    BY <2>1, FloorDivision, Zenon
  <2> QED BY <2>1, <2>2
<1>2. a \div 2 \in Nat
  BY WholeAndRest
<1> DEFINE q == a \div 2
           r == a % 2
<1> HIDE DEF q, r
<1>3. q \in Nat /\ r \in 0..1 /\ a = q * 2 + r
  BY <1>1, <1>2 DEF q, r
<1>4. r \in {0, 1} /\ a = 2 * q + r
  BY <1>3
<1>5. (a % 2) \in {0, 1}
  BY <1>4 DEF r
<1>6. a = 2 * (a \div 2) + (a % 2)
  BY <1>4 DEF q, r
<1> QED BY <1>2, <1>5, <1>6, Zenon

LEMMA TakenByHalving ==
  ASSUME NEW s \in Nat
  PROVE  \E e : Halved(e, s) /\ PowersTaken(s) = {i \in 0..s : e[i] % 2 = 1}
<1> DEFINE step == [i \in 1..s |-> [x \in Nat |-> x \div 2]]
           D == Nat
           P(g) == g = [i \in 0..s |-> IF i = 0 THEN s ELSE g[i - 1] \div 2]
<1>1. step \in [1..s -> [D -> D]]
  <2>1. \A x \in Nat : x \div 2 \in Nat
    BY Halves
  <2> QED BY <2>1
<1>2. \A i \in 1..s : \A x \in Nat : step[i][x] = x \div 2
  OBVIOUS
<1> HIDE DEF step
<1>3. PICK f : f \in [0..s -> Nat] /\ f[0] = s /\ \A i \in 1..s : f[i] = step[i][f[i - 1]]
  <2>1. s \in D
    OBVIOUS
  <2> HIDE DEF D
  <2>2. \E f : Climbs(f, s, D, s, step)
    BY <1>1, <2>1, StepsExist
  <2> QED BY <2>2 DEF Climbs, D
<1>4. \A i \in 0..s : f[i] = IF i = 0 THEN s ELSE f[i - 1] \div 2
  <2> SUFFICES ASSUME NEW i \in 0..s
               PROVE  f[i] = IF i = 0 THEN s ELSE f[i - 1] \div 2
    OBVIOUS
  <2>1. CASE i = 0
    BY <1>3, <2>1
  <2>2. CASE i # 0
    <3>1. i \in 1..s /\ f[i - 1] \in Nat
      BY <1>3, <2>2
    <3> QED BY <1>2, <1>3, <2>2, <3>1
  <2> QED BY <2>1, <2>2
<1>5. P(f)
  <2>1. f = [i \in 0..s |-> f[i]]
    BY <1>3
  <2> QED BY <1>4, <2>1, Zenon
<1> DEFINE e == CHOOSE g : P(g)
<1>6. PowersTaken(s) = {i \in 0..s : e[i] % 2 = 1}
  BY Zenon DEF PowersTaken
<1>7. P(e)
  <2> HIDE DEF P
  <2> QED BY <1>5
<1> HIDE DEF e
<1>8. \A i \in 0..s : e[i] = IF i = 0 THEN s ELSE e[i - 1] \div 2
  BY <1>7, Zenon
<1>9. e[0] = s /\ \A i \in 1..s : e[i] = e[i - 1] \div 2
  <2>1. 0 \in 0..s /\ \A i \in 1..s : i \in 0..s /\ i # 0
    OBVIOUS
  <2> QED BY <1>8, <2>1
<1>10. e \in [0..s -> Nat]
  <2> DEFINE S == {i \in 0..s : e[i] \in Nat}
  <2>1. 0 \in S
    BY <1>9
  <2>2. ASSUME NEW i \in 1..s, i - 1 \in S
        PROVE  i \in S
    <3>1. e[i - 1] \in Nat /\ i \in 0..s
      BY <2>2
    <3>2. e[i - 1] \div 2 \in Nat
      BY <3>1, Halves
    <3> QED BY <1>9, <3>1, <3>2
  <2>3. 0..s \subseteq S
    <3> HIDE DEF S
    <3> QED BY <2>1, <2>2, UpTo
  <2>4. e = [i \in 0..s |-> e[i]]
    BY <1>7, <1>8, Zenon
  <2> QED BY <2>3, <2>4
<1>11. Halved(e, s)
  BY <1>9, <1>10 DEF Halved
<1> QED BY <1>6, <1>11

LEMMA BitsAddUp ==
  ASSUME NEW s \in Nat
  PROVE  /\ PowersTaken(s) \in SUBSET (0..s)
         /\ Total(Pow2, PowersTaken(s), s + 1) = s
         /\ \A i \in PowersTaken(s) : Pow2[i] <= s
<1> DEFINE T == PowersTaken(s)
           n == s + 1
<1>1. PICK e : Halved(e, s) /\ T = {i \in 0..s : e[i] % 2 = 1}
  BY TakenByHalving
<1> HIDE DEF T
<1>2. n \in Nat /\ \A i \in 0..n - 1 : Pow2[i] \in Nat
  BY Pow2Unfolds
<1>3. PICK u : Sums(u, Pow2, T, n)
  <2> HIDE DEF n
  <2> QED BY <1>2, SumsExist
<1>4. Total(Pow2, T, n) = u[n]
  <2> HIDE DEF n
  <2> QED BY <1>2, <1>3, TotalIs
<1> DEFINE S == {i \in 0..s : s = e[i] * Pow2[i] + u[i]}
<1>5. /\ \A i \in 0..s : e[i] \in Nat /\ u[i] \in Nat /\ Pow2[i] \in Nat \ {0}
      /\ e[0] = s /\ u[0] = 0 /\ Pow2[0] = 1
  <2>1. e \in [0..s -> Nat] /\ e[0] = s
    BY <1>1 DEF Halved
  <2>2. u \in [0..n -> Nat] /\ u[0] = 0
    BY <1>3 DEF Sums
  <2>3. \A i \in 0..s : i \in 0..n /\ i \in Nat
    OBVIOUS
  <2>4. \A i \in 0..s : Pow2[i] \in Nat \ {0}
    BY <2>3, Pow2Unfolds
  <2>5. \A i \in 0..s : u[i] \in Nat
    <3> HIDE DEF n
    <3> QED BY <2>2, <2>3
  <2> QED BY <2>1, <2>2, <2>4, <2>5, Pow2Unfolds
<1>6. 0 \in S
  BY <1>5
<1>7. ASSUME NEW i \in 1..s, i - 1 \in S
      PROVE  i \in S
  <2> DEFINE a == e[i - 1]
             q == a \div 2
             r == a % 2
             p == Pow2[i - 1]
             w == u[i - 1]
  <2>1. i - 1 \in 0..s /\ i - 1 \in Nat /\ (i - 1) + 1 = i /\ i \in 0..s /\ i \in 1..n
    OBVIOUS
  <2>2. a \in Nat /\ w \in Nat /\ p \in Nat
    BY <1>5, <2>1
  <2>3. q \in Nat /\ r \in {0, 1} /\ a = 2 * q + r
    <3> HIDE DEF a
    <3> QED BY <2>2, Halves, Zenon
  <2>4. e[i] = q /\ Pow2[i] = 2 * p
    BY <1>1, <2>1, Pow2Unfolds DEF Halved
  <2>5. u[i] = IF r = 1 THEN w + p ELSE w
    BY <1>1, <1>3, <2>1 DEF Sums
  <2>6. s = a * p + w
    BY <1>7
  <2> HIDE DEF a, q, r, p, w
  <2>7. a * p = q * (2 * p) + r * p
    BY <2>2, <2>3
  <2>8. u[i] = w + r * p
    <3>1. CASE r = 1
      BY <2>2, <2>5, <3>1
    <3>2. CASE r = 0
      BY <2>2, <2>5, <3>2
    <3> QED BY <2>3, <3>1, <3>2
  <2>9. s = q * (2 * p) + u[i]
    <3> DEFINE x == q * (2 * p)
               y == r * p
    <3>1. x \in Int /\ y \in Int
      BY <2>2, <2>3
    <3>2. s = (x + y) + w /\ u[i] = w + y
      BY <2>6, <2>7, <2>8
    <3> HIDE DEF x, y
    <3>3. s = x + u[i]
      BY <2>2, <3>1, <3>2
    <3> QED BY <3>3 DEF x
  <2> QED BY <2>1, <2>4, <2>9
<1>8. \A i \in 0..s : s = e[i] * Pow2[i] + u[i]
  <2>1. 0..s \subseteq S
    <3> HIDE DEF S
    <3> QED BY <1>6, <1>7, UpTo
  <2> QED BY <2>1
<1> HIDE DEF S
<1>9. \A i \in T : Pow2[i] <= s
  <2> SUFFICES ASSUME NEW i \in T
               PROVE  Pow2[i] <= s
    OBVIOUS
  <2> DEFINE a == e[i]
             p == Pow2[i]
             w == u[i]
  <2>1. i \in 0..s /\ a % 2 = 1
    BY <1>1
  <2>2. a \in Nat /\ p \in Nat /\ w \in Nat /\ s = a * p + w
    BY <1>5, <1>8, <2>1
  <2> HIDE DEF p, w
  <2>3. 1 <= a
    <3>1. a # 0
      <4>1. 0 % 2 = 0
        OBVIOUS
      <4> QED BY <2>1, <4>1
    <3> HIDE DEF a
    <3> QED BY <2>2, <3>1
  <2> HIDE DEF a
  <2>4. 1 * p <= a * p
    BY <2>2, <2>3, ProductsGrow
  <2>5. 1 * p = p /\ a * p \in Nat
    BY <2>2
  <2>6. p <= s
    BY <2>2, <2>4, <2>5
  <2> QED BY <2>6 DEF p
<1>10. e[s] = 0
  <2> DEFINE a == e[s]
             p == Pow2[s]
             w == u[s]
  <2>1. a \in Nat /\ p \in Nat /\ w \in Nat /\ s = a * p + w /\ s < p
    BY <1>5, <1>8, Pow2Above
  <2> HIDE DEF p, w, a
  <2>2. ASSUME a # 0
        PROVE  FALSE
    <3>1. 1 * p <= a * p
      BY <2>1, <2>2, ProductsGrow
    <3>2. 1 * p = p /\ a * p \in Nat
      BY <2>1
    <3> QED BY <2>1, <3>1, <3>2
  <2> QED BY <2>2 DEF a
<1>11. u[s] = s /\ s \notin T
  <2>1. s = 0 * Pow2[s] + u[s] /\ u[s] \in Nat /\ Pow2[s] \in Nat
    BY <1>5, <1>8, <1>10
  <2>2. 0 % 2 # 1
    OBVIOUS
  <2> QED BY <1>1, <1>10, <2>1, <2>2
<1>12. u[n] = s
  <2>1. n \in 1..n /\ n - 1 = s
    OBVIOUS
  <2>2. u[n] = IF n - 1 \in T THEN u[n - 1] + Pow2[n - 1] ELSE u[n - 1]
    BY <1>3, <2>1 DEF Sums
  <2> HIDE DEF n
  <2> QED BY <1>11, <2>1, <2>2
<1>13. T \in SUBSET (0..s)
  BY <1>1
<1> QED BY <1>4, <1>9, <1>12, <1>13 DEF T

-----------------------------------------------------------------------------
(***************************************************************************)
(* The digits of a number, window by window: what lies above a window,     *)
(* with the digits so far, is the number.                                  *)
(***************************************************************************)
At2(w) == Pow2[w * WindowBits]

\* u is the rest of s below p.
Below(s, p, u) == u \in 0 .. p - 1 /\ s = (s \div p) * p + u

WindowDigit(s, p, b) == (s \div p) % b

LEMMA WindowsStep ==
  ASSUME NEW s \in Nat, NEW p \in Nat \ {0}, NEW b \in Nat \ {0}, NEW u, Below(s, p, u)
  PROVE  Below(s, p * b, u + WindowDigit(s, p, b) * p)
<1> DEFINE a == s \div p
           q == a \div b
           d == WindowDigit(s, p, b)
           c == p * b
           r == u + d * p
<1>1. a \in Nat /\ s = a * p + u /\ d = a % b /\ u \in 0 .. p - 1
  BY WholeAndRest DEF Below, WindowDigit
<1> HIDE DEF a, d
<1>2. q \in Nat /\ d \in 0 .. b - 1 /\ a = q * b + d
  <2>1. q \in Nat /\ \E x \in 0 .. b - 1 : a % b = x /\ a = (a \div b) * b + x
    BY <1>1, RestOfDivision
  <2>2. PICK x \in 0 .. b - 1 : a % b = x /\ a = q * b + x
    BY <2>1
  <2>3. d = x
    BY <1>1, <2>2, Zenon
  <2> HIDE DEF q
  <2> QED BY <2>1, <2>2, <2>3
<1> HIDE DEF q
<1>3. c \in Nat \ {0}
  BY ProductsGrow
<1>4. d * p \in Nat /\ d * p <= c - p
  <2>1. d \in Int /\ d <= b - 1 /\ b - 1 \in Int /\ p \in Nat /\ d \in Nat
    BY <1>2
  <2>2. d * p <= (b - 1) * p
    BY <2>1, ProductsGrow
  <2>3. (b - 1) * p = p * b - p /\ d * p \in Nat
    BY <2>1
  <2> QED BY <2>2, <2>3
<1>5. a * p = q * c + d * p
  BY <1>2
<1>6. q * c \in Nat
  <2> HIDE DEF c
  <2> QED BY <1>2, <1>3
<1> DEFINE x == d * p
           y == q * c
<1>7. r \in 0 .. c - 1 /\ s = y + r
  <2>1. x \in Nat /\ x <= c - p /\ y \in Nat /\ s = (y + x) + u /\ r = u + x
        /\ u \in 0 .. p - 1
    BY <1>1, <1>4, <1>5, <1>6
  <2> HIDE DEF x, y, c, r
  <2> QED BY <1>3, <2>1
<1> HIDE DEF r, c
<1>8. s \div c = q
  <2>1. (q * c + r) \div c = q
    BY <1>2, <1>3, <1>7, WholeIsUnique
  <2> QED BY <1>7, <2>1
<1>9. s = (s \div c) * c + r
  BY <1>7, <1>8
<1> QED BY <1>7, <1>9 DEF Below, c, d, r

LEMMA DigitsAddUp ==
  ASSUME NEW s \in Nat, s < At2(Windows), NEW v,
         \A w \in 0..Windows - 1 : v[w] = WindowsTaken(s)[w] * At2(w)
  PROVE  /\ \A w \in 0..Windows - 1 : v[w] \in Nat
         /\ Total(v, 0..Windows - 1, Windows) = s
<1> DEFINE n == Windows
           T == 0..n - 1
           b == Pow2[WindowBits]
           P(w) == At2(w)
<1>1. n \in Nat /\ WindowBits \in Nat
  BY AmountsAssumption
<1>2. b \in Nat \ {0}
  BY <1>1, Pow2Unfolds
<1>3. \A w \in 0..n : P(w) \in Nat \ {0}
  <2>1. \A w \in 0..n : w * WindowBits \in Nat
    BY <1>1
  <2> QED BY <2>1, Pow2Unfolds DEF At2
<1>4. P(0) = 1
  <2>1. 0 * WindowBits = 0
    BY <1>1
  <2> QED BY <2>1, Pow2Unfolds DEF At2
<1>5. \A w \in 1..n : P(w) = P(w - 1) * b
  <2> SUFFICES ASSUME NEW w \in 1..n
               PROVE  P(w) = P(w - 1) * b
    OBVIOUS
  <2>1. (w - 1) * WindowBits \in Nat /\ (w - 1) * WindowBits + WindowBits = w * WindowBits
    BY <1>1
  <2>2. Pow2[(w - 1) * WindowBits + WindowBits] = Pow2[(w - 1) * WindowBits] * b
    BY <1>1, <2>1, Pow2Adds
  <2> QED BY <2>1, <2>2 DEF At2
<1>6. \A w \in T : v[w] = ((s \div P(w)) % b) * P(w)
  <2>1. \A w \in T : WindowsTaken(s)[w] = (s \div P(w)) % b
    BY DEF WindowsTaken, At2
  <2> QED BY <2>1
<1>7. s < P(n)
  OBVIOUS
<1> HIDE DEF n, b, P
<1>8. \A w \in T : v[w] \in Nat
  <2> SUFFICES ASSUME NEW w \in T
               PROVE  v[w] \in Nat
    OBVIOUS
  <2> DEFINE p == P(w)
             a == s \div p
             d == a % b
  <2>1. p \in Nat \ {0}
    BY <1>1, <1>3
  <2>2. a \in Nat
    <3> HIDE DEF p
    <3> QED BY <2>1, WholeAndRest
  <2> HIDE DEF a
  <2>3. d \in Nat
    BY <1>2, <2>2, RestOfDivision
  <2>4. v[w] = d * p
    BY <1>6 DEF a
  <2> HIDE DEF d, p
  <2> QED BY <2>1, <2>3, <2>4
<1>9. PICK u : Sums(u, v, T, n)
  <2> HIDE DEF T
  <2>1. \A i \in 0..n - 1 : v[i] \in Nat
    BY <1>8 DEF T
  <2> QED BY <1>1, <2>1, SumsExist
<1>10. Total(v, T, n) = u[n]
  <2> HIDE DEF T
  <2>1. \A i \in 0..n - 1 : v[i] \in Nat
    BY <1>8 DEF T
  <2> QED BY <1>1, <1>9, <2>1, TotalIs
<1> DEFINE Stands(w) == Below(s, P(w), u[w])
           S == {w \in 0..n : Stands(w)}
<1>11. 0 \in S
  <2>1. u[0] = 0
    BY <1>9 DEF Sums
  <2>2. s \div 1 = s
    <3>1. (s * 1 + 0) \div 1 = s
      <4>1. 0 \in 0 .. 1 - 1 /\ s \in Int /\ 1 \in Nat \ {0}
        OBVIOUS
      <4> QED BY <4>1, WholeIsUnique
    <3> QED BY <3>1
  <2>3. Stands(0)
    BY <1>4, <2>1, <2>2 DEF Below
  <2> HIDE DEF Stands
  <2> QED BY <1>1, <2>3
<1>12. ASSUME NEW w \in 1..n, w - 1 \in S
       PROVE  w \in S
  <2> DEFINE p == P(w - 1)
             d == WindowDigit(s, p, b)
             x == u[w - 1]
  <2>1. w - 1 \in 0..n /\ w \in 0..n /\ w - 1 \in T
    BY <1>1
  <2>2. p \in Nat \ {0} /\ P(w) = p * b
    BY <1>3, <1>5, <2>1
  <2>3. Below(s, p, x)
    BY <1>12
  <2>4. u[w] = x + v[w - 1] /\ v[w - 1] = d * p
    BY <1>6, <1>9, <2>1 DEF Sums, WindowDigit
  <2> HIDE DEF p, x
  <2>5. Below(s, p * b, x + d * p)
    BY <1>2, <2>2, <2>3, WindowsStep
  <2> HIDE DEF d
  <2>6. Stands(w)
    BY <2>2, <2>4, <2>5
  <2> HIDE DEF Stands
  <2> QED BY <2>1, <2>6
<1>13. Stands(n)
  <2>1. 0..n \subseteq S
    <3> HIDE DEF S
    <3> QED BY <1>1, <1>11, <1>12, UpTo
  <2>2. n \in 0..n
    BY <1>1
  <2> HIDE DEF Stands
  <2> QED BY <2>1, <2>2
<1>14. u[n] = s
  <2> DEFINE p == P(n)
  <2>1. p \in Nat \ {0} /\ s < p
    BY <1>1, <1>3, <1>7
  <2>2. s = (s \div p) * p + u[n]
    BY <1>13 DEF Below
  <2> HIDE DEF p
  <2>3. s \div p = 0
    <3>1. s \in 0 .. p - 1 /\ 0 \in Int /\ 0 * p + s = s
      BY <2>1
    <3>2. (0 * p + s) \div p = 0
      BY <2>1, <3>1, WholeIsUnique
    <3> QED BY <3>1, <3>2
  <2>4. u[n] \in Int
    BY <1>13, <2>1 DEF p, Below
  <2>5. 0 * p = 0
    BY <2>1
  <2> QED BY <2>2, <2>3, <2>4, <2>5
<1> QED BY <1>8, <1>10, <1>14 DEF n

-----------------------------------------------------------------------------
\* The sums of the property are totals.
LEMMA BitsAreTotal ==
  ASSUME NEW n \in Nat, NEW T \in SUBSET (0..n - 1)
  PROVE  MapThenSumSet(LAMBDA i : Pow2[i], T) = Total(Pow2, T, n)
<1> DEFINE By(g) == [s \in SUBSET T |->
                       IF s = {} THEN 0
                       ELSE Pow2[CHOOSE x \in s : TRUE] + g[s \ {CHOOSE x \in s : TRUE}]]
           h == [s \in SUBSET T |-> Total(Pow2, s, n)]
           c == CHOOSE g : g = By(g)
<1>1. MapThenSumSet(LAMBDA i : Pow2[i], T) = c[T]
  BY Zenon DEF MapThenSumSet, MapThenFoldSet
<1>2. \A i \in 0..n - 1 : Pow2[i] \in Nat
  BY Pow2Unfolds
<1>3. TakesOut(h, Pow2, T)
  BY <1>2, TakingOutWorks
<1>4. h = By(h)
  <2>1. h = [s \in SUBSET T |-> h[s]]
    OBVIOUS
  <2> HIDE DEF h
  <2> QED BY <1>3, <2>1, Zenon DEF TakesOut
<1>5. c = By(c)
  <2> HIDE DEF By, h
  <2> QED BY <1>4
<1> HIDE DEF c
<1>6. TakesOut(c, Pow2, T)
  BY <1>5, Zenon DEF TakesOut
<1> QED BY <1>1, <1>2, <1>6, TakingOutIsTotal

LEMMA DigitsAreTotal ==
  ASSUME NEW n \in Nat, NEW digits, DOMAIN digits = 0..n - 1, NEW v,
         \A w \in 0..n - 1 : v[w] \in Nat /\ v[w] = digits[w] * At2(w)
  PROVE  MapThenSumSet(LAMBDA w : digits[w] * Pow2[w * WindowBits], DOMAIN digits)
           = Total(v, 0..n - 1, n)
<1> DEFINE T == 0..n - 1
           Of(w) == digits[w] * Pow2[w * WindowBits]
           By(g) == [s \in SUBSET T |->
                       IF s = {} THEN 0
                       ELSE Of(CHOOSE x \in s : TRUE) + g[s \ {CHOOSE x \in s : TRUE}]]
           h == [s \in SUBSET T |-> Total(v, s, n)]
           c == CHOOSE g : g = By(g)
<1>1. MapThenSumSet(LAMBDA w : digits[w] * Pow2[w * WindowBits], DOMAIN digits) = c[T]
  BY Zenon DEF MapThenSumSet, MapThenFoldSet
<1>2. \A w \in T : v[w] = Of(w) /\ v[w] \in Nat
  BY DEF At2
<1> HIDE DEF Of
<1>3. \A s \in SUBSET T : s # {} => v[CHOOSE x \in s : TRUE] = Of(CHOOSE x \in s : TRUE)
  <2> SUFFICES ASSUME NEW s \in SUBSET T, s # {}
               PROVE  v[CHOOSE x \in s : TRUE] = Of(CHOOSE x \in s : TRUE)
    OBVIOUS
  <2> DEFINE x == CHOOSE x \in s : TRUE
  <2>1. x \in s
    OBVIOUS
  <2> HIDE DEF x
  <2>2. v[x] = Of(x)
    BY <1>2, <2>1
  <2> QED BY <2>2 DEF x
<1>4. TakesOut(h, v, T)
  <2>1. \A i \in 0..n - 1 : v[i] \in Nat
    BY <1>2
  <2> QED BY <2>1, TakingOutWorks
<1>5. h = By(h)
  <2>1. h = [s \in SUBSET T |-> h[s]]
    OBVIOUS
  <2> HIDE DEF h, T
  <2>2. \A s \in SUBSET T : h[s] = IF s = {} THEN 0
                                   ELSE Of(CHOOSE x \in s : TRUE) + h[s \ {CHOOSE x \in s : TRUE}]
    BY <1>3, <1>4, Zenon DEF TakesOut
  <2> QED BY <2>1, <2>2, Zenon
<1>6. c = By(c)
  <2> HIDE DEF By, h
  <2> QED BY <1>5
<1> HIDE DEF c
<1>7. TakesOut(c, v, T)
  <2> HIDE DEF T
  <2>1. \A s \in SUBSET T : c[s] = IF s = {} THEN 0
                                   ELSE Of(CHOOSE x \in s : TRUE) + c[s \ {CHOOSE x \in s : TRUE}]
    BY <1>6, Zenon
  <2> QED BY <1>3, <2>1, Zenon DEF TakesOut
<1>8. c[T] = Total(v, T, n)
  <2>1. (\A i \in 0..n - 1 : v[i] \in Nat) /\ T \in SUBSET (0..n - 1)
    BY <1>2
  <2> HIDE DEF T
  <2> QED BY <1>7, <2>1, TakingOutIsTotal
<1> QED BY <1>1, <1>8

\* Years, and what is left of them.
LEMMA YearsAndRest ==
  ASSUME NEW duration \in Int
  PROVE  LET rest == duration - YearsOf(duration) * Year
         IN  /\ duration < 0 => YearsOf(duration) = 0 /\ Magnitude(rest) = -duration
             /\ duration >= 0 => /\ rest \in Nat /\ rest < Year /\ Magnitude(rest) = rest
                                 /\ duration = YearsOf(duration) * Year + rest
             /\ YearsOf(duration) * Year \in Int
<1>1. Year \in Nat \ {0}
  BY AmountsAssumption
<1>2. CASE duration >= Year
  <2> DEFINE q == duration \div Year
             x == q * Year
  <2>1. YearsOf(duration) = q /\ duration \in Nat
    BY <1>1, <1>2 DEF YearsOf
  <2>2. x \in Nat /\ x <= duration /\ duration < x + Year
    BY <1>1, <2>1, WholeAndRest
  <2> HIDE DEF q
  <2> DEFINE rest == duration - x
  <2> HIDE DEF x
  <2>3. rest \in Nat /\ rest < Year /\ Magnitude(rest) = rest /\ duration = x + rest
    BY <1>1, <2>1, <2>2 DEF Magnitude
  <2> QED BY <1>1, <2>1, <2>2, <2>3, <1>2 DEF x
<1>3. CASE duration < Year
  <2>1. YearsOf(duration) = 0 /\ YearsOf(duration) * Year = 0 /\ duration - 0 = duration
    BY <1>1, <1>3 DEF YearsOf
  <2> QED BY <1>1, <1>3, <2>1 DEF Magnitude
<1> QED BY <1>1, <1>2, <1>3

(***************************************************************************)
(* grdd_unit_calculate_decay multiplies by exactly the factors of its      *)
(* duration, bit by bit and window by window, with the whole years halved: *)
(* nothing is left out, nothing counted twice, and no entry past the table *)
(* is read, for every length of a year that the tables reach.              *)
(***************************************************************************)
THEOREM FactorsOfTheSpan == AmountsSpec => []FactorsMakeUpTheSpan
<1>1. AmountsInv => FactorsMakeUpTheSpan
  <2> SUFFICES ASSUME AmountsInv, Asks("decay")
               PROVE  FactorsMakeUpTheSpan
    BY DEF FactorsMakeUpTheSpan
  <2> DEFINE duration == question.duration
             decay    == CalculateDecay(duration)
             windowed == CalculateDecayWindowed(duration)
             years    == YearsOf(duration)
             whole    == decay.halvings * Year
             rest     == duration - years * Year
             seconds  == Magnitude(rest)
             taken    == decay.powers
             digits   == windowed.digits
             byBits   == MapThenSumSet(LAMBDA i : Pow2[i], taken)
             byDigits == MapThenSumSet(LAMBDA w : digits[w] * Pow2[w * WindowBits], DOMAIN digits)
  <2>1. duration \in Int
    <3>1. PICK x \in Durations : question = [kind |-> "decay", duration |-> x]
      BY DEF AmountsInv, Asks, NoQuestion
    <3> QED BY <3>1, QuestionsAssumption
  <2>2. /\ decay.halvings = years /\ taken = PowersTaken(seconds)
        /\ windowed.halvings = years /\ digits = WindowsTaken(rest)
    BY DEF CalculateDecay, CalculateDecayWindowed
  <2> SUFFICES /\ duration > -Pow2[Powers] => taken \subseteq 0..Powers - 1
               /\ duration = IF duration < 0 THEN -byBits ELSE whole + byBits
               /\ duration >= 0 => duration = windowed.halvings * Year + byDigits
    BY DEF FactorsMakeUpTheSpan
  <2> HIDE DEF duration, decay, windowed
  <2>3. whole = years * Year /\ windowed.halvings * Year = whole
    BY <2>2
  <2>4. /\ duration < 0 => years = 0 /\ seconds = -duration
        /\ duration >= 0 => rest \in Nat /\ rest < Year /\ seconds = rest /\ duration = whole + rest
        /\ whole \in Int
    BY <2>1, <2>3, YearsAndRest
  <2> HIDE DEF years, whole, rest, seconds
  <2>5. seconds \in Nat
    BY <2>1, <2>4
  <2>6. /\ taken \in SUBSET (0..seconds)
        /\ Total(Pow2, taken, seconds + 1) = seconds
        /\ \A i \in taken : Pow2[i] <= seconds
    BY <2>2, <2>5, BitsAddUp
  <2> HIDE DEF taken
  <2>7. byBits = seconds
    <3> DEFINE n == seconds + 1
    <3>1. n \in Nat /\ n - 1 = seconds
      BY <2>5
    <3>2. taken \in SUBSET (0..n - 1)
      BY <2>6, <3>1
    <3> HIDE DEF n
    <3>3. byBits = Total(Pow2, taken, n)
      BY <3>1, <3>2, BitsAreTotal
    <3> QED BY <2>6, <3>3 DEF n
  <2>8. ASSUME duration > -Pow2[Powers]
        PROVE  taken \subseteq 0..Powers - 1
    <3>1. Powers \in Nat /\ Pow2[Powers] \in Nat /\ Year \in Nat
      BY AmountsAssumption, Pow2Unfolds
    <3>2. seconds < Pow2[Powers]
      <4>1. CASE duration < 0
        BY <2>1, <2>4, <2>8, <3>1, <4>1
      <4>2. CASE duration >= 0
        BY <2>1, <2>4, <3>1, <4>2, TablesAssumption
      <4> QED BY <2>1, <4>1, <4>2
    <3> SUFFICES ASSUME NEW i \in taken, i \notin 0..Powers - 1
                 PROVE  FALSE
      OBVIOUS
    <3>3. i \in Nat /\ Powers <= i /\ Pow2[i] <= seconds
      BY <2>5, <2>6, <3>1
    <3>4. Pow2[Powers] <= Pow2[i] /\ Pow2[i] \in Nat
      BY <3>1, <3>3, Pow2Grows, Pow2Unfolds
    <3> QED BY <2>5, <3>1, <3>2, <3>3, <3>4
  <2>9. duration = IF duration < 0 THEN -byBits ELSE whole + byBits
    <3> HIDE DEF byBits
    <3>1. CASE duration < 0
      BY <2>1, <2>4, <2>7, <3>1
    <3>2. CASE duration >= 0
      BY <2>1, <2>4, <2>7, <3>2
    <3> QED BY <2>1, <3>1, <3>2
  <2>10. ASSUME duration >= 0
        PROVE  duration = whole + byDigits
    <3> DEFINE n == Windows
               v == [w \in 0..n - 1 |-> digits[w] * At2(w)]
    <3>1. n \in Nat /\ rest \in Nat /\ rest < At2(n)
      <4>1. rest < Year /\ Year <= At2(n) /\ rest \in Nat /\ Year \in Nat /\ n \in Nat
        BY <2>4, <2>10, AmountsAssumption, TablesAssumption DEF At2
      <4>2. At2(n) \in Nat
        <5>1. Windows * WindowBits \in Nat
          BY AmountsAssumption
        <5> QED BY <5>1, Pow2Unfolds DEF At2
      <4> QED BY <4>1, <4>2
    <3>2. \A w \in 0..n - 1 : v[w] = digits[w] * At2(w)
      OBVIOUS
    <3>3. DOMAIN digits = 0..n - 1
      BY <2>2 DEF WindowsTaken
    <3> HIDE DEF v
    <3>4. (\A w \in 0..n - 1 : v[w] \in Nat) /\ Total(v, 0..n - 1, n) = rest
      BY <2>2, <3>1, <3>2, DigitsAddUp
    <3> HIDE DEF digits
    <3>5. byDigits = Total(v, 0..n - 1, n)
      <4> HIDE DEF n
      <4> QED BY <3>1, <3>2, <3>3, <3>4, DigitsAreTotal
    <3> HIDE DEF byDigits
    <3> QED BY <2>4, <2>10, <3>4, <3>5
  <2>11. ASSUME duration >= 0
         PROVE  duration = windowed.halvings * Year + byDigits
    <3> HIDE DEF byDigits
    <3> QED BY <2>3, <2>10, <2>11
  <2> HIDE DEF byBits, byDigits
  <2> QED BY <2>8, <2>9, <2>11
<1> QED BY <1>1, AmountsHold, PTL

=============================================================================
