------------------------------- MODULE Timestamp -------------------------------
(***************************************************************************)
(* grdd_timestamp: seconds in 64 bits and nanoseconds in 32, of which      *)
(* nothing on the wire says that they are a fraction of a second.          *)
(*                                                                         *)
(* The widths and the length of a second are parameters, so that the ends  *)
(* of both ranges are within reach.                                        *)
(***************************************************************************)
EXTENDS Integers

CONSTANTS
  MaxSecond,      \* INT64_MAX
  MaxNano,        \* INT32_MAX
  NanosPerSecond

ASSUME TimestampAssumption ==
  /\ MaxSecond \in Nat
  /\ MaxNano \in Nat
  /\ NanosPerSecond \in Nat \ {0}
  /\ NanosPerSecond <= MaxNano
  /\ MaxNano < 3 * NanosPerSecond
  /\ MaxSecond >= 6

MinSecond == -MaxSecond - 1

Seconds == MinSecond .. MaxSecond

Timestamps == [seconds : Seconds, nanos : (-MaxNano - 1) .. MaxNano]

\* Additions that would leave the range end at its end.
SecondsAdd(a, b) ==
  IF b > 0 /\ a > MaxSecond - b THEN MaxSecond
  ELSE IF b < 0 /\ a < MinSecond - b THEN MinSecond
  ELSE a + b

SecondsSub(a, b) ==
  IF b < 0 /\ a > MaxSecond + b THEN MaxSecond
  ELSE IF b > 0 /\ a < MinSecond + b THEN MinSecond
  ELSE a - b

\* Division as C has it, towards zero.
Quotient(a) == IF a >= 0 THEN a \div NanosPerSecond ELSE -((-a) \div NanosPerSecond)

Remainder(a) == a - Quotient(a) * NanosPerSecond

\* A slip: a negative remainder is left to stand for its absolute value.
CarryTowardsZero(nanos) == Quotient(nanos)

\* A negative remainder still owes a whole second.
Carry(nanos) == IF Remainder(nanos) < 0 THEN Quotient(nanos) - 1 ELSE Quotient(nanos)

Rest(nanos) ==
  IF Remainder(nanos) < 0 THEN Remainder(nanos) + NanosPerSecond ELSE Remainder(nanos)

Normalize(seconds, nanos) ==
  [seconds |-> SecondsAdd(seconds, Carry(nanos)), nanos |-> Rest(nanos)]

Minus(t1, t2) == Normalize(SecondsSub(t1.seconds, t2.seconds), t1.nanos - t2.nanos)

Plus(t1, t2) == Normalize(SecondsAdd(t1.seconds, t2.seconds), t1.nanos + t2.nanos)

-----------------------------------------------------------------------------
\* The point in time, or the span, that a timestamp stands for.
Instant(t) == t.seconds * NanosPerSecond + t.nanos

IsFraction(nanos) == nanos \in 0 .. NanosPerSecond - 1

=============================================================================
