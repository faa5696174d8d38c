-------------------------------- MODULE Amounts --------------------------------
(***************************************************************************)
(* grdd_unit: amounts as integers, so and so many ten-thousandths.         *)
(* Rounding, printing, reading, the span of time decay is counted for, and *)
(* which factors its decay is put together from.                           *)
(*                                                                         *)
(* Decimal places and width are parameters.  A text is what a parser sees  *)
(* in it: its signs, its digits, and whether anything follows them.        *)
(***************************************************************************)
EXTENDS Integers, Sequences, FiniteSets, FiniteSetsExt

CONSTANTS
  Places,      \* decimals of an amount: 4
  MaxUnit,     \* INT64_MAX
  Digits,      \* the most decimal digits of a magnitude: 19
  DecayStart,  \* DECAY_START_TIME
  Values, Precisions, BufferSizes,  \* what is rounded and printed, and into what
  Texts,       \* what is read
  Moments,     \* what spans of time lie between
  Year,        \* SECONDS_PER_YEAR, in which an amount halves
  MaxHalvings, \* 63, the halvings after which nothing is left
  Powers,      \* entries of DECAY_POWERS: factor i is for 2^i seconds
  WindowBits, Windows,  \* DECAY_WINDOW_FACTORS: so many digits of so many bits
  Durations    \* what decay is asked for

ASSUME AmountsAssumption ==
  /\ Places \in Nat \ {0}
  /\ MaxUnit \in Nat
  /\ Digits \in Nat /\ Places <= Digits
  /\ DecayStart \in Nat
  /\ {Year, Powers, WindowBits, Windows} \subseteq Nat \ {0}
  /\ MaxHalvings \in Nat

Pow10[n \in 0 .. Digits] == IF n = 0 THEN 1 ELSE 10 * Pow10[n - 1]

\* The magnitude of every amount, that of the smallest too, has its digits.
ASSUME DigitsAssumption == MaxUnit + 1 < Pow10[Digits]

One == Pow10[Places]

MinUnit == -MaxUnit - 1

Units == MinUnit .. MaxUnit

\* The largest integer part that is read: one below that of the largest
\* amount, whose own fraction not every one is below.
MaxInteger == MaxUnit \div One - 1

Magnitude(n) == IF n < 0 THEN -n ELSE n

Refused == [ok |-> FALSE, value |-> 0]

Result(value) == [ok |-> TRUE, value |-> value]

-----------------------------------------------------------------------------
\* A slip: the halves of negative amounts go up, not away from zero.
RoundedUp(value, divisor) == ((value + divisor \div 2) \div divisor) * divisor

\* Half away from zero, on the unsigned magnitude.
Rounded(value, divisor) ==
  LET rounded == ((Magnitude(value) + divisor \div 2) \div divisor) * divisor IN
  IF value < 0 THEN -rounded ELSE rounded

\* grdd_unit_round_to_precision.
RoundToPrecision(value, precision) ==
  IF precision > Places THEN Refused
  ELSE IF precision = Places THEN Result(value)
  ELSE LET rounded == Rounded(value, Pow10[Places - precision]) IN
       IF Magnitude(rounded) > MaxUnit THEN Refused ELSE Result(rounded)

-----------------------------------------------------------------------------
NoInteger == -1

Text ==
  [minus : BOOLEAN,                      \* read by grdd_unit_from_string
   sign : {"none", "plus", "minus"},     \* read by strtoll, once more
   integer : Nat \cup {NoInteger},
   point : BOOLEAN,
   digits : Seq(0..9),
   junk : BOOLEAN]                       \* something follows

\* strtoll stops at the end of its range.
IntegerRead(text) ==
  LET n == IF text.integer = NoInteger THEN 0 ELSE text.integer IN
  IF text.sign = "minus"
  THEN IF n > MaxUnit THEN MinUnit ELSE -n
  ELSE IF n > MaxUnit THEN MaxUnit ELSE n

Digit(text, i) == IF text.point /\ i <= Len(text.digits) THEN text.digits[i] ELSE 0

\* A slip: digits that are not there are left out, not 0.
FractionUnpadded(text) ==
  LET f[i \in 0 .. Places] ==
        IF i = 0 THEN 0
        ELSE IF i > Len(text.digits) THEN f[i - 1] ELSE f[i - 1] * 10 + Digit(text, i)
  IN  f[Places]

\* The first digits, padded with zeros.
FractionRead(text) ==
  LET f[i \in 0 .. Places] == IF i = 0 THEN 0 ELSE f[i - 1] * 10 + Digit(text, i)
  IN  f[Places]

\* A slip: a half is rounded down.
RoundsUpAbove(text) == Digit(text, Places + 1) > 5

RoundsUp(text) == Digit(text, Places + 1) >= 5

\* grdd_unit_from_string.  The one addition that can leave the range of an
\* int64_t, the carry onto the largest, is undefined there; every number it
\* can come to lies past MaxInteger on either side.
FromString(text) ==
  LET fraction == FractionRead(text) + (IF RoundsUp(text) THEN 1 ELSE 0)
      carried == fraction >= One
      integer == IntegerRead(text) + (IF carried THEN 1 ELSE 0)
      amount == IF text.minus THEN -integer * One - (IF carried THEN 0 ELSE fraction)
                ELSE integer * One + (IF carried THEN 0 ELSE fraction)
      begins == text.integer # NoInteger \/ (text.sign = "none" /\ text.point)
  IN  IF ~begins \/ text.junk \/ Magnitude(integer) > MaxInteger
      THEN Refused
      ELSE Result(amount)

-----------------------------------------------------------------------------
DigitsOf(n) == 1 + Cardinality({k \in 1 .. Digits : n >= Pow10[k]})

\* A slip: the padding to a leading zero is forgotten.
RoomUnpadded(magnitude, precision) == DigitsOf(magnitude) + 2

\* What a buffer must have room for beside the sign: without a point the
\* integer part and the terminator; with one, every decimal before they are
\* cut, the point and the terminator.
Room(magnitude, precision) ==
  IF precision = 0 THEN DigitsOf(magnitude \div One) + 1
  ELSE IF DigitsOf(magnitude) <= Places THEN Places + 3
  ELSE DigitsOf(magnitude) + 2

\* How far into the buffer the digits are written, moved and padded.
Reach(magnitude, precision) ==
  IF precision = 0 THEN DigitsOf(magnitude \div One) + 1
  ELSE LET digits == DigitsOf(magnitude)
           padded == IF digits <= Places THEN Places + 1 ELSE digits
       IN  padded + 2

\* Characters of the text.
Length(magnitude, precision) ==
  DigitsOf(magnitude \div One) + (IF precision = 0 THEN 0 ELSE 1 + precision)

Printed(amount, precision) ==
  [minus |-> amount < 0,
   sign |-> "none",
   integer |-> Magnitude(amount) \div One,
   point |-> precision > 0,
   digits |-> [i \in 1 .. precision |->
                 (Magnitude(amount) \div Pow10[Places - i]) % 10],
   junk |-> FALSE]

\* grdd_unit_to_string: what it returns, and the bytes of the buffer it has
\* written to.  The sign goes in before the size is looked at.
ToString(bufferSize, value, precision) ==
  LET places == IF precision > Places THEN Places ELSE precision
      rounded == RoundToPrecision(value, places)
      sign == IF rounded.value < 0 THEN 1 ELSE 0
      magnitude == Magnitude(rounded.value)
  IN  IF bufferSize = 0 THEN [returns |-> -1, reach |-> 0]
      ELSE IF ~rounded.ok THEN [returns |-> -2, reach |-> 0]
      ELSE IF bufferSize < sign + Room(magnitude, places)
      THEN [returns |-> sign + Room(magnitude, places) - 1, reach |-> sign]
      ELSE [returns |-> sign + Length(magnitude, places),
            reach |-> sign + Reach(magnitude, places)]

-----------------------------------------------------------------------------
\* A slip: only the beginning is clipped.
ClippedStartOnly(start, end) == end - (IF start > DecayStart THEN start ELSE DecayStart)

Clipped(start, end) ==
  LET AtLeastStart(moment) == IF moment > DecayStart THEN moment ELSE DecayStart
  IN  AtLeastStart(end) - AtLeastStart(start)

\* grdd_unit_calculate_duration_seconds.
Duration(start, end) ==
  IF start > end THEN Refused ELSE Result(Clipped(start, end))

-----------------------------------------------------------------------------
(***************************************************************************)
(* grdd_unit_calculate_decay and its windowed variant, as far as they      *)
(* choose: so many halvings for whole years, and factors out of a table,   *)
(* each for so many seconds.  The 128-bit product of the factors is not    *)
(* modelled.  A negative duration grows instead, bit by bit; the windowed  *)
(* variant leaves it to the other.                                         *)
(***************************************************************************)
Pow2[n \in Nat] == IF n = 0 THEN 1 ELSE 2 * Pow2[n - 1]

\* The tables are made for less than a year, the seconds that are left of whole ones.
ASSUME TablesAssumption ==
  /\ Year <= Pow2[Powers]
  /\ Year <= Pow2[Windows * WindowBits]

YearsOf(duration) == IF duration >= Year THEN duration \div Year ELSE 0

\* The entries of DECAY_POWERS that are multiplied: the bits of the rest, which is
\* halved until nothing is left of it.
PowersTaken(seconds) ==
  LET exp[i \in 0 .. seconds] == IF i = 0 THEN seconds ELSE exp[i - 1] \div 2
  IN  {i \in 0 .. seconds : exp[i] % 2 = 1}

\* A slip: the last window is not reached.
WindowsButOne(seconds) ==
  [w \in 0 .. Windows - 2 |-> (seconds \div Pow2[w * WindowBits]) % Pow2[WindowBits]]

\* The digits by which DECAY_WINDOW_FACTORS is read, window by window.
WindowsTaken(seconds) ==
  [w \in 0 .. Windows - 1 |-> (seconds \div Pow2[w * WindowBits]) % Pow2[WindowBits]]

AllGone(duration) == YearsOf(duration) > MaxHalvings

CalculateDecay(duration) ==
  [halvings |-> YearsOf(duration),
   powers   |-> PowersTaken(Magnitude(duration - YearsOf(duration) * Year))]

CalculateDecayWindowed(duration) ==
  [halvings |-> YearsOf(duration),
   digits   |-> WindowsTaken(duration - YearsOf(duration) * Year)]

-----------------------------------------------------------------------------
VARIABLE question  \* what is asked, of whatever kind

ASSUME QuestionsAssumption ==
  /\ Values \subseteq Units /\ Precisions \subseteq Nat /\ BufferSizes \subseteq Nat
  /\ Texts \subseteq Text
  /\ Moments \subseteq Int
  /\ Durations \subseteq Int

NoQuestion == [kind |-> "none"]

AmountsInit == question = NoQuestion

AskToPrint ==
  \E value \in Values, precision \in Precisions, size \in BufferSizes :
    question' = [kind |-> "print", value |-> value, precision |-> precision, size |-> size]

AskToRead == \E text \in Texts : question' = [kind |-> "read", text |-> text]

AskForSpans ==
  \E a, b, c \in Moments :
    question' = [kind |-> "spans", a |-> a, b |-> b, c |-> c]

AskForDecay == \E duration \in Durations : question' = [kind |-> "decay", duration |-> duration]

Ask == question = NoQuestion /\ (AskToPrint \/ AskToRead \/ AskForSpans \/ AskForDecay)

AmountsSpec == AmountsInit /\ [][Ask]_question

Asks(kind) == question.kind = kind

\* unit.h: "halfway cases are nudged away from zero" -- and an amount is
\* refused only when the nearest one is past the width.
RoundingIsNearest ==
  Asks("print") /\ question.precision <= Places =>
    LET value == question.value
        divisor == Pow10[Places - question.precision]
        rounded == RoundToPrecision(value, question.precision)
        off == Magnitude(rounded.value - value)
    IN  IF rounded.ok
        THEN /\ rounded.value % divisor = 0
             /\ 2 * off <= divisor
             /\ 2 * off = divisor => Magnitude(rounded.value) > Magnitude(value)
        ELSE (MaxUnit \div divisor) * divisor + divisor \div 2 <= Magnitude(value)

\* unit.h: the buffer "must be large enough": whatever its size, no byte past
\* it is touched, and what is returned tells a caller whether the text is in
\* it or how much room to make.
PrintingStaysInside ==
  Asks("print") =>
    LET printed == ToString(question.size, question.value, question.precision)
        places == IF question.precision > Places THEN Places ELSE question.precision
    IN  /\ printed.reach <= question.size
        /\ printed.returns < question.size => printed.returns < printed.reach \/ printed.returns < 0
        /\ printed.returns >= question.size =>
             ToString(printed.returns + 1, question.value, question.precision).returns
               \in 0 .. printed.returns

\* What is printed is read back as the amount that was rounded, for every
\* amount whose integer part is one that is read.
PrintedIsReadBack ==
  Asks("print") /\ question.precision <= Places =>
    LET rounded == RoundToPrecision(question.value, question.precision) IN
    rounded.ok /\ Magnitude(rounded.value) \div One <= MaxInteger
      => FromString(Printed(rounded.value, question.precision)) = rounded

\* unit.h: a text is read half up on its fifth digit: of a text with one sign
\* that is the amount nearest to it, however many digits follow.
ReadIsNearest ==
  Asks("read") /\ question.text.sign = "none" /\ FromString(question.text).ok =>
    LET text == question.text
        k == IF text.point THEN Len(text.digits) ELSE 0
        tail[i \in 0 .. k] == IF i = 0 THEN 0 ELSE tail[i - 1] * 10 + text.digits[i]
        scale[i \in 0 .. k] == IF i = 0 THEN 1 ELSE scale[i - 1] * 10
        exact == IntegerRead(text) * scale[k] + tail[k]
        amount == Magnitude(FromString(text).value)
        off == Magnitude(amount * scale[k] - exact * One)
    IN  /\ 2 * off <= scale[k]
        /\ 2 * off = scale[k] => amount * scale[k] > exact * One
        /\ FromString(text).value # 0 => text.minus = (FromString(text).value < 0)

\* Decay is counted for a span as for the spans it is cut into, on either side
\* of the start of decay.
SpansAddUp ==
  Asks("spans") /\ question.a <= question.b /\ question.b <= question.c =>
    /\ Duration(question.a, question.c).value =
         Duration(question.a, question.b).value + Duration(question.b, question.c).value
    /\ Duration(question.a, question.c).value \in 0 .. question.c - question.a

(***************************************************************************)
(* The halvings and the factors taken stand for the whole duration and no  *)
(* more, by bits and by windows alike, and every bit has its entry in the  *)
(* table (unit.h: the two variants differ in the rounding alone).  Growth  *)
(* is asked for less than the table is for: the code looks at no limit.    *)
(***************************************************************************)
FactorsMakeUpTheSpan ==
  Asks("decay") /\ ~AllGone(question.duration) =>
    LET duration == question.duration
        decay    == CalculateDecay(duration)
        windowed == CalculateDecayWindowed(duration)
        whole    == decay.halvings * Year
        byBits   == MapThenSumSet(LAMBDA i : Pow2[i], decay.powers)
        byDigits == MapThenSumSet(LAMBDA w : windowed.digits[w] * Pow2[w * WindowBits],
                                  DOMAIN windowed.digits)
    IN  /\ duration > -Pow2[Powers] => decay.powers \subseteq 0 .. Powers - 1
        /\ duration = IF duration < 0 THEN -byBits ELSE whole + byBits
        /\ duration >= 0 => duration = windowed.halvings * Year + byDigits

=============================================================================
