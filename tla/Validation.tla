------------------------------ MODULE Validation ------------------------------
(***************************************************************************)
(* grdi_validate_complete_transaction: the checks a transaction passes     *)
(* without a look at any other, one after another, and the refusal of the  *)
(* first that fails, with its reason in the details the caller gave.       *)
(***************************************************************************)
EXTENDS Timestamp, ErrorDetails, Sequences

CONSTANTS
  EarliestConfirmation,  \* the first second of 2000
  MaxTimespan,           \* seconds between creation and confirmation
  UseSodium,             \* whether the build can verify a signature at all
  Candidates             \* the transactions callers come with

CrossGroupTypes == {"local", "inbound", "outbound", "cross", "none"}

PairTypes == {"transfer", "redeem_deferred_transfer", "community_friends_update"}

Candidate ==
  [numbered : BOOLEAN,          \* tx_nr is not 0
   bodied : BOOLEAN,            \* the bytes of the body are there
   confirmed_at : Timestamps,
   created_at : Timestamps,
   in_community : BOOLEAN,      \* the uuid is not all zero
   anchored : BOOLEAN,          \* the ledger anchor has a type
   cross_group_type : CrossGroupTypes,
   type : PairTypes \cup {"creation"},
   paired_community : BOOLEAN,  \* pointers that may be NULL
   paired_anchor : BOOLEAN,
   signature_pairs : Seq({"good", "forged", "no_key", "no_signature"})]

ASSUME CandidateAssumption ==
  /\ EarliestConfirmation \in Seconds
  /\ MaxTimespan \in Nat
  /\ MaxTimespan + 6 < MaxSecond
  /\ UseSodium \in BOOLEAN
  /\ Candidates \subseteq Candidate

VARIABLES
  asked,  \* the transaction the caller has
  answer  \* what came of validating it last

validationVars == <<detailsVars, asked, answer>>

NotAsked == [result |-> "none", verified |-> FALSE]

Answers ==
  [result : {"none", "success", "invalid_field", "invalid_transaction_type",
             "crypto_sign_invalid", "invalid_error_details_state"},
   verified : BOOLEAN]

ValidationTypeOK ==
  /\ details \in Details
  /\ details.malloced \subseteq details.set
  /\ strings \subseteq Fields \X {"allocator", "host"}
  /\ asked \in Candidate
  /\ answer \in Answers

ValidationInit ==
  /\ details = EmptyDetails
  /\ strings = {}
  /\ asked \in Candidates
  /\ answer = NotAsked

-----------------------------------------------------------------------------
\* A slip: the difference as it stands, whichever way it points.
SignedTimespan(tx) == Minus(tx.created_at, tx.confirmed_at).seconds

\* The seconds between, as a magnitude.
Timespan(tx) ==
  LET seconds == Minus(tx.created_at, tx.confirmed_at).seconds IN
  IF seconds < 0 THEN -seconds ELSE seconds

Reason(result, fields) == [result |-> result, fields |-> fields]

\* The checks in their order: what each refuses, and the strings it leaves.
TransactionChecks(tx) ==
  <<[fails |-> ~tx.numbered, why |-> Reason("invalid_field", Fields)],
    [fails |-> ~tx.bodied, why |-> Reason("invalid_field", {"message"})],
    [fails |-> tx.confirmed_at.seconds < EarliestConfirmation,
     why |-> Reason("invalid_field", Fields)],
    [fails |-> ~tx.in_community, why |-> Reason("invalid_field", {"message"})],
    [fails |-> Timespan(tx) > MaxTimespan, why |-> Reason("invalid_field", Fields)],
    [fails |-> ~tx.anchored, why |-> Reason("invalid_field", {"message"})]>>

CrossGroupChecks(tx) ==
  IF tx.cross_group_type = "local" THEN <<>>
  ELSE
    <<[fails |-> tx.type \notin PairTypes,
       why |-> Reason("invalid_transaction_type", {"message"})],
      [fails |-> ~tx.paired_community, why |-> Reason("invalid_field", {"message"})],
      [fails |-> tx.cross_group_type = "inbound" /\ ~tx.paired_anchor,
       why |-> Reason("invalid_field", {"message"})]>>

\* One pair after another; none at all is no failure here.
SignatureChecks(tx, enable_verify) ==
  [i \in DOMAIN tx.signature_pairs |->
     IF tx.signature_pairs[i] = "forged"
     THEN [fails |-> UseSodium /\ enable_verify,
           why |-> Reason("crypto_sign_invalid", {"message"})]
     ELSE [fails |-> tx.signature_pairs[i] # "good",
           why |-> Reason("invalid_field", {"message"})]]

Checks(tx, enable_verify) ==
  TransactionChecks(tx) \o CrossGroupChecks(tx) \o SignatureChecks(tx, enable_verify)

\* The first check that fails, as a set: empty when all pass.
Refusals(tx, enable_verify) ==
  LET checks == Checks(tx, enable_verify) IN
  {checks[i].why : i \in {i \in DOMAIN checks :
     checks[i].fails /\ \A j \in 1 .. i - 1 : ~checks[j].fails}}

\* With details, or with a null pointer in their place.
Validate(enable_verify, given) ==
  LET refusals == Refusals(asked, enable_verify)
      Says(result) == [result |-> result, verified |-> enable_verify]
  IN
  /\ \/ /\ given
        /\ ~IsEmpty
        /\ answer' = Says("invalid_error_details_state")
        /\ UNCHANGED detailsVars
     \/ /\ given => IsEmpty
        /\ refusals = {}
        /\ answer' = Says("success")
        /\ UNCHANGED detailsVars
     \/ /\ given => IsEmpty
        /\ \E why \in refusals :
             /\ answer' = Says(why.result)
             /\ IF given THEN Fill(why.fields) ELSE UNCHANGED detailsVars
  /\ UNCHANGED asked

ValidationNext ==
  \/ \E enable_verify, given \in BOOLEAN : Validate(enable_verify, given)
  \/ (DetailsInit \/ DetailsRelease) /\ UNCHANGED <<asked, answer>>

ValidationSpec == ValidationInit /\ [][ValidationNext]_validationVars

-----------------------------------------------------------------------------
\* Everything a transaction has to be, in no order, with the time between in
\* exact arithmetic: the seconds it lies in, counted downwards.
IsInTime(tx) ==
  (Instant(tx.created_at) - Instant(tx.confirmed_at)) \div NanosPerSecond
    \in -MaxTimespan .. MaxTimespan

IsSigned(tx, enable_verify) ==
  \A i \in DOMAIN tx.signature_pairs :
    tx.signature_pairs[i] \in {"good"} \cup
      (IF UseSodium /\ enable_verify THEN {} ELSE {"forged"})

IsPaired(tx) ==
  /\ tx.type \in PairTypes
  /\ tx.paired_community
  /\ tx.cross_group_type = "inbound" => tx.paired_anchor

IsAcceptable(tx, enable_verify) ==
  /\ tx.numbered /\ tx.bodied /\ tx.in_community /\ tx.anchored
  /\ tx.confirmed_at.seconds >= EarliestConfirmation
  /\ IsInTime(tx)
  /\ tx.cross_group_type # "local" => IsPaired(tx)
  /\ IsSigned(tx, enable_verify)

\* A transaction is answered success exactly when it is all that: no runaway
\* timestamp is pinned or carried into the span allowed, no pair of a map and
\* no condition of a cross group transaction is passed over.
SuccessIsDeserved ==
  /\ answer.result = "success" => IsAcceptable(asked, answer.verified)
  /\ answer.result \in {"invalid_field", "invalid_transaction_type", "crypto_sign_invalid"}
       => ~IsAcceptable(asked, answer.verified)

\* Every copy made for a refusal is reachable and its flag says where it came
\* from, so that release gives each back to its own allocator; after it none
\* is left, though the struct still points at them.
NoCopyIsLost ==
  \A s \in strings :
    /\ s[1] \in details.set
    /\ (s[2] = "host") = (s[1] \in details.malloced)

\* timestamp.c: normalising does not move the point in time.  Where neither
\* the seconds nor the carry leave the range, the difference is exact, and its
\* nanoseconds are a fraction of a second, whatever those of the operands.
DifferenceIsExact ==
  LET t1 == asked.created_at
      t2 == asked.confirmed_at
      apart == Instant(t1) - Instant(t2)
  IN  /\ IsFraction(Minus(t1, t2).nanos)
      /\ (t1.seconds - t2.seconds \in Seconds /\ apart \div NanosPerSecond \in Seconds)
           => Instant(Minus(t1, t2)) = apart

\* timestamp.c: a difference that left the range is still wrong, but on its
\* side of zero and at the end of the range but for the carry, which is at most
\* six seconds for the nanoseconds of two timestamps.
RunawayIsPinned ==
  LET t1 == asked.created_at
      t2 == asked.confirmed_at
      difference == Minus(t1, t2)
  IN  /\ (difference.seconds < 0) = (Instant(t1) < Instant(t2))
      /\ t1.seconds - t2.seconds > MaxSecond => difference.seconds >= MaxSecond - 6
      /\ t1.seconds - t2.seconds < MinSecond => difference.seconds <= MinSecond + 6

\* Adding the difference again gives the point in time back, unless an end of
\* the range was met on the way.
PlusUndoesMinus ==
  LET t1 == asked.created_at
      t2 == asked.confirmed_at
      difference == Minus(t1, t2)
      met == {t1.seconds - t2.seconds,
              (Instant(t1) - Instant(t2)) \div NanosPerSecond,
              difference.seconds + t2.seconds,
              Instant(t1) \div NanosPerSecond}
  IN  met \subseteq Seconds => Instant(Plus(difference, t2)) = Instant(t1)

\* The arithmetic of timestamp.c on any two points in time: exact where it can be, pinned on
\* its side of zero where it cannot, and undone by adding.
TimestampsAreExact == DifferenceIsExact /\ RunawayIsPinned /\ PlusUndoesMinus

=============================================================================
