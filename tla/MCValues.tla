------------------------------- MODULE MCValues -------------------------------
(***************************************************************************)
(* The operations on values: a transaction validated again and again, or   *)
(* one question about an amount, over all amounts of a small width.        *)
(***************************************************************************)
EXTENDS Validation, Amounts

MCEarliest == -2

At(second) == [seconds |-> second, nanos |-> 0]

Faultless ==
  [numbered |-> TRUE, bodied |-> TRUE,
   confirmed_at |-> At(1), created_at |-> At(0),
   in_community |-> TRUE, anchored |-> TRUE,
   cross_group_type |-> "local", type |-> "transfer",
   paired_community |-> FALSE, paired_anchor |-> FALSE,
   signature_pairs |-> <<"good">>]

AnyTimes ==
  {[Faultless EXCEPT !.confirmed_at = confirmed, !.created_at = created]
   : confirmed, created \in Timestamps}

AnyParts ==
  {[Faultless EXCEPT !.numbered = parts[1], !.bodied = parts[2],
                     !.in_community = parts[3], !.anchored = parts[4]]
   : parts \in [1..4 -> BOOLEAN]}

SignatureMaps ==
  {<<>>, <<"good">>, <<"forged">>, <<"good", "forged">>, <<"no_key", "good">>,
   <<"good", "no_signature">>}

AnyPairing ==
  {[Faultless EXCEPT !.cross_group_type = cross, !.type = type,
                     !.paired_community = paired[1], !.paired_anchor = paired[2],
                     !.signature_pairs = pairs]
   : cross \in CrossGroupTypes, type \in PairTypes \cup {"creation"},
     paired \in BOOLEAN \X BOOLEAN, pairs \in SignatureMaps}

MCCandidates == AnyTimes \cup AnyParts \cup AnyPairing

MCPrecisions == 0 .. Places + 1
MCBufferSizes == 0 .. 8
MCMoments == -1 .. 5
MCDurations == -40 .. 4 * Year + 1

\* Digits that round up, that do not, and that carry.
MCDigits ==
  {<<>>, <<0>>, <<5>>, <<9>>} \cup {<<a, b>> : a, b \in {0, 4, 9}}
    \cup {<<a, b, c>> : a, b \in {0, 9}, c \in {4, 5}}
    \cup {<<9, 9, 4, 9>>, <<0, 0, 4, 9>>, <<9, 9, 5, 0>>}

MCTexts ==
  [minus : BOOLEAN, sign : {"none", "plus", "minus"},
   integer : {NoInteger, 0, 1, MaxInteger, MaxInteger + 1, MaxUnit, MaxUnit + 1},
   point : {TRUE}, digits : MCDigits, junk : BOOLEAN]
  \cup
  [minus : BOOLEAN, sign : {"none", "minus"}, integer : {NoInteger, 0, 3},
   point : {FALSE}, digits : {<<>>}, junk : BOOLEAN]

Init == ValidationInit /\ AmountsInit

Next ==
  \/ question = NoQuestion /\ ValidationNext /\ UNCHANGED question
  \/ asked = Faultless /\ answer = NotAsked /\ Ask /\ UNCHANGED validationVars

Spec == Init /\ [][Next]_<<validationVars, question>>

=============================================================================
