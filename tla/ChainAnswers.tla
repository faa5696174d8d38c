----------------------------- MODULE ChainAnswers -----------------------------
(***************************************************************************)
(* What a chain answers, put together from its segments and its register,  *)
(* against the transactions its caller was told are in.  The caller is the *)
(* documented one, who adds again what found no room.                      *)
(***************************************************************************)
EXTENDS Chain, TransactionsQuery

VARIABLE ledger  \* history: the transactions whose add succeeded, in order

CONSTANTS
  Filters,    \* the filters asked
  Pages       \* the pages asked: [skip : Nat, size : Nat, descending : BOOLEAN]

ASSUME AskedAssumption == /\ Filters \subseteq Filter
                          /\ Pages \subseteq [skip : Nat, size : Nat, descending : BOOLEAN]

answerVars == <<vars, ledger>>

InitLedger == Init /\ ledger = <<>>

Deliver(tx) ==
  /\ refused \in {tx, NoTransaction}
  /\ StartsInRow(tx)
  /\ \/ Add(tx) /\ ledger' = Append(ledger, tx)
     \/ /\ RefusedOpening(tx) \/ RefusedInSegment(tx) \/ RefusedInRegister(tx)
        /\ UNCHANGED ledger

NextLedger ==
  \/ Lifecycle /\ ledger' = <<>>
  \/ \E tx \in Arrivals : Deliver(tx)

LedgerSpec == InitLedger /\ [][NextLedger]_answerVars

-----------------------------------------------------------------------------
(***************************************************************************)
(* The answers of the code.                                                *)
(***************************************************************************)
\* grdb_chain_count and what it counts.
ChainMatches(filter) ==
  UNION {Matches(segments[i], filter) : i \in DOMAIN segments}

ChainCount(filter) ==
  FoldLeft(LAMBDA total, segment : total + Cardinality(Matches(segment, filter)),
           0, segments)

(***************************************************************************)
(* grdb_chain_listing: the segments from the end the page starts at, each  *)
(* asked for what is left of the page after what is left of the skip.      *)
(***************************************************************************)
\* A slip: the skip spent once per segment that answered, not per match passed over.
SkipLeftBySegment(skip, here) == IF here = 0 THEN skip ELSE 0

SkipLeft(skip, here) == IF skip <= here THEN 0 ELSE skip - here

ChainListing(filter, page) ==
  LET row == IF page.descending THEN Reverse(segments) ELSE segments
      Walk(acc, segment) ==
        LET matches == Matches(segment, filter)
            here    == Page(matches, acc.skip, acc.size, page.descending)
        IN  [out   |-> acc.out \o here,
             size  |-> acc.size - Len(here),
             skip  |-> SkipLeft(acc.skip, Cardinality(matches)),
             count |-> acc.count + Cardinality(matches)]
  IN  FoldLeft(Walk, [out |-> <<>>, size |-> page.size, skip |-> page.skip, count |-> 0], row)

\* grdb_chain_newest: the newest segment that answers; 0 when none does.
ChainNewest(filter) ==
  LET answering == {i \in DOMAIN segments : Matches(segments[i], filter) # {}}
  IN  IF answering = {} THEN 0 ELSE Max(Matches(segments[Max(answering)], filter))

\* grdb_chain_range_of_days: the outermost of the segments' spans.
ChainRange(from, to) ==
  LET spans == UNION {RangeOfDays(segments[i], from, to) : i \in DOMAIN segments}
  IN  IF spans = {} THEN {} ELSE Min(spans)..Max(spans)

-----------------------------------------------------------------------------
(***************************************************************************)
(* The counted part of the chain: what its segments and register hold up   *)
(* to max_tx_nr.  Beyond it there is only what a refused add has written.  *)
(***************************************************************************)
CountedFacts ==
  {f \in UNION {{<<m[1], segments[i].base_tx_nr + m[2]>> : m \in segments[i].sets} :
                  i \in DOMAIN segments} : f[2] <= max_tx_nr}

CountedTypes ==
  UNION {{<<k, c.tx_nr, c.type>> :
            c \in {d \in ToSet(addresses.changes[k]) : d.tx_nr <= max_tx_nr}} : k \in Keys}

CountedMoves ==
  [k \in Keys |->
     IF addresses.last_balance_tx[k] <= max_tx_nr THEN addresses.last_balance_tx[k]
     ELSE Max({0} \cup {f[2] : f \in {g \in CountedFacts : g[1] = <<"balance", k>>}})]

\* The chain seen as a ledger.
L == INSTANCE Ledger WITH
       first <- min_tx_nr,
       last  <- max_tx_nr,
       home  <- IF transaction_count = 0 THEN NoCommunity ELSE segments[1].community,
       facts <- CountedFacts,
       types <- CountedTypes,
       moved <- CountedMoves

(***************************************************************************)
(* A transaction enters the ledger whole, in one step, or not at all:      *)
(* every step of the chain, refused and repeated adds included, is a step  *)
(* of the ledger or changes nothing that is counted.  (chain.h: "adding it *)
(* again after making room completes it".)                                 *)
(***************************************************************************)
ImplementsLedger == L!Spec

-----------------------------------------------------------------------------
(***************************************************************************)
(* The reference answers: each transaction of the ledger read by itself.   *)
(***************************************************************************)
Day(second) == second \div SecondsPerDay

Inside(tx, from, to) ==
  /\ from # 0 => Day(tx.second) >= Day(from)
  /\ to # 0 => Day(tx.second) <= Day(to)

Fits(tx, filter) ==
  LET roles == L!Roles(tx, ledger[1].community)
  IN  /\ filter.role = "balance" => <<"balance", filter.key>> \in roles
      /\ filter.role = "involved" =>
           \E role \in {"balance", "signed", "other"} : <<role, filter.key>> \in roles
      /\ filter.type # "none" => filter.type = tx.type
      /\ filter.coin # NoCommunity =>
           IF filter.coin = ledger[1].community
           THEN <<"foreign", NoCommunity>> \notin roles
           ELSE <<"coin", filter.coin>> \in roles
      /\ filter.min # 0 => tx.tx_nr >= filter.min
      /\ filter.max # 0 => tx.tx_nr <= filter.max
      /\ Inside(tx, filter.from, filter.to)

LedgerMatches(filter) == {tx.tx_nr : tx \in {t \in ToSet(ledger) : Fits(t, filter)}}

\* The number whose add is to be made again: a segment may count it already.
Pending == IF refused = NoTransaction THEN {} ELSE {refused.tx_nr}

(***************************************************************************)
(* However the run is cut into segments, a filter matches exactly the      *)
(* ledger's transactions that fit it -- and while an add waits to be made  *)
(* again, at most that one number besides.  (chain.h: "The segment size    *)
(* changes no answer".)                                                    *)
(***************************************************************************)
FiltersAnswerTheLedger ==
  \A filter \in Filters : ChainMatches(filter) \ Pending = LedgerMatches(filter)

(***************************************************************************)
(* A page is skip and size counted over the whole chain, from either end,  *)
(* and the count answers for the filter and not for the page: the merge of *)
(* the segments' pages in grdb_chain_listing.  The newest match, found     *)
(* from the last segment that answers, is the newest of the whole chain.   *)
(***************************************************************************)
PagesCutTheLedger ==
  Pending = {} =>
    \A filter \in Filters, page \in Pages :
      LET listing == ChainListing(filter, page)
          whole   == LedgerMatches(filter)
      IN  /\ listing.out = Page(whole, page.skip, page.size, page.descending)
          /\ listing.count = Cardinality(whole)
          /\ ChainCount(filter) = Cardinality(whole)
          /\ ChainNewest(filter) = Max({0} \cup whole)

(***************************************************************************)
(* A span of days is the span of the transactions confirmed in them, across*)
(* the day tables of all segments, each counting from its own first day.   *)
(* Holds for callers whose transactions are confirmed in order.            *)
(***************************************************************************)
DaysSpanTheLedger ==
  \A filter \in Filters :
    ChainRange(filter.from, filter.to) \ Pending
      = {tx.tx_nr : tx \in {t \in ToSet(ledger) : Inside(t, filter.from, filter.to)}}

(***************************************************************************)
(* Register and segments, written by separate calls that may each be       *)
(* refused, agree on when a balance last moved, and the register gives an  *)
(* address as of every number the type the ledger last gave it.            *)
(***************************************************************************)
GivenUpTo(key, tx_nr) ==
  {g \in (DOMAIN ledger) \X (1..2) :
     /\ ledger[g[1]].tx_nr <= tx_nr
     /\ g[2] \in DOMAIN Notes(ledger[g[1]])
     /\ Notes(ledger[g[1]])[g[2]].key = key}

LedgerTypeAt(key, tx_nr) ==
  LET given == GivenUpTo(key, tx_nr)
      latest == CHOOSE g \in given : \A h \in given :
                  h[1] < g[1] \/ (h[1] = g[1] /\ h[2] <= g[2])
  IN  IF given = {} THEN "nothing" ELSE Notes(ledger[latest[1]])[latest[2]].type

RegisterAgreesWithTheSegments ==
  \A key \in Keys :
    /\ Pending = {} =>
         LastBalance(addresses, key)
           = ChainNewest([AnyTransaction EXCEPT !.role = "balance", !.key = key])
    /\ \A tx_nr \in min_tx_nr..max_tx_nr :
         TypeAt(addresses, key, tx_nr) = LedgerTypeAt(key, tx_nr)

(***************************************************************************)
(* What the documentation says of the calls, where the code does otherwise.*)
(***************************************************************************)
\* chain.h:164: an add that succeeded is "Indexed, in the segment and in
\* the register".
SuccessMeansIndexed ==
  ledger # <<>> =>
    LET tx == ledger[Len(ledger)]
    IN  L!Roles(tx, ledger[1].community) \X {tx.tx_nr} \subseteq CountedFacts

\* chain.h:167: INVALID_PARAM is for a number that "is 0, or is not the number
\* after the last" -- so the next number, of known types, is taken whatever
\* day it was confirmed.
NextNumberIsTaken ==
  transaction_count # 0 /\ refused = NoTransaction =>
    \A tx \in Arrivals :
      tx.tx_nr = max_tx_nr + 1 /\ tx.type \in TransactionTypes => Accepts(Segment(tx), tx)

=============================================================================
