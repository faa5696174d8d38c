-------------------------- MODULE TransactionsQuery --------------------------
(***************************************************************************)
(* What a segment's index answers to a filter.  A filter names sets to     *)
(* intersect and a span of numbers; the answer is the numbers of the span  *)
(* that the sets hold.  Counting, paging and the newest match all read that*)
(* one set of numbers, so it is the operator here; the walk of the roaring *)
(* query and the counting of a span without sets are how it is read.       *)
(***************************************************************************)
EXTENDS TransactionsIndex, SequencesExt

Filter ==
  [role : {"none", "involved", "balance"},
   key  : Keys \cup {NoKey},
   type : TransactionTypes \cup {"unknown"},  \* "none" asks for no type
   coin : Communities \cup {NoCommunity},     \* NoCommunity asks for no coin
   min  : Nat,                                \* 0 for no bound, all four
   max  : Nat,
   from : Int,
   to   : Int]

AnyTransaction ==
  [role |-> "none", key |-> NoKey, type |-> "none", coin |-> NoCommunity,
   min |-> 0, max |-> 0, from |-> 0, to |-> 0]

(***************************************************************************)
(* The setters of a filter, as the filter after the call.  A role, a type  *)
(* or a community that is none is refused and leaves the filter as it was; *)
(* without a role no key stays behind.  A caller may also write the fields *)
(* itself, and then nothing is refused.                                    *)
(***************************************************************************)
SetAddress(filter, key, role) ==
  CASE role = "none" -> [filter EXCEPT !.key = NoKey, !.role = role]
    [] role \in {"involved", "balance"} -> [filter EXCEPT !.key = key, !.role = role]
    [] OTHER -> filter

SetTransactionType(filter, type) ==
  IF type \in TransactionTypes THEN [filter EXCEPT !.type = type] ELSE filter

SetCoinCommunity(filter, uuid) ==
  IF uuid \in Communities THEN [filter EXCEPT !.coin = uuid] ELSE filter

AnyCoinAgain(filter) == [filter EXCEPT !.coin = NoCommunity]

SetTxRange(filter, min, max) == [filter EXCEPT !.min = min, !.max = max]

SetDateRange(filter, from, to) == [filter EXCEPT !.from = from, !.to = to]

(***************************************************************************)
(* grdb_transactions_range_of_days, as the set of numbers of its span.     *)
(* The last day of the span that holds anything gives its end; the last    *)
(* day before the span that holds anything gives its start.                *)
(***************************************************************************)
RangeOfDays(index, from, to) ==
  LET days  == Len(index.day_max_tx)
      last  == IF to # 0 THEN Min({DayOfSecond(to) - index.first_day, days - 1})
                         ELSE days - 1
      first == IF from # 0 THEN Max({DayOfSecond(from) - index.first_day, 0}) ELSE 0
      slot(day) == index.day_max_tx[day + 1]
      inside == {day \in first..last : slot(day) # 0}
      before == {day \in 0..(first - 1) : slot(day) # 0}
      start  == IF before = {} THEN index.min_tx_nr - index.base_tx_nr
                               ELSE slot(Max(before))
  IN  IF index.transaction_count = 0 \/ inside = {} THEN {}
      ELSE (index.base_tx_nr + start)..(index.base_tx_nr + slot(Max(inside)) - 1)

\* A slip: a bound past the last number names one that is no transaction.
SpanUnclamped(index, filter) ==
  {n \in index.min_tx_nr..(index.max_tx_nr + 1) :
     /\ filter.min # 0 => n >= filter.min
     /\ IF filter.max # 0 THEN n <= filter.max ELSE n <= index.max_tx_nr
     /\ filter.from # 0 \/ filter.to # 0 => n \in RangeOfDays(index, filter.from, filter.to)}

\* The numbers a filter names, narrowed by its days and by what is held.
Span(index, filter) ==
  {n \in index.min_tx_nr..index.max_tx_nr :
     /\ filter.min # 0 => n >= filter.min
     /\ filter.max # 0 => n <= filter.max
     /\ filter.from # 0 \/ filter.to # 0 => n \in RangeOfDays(index, filter.from, filter.to)}

\* A key or a coin the index can look up: in the map, and grown up to.
FindsKey(index, key) ==
  key \in Keys /\ index.addresses[key] \in 1..index.address_sets
FindsCoin(index, coin) == index.coin_communities[coin] \in 1..index.coin_sets

Holds(index, name, offset) == <<name, offset>> \in index.sets

HasRole(index, filter, offset) ==
  CASE filter.role = "none" -> TRUE
    [] filter.role = "balance" -> /\ FindsKey(index, filter.key)
                                  /\ Holds(index, <<"balance", filter.key>>, offset)
    [] filter.role = "involved" ->
         /\ FindsKey(index, filter.key)
         /\ \E role \in {"balance", "signed", "other"} :
              Holds(index, <<role, filter.key>>, offset)

HasType(index, filter, offset) ==
  filter.type # "none" => Holds(index, <<"type", filter.type>>, offset)

\* The chain's own coin is every transaction outside the foreign ones.
HasCoin(index, filter, offset) ==
  CASE filter.coin = NoCommunity -> TRUE
    [] filter.coin = index.community -> ~Holds(index, <<"foreign", NoCommunity>>, offset)
    [] OTHER -> /\ FindsCoin(index, filter.coin)
                /\ Holds(index, <<"coin", filter.coin>>, offset)

\* query_of_filter and the reading of its query: the numbers that match.
Matches(index, filter) ==
  IF index.transaction_count = 0 THEN {}
  ELSE {n \in Span(index, filter) :
          LET offset == n - index.base_tx_nr
          IN  /\ HasRole(index, filter, offset)
              /\ HasType(index, filter, offset)
              /\ HasCoin(index, filter, offset)}

\* The numbers that are passed on the way to n, from either end.
Before(n, numbers, descending) ==
  {m \in numbers : IF descending THEN m > n ELSE m < n}

\* A page of the numbers, from the end it starts at.
InOrder(numbers, descending) ==
  [i \in 1..Cardinality(numbers) |->
     CHOOSE n \in numbers : Cardinality(Before(n, numbers, descending)) = i - 1]

Page(numbers, skip, size, descending) ==
  LET all == InOrder(numbers, descending)
  IN  SubSeq(all, skip + 1, Min({skip + size, Len(all)}))

=============================================================================
