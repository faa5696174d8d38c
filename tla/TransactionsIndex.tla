-------------------------- MODULE TransactionsIndex --------------------------
(***************************************************************************)
(* grdb_transactions, one segment's index, as a record and the operators   *)
(* that add to it.  Sets hold offsets, tx_nr - base_tx_nr, in 32 bits; a   *)
(* day slot holds offset + 1, so that 0 stays "no transaction this day".   *)
(*                                                                         *)
(* An add writes one thing after the other and any allocation among them   *)
(* may be refused.  What was written before the refusal stands.  A step of *)
(* the add has a place: At(i, part) for the parts of the i-th touch of the *)
(* transaction, and an add refused at place p has done the steps below p.  *)
(***************************************************************************)
EXTENDS CompleteTransaction, FiniteSets, FiniteSetsExt

CONSTANTS
  MaxU32,        \* UINT32_MAX
  SecondsPerDay  \* INDEX_SECONDS_PER_DAY

ASSUME WidthAssumption == MaxU32 \in Nat \ {0} /\ SecondsPerDay \in Nat \ {0}

\* Keys are 32 bytes and uuids 16, so there are only so many.
ASSUME FinitelyMany == IsFiniteSet(Keys) /\ IsFiniteSet(Communities)

U32 == 0..MaxU32

\* The sets of an index, by name: three per address, one per foreign coin,
\* one for all foreign coins, one per transaction type.
SetNames ==
  ({"balance", "signed", "other"} \X Keys) \cup ({"coin"} \X Communities)
    \cup {<<"foreign", NoCommunity>>} \cup ({"type"} \X TransactionTypes)

Index ==
  [base_tx_nr        : Nat,
   min_tx_nr         : Nat,
   max_tx_nr         : Nat,
   transaction_count : U32,
   first_day         : Int,
   community         : Communities \cup {NoCommunity},  \* chain_community_uuid
   day_max_tx        : Seq(U32),
   addresses         : [Keys -> Nat],         \* key map: id + 1, 0 for an unseen key
   address_sets      : Nat,                   \* size of the vector behind it
   coin_communities  : [Communities -> Nat],  \* likewise for foreign coins
   coin_sets         : Nat,
   sets              : SUBSET (SetNames \X U32)]

\* What grdb_transactions_init leaves, and reset again.
EmptyIndex(base) ==
  [base_tx_nr        |-> base,
   min_tx_nr         |-> 0,
   max_tx_nr         |-> 0,
   transaction_count |-> 0,
   first_day         |-> 0,
   community         |-> NoCommunity,
   day_max_tx        |-> <<>>,
   addresses         |-> [k \in Keys |-> 0],
   address_sets      |-> 0,
   coin_communities  |-> [c \in Communities |-> 0],
   coin_sets         |-> 0,
   sets              |-> {}]

(***************************************************************************)
(* Key maps hand out ids densely, in the order keys are first asked for;   *)
(* asked[k] are the places at which k is asked for.                        *)
(***************************************************************************)
MapSize(map) == Cardinality({k \in DOMAIN map : map[k] # 0})

Inserted(map, asked) ==
  LET new == {k \in DOMAIN map : map[k] = 0 /\ asked[k] # {}}
      NotAfter(j, k) == \E p \in asked[j] : \A q \in asked[k] : p <= q
  IN  [k \in DOMAIN map |->
         IF k \in new
         THEN MapSize(map) + Cardinality({j \in new : NotAfter(j, k)})
         ELSE map[k]]

(***************************************************************************)
(* The vector behind a map is grown up to the id asked for, slot by slot.  *)
(* reached are the keys whose growth is done, heading the one (if any) for *)
(* which the refusal fell into the growth: any part of it may stand.       *)
(***************************************************************************)
\* A slip: the vector grows only for a key new to the map.
SlotsByOne(size, map, reached, heading) ==
  {Min({size + Cardinality(reached), Max({size} \cup {map[k] : k \in reached})})}

Slots(size, map, reached, heading) ==
  LET steps == {size} \cup {map[k] : k \in reached}
  IN  {n \in 0..(size + MapSize(map)) :
         /\ \A m \in steps : m <= n
         /\ n \in steps \/ \E k \in heading : n < map[k]}

-----------------------------------------------------------------------------
(***************************************************************************)
(* Readings.                                                               *)
(***************************************************************************)
\* A slip: C division as it comes, towards zero.
DayTowardsZero(second) ==
  IF second >= 0 THEN second \div SecondsPerDay ELSE -((-second) \div SecondsPerDay)

\* day_of_second: C division, turned round for seconds before the epoch.
DayOfSecond(second) ==
  IF second >= 0 THEN second \div SecondsPerDay
  ELSE -(((-second) + SecondsPerDay - 1) \div SecondsPerDay)

OffsetsIn(index, name) == {o \in U32 : <<name, o>> \in index.sets}

\* set_ends_at
EndsAt(offsets, offset) == offset \in offsets /\ \A o \in offsets : o <= offset

Offset(index, tx) == tx.tx_nr - index.base_tx_nr

-----------------------------------------------------------------------------
(***************************************************************************)
(* Places of an add.  Parts of a touch: 1 the key map takes the key, 2 its *)
(* sets are grown, 3 the offset enters the role's set, 4-6 the same for a  *)
(* foreign coin, 7 the offset enters the union of foreign coins.  Place 0  *)
(* is the growth of the day table, the one after the touches the type's    *)
(* set.                                                                    *)
(***************************************************************************)
At(i, part) == 8 * i + part

TypePlace(tx) == At(Len(Touches(tx)) + 1, 1)
EndOfAdd(tx) == TypePlace(tx) + 1

\* What the first transaction says about the index stands before its own
\* balances are compared with it.
FirstDay(index, tx) ==
  IF index.transaction_count = 0 THEN DayOfSecond(tx.second) ELSE index.first_day

Community(index, tx) ==
  IF index.transaction_count = 0 THEN tx.community ELSE index.community

DayIndex(index, tx) == DayOfSecond(tx.second) - FirstDay(index, tx)

\* A balance in a coin that is not the chain's own.
IsForeign(index, tx, touch) ==
  touch.role = "balance" /\ touch.coin # Community(index, tx)

\* Where the add allocates: a blank key and the chain's own coin ask nothing.
RefusalPlaces(index, tx) ==
  LET T == Touches(tx)
  IN  {0, TypePlace(tx)}
      \cup {At(i, part) : i \in {j \in DOMAIN T : T[j].key # NoKey}, part \in 1..3}
      \cup {At(i, part) : i \in {j \in DOMAIN T : IsForeign(index, tx, T[j])}, part \in 4..7}

\* A slip: the body's keys enter "other" whatever they did besides.
NoOtherRole(index, tx, key) == FALSE

(***************************************************************************)
(* A named key enters "other" only when neither its signed nor its balance *)
(* set ends at this transaction: what stood in them, and what the earlier  *)
(* touches of this very transaction put there.                             *)
(***************************************************************************)
HasOtherRole(index, tx, key) ==
  \E role \in {"signed", "balance"} :
    LET touched == \E i \in DOMAIN Touches(tx) :
                     Touches(tx)[i].role = role /\ Touches(tx)[i].key = key
    IN  EndsAt(OffsetsIn(index, <<role, key>>)
                 \cup (IF touched THEN {Offset(index, tx)} ELSE {}),
               Offset(index, tx))

\* The names of the sets the add has put its offset into, before place.
Marks(index, tx, place) ==
  LET T == Touches(tx)
      Done(i, part) == At(i, part) < place
      Enters(i) == /\ T[i].key # NoKey
                   /\ Done(i, 3)
                   /\ ~(T[i].role = "other" /\ HasOtherRole(index, tx, T[i].key))
  IN  {<<T[i].role, T[i].key>> : i \in {j \in DOMAIN T : Enters(j)}}
      \cup {<<"coin", T[i].coin>> :
          i \in {j \in DOMAIN T : IsForeign(index, tx, T[j]) /\ Done(j, 6)}}
      \cup (IF \E i \in DOMAIN T : IsForeign(index, tx, T[i]) /\ Done(i, 7)
             THEN {<<"foreign", NoCommunity>>} ELSE {})
      \cup (IF TypePlace(tx) < place THEN {<<"type", tx.type>>} ELSE {})

AskedKeys(tx, place) ==
  [k \in Keys |-> {i \in DOMAIN Touches(tx) : Touches(tx)[i].key = k /\ At(i, 1) < place}]

AskedCoins(index, tx, place) ==
  [c \in Communities |->
     {i \in DOMAIN Touches(tx) : /\ IsForeign(index, tx, Touches(tx)[i])
                                 /\ Touches(tx)[i].coin = c
                                 /\ At(i, 4) < place}]

\* Keys whose growth is done before place, and the one growing at it.
GrownKeys(tx, place) ==
  {k \in Keys : \E i \in DOMAIN Touches(tx) : Touches(tx)[i].key = k /\ At(i, 2) < place}
GrowingKeys(tx, place) ==
  {k \in Keys : \E i \in DOMAIN Touches(tx) : Touches(tx)[i].key = k /\ At(i, 2) = place}
GrownCoins(index, tx, place) ==
  {c \in Communities : \E i \in DOMAIN Touches(tx) :
     IsForeign(index, tx, Touches(tx)[i]) /\ Touches(tx)[i].coin = c /\ At(i, 5) < place}
GrowingCoins(index, tx, place) ==
  {c \in Communities : \E i \in DOMAIN Touches(tx) :
     IsForeign(index, tx, Touches(tx)[i]) /\ Touches(tx)[i].coin = c /\ At(i, 5) = place}

(***************************************************************************)
(* note_day: the table grows with zeros up to the day, and the day's slot  *)
(* takes offset + 1, in 32 bits, when that is larger.                      *)
(***************************************************************************)
DayTableSizes(index, tx, place) ==
  LET size == Len(index.day_max_tx)
      full == IF size > DayIndex(index, tx) THEN size ELSE DayIndex(index, tx) + 1
  IN  IF place = 0 THEN size..(full - 1) ELSE {full}

DayTable(index, tx, place, size) ==
  LET slot == (Offset(index, tx) + 1) % (MaxU32 + 1)
      old(d) == IF d <= Len(index.day_max_tx) THEN index.day_max_tx[d] ELSE 0
  IN  [d \in 1..size |->
         IF place > 0 /\ d = DayIndex(index, tx) + 1 /\ old(d) < slot
         THEN slot
         ELSE old(d)]

\* The index with everything written that an add does before place; the
\* sizes are those of the address, coin and day vectors.
Written(index, tx, place, addresses, coins, days) ==
  LET first == index.transaction_count = 0 /\ place > 0
  IN  [index EXCEPT
         !.first_day        = FirstDay(index, tx),
         !.day_max_tx       = DayTable(index, tx, place, days),
         !.min_tx_nr        = IF first THEN tx.tx_nr ELSE @,
         !.community        = IF first THEN tx.community ELSE @,
         !.addresses        = Inserted(@, AskedKeys(tx, place)),
         !.address_sets     = addresses,
         !.coin_communities = Inserted(@, AskedCoins(index, tx, place)),
         !.coin_sets        = coins,
         !.sets             = @ \cup (Marks(index, tx, place) \X {Offset(index, tx)})]

WrittenBefore(index, tx, place) ==
  {Written(index, tx, place, a, c, d) :
     a \in Slots(index.address_sets, Inserted(index.addresses, AskedKeys(tx, place)),
                 GrownKeys(tx, place), GrowingKeys(tx, place)),
     c \in Slots(index.coin_sets, Inserted(index.coin_communities, AskedCoins(index, tx, place)),
                 GrownCoins(index, tx, place), GrowingCoins(index, tx, place)),
     d \in DayTableSizes(index, tx, place)}

-----------------------------------------------------------------------------
(***************************************************************************)
(* grdb_transactions_add.  AcceptsNumber are its number checks, Accepts all*)
(* checks including note_day's; past them only room can be refused.        *)
(***************************************************************************)
AcceptsNumber(index, tx) ==
  /\ tx.tx_nr >= index.base_tx_nr
  /\ index.transaction_count # 0 => tx.tx_nr = index.max_tx_nr + 1
  /\ Offset(index, tx) <= MaxU32

Accepts(index, tx) ==
  /\ AcceptsNumber(index, tx)
  /\ tx.type \in TransactionTypes
  /\ DayIndex(index, tx) \in U32

\* The index after an add that went through: only now is it counted.
Added(index, tx) ==
  {[w EXCEPT !.max_tx_nr = tx.tx_nr,
             !.transaction_count = (@ + 1) % (MaxU32 + 1)] :
     w \in WrittenBefore(index, tx, EndOfAdd(tx))}

\* The indices an add refused for want of room can leave.
OutOfRoom(index, tx) ==
  UNION {WrittenBefore(index, tx, place) : place \in RefusalPlaces(index, tx)}

=============================================================================
