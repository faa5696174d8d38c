----------------------------- MODULE ChainProofs -----------------------------
(***************************************************************************)
(* Chain for every segment size and every set of transactions.  For any    *)
(* caller: its types, the partition of its run of numbers into segments,   *)
(* that no number is truncated on its way into one, that everything written*)
(* is found again, and that the type of an address as of a number is       *)
(* history.  For the caller who adds again what found no room: that no     *)
(* type is written twice and a closed segment is never written again.  And *)
(* for that caller, with transactions of one community whose address types *)
(* the library knows: each step of the chain is a step of Ledger or changes*)
(* nothing that is counted.                                                *)
(*                                                                         *)
(* First what one add does to one segment's index, for every index,        *)
(* transaction and place it may be refused at: it stays an index, keeps its*)
(* base and its counters, and takes nothing but the transaction's own      *)
(* offset.  Then what it does to the register of addresses: no address type*)
(* the library does not know is ever written down.  The ledger comes last. *)
(***************************************************************************)
EXTENDS ChainAnswers, FiniteSetTheorems, SequenceTheorems, NaturalsInduction,
        CountingProofs

-----------------------------------------------------------------------------
(* One add to an index, and one to a register.                             *)

\* The size of a key map is a number.
LEMMA MapSizeType ==
  ASSUME NEW K, IsFiniteSet(K), NEW map \in [K -> Nat]
  PROVE  MapSize(map) \in Nat
<1>1. {k \in DOMAIN map : map[k] # 0} \subseteq K
  OBVIOUS
<1> QED BY <1>1, FS_Subset, FS_CardinalityType DEF MapSize

\* A key map stays a map of ids whatever is asked of it.
LEMMA InsertedType ==
  ASSUME NEW K, IsFiniteSet(K), NEW map \in [K -> Nat], NEW asked
  PROVE  Inserted(map, asked) \in [K -> Nat]
<1>1. \A P : P \subseteq K => Cardinality(P) \in Nat
  BY FS_Subset, FS_CardinalityType
<1>2. MapSize(map) \in Nat
  BY MapSizeType
<1> DEFINE new == {k \in DOMAIN map : map[k] = 0 /\ asked[k] # {}}
           NotAfter(j, k) == \E p \in asked[j] : \A q \in asked[k] : p <= q
<1>3. \A k \in K : Cardinality({j \in new : NotAfter(j, k)}) \in Nat
  <2> TAKE k \in K
  <2>1. {j \in new : NotAfter(j, k)} \subseteq K
    OBVIOUS
  <2> HIDE DEF new, NotAfter
  <2> QED BY <1>1, <2>1
<1> HIDE DEF new, NotAfter
<1>4. Inserted(map, asked) =
        [k \in K |-> IF k \in new
                     THEN MapSize(map) + Cardinality({j \in new : NotAfter(j, k)})
                     ELSE map[k]]
  BY DEF Inserted, new, NotAfter
<1>5. \A k \in K : (IF k \in new
                    THEN MapSize(map) + Cardinality({j \in new : NotAfter(j, k)})
                    ELSE map[k]) \in Nat
  BY <1>2, <1>3
<1> QED BY <1>4, <1>5, Zenon

\* Vectors grow to sizes.
LEMMA SlotsType ==
  ASSUME NEW K, IsFiniteSet(K), NEW size \in Nat, NEW map \in [K -> Nat],
         NEW reached, NEW heading
  PROVE  Slots(size, map, reached, heading) \subseteq Nat
<1>1. Slots(size, map, reached, heading) \subseteq 0..(size + MapSize(map))
  BY Zenon DEF Slots
<1>2. MapSize(map) \in Nat
  BY MapSizeType
<1> QED BY <1>1, <1>2

\* The walk of an add over a transaction.
LEMMA TouchesType ==
  ASSUME NEW tx \in Transaction
  PROVE  Touches(tx) \in Seq(Touch)
<1> DEFINE signed == [i \in 1..Len(tx.signers) |->
                        [role |-> "signed", key |-> tx.signers[i], coin |-> NoCommunity]]
           moved  == [i \in 1..Len(tx.balances) |->
                        [role |-> "balance", key |-> tx.balances[i].key,
                         coin |-> tx.balances[i].coin]]
           named  == [i \in 1..Len(Named(tx)) |->
                        [role |-> "other", key |-> Named(tx)[i], coin |-> NoCommunity]]
<1>1. signed \in Seq(Touch)
  <2>1. /\ tx.signers \in Seq(Keys \cup {NoKey})
        /\ Len(tx.signers) \in Nat
    BY DEF Transaction
  <2>2. \A i \in 1..Len(tx.signers) :
          [role |-> "signed", key |-> tx.signers[i], coin |-> NoCommunity] \in Touch
    BY <2>1 DEF Touch
  <2> QED BY <2>1, <2>2, IsASeq
<1>2. moved \in Seq(Touch)
  <2>1. /\ tx.balances \in Seq([key : Keys \cup {NoKey}, coin : Communities])
        /\ Len(tx.balances) \in Nat
    BY DEF Transaction
  <2>2. \A i \in 1..Len(tx.balances) :
          tx.balances[i] \in [key : Keys \cup {NoKey}, coin : Communities]
    BY <2>1, ElementOfSeq, Zenon
  <2>3. \A i \in 1..Len(tx.balances) :
          [role |-> "balance", key |-> tx.balances[i].key, coin |-> tx.balances[i].coin]
            \in Touch
    BY <2>2 DEF Touch
  <2> QED BY <2>1, <2>3, IsASeq
<1>3. named \in Seq(Touch)
  <2>1. Named(tx) \in Seq(Keys \cup {NoKey})
    <3>1. /\ tx.body[1] \in Keys \cup {NoKey}
          /\ tx.body[2] \in Keys \cup {NoKey}
          /\ tx.body[3] \in Keys \cup {NoKey}
      BY DEF Transaction
    <3>2. \A a, b, c \in Keys \cup {NoKey} :
            /\ <<a, b, c>> \in Seq(Keys \cup {NoKey})
            /\ <<a, b>> \in Seq(Keys \cup {NoKey})
            /\ <<>> \in Seq(Keys \cup {NoKey})
      OBVIOUS
    <3> QED BY <3>1, <3>2, Zenon DEF Named
  <2>2. Len(Named(tx)) \in Nat
    BY <2>1
  <2>3. \A i \in 1..Len(Named(tx)) :
          [role |-> "other", key |-> Named(tx)[i], coin |-> NoCommunity] \in Touch
    BY <2>1 DEF Touch
  <2> QED BY <2>2, <2>3, IsASeq
<1>4. Touches(tx) = (signed \o moved) \o named
  BY DEF Touches
<1> HIDE DEF signed, moved, named
<1> QED BY <1>1, <1>2, <1>3, <1>4, ConcatProperties


-----------------------------------------------------------------------------
\* The seconds of a transaction name a day, before the epoch too.
LEMMA DayType ==
  ASSUME NEW second \in Int
  PROVE  DayOfSecond(second) \in Int
  BY WidthAssumption DEF DayOfSecond

\* Places are numbers.
LEMMA PlaceType ==
  ASSUME NEW tx \in Transaction
  PROVE  /\ Len(Touches(tx)) \in Nat
         /\ DOMAIN Touches(tx) = 1..Len(Touches(tx))
         /\ \A i \in DOMAIN Touches(tx) : Touches(tx)[i] \in Touch
         /\ \A i, part \in Nat : At(i, part) \in Nat
         /\ TypePlace(tx) \in Nat
         /\ EndOfAdd(tx) \in Nat
<1>1. Touches(tx) \in Seq(Touch)
  BY TouchesType
<1>2. /\ Len(Touches(tx)) \in Nat
      /\ DOMAIN Touches(tx) = 1..Len(Touches(tx))
  BY <1>1, LenProperties
<1>3. \A i \in DOMAIN Touches(tx) : Touches(tx)[i] \in Touch
  BY <1>1, <1>2, ElementOfSeq
<1> QED BY <1>2, <1>3 DEF At, TypePlace, EndOfAdd

\* An add puts its offset into sets of the index, into no other.
LEMMA MarksType ==
  ASSUME NEW index \in Index, NEW tx \in Transaction, NEW place \in Nat,
         tx.type \in TransactionTypes
  PROVE  Marks(index, tx, place) \subseteq SetNames
<1> DEFINE T == Touches(tx)
           Done(i, part) == At(i, part) < place
           Enters(i) == /\ T[i].key # NoKey
                        /\ Done(i, 3)
                        /\ ~(T[i].role = "other" /\ HasOtherRole(index, tx, T[i].key))
<1>1. \A i \in DOMAIN T : Enters(i) => <<T[i].role, T[i].key>> \in SetNames
  BY PlaceType DEF Touch, SetNames
<1>2. \A i \in DOMAIN T : IsForeign(index, tx, T[i]) => T[i].coin \in Communities
  <2>1. \A t \in Touch : t.role = "balance" => t.coin \in Communities
    BY DEF Touch
  <2> QED BY <2>1, PlaceType DEF IsForeign
<1>3. \A i \in DOMAIN T : IsForeign(index, tx, T[i]) => <<"coin", T[i].coin>> \in SetNames
  BY <1>2 DEF SetNames
<1>4. <<"foreign", NoCommunity>> \in SetNames /\ <<"type", tx.type>> \in SetNames
  BY DEF SetNames
<1>5. Marks(index, tx, place) =
        {<<T[i].role, T[i].key>> : i \in {j \in DOMAIN T : Enters(j)}}
        \cup {<<"coin", T[i].coin>> :
                i \in {j \in DOMAIN T : IsForeign(index, tx, T[j]) /\ Done(j, 6)}}
        \cup (IF \E i \in DOMAIN T : IsForeign(index, tx, T[i]) /\ Done(i, 7)
               THEN {<<"foreign", NoCommunity>>} ELSE {})
        \cup (IF TypePlace(tx) < place THEN {<<"type", tx.type>>} ELSE {})
  BY DEF Marks
<1> HIDE DEF T, Done, Enters
<1> QED BY <1>1, <1>3, <1>4, <1>5

\* The offset of a number the index accepts fits the sets.
LEMMA OffsetType ==
  ASSUME NEW index \in Index, NEW tx \in Transaction, AcceptsNumber(index, tx)
  PROVE  Offset(index, tx) \in U32
<1>1. tx.tx_nr \in Nat /\ index.base_tx_nr \in Nat /\ MaxU32 \in Nat
  BY WidthAssumption DEF Index, Transaction
<1> QED BY <1>1 DEF AcceptsNumber, Offset, U32

\* The day table stays a table of 32-bit slots, and a slot is one that stood,
\* the transaction's own, or nothing yet.
LEMMA DayTableType ==
  ASSUME NEW index \in Index, NEW tx \in Transaction, AcceptsNumber(index, tx),
         NEW place \in Nat, NEW size \in Nat
  PROVE  /\ DayTable(index, tx, place, size) \in Seq(U32)
         /\ \A bound \in Nat :
              /\ \A d \in DOMAIN index.day_max_tx : index.day_max_tx[d] <= bound
              /\ Offset(index, tx) < bound
              => \A d \in DOMAIN DayTable(index, tx, place, size) :
                   DayTable(index, tx, place, size)[d] <= bound
<1> DEFINE slot == (Offset(index, tx) + 1) % (MaxU32 + 1)
           old(d) == IF d <= Len(index.day_max_tx) THEN index.day_max_tx[d] ELSE 0
           new(d) == IF place > 0 /\ d = DayIndex(index, tx) + 1 /\ old(d) < slot
                     THEN slot ELSE old(d)
<1>1. Offset(index, tx) \in U32
  BY OffsetType
<1>2. slot \in U32 /\ slot <= Offset(index, tx) + 1
  BY <1>1, WidthAssumption DEF U32
<1>3. /\ index.day_max_tx \in Seq(U32)
      /\ Len(index.day_max_tx) \in Nat
      /\ DOMAIN index.day_max_tx = 1..Len(index.day_max_tx)
  BY DEF Index
<1>4. \A d \in 1..size : old(d) \in U32
  BY <1>3, WidthAssumption, ElementOfSeq DEF U32
<1>5. DayTable(index, tx, place, size) = [d \in 1..size |-> new(d)]
  BY Zenon DEF DayTable
<1>6. \A d \in 1..size : new(d) \in {slot, old(d)}
  OBVIOUS
<1>7. \A bound \in Nat :
        (\A d \in DOMAIN index.day_max_tx : index.day_max_tx[d] <= bound)
        => \A d \in 1..size : old(d) <= bound
  BY <1>3
<1> HIDE DEF slot, old, new
<1>8. \A d \in 1..size : new(d) \in U32
  BY <1>2, <1>4, <1>6
<1>9. \A bound \in Nat :
        /\ \A d \in DOMAIN index.day_max_tx : index.day_max_tx[d] <= bound
        /\ Offset(index, tx) < bound
        => \A d \in 1..size : new(d) <= bound
  BY <1>1, <1>2, <1>4, <1>6, <1>7 DEF U32
<1> QED BY <1>5, <1>8, <1>9, IsASeq

\* How many day slots an add may leave the table with.
LEMMA DayTableSizesType ==
  ASSUME NEW index \in Index, NEW tx \in Transaction, Accepts(index, tx),
         NEW place \in Nat
  PROVE  DayTableSizes(index, tx, place) \subseteq Nat
<1>1. Len(index.day_max_tx) \in Nat
  BY DEF Index
<1>2. DayIndex(index, tx) \in Nat
  BY WidthAssumption DEF Accepts, U32
<1> QED BY <1>1, <1>2 DEF DayTableSizes

\* What stands after an add came as far as a place, of a refused add or of one
\* that went through: an index with the same base and the same counters, with
\* nothing in its sets but what was there and the transaction's own offset.
LEMMA WrittenBeforeType ==
  ASSUME NEW index \in Index, NEW tx \in Transaction, Accepts(index, tx),
         NEW place \in Nat, NEW w \in WrittenBefore(index, tx, place)
  PROVE  /\ w \in Index
         /\ w.base_tx_nr = index.base_tx_nr
         /\ w.max_tx_nr = index.max_tx_nr
         /\ w.transaction_count = index.transaction_count
         /\ w.min_tx_nr = IF index.transaction_count = 0 /\ place > 0
                          THEN tx.tx_nr ELSE index.min_tx_nr
         /\ w.sets \subseteq index.sets \cup (SetNames \X {Offset(index, tx)})
         /\ \E size \in Nat : w.day_max_tx = DayTable(index, tx, place, size)
<1> DEFINE keys  == Inserted(index.addresses, AskedKeys(tx, place))
           coins == Inserted(index.coin_communities, AskedCoins(index, tx, place))
<1>1. PICK a \in Slots(index.address_sets, keys, GrownKeys(tx, place), GrowingKeys(tx, place)),
           c \in Slots(index.coin_sets, coins,
                       GrownCoins(index, tx, place), GrowingCoins(index, tx, place)),
           d \in DayTableSizes(index, tx, place) :
           w = Written(index, tx, place, a, c, d)
  BY DEF WrittenBefore
<1>2. /\ keys \in [Keys -> Nat]
      /\ coins \in [Communities -> Nat]
  BY InsertedType, FinitelyMany DEF Index
<1>3. a \in Nat /\ c \in Nat
  BY <1>2, SlotsType, FinitelyMany DEF Index
<1>4. d \in Nat
  BY DayTableSizesType
<1>5. DayTable(index, tx, place, d) \in Seq(U32)
  BY <1>4, DayTableType DEF Accepts
<1>6. Marks(index, tx, place) \subseteq SetNames
  BY MarksType DEF Accepts
<1>7. Offset(index, tx) \in U32
  BY OffsetType DEF Accepts
<1>8. FirstDay(index, tx) \in Int
  BY DayType DEF FirstDay, Index, Transaction
<1>9. tx.tx_nr \in Nat /\ tx.community \in Communities
  BY DEF Transaction
<1> DEFINE marks == Marks(index, tx, place) \X {Offset(index, tx)}
<1>10. index.sets \cup marks \subseteq SetNames \X U32
  BY <1>6, <1>7 DEF Index
<1>11. w = [index EXCEPT
              !.first_day        = FirstDay(index, tx),
              !.day_max_tx       = DayTable(index, tx, place, d),
              !.min_tx_nr        = IF index.transaction_count = 0 /\ place > 0
                                   THEN tx.tx_nr ELSE index.min_tx_nr,
              !.community        = IF index.transaction_count = 0 /\ place > 0
                                   THEN tx.community ELSE index.community,
              !.addresses        = keys,
              !.address_sets     = a,
              !.coin_communities = coins,
              !.coin_sets        = c,
              !.sets             = index.sets \cup marks]
  BY <1>1 DEF Written
<1> HIDE DEF keys, coins, marks
<1>12. w \in Index
  BY <1>2, <1>3, <1>5, <1>8, <1>9, <1>10, <1>11 DEF Index
<1>13. /\ w.base_tx_nr = index.base_tx_nr
       /\ w.max_tx_nr = index.max_tx_nr
       /\ w.transaction_count = index.transaction_count
       /\ w.min_tx_nr = IF index.transaction_count = 0 /\ place > 0
                        THEN tx.tx_nr ELSE index.min_tx_nr
       /\ w.sets = index.sets \cup marks
       /\ w.day_max_tx = DayTable(index, tx, place, d)
  BY <1>11 DEF Index
<1>14. marks \subseteq SetNames \X {Offset(index, tx)}
  BY <1>6 DEF marks
<1> QED BY <1>4, <1>12, <1>13, <1>14

-----------------------------------------------------------------------------
\* What of an index only an add that went through changes: its base and its
\* counters; and what an add may leave in the sets and the day table.
Keeps(w, index, tx) ==
  /\ w.base_tx_nr = index.base_tx_nr
  /\ w.sets \subseteq index.sets \cup (SetNames \X {Offset(index, tx)})
  /\ \E size \in Nat, place \in Nat : w.day_max_tx = DayTable(index, tx, place, size)

\* An add that went through counts the transaction, in 32 bits.
LEMMA AddedType ==
  ASSUME NEW index \in Index, NEW tx \in Transaction, Accepts(index, tx),
         NEW w \in Added(index, tx)
  PROVE  /\ w \in Index
         /\ Keeps(w, index, tx)
         /\ w.max_tx_nr = tx.tx_nr
         /\ w.transaction_count = (index.transaction_count + 1) % (MaxU32 + 1)
         /\ w.min_tx_nr = IF index.transaction_count = 0 THEN tx.tx_nr ELSE index.min_tx_nr
<1>1. PICK v \in WrittenBefore(index, tx, EndOfAdd(tx)) :
        w = [v EXCEPT !.max_tx_nr = tx.tx_nr,
                      !.transaction_count = (v.transaction_count + 1) % (MaxU32 + 1)]
  BY DEF Added
<1>2. EndOfAdd(tx) \in Nat /\ EndOfAdd(tx) > 0
  BY PlaceType DEF EndOfAdd
<1>3. /\ v \in Index
      /\ v.base_tx_nr = index.base_tx_nr
      /\ v.transaction_count = index.transaction_count
      /\ v.min_tx_nr = IF index.transaction_count = 0 THEN tx.tx_nr ELSE index.min_tx_nr
      /\ v.sets \subseteq index.sets \cup (SetNames \X {Offset(index, tx)})
      /\ \E size \in Nat : v.day_max_tx = DayTable(index, tx, EndOfAdd(tx), size)
  BY <1>2, WrittenBeforeType
<1>4. tx.tx_nr \in Nat
  BY DEF Transaction
<1>5. (v.transaction_count + 1) % (MaxU32 + 1) \in U32
  <2>1. \A n, m \in Nat : (n + 1) % (m + 1) \in 0..m
    OBVIOUS
  <2>2. v.transaction_count \in Nat /\ MaxU32 \in Nat
    BY <1>3, WidthAssumption DEF Index, U32
  <2> QED BY <2>1, <2>2 DEF U32
<1>6. /\ w \in Index
      /\ w.base_tx_nr = v.base_tx_nr
      /\ w.min_tx_nr = v.min_tx_nr
      /\ w.max_tx_nr = tx.tx_nr
      /\ w.transaction_count = (v.transaction_count + 1) % (MaxU32 + 1)
      /\ w.sets = v.sets
      /\ w.day_max_tx = v.day_max_tx
  BY <1>1, <1>3, <1>4, <1>5 DEF Index
<1>7. Keeps(w, index, tx)
  BY <1>2, <1>3, <1>6 DEF Keeps
<1> QED BY <1>3, <1>6, <1>7

\* Places an add may be refused at are numbers.
LEMMA RefusalPlacesType ==
  ASSUME NEW index \in Index, NEW tx \in Transaction
  PROVE  RefusalPlaces(index, tx) \subseteq Nat
<1> DEFINE T == Touches(tx)
<1>1. \A i \in DOMAIN T : \A part \in Nat : At(i, part) \in Nat
  <2>1. T \in Seq(Touch)
    BY TouchesType
  <2>2. DOMAIN T \subseteq Nat
    BY <2>1
  <2> QED BY <2>2 DEF At
<1>2. TypePlace(tx) \in Nat
  BY PlaceType
<1> HIDE DEF T
<1>3. {At(i, part) : i \in {j \in DOMAIN T : T[j].key # NoKey}, part \in 1..3} \subseteq Nat
  BY <1>1
<1>4. {At(i, part) : i \in {j \in DOMAIN T : IsForeign(index, tx, T[j])}, part \in 4..7}
        \subseteq Nat
  BY <1>1
<1> QED BY <1>2, <1>3, <1>4 DEF RefusalPlaces, T

\* An add that found no room counts nothing.  It may have set the smallest
\* number of an index that counts no transaction.
LEMMA OutOfRoomType ==
  ASSUME NEW index \in Index, NEW tx \in Transaction, Accepts(index, tx),
         NEW w \in OutOfRoom(index, tx)
  PROVE  /\ w \in Index
         /\ Keeps(w, index, tx)
         /\ w.max_tx_nr = index.max_tx_nr
         /\ w.transaction_count = index.transaction_count
         /\ index.transaction_count # 0 => w.min_tx_nr = index.min_tx_nr
<1>1. RefusalPlaces(index, tx) \subseteq Nat
  BY RefusalPlacesType
<1>2. PICK place \in RefusalPlaces(index, tx) : w \in WrittenBefore(index, tx, place)
  BY Zenon DEF OutOfRoom
<1>3. place \in Nat
  BY <1>1
<1> QED BY <1>2, <1>3, WrittenBeforeType DEF Keeps

-----------------------------------------------------------------------------
\* An id that was handed out stays, and a key that is asked for has one.
LEMMA InsertedReaches ==
  ASSUME NEW K, IsFiniteSet(K), NEW map \in [K -> Nat], NEW asked \in [K -> SUBSET Nat],
         NEW k \in K
  PROVE  /\ map[k] # 0 => Inserted(map, asked)[k] = map[k]
         /\ asked[k] # {} => Inserted(map, asked)[k] # 0
<1> DEFINE new == {j \in DOMAIN map : map[j] = 0 /\ asked[j] # {}}
           NotAfter(j, i) == \E p \in asked[j] : \A q \in asked[i] : p <= q
           before == {j \in new : NotAfter(j, k)}
<1>1. Inserted(map, asked)[k] =
        IF k \in new THEN MapSize(map) + Cardinality(before) ELSE map[k]
  BY DEF Inserted
<1>2. ASSUME k \in new PROVE MapSize(map) + Cardinality(before) # 0
  <2>1. \E p \in asked[k] : \A q \in asked[k] : p <= q
    BY <1>2, LeastNumber
  <2>2. before \subseteq K /\ k \in before
    BY <1>2, <2>1
  <2> HIDE DEF before
  <2>3. IsFiniteSet(before) /\ before # {}
    BY <2>2, FS_Subset
  <2>4. Cardinality(before) \in Nat /\ Cardinality(before) # 0
    BY <2>3, FS_CardinalityType, FS_EmptySet
  <2>5. MapSize(map) \in Nat
    BY MapSizeType
  <2> QED BY <2>4, <2>5
<1>3. k \in new <=> map[k] = 0 /\ asked[k] # {}
  OBVIOUS
<1> HIDE DEF new, before
<1> QED BY <1>1, <1>2, <1>3

\* A vector does not shrink, and has a slot for every key it was grown for.
LEMMA SlotsCover ==
  ASSUME NEW size, NEW map, NEW reached, NEW heading,
         NEW n \in Slots(size, map, reached, heading)
  PROVE  size <= n /\ \A k \in reached : map[k] <= n
  BY DEF Slots

\* A key map and its vector after an add: what had a slot has it still, and so
\* has what was both asked for and grown.
LEMMA SlotsReach ==
  ASSUME NEW K, IsFiniteSet(K), NEW map \in [K -> Nat], NEW size \in Nat,
         NEW asked \in [K -> SUBSET Nat], NEW reached \in SUBSET K, NEW heading,
         NEW n \in Slots(size, Inserted(map, asked), reached, heading),
         NEW k \in K,
         map[k] \in 1..size \/ (asked[k] # {} /\ k \in reached)
  PROVE  Inserted(map, asked)[k] \in 1..n
<1> DEFINE grown == Inserted(map, asked)
<1>1. grown \in [K -> Nat] /\ n \in Nat
  <2>1. grown \in [K -> Nat]
    BY InsertedType
  <2> HIDE DEF grown
  <2> QED BY <2>1, SlotsType DEF grown
<1>2. /\ map[k] # 0 => grown[k] = map[k]
      /\ asked[k] # {} => grown[k] # 0
  BY InsertedReaches
<1>3. size <= n /\ \A j \in reached : grown[j] <= n
  BY SlotsCover
<1> HIDE DEF grown
<1>4. map[k] \in 1..size => grown[k] \in 1..n
  BY <1>1, <1>2, <1>3
<1>5. asked[k] # {} /\ k \in reached => grown[k] \in 1..n
  BY <1>1, <1>2, <1>3
<1> QED BY <1>4, <1>5 DEF grown

\* Every set of an index is found from its key or coin.
SetsReachable(s) ==
  \A m \in s.sets :
    /\ m[1][1] \in {"balance", "signed", "other"} =>
         s.addresses[m[1][2]] \in 1..s.address_sets
    /\ m[1][1] = "coin" => s.coin_communities[m[1][2]] \in 1..s.coin_sets

LEMMA PlacesAreNumbers ==
  ASSUME NEW tx \in Transaction
  PROVE  DOMAIN Touches(tx) \subseteq Nat /\ \A i \in DOMAIN Touches(tx) : Touches(tx)[i] \in Touch
<1>1. /\ DOMAIN Touches(tx) = 1..Len(Touches(tx))
      /\ Len(Touches(tx)) \in Nat
      /\ \A i \in DOMAIN Touches(tx) : Touches(tx)[i] \in Touch
  BY PlaceType, Zenon
<1>2. 1..Len(Touches(tx)) \subseteq Nat
  BY <1>1
<1> QED BY <1>1, <1>2, Zenon

\* Before its offset enters a set, an add has put the set's key or coin into
\* its map and grown the vector behind it.
LEMMA MarksAreAskedFor ==
  ASSUME NEW index \in Index, NEW tx \in Transaction, tx.type \in TransactionTypes,
         NEW place \in Nat, NEW name \in Marks(index, tx, place)
  PROVE  /\ name \in SetNames
         /\ name[1] \in {"balance", "signed", "other"} =>
              /\ AskedKeys(tx, place)[name[2]] # {}
              /\ name[2] \in GrownKeys(tx, place)
         /\ name[1] = "coin" =>
              /\ AskedCoins(index, tx, place)[name[2]] # {}
              /\ name[2] \in GrownCoins(index, tx, place)
<1> DEFINE T == Touches(tx)
           keyed == {<<T[i].role, T[i].key>> : i \in {j \in DOMAIN T : T[j].key # NoKey /\ At(j, 3) < place}}
           coins == {<<"coin", T[i].coin>> :
                       i \in {j \in DOMAIN T : IsForeign(index, tx, T[j]) /\ At(j, 6) < place}}
<1>1. name \in SetNames
  BY MarksType
<1>2. name \in keyed \cup coins \cup {<<"foreign", NoCommunity>>, <<"type", tx.type>>}
  BY DEF Marks
<1>3. DOMAIN T \subseteq Nat /\ \A i \in DOMAIN T : T[i] \in Touch
  BY PlacesAreNumbers
<1>4. CASE name \in keyed
  <2>1. PICK i \in DOMAIN T : /\ name = <<T[i].role, T[i].key>>
                             /\ T[i].key # NoKey
                             /\ At(i, 3) < place
    BY <1>4
  <2>2. At(i, 1) < place /\ At(i, 2) < place
    BY <1>3, <2>1 DEF At
  <2>3. T[i].key \in Keys /\ T[i].role \in {"balance", "signed", "other"}
    BY <1>3, <2>1 DEF Touch
  <2>4. i \in AskedKeys(tx, place)[T[i].key] /\ T[i].key \in GrownKeys(tx, place)
    BY <2>2, <2>3 DEF AskedKeys, GrownKeys
  <2> QED BY <1>1, <2>1, <2>3, <2>4
<1>5. CASE name \in coins
  <2>1. PICK i \in DOMAIN T : /\ name = <<"coin", T[i].coin>>
                             /\ IsForeign(index, tx, T[i])
                             /\ At(i, 6) < place
    BY <1>5
  <2>2. At(i, 4) < place /\ At(i, 5) < place
    BY <1>3, <2>1 DEF At
  <2>3. T[i].coin \in Communities
    <3>1. T[i].role = "balance" /\ T[i] \in Touch
      BY <1>3, <2>1 DEF IsForeign
    <3> QED BY <3>1 DEF Touch
  <2>4. i \in AskedCoins(index, tx, place)[T[i].coin] /\ T[i].coin \in GrownCoins(index, tx, place)
    BY <2>1, <2>2, <2>3 DEF AskedCoins, GrownCoins
  <2> QED BY <1>1, <2>1, <2>4
<1>6. CASE name \in {<<"foreign", NoCommunity>>, <<"type", tx.type>>}
  BY <1>1, <1>6
<1> QED BY <1>2, <1>4, <1>5, <1>6

\* However far an add came, every set of the index is found again.
LEMMA WrittenIsFound ==
  ASSUME NEW index \in Index, NEW tx \in Transaction, Accepts(index, tx),
         NEW place \in Nat, NEW w \in WrittenBefore(index, tx, place),
         SetsReachable(index)
  PROVE  SetsReachable(w)
<1> DEFINE askedKeys  == AskedKeys(tx, place)
           askedCoins == AskedCoins(index, tx, place)
           keys  == Inserted(index.addresses, askedKeys)
           coins == Inserted(index.coin_communities, askedCoins)
<1>1. PICK a \in Slots(index.address_sets, keys, GrownKeys(tx, place), GrowingKeys(tx, place)),
           c \in Slots(index.coin_sets, coins,
                       GrownCoins(index, tx, place), GrowingCoins(index, tx, place)),
           d \in DayTableSizes(index, tx, place) :
           w = Written(index, tx, place, a, c, d)
  BY DEF WrittenBefore
<1>2. /\ w.addresses = keys
      /\ w.address_sets = a
      /\ w.coin_communities = coins
      /\ w.coin_sets = c
      /\ w.sets = index.sets \cup (Marks(index, tx, place) \X {Offset(index, tx)})
  BY <1>1 DEF Written, Index
<1>3. DOMAIN Touches(tx) \subseteq Nat
  BY PlacesAreNumbers
<1>4. /\ askedKeys \in [Keys -> SUBSET Nat]
      /\ askedCoins \in [Communities -> SUBSET Nat]
      /\ GrownKeys(tx, place) \subseteq Keys
      /\ GrownCoins(index, tx, place) \subseteq Communities
  BY <1>3 DEF AskedKeys, AskedCoins, GrownKeys, GrownCoins
<1>5. /\ index.addresses \in [Keys -> Nat]
      /\ index.coin_communities \in [Communities -> Nat]
      /\ index.address_sets \in Nat
      /\ index.coin_sets \in Nat
      /\ index.sets \subseteq SetNames \X U32
  BY DEF Index
<1>6. \A k \in Keys :
        \/ index.addresses[k] \in 1..index.address_sets
        \/ askedKeys[k] # {} /\ k \in GrownKeys(tx, place)
        => keys[k] \in 1..a
  BY <1>1, <1>4, <1>5, SlotsReach, FinitelyMany
<1>7. \A k \in Communities :
        \/ index.coin_communities[k] \in 1..index.coin_sets
        \/ askedCoins[k] # {} /\ k \in GrownCoins(index, tx, place)
        => coins[k] \in 1..c
  BY <1>1, <1>4, <1>5, SlotsReach, FinitelyMany
<1> HIDE DEF keys, coins
<1>8. \A name \in SetNames :
        /\ name[1] \in {"balance", "signed", "other"} => name[2] \in Keys
        /\ name[1] = "coin" => name[2] \in Communities
  BY DEF SetNames
<1>9. ASSUME NEW m \in w.sets
      PROVE  /\ m[1][1] \in {"balance", "signed", "other"} => keys[m[1][2]] \in 1..a
             /\ m[1][1] = "coin" => coins[m[1][2]] \in 1..c
  <2>1. CASE m \in index.sets
    <3>1. m[1] \in SetNames
      BY <1>5, <2>1
    <3> QED BY <1>6, <1>7, <1>8, <2>1, <3>1 DEF SetsReachable
  <2>2. CASE m \in Marks(index, tx, place) \X {Offset(index, tx)}
    <3>1. m[1] \in Marks(index, tx, place)
      BY <2>2
    <3>2. /\ m[1] \in SetNames
          /\ m[1][1] \in {"balance", "signed", "other"} =>
               askedKeys[m[1][2]] # {} /\ m[1][2] \in GrownKeys(tx, place)
          /\ m[1][1] = "coin" =>
               askedCoins[m[1][2]] # {} /\ m[1][2] \in GrownCoins(index, tx, place)
      BY <3>1, MarksAreAskedFor DEF Accepts
    <3> QED BY <1>6, <1>7, <1>8, <3>2
  <2> QED BY <1>2, <2>1, <2>2
<1> QED BY <1>2, <1>9 DEF SetsReachable

LEMMA AddIsFound ==
  ASSUME NEW index \in Index, NEW tx \in Transaction, Accepts(index, tx),
         SetsReachable(index),
         NEW w \in Added(index, tx) \cup OutOfRoom(index, tx)
  PROVE  SetsReachable(w)
<1>1. CASE w \in Added(index, tx)
  <2>1. PICK v \in WrittenBefore(index, tx, EndOfAdd(tx)) :
          w = [v EXCEPT !.max_tx_nr = tx.tx_nr,
                        !.transaction_count = (v.transaction_count + 1) % (MaxU32 + 1)]
    BY <1>1 DEF Added
  <2>2. EndOfAdd(tx) \in Nat
    BY PlaceType
  <2>3. SetsReachable(v) /\ v \in Index
    BY <2>2, WrittenIsFound, WrittenBeforeType
  <2>4. /\ w.sets = v.sets
        /\ w.addresses = v.addresses
        /\ w.address_sets = v.address_sets
        /\ w.coin_communities = v.coin_communities
        /\ w.coin_sets = v.coin_sets
    BY <2>1, <2>3 DEF Index
  <2> QED BY <2>3, <2>4 DEF SetsReachable
<1>2. CASE w \in OutOfRoom(index, tx)
  <2>1. PICK place \in RefusalPlaces(index, tx) : w \in WrittenBefore(index, tx, place)
    BY <1>2, Zenon DEF OutOfRoom
  <2>2. place \in Nat
    BY RefusalPlacesType
  <2> QED BY <2>1, <2>2, WrittenIsFound
<1> QED BY <1>1, <1>2

-----------------------------------------------------------------------------
(* The register of addresses.                                              *)

TypeChanges == [Keys -> Seq(TypeChange)]
Note == [key : Keys \cup {NoKey}, type : AddressTypes \cup {"unknown"}]

\* What a transaction gives types to: two keys at most.
LEMMA NotesType ==
  ASSUME NEW tx \in Transaction
  PROVE  Notes(tx) \in Seq(Note) /\ Len(Notes(tx)) \in Nat
<1>1. /\ tx.body[1] \in Keys \cup {NoKey}
      /\ tx.body[2] \in Keys \cup {NoKey}
      /\ tx.body[3] \in Keys \cup {NoKey}
      /\ tx.gives \in AddressTypes \cup {"unknown"}
  BY DEF Transaction
<1>2. \A a \in Keys \cup {NoKey}, t \in AddressTypes \cup {"unknown"} :
        [key |-> a, type |-> t] \in Note
  BY DEF Note
<1>3. {"gmw", "auf", "deferred"} \subseteq AddressTypes
  BY DEF AddressTypes
<1>4. \A m, n \in Note : /\ <<m, n>> \in Seq(Note)
                         /\ <<m>> \in Seq(Note)
                         /\ <<>> \in Seq(Note)
  OBVIOUS
<1>5. CASE tx.type = "community_root"
  <2>1. Notes(tx) = <<[key |-> tx.body[2], type |-> "gmw"], [key |-> tx.body[3], type |-> "auf"]>>
    BY <1>5 DEF Notes
  <2> QED BY <2>1, <1>1, <1>2, <1>3, <1>4
<1>6. CASE tx.type = "register_address"
  <2>1. Notes(tx) = <<[key |-> tx.body[1], type |-> tx.gives], [key |-> tx.body[2], type |-> tx.gives]>>
    BY <1>6 DEF Notes
  <2> QED BY <2>1, <1>1, <1>2, <1>4
<1>7. CASE tx.type = "deferred_transfer"
  <2>1. Notes(tx) = <<[key |-> tx.body[2], type |-> "deferred"]>>
    BY <1>7 DEF Notes
  <2> QED BY <2>1, <1>1, <1>2, <1>3, <1>4
<1>8. CASE tx.type \notin {"community_root", "register_address", "deferred_transfer"}
  <2>1. Notes(tx) = <<>>
    BY <1>8 DEF Notes
  <2> QED BY <2>1
<1> QED BY <1>5, <1>6, <1>7, <1>8

\* What an add asks of the register comes at numbered places.
LEMMA AsksType ==
  ASSUME NEW tx \in Transaction
  PROVE  /\ DOMAIN Asks(tx) \subseteq Nat
         /\ Len(Asks(tx)) \in Nat
         /\ EndOfAsks(tx) \in Nat
<1> DEFINE moved == [i \in 1..Len(tx.balances) |->
                       [key |-> tx.balances[i].key, type |-> "balance"]]
           Ask == [key : Keys \cup {NoKey}, type : AddressTypes \cup {"unknown", "balance"}]
<1>1. moved \in Seq(Ask)
  <2>1. /\ tx.balances \in Seq([key : Keys \cup {NoKey}, coin : Communities])
        /\ Len(tx.balances) \in Nat
    BY DEF Transaction
  <2>2. \A i \in 1..Len(tx.balances) :
          tx.balances[i] \in [key : Keys \cup {NoKey}, coin : Communities]
    BY <2>1, ElementOfSeq, Zenon
  <2>3. \A i \in 1..Len(tx.balances) :
          [key |-> tx.balances[i].key, type |-> "balance"] \in Ask
    BY <2>2
  <2> QED BY <2>1, <2>3, IsASeq
<1>2. Notes(tx) \in Seq(Ask)
  <2>1. Note \subseteq Ask
    BY DEF Note
  <2>2. Notes(tx) \in Seq(Note)
    BY NotesType
  <2> HIDE DEF Ask
  <2> QED BY <2>1, <2>2
<1>3. Asks(tx) = Notes(tx) \o moved
  BY DEF Asks
<1> HIDE DEF moved, Ask
<1>4. Asks(tx) \in Seq(Ask)
  BY <1>1, <1>2, <1>3, ConcatProperties
<1> QED BY <1>4 DEF EndOfAsks, At

\* A record goes to its own key, or nothing is written.
LEMMA NotedType ==
  ASSUME NEW changes \in TypeChanges, NEW note \in Note, NEW tx_nr \in Nat,
         note.key = NoKey \/ note.type \in AddressTypes
  PROVE  Noted(changes, note, tx_nr) \in TypeChanges
<1>1. CASE note.key = NoKey \/ IsNoted(changes, note, tx_nr)
  BY <1>1 DEF Noted
<1>2. CASE note.key # NoKey /\ ~IsNoted(changes, note, tx_nr)
  <2> DEFINE change == [tx_nr |-> tx_nr, type |-> note.type]
             records == <<change>> \o changes[note.key]
  <2>1. note.key \in Keys /\ change \in TypeChange
    BY <1>2 DEF Note, TypeChange
  <2>2. changes[note.key] \in Seq(TypeChange) /\ <<change>> \in Seq(TypeChange)
    BY <2>1 DEF TypeChanges
  <2>3. records \in Seq(TypeChange)
    BY <2>2, ConcatProperties
  <2>4. Noted(changes, note, tx_nr) = [changes EXCEPT ![note.key] = records]
    BY <1>2 DEF Noted
  <2> HIDE DEF records
  <2> QED BY <2>1, <2>3, <2>4 DEF TypeChanges
<1> QED BY <1>1, <1>2

\* The records that stand before a place an add can come to.
LEMMA ChangesType ==
  ASSUME NEW register \in Register, NEW tx \in Transaction, NEW place \in Nat,
         \A u \in UnknownTypes(tx) : place <= u
  PROVE  ChangesBefore(register, tx, place) \in TypeChanges
<1> DEFINE notes == Notes(tx)
           Done(i) == IsNote(tx, i) /\ At(i, 3) < place
           once == IF Done(1) THEN Noted(register.changes, notes[1], tx.tx_nr)
                              ELSE register.changes
<1>1. /\ notes \in Seq(Note)
      /\ Len(notes) \in Nat
      /\ DOMAIN notes = 1..Len(notes)
  BY NotesType
<1>2. \A i \in Nat : Done(i) => /\ notes[i] \in Note
                                /\ notes[i].key = NoKey \/ notes[i].type \in AddressTypes
  <2> TAKE i \in Nat
  <2> HAVE Done(i)
  <2>1. i \in DOMAIN notes
    BY <1>1 DEF IsNote
  <2>2. notes[i] \in Note
    BY <1>1, <2>1, ElementOfSeq
  <2>3. At(i, 1) < place
    BY <2>1 DEF At
  <2>4. At(i, 1) \notin UnknownTypes(tx)
    BY <2>3 DEF At
  <2> QED BY <2>1, <2>2, <2>4 DEF UnknownTypes
<1>3. register.changes \in TypeChanges /\ tx.tx_nr \in Nat
  BY DEF Register, TypeChanges, Transaction
<1>4. ChangesBefore(register, tx, place) =
        IF Done(2) THEN Noted(once, notes[2], tx.tx_nr) ELSE once
  BY DEF ChangesBefore
<1> HIDE DEF notes, Done
<1>5. once \in TypeChanges
  BY <1>2, <1>3, NotedType
<1> HIDE DEF once
<1> QED BY <1>2, <1>3, <1>4, <1>5, NotedType

\* Whatever part of an add was written, a register stands.
LEMMA RegisterBeforeType ==
  ASSUME NEW register \in Register, NEW tx \in Transaction, NEW place \in Nat,
         \A u \in UnknownTypes(tx) : place <= u,
         NEW r \in RegisterBefore(register, tx, place)
  PROVE  /\ r \in Register
         /\ r.max_tx_nr = register.max_tx_nr
         /\ r.transaction_count = register.transaction_count
<1> DEFINE keys    == Inserted(register.keys, AskedBefore(tx, 1, place))
           reached == {k \in Keys : AskedBefore(tx, 2, place)[k] # {}}
           heading == {k \in Keys : \E i \in DOMAIN Asks(tx) :
                                       Asks(tx)[i].key = k /\ At(i, 2) = place}
<1>1. PICK e \in Slots(register.entries, keys, reached, heading) :
        r = [register EXCEPT !.keys            = keys,
                             !.entries         = e,
                             !.last_balance_tx = BalancesBefore(register, tx, place),
                             !.changes         = ChangesBefore(register, tx, place)]
  BY DEF RegisterBefore
<1>2. keys \in [Keys -> Nat]
  BY InsertedType, FinitelyMany DEF Register
<1> HIDE DEF keys, reached, heading
<1>3. e \in Nat
  BY <1>2, SlotsType, FinitelyMany DEF Register
<1>4. BalancesBefore(register, tx, place) \in [Keys -> Nat]
  BY DEF BalancesBefore, Register, Transaction
<1>5. ChangesBefore(register, tx, place) \in [Keys -> Seq(TypeChange)]
  BY ChangesType DEF TypeChanges
<1> QED BY <1>1, <1>2, <1>3, <1>4, <1>5 DEF Register

\* An add that went through leaves a register that counts the transaction.
LEMMA RegisterAddedType ==
  ASSUME NEW register \in Register, NEW tx \in Transaction,
         NEW w \in RegisterAdded(register, tx)
  PROVE  /\ w \in Register
         /\ w.max_tx_nr = tx.tx_nr
<1>1. UnknownTypes(tx) = {}
  BY DEF RegisterAdded
<1>2. PICK r \in RegisterBefore(register, tx, EndOfAsks(tx)) :
        w = [r EXCEPT !.max_tx_nr = tx.tx_nr,
                      !.transaction_count = (r.transaction_count + 1) % (MaxU32 + 1)]
  BY <1>1 DEF RegisterAdded
<1>3. r \in Register
  BY <1>1, AsksType, RegisterBeforeType
<1>4. (r.transaction_count + 1) % (MaxU32 + 1) \in U32
  <2>1. \A n, m \in Nat : (n + 1) % (m + 1) \in 0..m
    OBVIOUS
  <2>2. r.transaction_count \in Nat /\ MaxU32 \in Nat
    BY <1>3, WidthAssumption DEF Register, U32
  <2> QED BY <2>1, <2>2 DEF U32
<1>5. tx.tx_nr \in Nat
  BY DEF Transaction
<1> QED BY <1>2, <1>3, <1>4, <1>5 DEF Register

\* Places the register's add may be refused at are numbers.
LEMMA RegisterPlacesType ==
  ASSUME NEW register \in Register, NEW tx \in Transaction
  PROVE  RoomPlaces(register, tx) \cup UnknownTypes(tx) \subseteq Nat
<1>1. DOMAIN Notes(tx) \subseteq Nat /\ DOMAIN Asks(tx) \subseteq Nat
  BY NotesType, AsksType
<1>2. UnknownTypes(tx) \subseteq Nat
  BY <1>1 DEF UnknownTypes, At
<1>3. RoomPlaces(register, tx) \subseteq Nat
  BY <1>1 DEF RoomPlaces, At
<1> QED BY <1>2, <1>3

\* A refused add leaves a register that counts what it counted.
LEMMA RegisterRefusedType ==
  ASSUME NEW register \in Register, NEW tx \in Transaction,
         NEW w \in RegisterRefused(register, tx)
  PROVE  /\ w \in Register
         /\ w.max_tx_nr = register.max_tx_nr
         /\ w.transaction_count = register.transaction_count
<1>1. PICK place \in RoomPlaces(register, tx) \cup UnknownTypes(tx) :
        /\ \A u \in UnknownTypes(tx) : place <= u
        /\ w \in RegisterBefore(register, tx, place)
  BY Zenon DEF RegisterRefused
<1>2. place \in Nat
  BY <1>1, RegisterPlacesType
<1> QED BY <1>1, <1>2, RegisterBeforeType

-----------------------------------------------------------------------------
\* A record goes in front of those of its key, or nothing is written.
LEMMA NotedPrepends ==
  ASSUME NEW changes \in TypeChanges, NEW note \in Note, NEW tx_nr \in Nat, NEW k \in Keys
  PROVE  \/ Noted(changes, note, tx_nr)[k] = changes[k]
         \/ /\ k = note.key
            /\ ~IsNoted(changes, note, tx_nr)
            /\ Noted(changes, note, tx_nr)[k]
                 = <<[tx_nr |-> tx_nr, type |-> note.type]>> \o changes[k]
<1>1. CASE note.key = NoKey \/ IsNoted(changes, note, tx_nr)
  BY <1>1 DEF Noted
<1>2. CASE note.key # NoKey /\ ~IsNoted(changes, note, tx_nr)
  <2> DEFINE records == <<[tx_nr |-> tx_nr, type |-> note.type]>> \o changes[note.key]
  <2>1. Noted(changes, note, tx_nr) = [changes EXCEPT ![note.key] = records]
    BY <1>2 DEF Noted
  <2> HIDE DEF records
  <2>2. Noted(changes, note, tx_nr)[k] = IF k = note.key THEN records ELSE changes[k]
    BY <2>1 DEF TypeChanges
  <2> QED BY <1>2, <2>2 DEF records
<1> QED BY <1>1, <1>2

\* The two notes of a transaction, one after the other: a key whose records
\* grow was given a type by a note the add had come past.
LEMMA ChangesAreNoted ==
  ASSUME NEW register \in Register, NEW tx \in Transaction, NEW place \in Nat,
         \A u \in UnknownTypes(tx) : place <= u
  PROVE  \E once \in TypeChanges :
           /\ \/ once = register.changes
              \/ /\ 1 \in DOMAIN Notes(tx) /\ At(1, 3) < place
                 /\ once = Noted(register.changes, Notes(tx)[1], tx.tx_nr)
           /\ \/ ChangesBefore(register, tx, place) = once
              \/ /\ 2 \in DOMAIN Notes(tx) /\ At(2, 3) < place
                 /\ ChangesBefore(register, tx, place) = Noted(once, Notes(tx)[2], tx.tx_nr)
<1> DEFINE notes == Notes(tx)
           Done(i) == IsNote(tx, i) /\ At(i, 3) < place
           once == IF Done(1) THEN Noted(register.changes, notes[1], tx.tx_nr)
                              ELSE register.changes
<1>1. /\ notes \in Seq(Note)
      /\ Len(notes) \in Nat
      /\ DOMAIN notes = 1..Len(notes)
  BY NotesType
<1>2. \A i \in Nat : Done(i) => i \in DOMAIN notes /\ At(i, 3) < place
  BY <1>1 DEF IsNote
<1>3. ChangesBefore(register, tx, place) =
        IF Done(2) THEN Noted(once, notes[2], tx.tx_nr) ELSE once
  BY DEF ChangesBefore
<1>4. once \in TypeChanges
  <2>1. CASE ~Done(1)
    BY <2>1 DEF Register, TypeChanges
  <2>2. CASE Done(1)
    <3>1. notes[1] \in Note /\ At(1, 1) < place
      BY <1>1, <1>2, <2>2, ElementOfSeq DEF At
    <3>2. notes[1].key = NoKey \/ notes[1].type \in AddressTypes
      <4>1. At(1, 1) \notin UnknownTypes(tx)
        BY <3>1 DEF At
      <4> QED BY <4>1, <1>2, <2>2 DEF UnknownTypes
    <3>3. register.changes \in TypeChanges /\ tx.tx_nr \in Nat
      BY DEF Register, TypeChanges, Transaction
    <3>4. once = Noted(register.changes, notes[1], tx.tx_nr)
      BY <2>2
    <3> HIDE DEF once, notes
    <3> QED BY <3>1, <3>2, <3>3, <3>4, NotedType
  <2> QED BY <2>1, <2>2
<1> HIDE DEF Done
<1> WITNESS once \in TypeChanges
<1> QED BY <1>2, <1>3

LEMMA EachNoteIsANote ==
  ASSUME NEW tx \in Transaction
  PROVE  \A i \in DOMAIN Notes(tx) : i \in Nat /\ Notes(tx)[i] \in Note
<1>1. /\ Notes(tx) \in Seq(Note)
      /\ Len(Notes(tx)) \in Nat
      /\ DOMAIN Notes(tx) = 1..Len(Notes(tx))
  BY NotesType
<1> QED BY <1>1, ElementOfSeq

\* A note that an add has come past is not of an unknown type.
LEMMA NotesPassedAreKnown ==
  ASSUME NEW tx \in Transaction, NEW place \in Nat,
         \A u \in UnknownTypes(tx) : place <= u
  PROVE  \A i \in DOMAIN Notes(tx) : At(i, 3) < place =>
           /\ Notes(tx)[i] \in Note
           /\ Notes(tx)[i].key = NoKey \/ Notes(tx)[i].type \in AddressTypes
<1> TAKE i \in DOMAIN Notes(tx)
<1> HAVE At(i, 3) < place
<1>1. i \in Nat /\ Notes(tx)[i] \in Note
  BY EachNoteIsANote
<1>2. ~(place <= At(i, 1))
  BY <1>1 DEF At
<1> QED BY <1>1, <1>2 DEF UnknownTypes

LEMMA ChangesGrowByNotes ==
  ASSUME NEW register \in Register, NEW tx \in Transaction, NEW place \in Nat,
         \A u \in UnknownTypes(tx) : place <= u,
         NEW k \in Keys, ChangesBefore(register, tx, place)[k] # register.changes[k]
  PROVE  \E i \in DOMAIN Notes(tx) : Notes(tx)[i].key = k /\ At(i, 3) < place
<1>1. PICK once \in TypeChanges :
           /\ \/ once = register.changes
              \/ /\ 1 \in DOMAIN Notes(tx) /\ At(1, 3) < place
                 /\ once = Noted(register.changes, Notes(tx)[1], tx.tx_nr)
           /\ \/ ChangesBefore(register, tx, place) = once
              \/ /\ 2 \in DOMAIN Notes(tx) /\ At(2, 3) < place
                 /\ ChangesBefore(register, tx, place) = Noted(once, Notes(tx)[2], tx.tx_nr)
  BY ChangesAreNoted
<1>2. register.changes \in TypeChanges /\ tx.tx_nr \in Nat
  BY DEF Register, TypeChanges, Transaction
<1>3. CASE once[k] # register.changes[k]
  <2>1. 1 \in DOMAIN Notes(tx) /\ At(1, 3) < place /\ Notes(tx)[1] \in Note
    BY <1>1, <1>3, EachNoteIsANote
  <2>2. \/ Noted(register.changes, Notes(tx)[1], tx.tx_nr)[k] = register.changes[k]
        \/ k = Notes(tx)[1].key
    <3> DEFINE was  == register.changes
               note == Notes(tx)[1]
               nr   == tx.tx_nr
    <3>1. was \in TypeChanges /\ note \in Note /\ nr \in Nat
      BY <1>2, <2>1
    <3> HIDE DEF was, note, nr
    <3>2. Noted(was, note, nr)[k] = was[k] \/ k = note.key
      BY <3>1, NotedPrepends, Zenon
    <3> QED BY <3>2 DEF was, note, nr
  <2>3. once = Noted(register.changes, Notes(tx)[1], tx.tx_nr)
    BY <1>1, <1>3
  <2>4. Notes(tx)[1].key = k
    BY <1>3, <2>2, <2>3
  <2> QED BY <2>1, <2>4
<1>4. CASE once[k] = register.changes[k]
  <2>1. 2 \in DOMAIN Notes(tx) /\ At(2, 3) < place /\ Notes(tx)[2] \in Note
    BY <1>1, <1>4, EachNoteIsANote
  <2>2. Noted(once, Notes(tx)[2], tx.tx_nr)[k] = once[k] \/ k = Notes(tx)[2].key
    <3> DEFINE note == Notes(tx)[2]
               nr   == tx.tx_nr
    <3>1. once \in TypeChanges /\ note \in Note /\ nr \in Nat
      BY <1>2, <2>1
    <3> HIDE DEF note, nr
    <3>2. Noted(once, note, nr)[k] = once[k] \/ k = note.key
      BY <3>1, NotedPrepends, Zenon
    <3> QED BY <3>2 DEF note, nr
  <2> QED BY <1>1, <1>4, <2>1, <2>2
<1> QED BY <1>3, <1>4

\* The asks of an add begin with its notes, place by place.
LEMMA AsksBeginWithNotes ==
  ASSUME NEW tx \in Transaction
  PROVE  \A i \in DOMAIN Notes(tx) : i \in DOMAIN Asks(tx) /\ Asks(tx)[i] = Notes(tx)[i]
<1> DEFINE moved == [i \in 1..Len(tx.balances) |->
                       [key |-> tx.balances[i].key, type |-> "balance"]]
           Ask == [key : Keys \cup {NoKey}, type : AddressTypes \cup {"unknown", "balance"}]
<1>1. moved \in Seq(Ask)
  <2>1. /\ tx.balances \in Seq([key : Keys \cup {NoKey}, coin : Communities])
        /\ Len(tx.balances) \in Nat
    BY DEF Transaction
  <2>2. \A i \in 1..Len(tx.balances) :
          tx.balances[i] \in [key : Keys \cup {NoKey}, coin : Communities]
    BY <2>1, ElementOfSeq, Zenon
  <2>3. \A i \in 1..Len(tx.balances) :
          [key |-> tx.balances[i].key, type |-> "balance"] \in Ask
    BY <2>2
  <2> QED BY <2>1, <2>3, IsASeq
<1>2. Notes(tx) \in Seq(Ask)
  <2>1. Note \subseteq Ask
    BY DEF Note
  <2>2. Notes(tx) \in Seq(Note)
    BY NotesType
  <2> HIDE DEF Ask
  <2> QED BY <2>1, <2>2
<1>3. Asks(tx) = Notes(tx) \o moved
  BY DEF Asks
<1> HIDE DEF moved, Ask
<1>4. /\ Len(Asks(tx)) = Len(Notes(tx)) + Len(moved)
      /\ Asks(tx) \in Seq(Ask)
      /\ \A i \in 1..Len(Notes(tx)) : Asks(tx)[i] = Notes(tx)[i]
  BY <1>1, <1>2, <1>3, ConcatProperties
<1>5. /\ Len(Notes(tx)) \in Nat /\ Len(moved) \in Nat
      /\ DOMAIN Notes(tx) = 1..Len(Notes(tx))
      /\ DOMAIN Asks(tx) = 1..Len(Asks(tx))
  BY <1>1, <1>2, <1>4, LenProperties
<1> QED BY <1>4, <1>5

\* A key with a type or a balance is found in the register.
RegisterReachable(register) ==
  \A k \in Keys :
    register.changes[k] # <<>> \/ register.last_balance_tx[k] # 0 => KnowsKey(register, k)

\* However far an add came, a key that was known is, and so is every key
\* that something was written under.
LEMMA RegisterFinds ==
  ASSUME NEW register \in Register, NEW tx \in Transaction, NEW place \in Nat,
         \A u \in UnknownTypes(tx) : place <= u,
         NEW r \in RegisterBefore(register, tx, place)
  PROVE  /\ \A k \in Keys : KnowsKey(register, k) => KnowsKey(r, k)
         /\ RegisterReachable(register) => RegisterReachable(r)
         /\ r.changes = ChangesBefore(register, tx, place)
<1> DEFINE asked   == AskedBefore(tx, 1, place)
           keys    == Inserted(register.keys, asked)
           reached == {k \in Keys : AskedBefore(tx, 2, place)[k] # {}}
           heading == {k \in Keys : \E i \in DOMAIN Asks(tx) :
                                       Asks(tx)[i].key = k /\ At(i, 2) = place}
<1>1. PICK e \in Slots(register.entries, keys, reached, heading) :
        r = [register EXCEPT !.keys            = keys,
                             !.entries         = e,
                             !.last_balance_tx = BalancesBefore(register, tx, place),
                             !.changes         = ChangesBefore(register, tx, place)]
  BY DEF RegisterBefore
<1>2. /\ r.keys = keys
      /\ r.entries = e
      /\ r.last_balance_tx = BalancesBefore(register, tx, place)
      /\ r.changes = ChangesBefore(register, tx, place)
  BY <1>1 DEF Register
<1>3. DOMAIN Asks(tx) \subseteq Nat
  BY AsksType
<1>4. /\ asked \in [Keys -> SUBSET Nat]
      /\ reached \subseteq Keys
      /\ register.keys \in [Keys -> Nat]
      /\ register.entries \in Nat
  BY <1>3 DEF AskedBefore, Register
<1>5. \A k \in Keys :
        \/ register.keys[k] \in 1..register.entries
        \/ asked[k] # {} /\ k \in reached
        => keys[k] \in 1..e
  <2> HIDE DEF asked, reached, heading
  <2> QED BY <1>1, <1>4, SlotsReach, FinitelyMany
<1>6. \A k \in Keys : \A i \in DOMAIN Asks(tx) :
        Asks(tx)[i].key = k /\ At(i, 2) < place => asked[k] # {} /\ k \in reached
  <2> TAKE k \in Keys
  <2> TAKE i \in DOMAIN Asks(tx)
  <2> HAVE Asks(tx)[i].key = k /\ At(i, 2) < place
  <2>1. At(i, 1) < place
    BY <1>3 DEF At
  <2>2. i \in AskedBefore(tx, 1, place)[k] /\ i \in AskedBefore(tx, 2, place)[k]
    BY <2>1 DEF AskedBefore
  <2> QED BY <2>2
<1> HIDE DEF asked, keys, reached, heading
<1>7. ASSUME NEW k \in Keys, KnowsKey(register, k) PROVE KnowsKey(r, k)
  BY <1>2, <1>5, <1>7 DEF KnowsKey
<1>8. ASSUME NEW k \in Keys, NEW i \in DOMAIN Asks(tx),
             Asks(tx)[i].key = k, At(i, 2) < place
      PROVE  KnowsKey(r, k)
  BY <1>2, <1>5, <1>6, <1>8 DEF KnowsKey
<1>9. ASSUME RegisterReachable(register), NEW k \in Keys,
             r.changes[k] # <<>> \/ r.last_balance_tx[k] # 0
      PROVE  KnowsKey(r, k)
  <2>1. CASE register.changes[k] # <<>> \/ register.last_balance_tx[k] # 0
    BY <1>7, <1>9, <2>1 DEF RegisterReachable
  <2>2. CASE r.changes[k] # register.changes[k]
    <3>1. PICK i \in DOMAIN Notes(tx) : Notes(tx)[i].key = k /\ At(i, 3) < place
      BY <1>2, <2>2, ChangesGrowByNotes
    <3>2. i \in DOMAIN Asks(tx) /\ Asks(tx)[i].key = k
      BY <3>1, AsksBeginWithNotes
    <3>3. At(i, 2) < place
      BY <1>3, <3>1, <3>2 DEF At
    <3> QED BY <1>8, <3>2, <3>3
  <2>3. CASE r.last_balance_tx[k] # register.last_balance_tx[k]
    <3>1. \E i \in DOMAIN Asks(tx) : Asks(tx)[i].key = k /\ At(i, 2) < place
      BY <1>2, <2>3 DEF BalancesBefore
    <3> QED BY <1>8, <3>1
  <2> QED BY <1>9, <2>1, <2>2, <2>3
<1> QED BY <1>2, <1>7, <1>9 DEF RegisterReachable

-----------------------------------------------------------------------------
\* What the walk down a key's records finds at or below a number.
TypeBelow(records, tx_nr) ==
  LET below == {i \in DOMAIN records : records[i].tx_nr <= tx_nr}
  IN  IF below = {} THEN "nothing" ELSE records[Min(below)].type

LEMMA TypeAtWalks ==
  ASSUME NEW register, NEW k, NEW tx_nr
  PROVE  TypeAt(register, k, tx_nr) =
           IF KnowsKey(register, k) THEN TypeBelow(register.changes[k], tx_nr) ELSE "nothing"
  BY DEF TypeAt, TypeBelow

\* A newer record is passed over on the way to an older number.
LEMMA NewerIsPassedOver ==
  ASSUME NEW records \in Seq(TypeChange), NEW change \in TypeChange, NEW tx_nr \in Nat,
         tx_nr < change.tx_nr
  PROVE  TypeBelow(<<change>> \o records, tx_nr) = TypeBelow(records, tx_nr)
<1> DEFINE longer == <<change>> \o records
           old == {i \in DOMAIN records : records[i].tx_nr <= tx_nr}
           new == {i \in DOMAIN longer : longer[i].tx_nr <= tx_nr}
<1>1. /\ DOMAIN records = 1..Len(records) /\ Len(records) \in Nat
      /\ longer \in Seq(TypeChange)
      /\ DOMAIN longer = 1..(Len(records) + 1)
      /\ longer[1] = change
      /\ \A i \in 1..Len(records) : longer[i + 1] = records[i]
  OBVIOUS
<1>2. \A i \in Nat : i \in old <=> i + 1 \in new
  <2> TAKE i \in Nat
  <2>1. i \in old <=> i \in 1..Len(records) /\ records[i].tx_nr <= tx_nr
    BY <1>1
  <2> HIDE DEF longer
  <2>2. i + 1 \in new <=> i + 1 \in 1..(Len(records) + 1) /\ longer[i + 1].tx_nr <= tx_nr
    BY <1>1
  <2>3. i = 0 => ~(longer[i + 1].tx_nr <= tx_nr)
    BY <1>1 DEF TypeChange
  <2>4. i # 0 => (i \in 1..Len(records) <=> i + 1 \in 1..(Len(records) + 1))
    BY <1>1
  <2>5. i \in 1..Len(records) => longer[i + 1].tx_nr = records[i].tx_nr
    BY <1>1
  <2>6. i \in 1..Len(records) => i # 0
    OBVIOUS
  <2> HIDE DEF old, new
  <2> QED BY <2>1, <2>2, <2>3, <2>4, <2>5, <2>6
<1>3. \A i \in new : i - 1 \in old
  <2> TAKE i \in new
  <2>1. i \in 1..(Len(records) + 1) /\ longer[i].tx_nr <= tx_nr
    BY <1>1
  <2>2. ~(change.tx_nr <= tx_nr)
    BY DEF TypeChange
  <2>3. i # 1
    BY <1>1, <2>1, <2>2
  <2>4. i - 1 \in Nat /\ (i - 1) + 1 = i
    BY <1>1, <2>1, <2>3
  <2> QED BY <1>2, <2>4
<1>4. old \subseteq Nat /\ new \subseteq Nat
  BY <1>1
<1>5. TypeBelow(longer, tx_nr) = IF new = {} THEN "nothing" ELSE longer[Min(new)].type
  BY DEF TypeBelow
<1>6. TypeBelow(records, tx_nr) = IF old = {} THEN "nothing" ELSE records[Min(old)].type
  BY DEF TypeBelow
<1>7. old \subseteq 1..Len(records)
  BY <1>1
<1> HIDE DEF longer, old, new
<1>8. CASE old = {}
  <2>1. new = {}
    BY <1>3, <1>8
  <2> QED BY <1>5, <1>6, <1>8, <2>1 DEF longer
<1>9. CASE old # {}
  <2>1. new # {}
    BY <1>2, <1>4, <1>9
  <2>2. Min(old) \in old /\ \A i \in old : Min(old) <= i
    BY <1>4, <1>9, LeastNumber DEF Min
  <2>3. Min(new) \in new /\ \A i \in new : Min(new) <= i
    BY <1>4, <2>1, LeastNumber DEF Min
  <2>4. Min(old) + 1 \in new /\ Min(new) - 1 \in old
    <3>1. Min(old) \in Nat
      BY <1>4, <2>2
    <3> QED BY <1>2, <1>3, <2>2, <2>3, <3>1
  <2>5. Min(new) <= Min(old) + 1 /\ Min(old) <= Min(new) - 1
    BY <2>2, <2>3, <2>4
  <2>6. Min(new) = Min(old) + 1
    <3>1. \A i, j \in Nat : i <= j + 1 /\ j <= i - 1 => i = j + 1
      OBVIOUS
    <3>2. Min(new) \in Nat /\ Min(old) \in Nat
      BY <1>4, <2>2, <2>3
    <3> QED BY <2>5, <3>1, <3>2
  <2>7. longer[Min(new)] = records[Min(old)]
    BY <1>1, <1>7, <2>2, <2>6
  <2> QED BY <1>5, <1>6, <1>9, <2>1, <2>7 DEF longer
<1> QED BY <1>8, <1>9

\* A note written under a number leaves what is found for every smaller one.
LEMMA NotedStands ==
  ASSUME NEW changes \in TypeChanges, NEW note \in Note, NEW n \in Nat, NEW tx_nr \in Nat,
         tx_nr < n, NEW k \in Keys,
         note.key = NoKey \/ note.type \in AddressTypes
  PROVE  TypeBelow(Noted(changes, note, n)[k], tx_nr) = TypeBelow(changes[k], tx_nr)
<1> DEFINE change == [tx_nr |-> n, type |-> note.type]
<1>1. CASE Noted(changes, note, n)[k] = changes[k]
  BY <1>1
<1>2. CASE k = note.key /\ Noted(changes, note, n)[k] = <<change>> \o changes[k]
  <2>1. change \in TypeChange /\ change.tx_nr = n
    <3>1. note.type \in AddressTypes
      BY <1>2, BlankAssumption
    <3> QED BY <3>1 DEF TypeChange
  <2>2. changes[k] \in Seq(TypeChange)
    BY DEF TypeChanges
  <2> HIDE DEF change
  <2> QED BY <1>2, <2>1, <2>2, NewerIsPassedOver
<1> QED BY <1>1, <1>2, NotedPrepends

\* Whatever part of an add was written, what the records say of smaller
\* numbers stands.
LEMMA ChangesStand ==
  ASSUME NEW register \in Register, NEW tx \in Transaction, NEW place \in Nat,
         \A u \in UnknownTypes(tx) : place <= u,
         NEW k \in Keys, NEW tx_nr \in Nat, tx_nr < tx.tx_nr
  PROVE  TypeBelow(ChangesBefore(register, tx, place)[k], tx_nr)
           = TypeBelow(register.changes[k], tx_nr)
<1>1. PICK once \in TypeChanges :
           /\ \/ once = register.changes
              \/ /\ 1 \in DOMAIN Notes(tx) /\ At(1, 3) < place
                 /\ once = Noted(register.changes, Notes(tx)[1], tx.tx_nr)
           /\ \/ ChangesBefore(register, tx, place) = once
              \/ /\ 2 \in DOMAIN Notes(tx) /\ At(2, 3) < place
                 /\ ChangesBefore(register, tx, place) = Noted(once, Notes(tx)[2], tx.tx_nr)
  BY ChangesAreNoted
<1>2. register.changes \in TypeChanges /\ tx.tx_nr \in Nat
  BY DEF Register, TypeChanges, Transaction
<1>3. \A i \in DOMAIN Notes(tx) : At(i, 3) < place =>
        /\ Notes(tx)[i] \in Note
        /\ Notes(tx)[i].key = NoKey \/ Notes(tx)[i].type \in AddressTypes
  BY NotesPassedAreKnown
<1>4. TypeBelow(once[k], tx_nr) = TypeBelow(register.changes[k], tx_nr)
  <2>1. CASE once = register.changes
    BY <2>1
  <2>2. CASE /\ 1 \in DOMAIN Notes(tx) /\ At(1, 3) < place
             /\ once = Noted(register.changes, Notes(tx)[1], tx.tx_nr)
    BY <1>2, <1>3, <2>2, NotedStands
  <2> QED BY <1>1, <2>1, <2>2
<1>5. TypeBelow(ChangesBefore(register, tx, place)[k], tx_nr) = TypeBelow(once[k], tx_nr)
  <2>1. CASE ChangesBefore(register, tx, place) = once
    BY <2>1
  <2>2. CASE /\ 2 \in DOMAIN Notes(tx) /\ At(2, 3) < place
             /\ ChangesBefore(register, tx, place) = Noted(once, Notes(tx)[2], tx.tx_nr)
    BY <1>2, <1>3, <2>2, NotedStands
  <2> QED BY <1>1, <2>1, <2>2
<1> QED BY <1>4, <1>5

\* So what the register answers for smaller numbers stands as well: a key that
\* comes to be known had nothing written under it.
LEMMA RegisterAnswersStand ==
  ASSUME NEW register \in Register, RegisterReachable(register),
         NEW tx \in Transaction, NEW place \in Nat,
         \A u \in UnknownTypes(tx) : place <= u,
         NEW r \in RegisterBefore(register, tx, place),
         NEW k \in Keys, NEW tx_nr \in Nat, tx_nr < tx.tx_nr
  PROVE  TypeAt(r, k, tx_nr) = TypeAt(register, k, tx_nr)
<1>1. /\ KnowsKey(register, k) => KnowsKey(r, k)
      /\ r.changes = ChangesBefore(register, tx, place)
  BY RegisterFinds
<1>2. TypeBelow(r.changes[k], tx_nr) = TypeBelow(register.changes[k], tx_nr)
  BY <1>1, ChangesStand
<1>3. CASE KnowsKey(register, k)
  BY <1>1, <1>2, <1>3, TypeAtWalks
<1>4. CASE ~KnowsKey(register, k)
  <2>1. register.changes[k] = <<>>
    BY <1>4 DEF RegisterReachable
  <2>2. TypeBelow(register.changes[k], tx_nr) = "nothing"
    BY <2>1 DEF TypeBelow
  <2> QED BY <1>2, <1>4, <2>2, TypeAtWalks
<1> QED BY <1>3, <1>4

-----------------------------------------------------------------------------
\* The records of a key, newest first, none above a number and no two the same.
NewestFirst(records, top) ==
  /\ \A i \in DOMAIN records : records[i].tx_nr <= top
  /\ \A i, j \in DOMAIN records : i < j => records[j].tx_nr <= records[i].tx_nr
  /\ \A i, j \in DOMAIN records : records[i] = records[j] => i = j

LEMMA RecordsAreNumbered ==
  ASSUME NEW records \in Seq(TypeChange)
  PROVE  /\ DOMAIN records = 1..Len(records) /\ Len(records) \in Nat
         /\ \A i \in DOMAIN records : records[i].tx_nr \in Nat
<1>1. DOMAIN records = 1..Len(records) /\ Len(records) \in Nat
  OBVIOUS
<1>2. ASSUME NEW i \in DOMAIN records PROVE records[i].tx_nr \in Nat
  <2>1. records[i] \in TypeChange
    BY <1>1, ElementOfSeq
  <2> QED BY <2>1 DEF TypeChange
<1> QED BY <1>1, <1>2

\* A note that is looked for among the newest records of its number is written
\* once: the records stay newest first, and no two are the same.
LEMMA NotedOnce ==
  ASSUME NEW changes \in TypeChanges, NEW note \in Note, NEW n \in Nat, NEW k \in Keys,
         note.key = NoKey \/ note.type \in AddressTypes,
         NewestFirst(changes[k], n)
  PROVE  NewestFirst(Noted(changes, note, n)[k], n)
<1> DEFINE change == [tx_nr |-> n, type |-> note.type]
           records == changes[k]
           longer == <<change>> \o records
<1>1. CASE Noted(changes, note, n)[k] = changes[k]
  BY <1>1
<1>2. CASE /\ k = note.key
           /\ ~IsNoted(changes, note, n)
           /\ Noted(changes, note, n)[k] = longer
  <2>1. change \in TypeChange /\ change.tx_nr = n /\ change.type = note.type
    <3>1. note.type \in AddressTypes
      BY <1>2, BlankAssumption
    <3> QED BY <3>1 DEF TypeChange
  <2>2. records \in Seq(TypeChange)
    BY DEF TypeChanges
  <2>3. \A i \in DOMAIN records : records[i] # change
    <3> SUFFICES ASSUME NEW i \in DOMAIN records, records[i] = change PROVE FALSE
      OBVIOUS
    <3>1. /\ DOMAIN records = 1..Len(records) /\ Len(records) \in Nat
          /\ \A j \in DOMAIN records : records[j].tx_nr \in Nat
      BY <2>2, RecordsAreNumbered
    <3>2. ASSUME NEW j \in 1..i PROVE records[j].tx_nr = n
      <4>1. j \in DOMAIN records /\ i \in DOMAIN records
        BY <3>1
      <4>2. records[j].tx_nr <= n
        BY <4>1 DEF NewestFirst
      <4>3. n <= records[j].tx_nr
        <5>1. j = i \/ j < i
          BY <3>1
        <5>2. records[i].tx_nr = n
          BY <2>1
        <5> QED BY <4>1, <5>1, <5>2 DEF NewestFirst
      <4> QED BY <3>1, <4>1, <4>2, <4>3
    <3>3. records[i].type = note.type
      BY <2>1
    <3> QED BY <1>2, <3>2, <3>3 DEF IsNoted
  <2> HIDE DEF change, records
  <2>4. /\ DOMAIN records = 1..Len(records) /\ Len(records) \in Nat
        /\ \A i \in DOMAIN records : records[i].tx_nr \in Nat
        /\ DOMAIN longer = 1..(Len(records) + 1)
        /\ longer[1] = change
        /\ \A i \in DOMAIN longer : i # 1 => i - 1 \in DOMAIN records /\ longer[i] = records[i - 1]
    <3>1. /\ DOMAIN records = 1..Len(records) /\ Len(records) \in Nat
          /\ DOMAIN longer = 1..(Len(records) + 1)
          /\ longer[1] = change
      BY <2>1, <2>2
    <3>3. ASSUME NEW i \in 2..(Len(records) + 1) PROVE longer[i] = records[i - 1]
      BY <2>1, <2>2, <3>1
    <3>2. \A i \in DOMAIN records : records[i].tx_nr \in Nat
      BY <2>2, RecordsAreNumbered
    <3> HIDE DEF longer
    <3>4. ASSUME NEW i \in DOMAIN longer, i # 1
          PROVE  i - 1 \in DOMAIN records /\ longer[i] = records[i - 1]
      <4>1. i \in 2..(Len(records) + 1)
        BY <3>1, <3>4
      <4> QED BY <3>1, <3>3, <4>1
    <3> QED BY <3>1, <3>2, <3>4
  <2> HIDE DEF longer
  <2>5. /\ \A i \in DOMAIN records : records[i].tx_nr <= n
        /\ \A i, j \in DOMAIN records : i < j => records[j].tx_nr <= records[i].tx_nr
        /\ \A i, j \in DOMAIN records : records[i] = records[j] => i = j
    BY DEF NewestFirst, records
  <2>6. \A i \in DOMAIN longer : longer[i].tx_nr <= n
    BY <2>1, <2>4, <2>5
  <2>7. \A i, j \in DOMAIN longer : i < j => longer[j].tx_nr <= longer[i].tx_nr
    <3> SUFFICES ASSUME NEW i \in DOMAIN longer, NEW j \in DOMAIN longer, i < j
                 PROVE  longer[j].tx_nr <= longer[i].tx_nr
      OBVIOUS
    <3>1. i \in Nat /\ j \in Nat /\ i >= 1 /\ j # 1
      BY <2>4
    <3>2. CASE i = 1
      BY <2>1, <2>4, <2>6, <3>2
    <3>3. CASE i # 1
      <4>1. i - 1 < j - 1
        BY <3>1
      <4> QED BY <2>4, <2>5, <3>1, <3>3, <4>1
    <3> QED BY <3>2, <3>3
  <2>8. \A i, j \in DOMAIN longer : longer[i] = longer[j] => i = j
    <3> SUFFICES ASSUME NEW i \in DOMAIN longer, NEW j \in DOMAIN longer, longer[i] = longer[j]
                 PROVE  i = j
      OBVIOUS
    <3>1. i \in Nat /\ j \in Nat
      BY <2>4
    <3>2. CASE i # 1 /\ j # 1
      <4>1. i - 1 = j - 1
        BY <2>4, <2>5, <3>2
      <4> QED BY <3>1, <4>1
    <3>3. CASE i = 1 \/ j = 1
      BY <2>3, <2>4, <3>3
    <3> QED BY <3>2, <3>3
  <2> QED BY <1>2, <2>6, <2>7, <2>8 DEF NewestFirst
<1> QED BY <1>1, <1>2, NotedPrepends

\* However far an add came, no type is written twice, if no record is above
\* the transaction's own number.
LEMMA ChangesOnce ==
  ASSUME NEW register \in Register, NEW tx \in Transaction, NEW place \in Nat,
         \A u \in UnknownTypes(tx) : place <= u,
         NEW k \in Keys, NewestFirst(register.changes[k], tx.tx_nr)
  PROVE  NewestFirst(ChangesBefore(register, tx, place)[k], tx.tx_nr)
<1>1. PICK once \in TypeChanges :
           /\ \/ once = register.changes
              \/ /\ 1 \in DOMAIN Notes(tx) /\ At(1, 3) < place
                 /\ once = Noted(register.changes, Notes(tx)[1], tx.tx_nr)
           /\ \/ ChangesBefore(register, tx, place) = once
              \/ /\ 2 \in DOMAIN Notes(tx) /\ At(2, 3) < place
                 /\ ChangesBefore(register, tx, place) = Noted(once, Notes(tx)[2], tx.tx_nr)
  BY ChangesAreNoted
<1>2. register.changes \in TypeChanges /\ tx.tx_nr \in Nat
  BY DEF Register, TypeChanges, Transaction
<1>3. \A i \in DOMAIN Notes(tx) : At(i, 3) < place =>
        /\ Notes(tx)[i] \in Note
        /\ Notes(tx)[i].key = NoKey \/ Notes(tx)[i].type \in AddressTypes
  BY NotesPassedAreKnown
<1>4. NewestFirst(once[k], tx.tx_nr)
  BY <1>1, <1>2, <1>3, NotedOnce
<1> QED BY <1>1, <1>2, <1>3, <1>4, NotedOnce

\* A transaction with a type the library does not know gives no key any type:
\* a registration gives its two keys the same.
LEMMA UnknownTypesGiveNone ==
  ASSUME NEW register \in Register, NEW tx \in Transaction, NEW place \in Nat,
         \A u \in UnknownTypes(tx) : place <= u,
         UnknownTypes(tx) # {}
  PROVE  ChangesBefore(register, tx, place) = register.changes
<1>1. PICK u \in DOMAIN Notes(tx) : Notes(tx)[u].key # NoKey /\ Notes(tx)[u].type \notin AddressTypes
  BY DEF UnknownTypes
<1>2. \A i \in DOMAIN Notes(tx) : Notes(tx)[i].type \notin AddressTypes
  <2>1. CASE tx.type = "register_address"
    <3>1. Notes(tx) = <<[key |-> tx.body[1], type |-> tx.gives], [key |-> tx.body[2], type |-> tx.gives]>>
      BY <2>1 DEF Notes
    <3> QED BY <1>1, <3>1
  <2>2. CASE tx.type = "community_root"
    <3>1. Notes(tx) = <<[key |-> tx.body[2], type |-> "gmw"], [key |-> tx.body[3], type |-> "auf"]>>
      BY <2>2 DEF Notes
    <3> QED BY <1>1, <3>1 DEF AddressTypes
  <2>3. CASE tx.type = "deferred_transfer"
    <3>1. Notes(tx) = <<[key |-> tx.body[2], type |-> "deferred"]>>
      BY <2>3 DEF Notes
    <3> QED BY <1>1, <3>1 DEF AddressTypes
  <2>4. CASE tx.type \notin {"community_root", "register_address", "deferred_transfer"}
    <3>1. Notes(tx) = <<>>
      BY <2>4 DEF Notes
    <3> QED BY <1>1, <3>1
  <2> QED BY <2>1, <2>2, <2>3, <2>4
<1>3. \A i \in DOMAIN Notes(tx) : At(i, 3) < place => Notes(tx)[i].key = NoKey
  BY <1>2, NotesPassedAreKnown
<1>4. \A changes, note : note.key = NoKey => Noted(changes, note, tx.tx_nr) = changes
  BY DEF Noted
<1> QED BY <1>3, <1>4, ChangesAreNoted

\* The register an add leaves, whether it went through or was refused.
LEMMA RegisterLeft ==
  ASSUME NEW register \in Register, RegisterReachable(register),
         NEW tx \in Transaction,
         NEW w \in RegisterAdded(register, tx) \cup RegisterRefused(register, tx)
  PROVE  /\ RegisterReachable(w)
         /\ \A k \in Keys : \A tx_nr \in Nat :
              tx_nr < tx.tx_nr => TypeAt(w, k, tx_nr) = TypeAt(register, k, tx_nr)
         /\ UnknownTypes(tx) # {} => w.changes = register.changes
         /\ \A k \in Keys : NewestFirst(register.changes[k], tx.tx_nr)
                             => NewestFirst(w.changes[k], tx.tx_nr)
<1>0. PICK place \in Nat :
        /\ \A u \in UnknownTypes(tx) : place <= u
        /\ \E r \in RegisterBefore(register, tx, place) :
             /\ w.keys = r.keys
             /\ w.entries = r.entries
             /\ w.changes = r.changes
             /\ w.last_balance_tx = r.last_balance_tx
  <2>1. CASE w \in RegisterAdded(register, tx)
    <3>1. UnknownTypes(tx) = {} /\ EndOfAsks(tx) \in Nat
      BY <2>1, AsksType DEF RegisterAdded
    <3>2. PICK r \in RegisterBefore(register, tx, EndOfAsks(tx)) :
            w = [r EXCEPT !.max_tx_nr = tx.tx_nr,
                          !.transaction_count = (r.transaction_count + 1) % (MaxU32 + 1)]
      BY <2>1, <3>1 DEF RegisterAdded
    <3>3. r \in Register
      BY <3>1, RegisterBeforeType
    <3>4. /\ w.keys = r.keys
          /\ w.entries = r.entries
          /\ w.changes = r.changes
          /\ w.last_balance_tx = r.last_balance_tx
      BY <3>2, <3>3 DEF Register
    <3> QED BY <3>1, <3>4
  <2>2. CASE w \in RegisterRefused(register, tx)
    <3>1. PICK place \in RoomPlaces(register, tx) \cup UnknownTypes(tx) :
            /\ \A u \in UnknownTypes(tx) : place <= u
            /\ w \in RegisterBefore(register, tx, place)
      BY <2>2, Zenon DEF RegisterRefused
    <3>2. place \in Nat
      BY <3>1, RegisterPlacesType
    <3> QED BY <3>1, <3>2
  <2> QED BY <2>1, <2>2
<1>1. PICK r \in RegisterBefore(register, tx, place) :
        /\ \A u \in UnknownTypes(tx) : place <= u
        /\ w.keys = r.keys
        /\ w.entries = r.entries
        /\ w.changes = r.changes
        /\ w.last_balance_tx = r.last_balance_tx
  BY <1>0
<1>2. r.changes = ChangesBefore(register, tx, place)
  BY <1>1, RegisterFinds
<1>3. RegisterReachable(w)
  <2>1. RegisterReachable(r)
    BY <1>1, RegisterFinds
  <2> QED BY <1>1, <2>1 DEF RegisterReachable, KnowsKey
<1>4. ASSUME NEW k \in Keys, NEW tx_nr \in Nat, tx_nr < tx.tx_nr
      PROVE  TypeAt(w, k, tx_nr) = TypeAt(register, k, tx_nr)
  <2>1. TypeAt(r, k, tx_nr) = TypeAt(register, k, tx_nr)
    BY <1>1, <1>4, RegisterAnswersStand
  <2>2. KnowsKey(w, k) = KnowsKey(r, k)
    BY <1>1 DEF KnowsKey
  <2> QED BY <1>1, <2>1, <2>2, TypeAtWalks
<1>5. UnknownTypes(tx) # {} => w.changes = register.changes
  BY <1>1, <1>2, UnknownTypesGiveNone
<1>6. ASSUME NEW k \in Keys, NewestFirst(register.changes[k], tx.tx_nr)
      PROVE  NewestFirst(w.changes[k], tx.tx_nr)
  BY <1>1, <1>2, <1>6, ChangesOnce
<1> QED BY <1>3, <1>4, <1>5, <1>6

-----------------------------------------------------------------------------
(* The chain.                                                              *)

\* One segment based at base: it counts numbers of its own run only, its sets
\* and day slots stay below what the run can hold, and its sets are found.
SegmentStands(s, base, size) ==
  /\ s.base_tx_nr = base
  /\ s.transaction_count # 0 =>
       /\ s.min_tx_nr \in base..(base + size - 1)
       /\ s.max_tx_nr \in base..(base + size - 1)
       /\ s.max_tx_nr = s.min_tx_nr + s.transaction_count - 1
  /\ s.transaction_count <= size
  /\ \A m \in s.sets : m[2] < size
  /\ \A d \in DOMAIN s.day_max_tx : s.day_max_tx[d] <= size
  /\ SetsReachable(s)

\* An add to a segment whose run its number falls in leaves its sets and day
\* slots below the size of the run.
LEMMA KeepsBelow ==
  ASSUME NEW s \in Index, NEW base \in Nat, NEW size \in 1..MaxU32,
         SegmentStands(s, base, size),
         NEW tx \in Transaction, Accepts(s, tx),
         tx.tx_nr \in base..(base + size - 1),
         NEW w, Keeps(w, s, tx)
  PROVE  /\ w.base_tx_nr = base
         /\ \A m \in w.sets : m[2] < size
         /\ \A d \in DOMAIN w.day_max_tx : w.day_max_tx[d] <= size
<1>1. Offset(s, tx) < size
  BY DEF SegmentStands, Offset, Transaction
<1>2. \A m \in w.sets : m[2] < size
  <2>1. \A m \in SetNames \X {Offset(s, tx)} : m[2] = Offset(s, tx)
    OBVIOUS
  <2> QED BY <1>1, <2>1 DEF Keeps, SegmentStands
<1>3. PICK slots \in Nat, place \in Nat : w.day_max_tx = DayTable(s, tx, place, slots)
  BY DEF Keeps
<1>4. \A d \in DOMAIN w.day_max_tx : w.day_max_tx[d] <= size
  <2>1. /\ size \in Nat
        /\ \A d \in DOMAIN s.day_max_tx : s.day_max_tx[d] <= size
        /\ AcceptsNumber(s, tx)
    BY WidthAssumption DEF SegmentStands, Accepts
  <2> QED BY <1>1, <1>3, <2>1, DayTableType
<1> QED BY <1>2, <1>4 DEF Keeps, SegmentStands

\* A segment stands whether the add went through or was refused.
LEMMA SegmentStandsAfterAdd ==
  ASSUME NEW s \in Index, NEW base \in Nat, NEW size \in 1..MaxU32,
         SegmentStands(s, base, size),
         NEW tx \in Transaction, Accepts(s, tx),
         tx.tx_nr \in base..(base + size - 1)
  PROVE  \A w \in Added(s, tx) \cup OutOfRoom(s, tx) :
           w \in Index /\ SegmentStands(w, base, size)
<1> DEFINE n == s.transaction_count
<1>1. n \in Nat /\ s.min_tx_nr \in Nat /\ s.max_tx_nr \in Nat /\ MaxU32 \in Nat
  BY WidthAssumption DEF Index, U32
<1>2. tx.tx_nr \in Nat
  BY DEF Transaction
<1>3. n # 0 => tx.tx_nr = s.max_tx_nr + 1
  BY DEF Accepts, AcceptsNumber
<1>4. n + 1 <= size
  BY <1>1, <1>2, <1>3 DEF SegmentStands
<1>5. (n + 1) % (MaxU32 + 1) = n + 1
  BY <1>1, <1>4
<1>6. ASSUME NEW w \in Added(s, tx)
      PROVE  w \in Index /\ SegmentStands(w, base, size)
  <2>1. /\ w \in Index
        /\ Keeps(w, s, tx)
        /\ w.max_tx_nr = tx.tx_nr
        /\ w.transaction_count = n + 1
        /\ w.min_tx_nr = IF n = 0 THEN tx.tx_nr ELSE s.min_tx_nr
    BY <1>5, AddedType
  <2>2. /\ w.base_tx_nr = base
        /\ \A m \in w.sets : m[2] < size
        /\ \A d \in DOMAIN w.day_max_tx : w.day_max_tx[d] <= size
    BY <2>1, KeepsBelow
  <2>3. /\ w.min_tx_nr \in base..(base + size - 1)
        /\ w.max_tx_nr = w.min_tx_nr + w.transaction_count - 1
    BY <1>1, <1>2, <1>3, <2>1 DEF SegmentStands
  <2>4. SetsReachable(w)
    BY AddIsFound DEF SegmentStands
  <2> QED BY <1>4, <2>1, <2>2, <2>3, <2>4 DEF SegmentStands
<1>7. ASSUME NEW w \in OutOfRoom(s, tx)
      PROVE  w \in Index /\ SegmentStands(w, base, size)
  <2>1. /\ w \in Index
        /\ Keeps(w, s, tx)
        /\ w.max_tx_nr = s.max_tx_nr
        /\ w.transaction_count = n
        /\ n # 0 => w.min_tx_nr = s.min_tx_nr
    BY OutOfRoomType
  <2>2. /\ w.base_tx_nr = base
        /\ \A m \in w.sets : m[2] < size
        /\ \A d \in DOMAIN w.day_max_tx : w.day_max_tx[d] <= size
    BY <2>1, KeepsBelow
  <2>3. SetsReachable(w)
    BY AddIsFound DEF SegmentStands
  <2> QED BY <2>1, <2>2, <2>3 DEF SegmentStands
<1> QED BY <1>6, <1>7

\* The segment a number belongs to holds it in its run.
LEMMA RunOfNumber ==
  ASSUME NEW n \in Nat, NEW size \in Nat \ {0}
  PROVE  /\ n \div size \in Nat
         /\ (n \div size) * size \in Nat
         /\ n \in ((n \div size) * size)..((n \div size) * size + size - 1)
  OBVIOUS

-----------------------------------------------------------------------------
\* A row of segments, the first of them the first-th of the given size.
RowStands(row, first, size) ==
  /\ row \in Seq(Index)
  /\ \A i \in DOMAIN row : SegmentStands(row[i], (first + i - 1) * size, size)

(***************************************************************************)
(* Inductive: what SegmentsPartitionTheRun, NothingIsTruncated and         *)
(* WrittenIsReachable say, with what they leave unsaid: a chain that is    *)
(* ready has one of the segment sizes, one that is not has no segments, and*)
(* one that counts nothing has no largest number.                          *)
(***************************************************************************)
IInv ==
  /\ TypeOK
  /\ ready => segment_transactions \in SegmentSizes
  /\ ~ready => segments = <<>>
  /\ RowStands(segments, first_segment, segment_transactions)
  /\ transaction_count # 0 =>
       /\ min_tx_nr > 0
       /\ max_tx_nr = min_tx_nr + transaction_count - 1
  /\ transaction_count = 0 => max_tx_nr = 0
  /\ RegisterReachable(addresses)

\* A segment just opened stands.
LEMMA EmptyIndexStands ==
  ASSUME NEW base \in Nat, NEW size \in Nat
  PROVE  EmptyIndex(base) \in Index /\ SegmentStands(EmptyIndex(base), base, size)
<1>1. EmptyIndex(base) \in Index
  BY WidthAssumption DEF EmptyIndex, Index, U32
<1>2. SegmentStands(EmptyIndex(base), base, size)
  BY DEF EmptyIndex, SegmentStands, SetsReachable
<1> QED BY <1>1, <1>2

\* The segment an add asks for is in the row or next after it, is based at
\* its own run, and the number falls in that run.
LEMMA AskedSegment ==
  ASSUME IInv, NEW tx \in Arrivals, Admits(tx)
  PROVE  /\ segment_transactions \in 1..MaxU32
         /\ FirstSegment(tx) \in Nat
         /\ Position(tx) \in 1..(Len(segments) + 1)
         /\ SegmentOf(tx.tx_nr) = FirstSegment(tx) + Position(tx) - 1
         /\ SegmentOf(tx.tx_nr) * segment_transactions \in Nat
         /\ tx.tx_nr \in (SegmentOf(tx.tx_nr) * segment_transactions)
                          ..(SegmentOf(tx.tx_nr) * segment_transactions
                               + segment_transactions - 1)
         /\ segments # <<>> => FirstSegment(tx) = first_segment
         /\ Segment(tx) \in Index
         /\ SegmentStands(Segment(tx), SegmentOf(tx.tx_nr) * segment_transactions,
                          segment_transactions)
<1>1. segment_transactions \in 1..MaxU32 /\ MaxU32 \in Nat
  BY SegmentAssumption, WidthAssumption DEF IInv, Admits
<1>2. tx \in Transaction /\ tx.tx_nr \in Nat
  BY SegmentAssumption DEF Transaction
<1>3. /\ SegmentOf(tx.tx_nr) \in Nat
      /\ SegmentOf(tx.tx_nr) * segment_transactions \in Nat
      /\ tx.tx_nr \in (SegmentOf(tx.tx_nr) * segment_transactions)
                       ..(SegmentOf(tx.tx_nr) * segment_transactions
                            + segment_transactions - 1)
  <2>1. segment_transactions \in Nat \ {0}
    BY <1>1
  <2> QED BY <1>2, <2>1, RunOfNumber, Zenon DEF SegmentOf
<1>4. /\ segments \in Seq(Index)
      /\ Len(segments) \in Nat
      /\ DOMAIN segments = 1..Len(segments)
      /\ first_segment \in Nat
  BY DEF IInv, TypeOK
<1>5. FirstSegment(tx) \in Nat
  BY <1>3, <1>4 DEF FirstSegment
<1>6. segments # <<>> => FirstSegment(tx) = first_segment
  BY DEF FirstSegment
<1>7. /\ Position(tx) \in 1..(Len(segments) + 1)
      /\ SegmentOf(tx.tx_nr) = FirstSegment(tx) + Position(tx) - 1
  BY <1>3, <1>4, <1>5 DEF Position, Admits
<1>8. CASE IsNewSegment(tx)
  <2>1. Segment(tx) = EmptyIndex(SegmentOf(tx.tx_nr) * segment_transactions)
    BY <1>8 DEF Segment
  <2> QED BY <1>1, <1>3, <1>5, <1>6, <1>7, <2>1, EmptyIndexStands
<1>9. CASE ~IsNewSegment(tx)
  <2>1. Position(tx) \in DOMAIN segments
    BY <1>4, <1>7, <1>9 DEF IsNewSegment
  <2>2. Segment(tx) = segments[Position(tx)]
    BY <1>9 DEF Segment
  <2>3. Segment(tx) \in Index
    BY <1>4, <2>1, <2>2, ElementOfSeq
  <2>4. FirstSegment(tx) = first_segment
    BY <1>4, <1>6, <2>1
  <2>5. SegmentStands(Segment(tx), (first_segment + Position(tx) - 1) * segment_transactions,
                      segment_transactions)
    BY <2>1, <2>2 DEF IInv, RowStands
  <2> QED BY <1>1, <1>3, <1>5, <1>6, <1>7, <2>3, <2>4, <2>5
<1> QED BY <1>8, <1>9

\* A row stands with its asked segment replaced by one that stands.
LEMMA RowStandsAfter ==
  ASSUME IInv, NEW tx \in Arrivals, Admits(tx), NEW s \in Index,
         SegmentStands(s, SegmentOf(tx.tx_nr) * segment_transactions, segment_transactions)
  PROVE  RowStands(Row(tx, s), FirstSegment(tx), segment_transactions)
<1>1. /\ segments \in Seq(Index)
      /\ Len(segments) \in Nat
      /\ DOMAIN segments = 1..Len(segments)
      /\ \A i \in DOMAIN segments :
           SegmentStands(segments[i], (first_segment + i - 1) * segment_transactions,
                         segment_transactions)
  BY DEF IInv, RowStands
<1>2. /\ Position(tx) \in 1..(Len(segments) + 1)
      /\ SegmentOf(tx.tx_nr) = FirstSegment(tx) + Position(tx) - 1
      /\ segments # <<>> => FirstSegment(tx) = first_segment
  BY AskedSegment
<1>3. SegmentStands(s, (FirstSegment(tx) + Position(tx) - 1) * segment_transactions,
                    segment_transactions)
  BY <1>2
<1>4. \A i \in DOMAIN segments :
        SegmentStands(segments[i], (FirstSegment(tx) + i - 1) * segment_transactions,
                      segment_transactions)
  BY <1>1, <1>2
<1>5. CASE IsNewSegment(tx)
  <2>1. Row(tx, s) = Append(segments, s) /\ Position(tx) = Len(segments) + 1
    BY <1>5 DEF Row, IsNewSegment
  <2>2. /\ Append(segments, s) \in Seq(Index)
        /\ DOMAIN Append(segments, s) = 1..(Len(segments) + 1)
        /\ \A i \in 1..Len(segments) : Append(segments, s)[i] = segments[i]
        /\ Append(segments, s)[Len(segments) + 1] = s
    BY <1>1, AppendProperties
  <2>3. ASSUME NEW i \in DOMAIN Append(segments, s)
        PROVE  SegmentStands(Append(segments, s)[i],
                             (FirstSegment(tx) + i - 1) * segment_transactions,
                             segment_transactions)
    <3>1. CASE i = Position(tx)
      BY <3>1, <1>3, <2>1, <2>2
    <3>2. CASE i # Position(tx)
      <4>1. i \in DOMAIN segments /\ Append(segments, s)[i] = segments[i]
        BY <3>2, <1>1, <2>1, <2>2
      <4> QED BY <4>1, <1>4
    <3> QED BY <3>1, <3>2
  <2> QED BY <2>1, <2>2, <2>3 DEF RowStands
<1>6. CASE ~IsNewSegment(tx)
  <2> DEFINE row == [segments EXCEPT ![Position(tx)] = s]
  <2>1. Row(tx, s) = row
    BY <1>6 DEF Row
  <2>2. /\ row \in Seq(Index)
        /\ DOMAIN row = DOMAIN segments
        /\ \A i \in DOMAIN segments : row[i] = IF i = Position(tx) THEN s ELSE segments[i]
    <3>1. Position(tx) \in 1..Len(segments)
      BY <1>1, <1>2, <1>6 DEF IsNewSegment
    <3>2. row \in Seq(Index)
      BY <1>1, <3>1, ExceptSeq
    <3> QED BY <1>1, <3>1, <3>2
  <2> HIDE DEF row
  <2>3. ASSUME NEW i \in DOMAIN row
        PROVE  SegmentStands(row[i], (FirstSegment(tx) + i - 1) * segment_transactions,
                             segment_transactions)
    BY <1>3, <1>4, <2>2
  <2> QED BY <2>1, <2>2, <2>3 DEF RowStands
<1> QED BY <1>5, <1>6

-----------------------------------------------------------------------------
\* Segments an add can leave behind, whether it got past them or not.
LEMMA SegmentsLeft ==
  ASSUME IInv, NEW tx \in Arrivals, Admits(tx),
         NEW s \in SegmentsHolding(tx) \cup SegmentsRefusing(tx)
  PROVE  /\ s \in Index
         /\ RowStands(Row(tx, s), FirstSegment(tx), segment_transactions)
<1> DEFINE base == SegmentOf(tx.tx_nr) * segment_transactions
<1>1. /\ segment_transactions \in 1..MaxU32
      /\ base \in Nat
      /\ tx.tx_nr \in base..(base + segment_transactions - 1)
      /\ Segment(tx) \in Index
      /\ SegmentStands(Segment(tx), base, segment_transactions)
  BY AskedSegment
<1>2. tx \in Transaction
  BY SegmentAssumption
<1> HIDE DEF base
<1>3. s \in Index /\ SegmentStands(s, base, segment_transactions)
  <2>1. CASE s = Segment(tx)
    BY <1>1, <2>1
  <2>2. CASE Accepts(Segment(tx), tx) /\ s \in Added(Segment(tx), tx) \cup OutOfRoom(Segment(tx), tx)
    BY <1>1, <1>2, <2>2, SegmentStandsAfterAdd
  <2> QED BY <2>1, <2>2 DEF SegmentsHolding, SegmentsRefusing
<1> QED BY <1>3, RowStandsAfter DEF base

\* The chain's own counters follow the run.
LEMMA CountersFollow ==
  ASSUME IInv, NEW tx \in Arrivals, Add(tx)
  PROVE  /\ min_tx_nr' \in Nat
         /\ max_tx_nr' \in Nat
         /\ transaction_count' \in Nat
         /\ min_tx_nr' > 0
         /\ max_tx_nr' = min_tx_nr' + transaction_count' - 1
         /\ transaction_count' # 0
<1>1. tx.tx_nr \in Nat /\ tx.tx_nr # 0
  BY SegmentAssumption DEF Transaction, Add, Admits
<1>2. /\ min_tx_nr' = IF transaction_count = 0 THEN tx.tx_nr ELSE min_tx_nr
      /\ max_tx_nr' = tx.tx_nr
      /\ transaction_count' = transaction_count + 1
      /\ transaction_count # 0 => tx.tx_nr = max_tx_nr + 1
  BY DEF Add, Admits
<1> QED BY <1>1, <1>2 DEF IInv, TypeOK

LEMMA EmptyRegisterType == EmptyRegister \in Register /\ RegisterReachable(EmptyRegister)
  BY WidthAssumption DEF EmptyRegister, Register, U32, RegisterReachable

\* An emptied chain stands, whatever size its segments are to have.
LEMMA EmptiedStands ==
  ASSUME Emptied,
         ready' \in BOOLEAN,
         segment_transactions' \in SegmentSizes \cup {0},
         ready' => segment_transactions' \in SegmentSizes
  PROVE  IInv'
<1>1. /\ segments' = <<>>
      /\ segments' \in Seq(Index)
      /\ addresses' \in Register
      /\ RegisterReachable(addresses')
      /\ first_segment' = 0
      /\ min_tx_nr' = 0
      /\ max_tx_nr' = 0
      /\ transaction_count' = 0
      /\ refused' \in Arrivals \cup {NoTransaction}
  BY EmptyRegisterType DEF Emptied
<1>2. TypeOK'
  BY <1>1 DEF TypeOK
<1>3. RowStands(segments, first_segment, segment_transactions)'
  BY <1>1 DEF RowStands
<1>4. (transaction_count # 0 => /\ min_tx_nr > 0
                               /\ max_tx_nr = min_tx_nr + transaction_count - 1)'
  BY <1>1
<1> QED BY <1>1, <1>2, <1>3, <1>4 DEF IInv

LEMMA InitIInv == Init => IInv
<1> SUFFICES ASSUME Init PROVE IInv
  OBVIOUS
<1>1. RowStands(segments, first_segment, segment_transactions)
  BY DEF Init, RowStands
<1>2. ready = FALSE /\ segments = <<>> /\ transaction_count = 0 /\ max_tx_nr = 0
  BY Zenon DEF Init
<1>4. RegisterReachable(addresses)
  BY EmptyRegisterType DEF Init
<1>3. TypeOK
  <2>1. ready \in BOOLEAN /\ segment_transactions \in SegmentSizes \cup {0}
    BY DEF Init
  <2>2. /\ segments \in Seq(Index)
        /\ addresses \in Register
    BY EmptyRegisterType DEF Init
  <2>3. first_segment = 0 /\ min_tx_nr = 0 /\ max_tx_nr = 0 /\ transaction_count = 0
    BY DEF Init
  <2>4. refused \in Arrivals \cup {NoTransaction}
    BY DEF Init
  <2> QED BY <2>1, <2>2, <2>3, <2>4 DEF TypeOK
<1> QED BY <1>1, <1>2, <1>3, <1>4, Zenon DEF IInv

\* The invariant is kept by every operation of any caller.
LEMMA NextIInv == IInv /\ [Next]_vars => IInv'
<1> SUFFICES ASSUME IInv, [Next]_vars PROVE IInv'
  OBVIOUS
<1>1. ASSUME NEW size \in SegmentSizes, Initialise(size) PROVE IInv'
  BY <1>1, EmptiedStands DEF Initialise
<1>2. CASE Release
  BY <1>2, EmptiedStands DEF Release
<1>3. CASE Reset
  BY <1>3, EmptiedStands DEF Reset, IInv, TypeOK, options
<1>4. ASSUME NEW tx \in Arrivals, Add(tx) PROVE IInv'
  <2>1. Admits(tx) /\ FirstSegment(tx) \in Nat
    BY <1>4, AskedSegment DEF Add
  <2>2. RowStands(segments', first_segment', segment_transactions')
    BY <1>4, <2>1, SegmentsLeft DEF Add, options
  <2>3. addresses' \in Register
    BY <1>4, RegisterAddedType, SegmentAssumption DEF Add, IInv, TypeOK
  <2>4. RegisterReachable(addresses')
    BY <1>4, RegisterLeft, SegmentAssumption DEF Add, IInv, TypeOK
  <2> QED BY <1>4, <2>1, <2>2, <2>3, <2>4, CountersFollow
          DEF Add, Admits, IInv, TypeOK, RowStands, options
<1>5. ASSUME NEW tx \in Arrivals, RefusedOpening(tx) PROVE IInv'
  <2>1. Admits(tx) /\ FirstSegment(tx) \in Nat
    BY <1>5, AskedSegment DEF RefusedOpening
  <2>2. RowStands(segments', first_segment', segment_transactions')
    <3>1. segments # <<>> => FirstSegment(tx) = first_segment
      BY <2>1, AskedSegment
    <3> QED BY <1>5, <3>1 DEF RefusedOpening, options, IInv, RowStands
  <2> QED BY <1>5, <2>1, <2>2 DEF RefusedOpening, Admits, IInv, TypeOK, options, counters
<1>6. ASSUME NEW tx \in Arrivals, RefusedInSegment(tx) PROVE IInv'
  <2>1. Admits(tx) /\ FirstSegment(tx) \in Nat
    BY <1>6, AskedSegment DEF RefusedInSegment
  <2>2. RowStands(segments', first_segment', segment_transactions')
    BY <1>6, <2>1, SegmentsLeft DEF RefusedInSegment, options
  <2> QED BY <1>6, <2>1, <2>2
          DEF RefusedInSegment, Admits, IInv, TypeOK, RowStands, options, counters
<1>7. ASSUME NEW tx \in Arrivals, RefusedInRegister(tx) PROVE IInv'
  <2>1. Admits(tx) /\ FirstSegment(tx) \in Nat
    BY <1>7, AskedSegment DEF RefusedInRegister
  <2>2. RowStands(segments', first_segment', segment_transactions')
    BY <1>7, <2>1, SegmentsLeft DEF RefusedInRegister, options
  <2>3. addresses' \in Register
    BY <1>7, RegisterRefusedType, SegmentAssumption DEF RefusedInRegister, IInv, TypeOK
  <2>4. RegisterReachable(addresses')
    BY <1>7, RegisterLeft, SegmentAssumption DEF RefusedInRegister, IInv, TypeOK
  <2> QED BY <1>7, <2>1, <2>2, <2>3, <2>4
          DEF RefusedInRegister, Admits, IInv, TypeOK, RowStands, options, counters
<1>8. CASE UNCHANGED vars
  BY <1>8 DEF vars, options, counters, IInv, TypeOK, RowStands
<1> QED BY <1>1, <1>2, <1>3, <1>4, <1>5, <1>6, <1>7, <1>8 DEF Next, Lifecycle, AddOrRefuse

LEMMA IInvSays ==
  IInv => TypeOK /\ SegmentsPartitionTheRun /\ NothingIsTruncated /\ WrittenIsReachable
<1> SUFFICES ASSUME IInv
             PROVE  TypeOK /\ SegmentsPartitionTheRun /\ NothingIsTruncated /\ WrittenIsReachable
  OBVIOUS
<1>1. SegmentsPartitionTheRun
  BY DEF IInv, RowStands, SegmentStands, SegmentsPartitionTheRun
<1>2. NothingIsTruncated
  BY DEF IInv, RowStands, SegmentStands, NothingIsTruncated
<1>3. WrittenIsReachable
  BY DEF IInv, RowStands, SegmentStands, SetsReachable, RegisterReachable, WrittenIsReachable
<1> QED BY <1>1, <1>2, <1>3 DEF IInv

LEMMA InvariantHolds == Spec => []IInv
  BY InitIInv, NextIInv, PTL DEF Spec

(***************************************************************************)
(* The fields of a chain, its segments and its register stay within their  *)
(* types, after refusals at every allocation too.                          *)
(***************************************************************************)
THEOREM ChainTypes == Spec => []TypeOK
  BY InvariantHolds, IInvSays, PTL

(***************************************************************************)
(* grdb_chain_add keeps the segments a partition of one gapless run of     *)
(* numbers, for any segment size and any caller.                           *)
(***************************************************************************)
THEOREM ChainPartition == Spec => []SegmentsPartitionTheRun
  BY InvariantHolds, IInvSays, PTL

(***************************************************************************)
(* No 32-bit offset or day slot of a chain is ever truncated, however long *)
(* the run: the wall of one index is out of a segment's reach.             *)
(***************************************************************************)
THEOREM ChainWidth == Spec => []NothingIsTruncated
  BY InvariantHolds, IInvSays, PTL

(***************************************************************************)
(* Whatever a refusal left of a key map without its vector, every key, coin*)
(* and entry that something was written under is found again.              *)
(***************************************************************************)
THEOREM ChainFinds == Spec => []WrittenIsReachable
  BY InvariantHolds, IInvSays, PTL

-----------------------------------------------------------------------------
\* The number of an add that is admitted is past those that are counted.
LEMMA AdmittedIsNew ==
  ASSUME IInv, NEW tx \in Arrivals, Admits(tx)
  PROVE  tx \in Transaction /\ tx.tx_nr \in Nat /\ max_tx_nr \in Nat /\ max_tx_nr < tx.tx_nr
<1>1. tx \in Transaction /\ tx.tx_nr \in Nat /\ max_tx_nr \in Nat /\ transaction_count \in Nat
  BY SegmentAssumption DEF Transaction, IInv, TypeOK
<1>2. tx.tx_nr # 0 /\ (transaction_count # 0 => tx.tx_nr = max_tx_nr + 1)
  BY DEF Admits
<1> QED BY <1>1, <1>2 DEF IInv

\* The register as any add leaves it.
LEMMA AddLeavesRegister ==
  ASSUME IInv, NEW tx \in Arrivals, Admits(tx),
         \/ addresses' = addresses
         \/ addresses' \in RegisterAdded(addresses, tx) \cup RegisterRefused(addresses, tx)
  PROVE  /\ \A k \in Keys : \A n \in 1..max_tx_nr :
              TypeAt(addresses', k, n) = TypeAt(addresses, k, n)
         /\ UnknownTypes(tx) # {} => addresses'.changes = addresses.changes
         /\ \A k \in Keys : NewestFirst(addresses.changes[k], tx.tx_nr)
                             => NewestFirst(addresses'.changes[k], tx.tx_nr)
<1>1. tx \in Transaction /\ tx.tx_nr \in Nat /\ max_tx_nr \in Nat /\ max_tx_nr < tx.tx_nr
  BY AdmittedIsNew
<1>2. addresses \in Register /\ RegisterReachable(addresses)
  BY DEF IInv, TypeOK
<1>3. \A n \in 1..max_tx_nr : n \in Nat /\ n < tx.tx_nr
  BY <1>1
<1>4. CASE addresses' = addresses
  BY <1>4
<1>5. CASE addresses' \in RegisterAdded(addresses, tx) \cup RegisterRefused(addresses, tx)
  BY <1>1, <1>2, <1>3, <1>5, RegisterLeft
<1> QED BY <1>4, <1>5

\* Which registers the four ways of an add leave.
LEMMA AddsRegister ==
  ASSUME NEW tx \in Arrivals, AddOrRefuse(tx)
  PROVE  /\ Admits(tx)
         /\ \/ addresses' = addresses
            \/ addresses' \in RegisterAdded(addresses, tx) \cup RegisterRefused(addresses, tx)
<1>1. CASE Add(tx)
  BY <1>1 DEF Add
<1>2. CASE RefusedOpening(tx)
  BY <1>2 DEF RefusedOpening
<1>3. CASE RefusedInSegment(tx)
  BY <1>3 DEF RefusedInSegment
<1>4. CASE RefusedInRegister(tx)
  BY <1>4 DEF RefusedInRegister
<1> QED BY <1>1, <1>2, <1>3, <1>4 DEF AddOrRefuse

(***************************************************************************)
(* What the register answers for the type of an address as of a counted    *)
(* number is never changed by a later add, let it succeed or be refused,   *)
(* whatever the callers hand to the chain.                                 *)
(***************************************************************************)
THEOREM TypesAreHistory == Spec => TypesAsOfStand
<1> DEFINE Stands == transaction_count' # 0 =>
                       \A k \in Keys : \A n \in 1..max_tx_nr :
                         TypeAt(addresses, k, n)' = TypeAt(addresses, k, n)
<1>1. IInv /\ [Next]_vars => [Stands]_vars
  <2> SUFFICES ASSUME IInv, Next PROVE Stands
    OBVIOUS
  <2>1. CASE Lifecycle
    <3>1. Emptied
      BY <2>1 DEF Lifecycle, Initialise, Release, Reset
    <3> QED BY <3>1 DEF Emptied
  <2>2. ASSUME NEW tx \in Arrivals, AddOrRefuse(tx) PROVE Stands
    <3>1. \A k \in Keys : \A n \in 1..max_tx_nr :
            TypeAt(addresses', k, n) = TypeAt(addresses, k, n)
      BY <2>2, AddsRegister, AddLeavesRegister
    <3>2. \A k \in Keys : \A n \in 1..max_tx_nr :
            TypeAt(addresses, k, n)' = TypeAt(addresses', k, n)
      OBVIOUS
    <3> QED BY <3>1, <3>2
  <2> QED BY <2>1, <2>2 DEF Next
<1> QED BY <1>1, InvariantHolds, PTL DEF Spec, TypesAsOfStand

-----------------------------------------------------------------------------
(***************************************************************************)
(* The caller who adds again.  The last segment of the row is reached: it  *)
(* holds the next number or an earlier one; a chain that counts nothing has*)
(* one segment at most.                                                    *)
(***************************************************************************)
RowIsReached ==
  segments # <<>> =>
    IF transaction_count = 0 THEN Len(segments) = 1
    ELSE (first_segment + Len(segments) - 1) * segment_transactions <= max_tx_nr + 1

\* The register's records are numbered no higher than the given number.
RecordedUpTo(top) == \A k \in Keys : NewestFirst(addresses.changes[k], top)

\* The transaction to be added again was stopped in the register, by want of
\* room: its segment counts it, and its types may be written already.
StoppedInRegister(tx) == UnknownTypes(tx) = {} /\ InSegment(tx)

(***************************************************************************)
(* Inductive for NextRetrying.  Records above the chain's last number are  *)
(* those of the transaction the caller holds, so that its next add is the  *)
(* one that finds them and does not write them again.                      *)
(***************************************************************************)
RetryInv ==
  /\ IInv
  /\ RowIsReached
  /\ \/ RecordedUpTo(max_tx_nr)
     \/ /\ refused \in Arrivals
        /\ StoppedInRegister(refused)
        /\ RecordedUpTo(refused.tx_nr)

\* A segment that lets an add past it counts its number as its last.
LEMMA HeldIsCounted ==
  ASSUME IInv, NEW tx \in Arrivals, Admits(tx), NEW s \in SegmentsHolding(tx)
  PROVE  s \in Index /\ s.transaction_count # 0 /\ s.max_tx_nr = tx.tx_nr
<1> DEFINE base == SegmentOf(tx.tx_nr) * segment_transactions
           n == Segment(tx).transaction_count
<1>1. /\ segment_transactions \in 1..MaxU32
      /\ base \in Nat
      /\ tx.tx_nr \in base..(base + segment_transactions - 1)
      /\ Segment(tx) \in Index
      /\ SegmentStands(Segment(tx), base, segment_transactions)
  BY AskedSegment
<1>2. tx \in Transaction /\ tx.tx_nr \in Nat
  BY SegmentAssumption DEF Transaction
<1>3. CASE InSegment(tx)
  BY <1>1, <1>3 DEF SegmentsHolding, InSegment
<1>4. CASE ~InSegment(tx)
  <2>1. Accepts(Segment(tx), tx) /\ s \in Added(Segment(tx), tx)
    BY <1>4 DEF SegmentsHolding
  <2>2. /\ n \in Nat /\ Segment(tx).min_tx_nr \in Nat /\ Segment(tx).max_tx_nr \in Nat
        /\ MaxU32 \in Nat
    BY <1>1, WidthAssumption DEF Index, U32
  <2>3. n # 0 => tx.tx_nr = Segment(tx).max_tx_nr + 1
    BY <2>1 DEF Accepts, AcceptsNumber
  <2>4. n + 1 <= segment_transactions
    BY <1>1, <1>2, <2>2, <2>3 DEF SegmentStands
  <2>5. (n + 1) % (MaxU32 + 1) = n + 1 /\ n + 1 # 0
    <3>1. n + 1 \in 0..MaxU32
      BY <1>1, <2>2, <2>4
    <3>2. \A m, w \in Nat : m \in 0..w => m % (w + 1) = m
      OBVIOUS
    <3> QED BY <2>2, <3>1, <3>2
  <2> HIDE DEF n
  <2>6. /\ s \in Index
        /\ s.max_tx_nr = tx.tx_nr
        /\ s.transaction_count = (Segment(tx).transaction_count + 1) % (MaxU32 + 1)
    BY <1>1, <1>2, <2>1, AddedType
  <2> QED BY <2>5, <2>6 DEF n
<1> QED BY <1>3, <1>4

\* A multiple of the size that is no larger than a number is one of the
\* segments up to the number's own.
LEMMA ReachedByNumber ==
  ASSUME NEW a \in Nat, NEW n \in Nat, NEW size \in Nat \ {0}, a * size <= n
  PROVE  a <= n \div size
<1>1. PICK q \in Nat : q = n \div size /\ n < q * size + size
  BY RunOfNumber
<1>2. SUFFICES ASSUME a >= q + 1 PROVE FALSE
  BY <1>1
<1>3. PICK d \in Nat : a = (q + 1) + d
  <2>1. a - (q + 1) \in Nat /\ a = (q + 1) + (a - (q + 1))
    BY <1>1, <1>2
  <2> QED BY <2>1
<1>4. a * size = q * size + size + d * size
  BY <1>3
<1>5. d * size \in Nat /\ q * size \in Nat
  OBVIOUS
<1> QED BY <1>1, <1>4, <1>5

\* What an add of a caller in order makes of the row: only its last segment,
\* or one new after it, is written, and it is the number's own.
LEMMA RowAfterAdd ==
  ASSUME IInv, RowIsReached, NEW tx \in Arrivals, Admits(tx), StartsInRow(tx),
         NEW s \in Index
  PROVE  /\ Row(tx, s) \in Seq(Index)
         /\ Len(Row(tx, s)) = Position(tx)
         /\ Row(tx, s)[Position(tx)] = s
         /\ \A i \in 1..(Len(segments) - 1) : Row(tx, s)[i] = segments[i]
         /\ transaction_count = 0 => Position(tx) = 1
         /\ (FirstSegment(tx) + Position(tx) - 1) * segment_transactions <= tx.tx_nr
<1>1. /\ segment_transactions \in Nat \ {0}
      /\ FirstSegment(tx) \in Nat
      /\ Position(tx) \in 1..(Len(segments) + 1)
      /\ SegmentOf(tx.tx_nr) = FirstSegment(tx) + Position(tx) - 1
      /\ SegmentOf(tx.tx_nr) * segment_transactions <= tx.tx_nr
      /\ segments # <<>> => FirstSegment(tx) = first_segment
  <2>1. MaxU32 \in Nat
    BY WidthAssumption
  <2> QED BY <2>1, AskedSegment
<1>2. /\ segments \in Seq(Index)
      /\ Len(segments) \in Nat
      /\ DOMAIN segments = 1..Len(segments)
      /\ segments # <<>> => Len(segments) >= 1
      /\ segments = <<>> => Len(segments) = 0
      /\ first_segment \in Nat
      /\ tx.tx_nr \in Nat
  BY SegmentAssumption DEF IInv, TypeOK, Transaction
<1>3. transaction_count = 0 => Position(tx) = 1
  <2>1. CASE segments = <<>>
    BY <1>1, <1>2, <2>1
  <2>2. CASE segments # <<>>
    <3>1. transaction_count = 0 => SegmentOf(tx.tx_nr) = first_segment
      BY <2>2 DEF StartsInRow
    <3> QED BY <1>1, <1>2, <2>2, <3>1
  <2> QED BY <2>1, <2>2
<1>4. Position(tx) >= Len(segments)
  <2>1. CASE segments = <<>>
    BY <1>1, <1>2, <2>1
  <2>2. CASE segments # <<>> /\ transaction_count = 0
    <3>1. Len(segments) = 1
      BY <2>2 DEF RowIsReached
    <3> QED BY <1>3, <2>2, <3>1
  <2>3. CASE segments # <<>> /\ transaction_count # 0
    <3>1. (first_segment + Len(segments) - 1) * segment_transactions <= tx.tx_nr
      BY <2>3 DEF RowIsReached, Admits
    <3>2. first_segment + Len(segments) - 1 \in Nat
      BY <1>2, <2>3
    <3>3. first_segment + Len(segments) - 1 <= SegmentOf(tx.tx_nr)
      BY <1>1, <1>2, <3>1, <3>2, ReachedByNumber DEF SegmentOf
    <3> QED BY <1>1, <1>2, <2>3, <3>3
  <2> QED BY <2>1, <2>2, <2>3
<1>5. (FirstSegment(tx) + Position(tx) - 1) * segment_transactions <= tx.tx_nr
  BY <1>1
<1>6. CASE IsNewSegment(tx)
  <2>1. Row(tx, s) = Append(segments, s) /\ Position(tx) = Len(segments) + 1
    BY <1>6 DEF Row, IsNewSegment
  <2> QED BY <1>2, <1>3, <1>5, <2>1, AppendProperties
<1>7. CASE ~IsNewSegment(tx)
  <2>1. Row(tx, s) = [segments EXCEPT ![Position(tx)] = s] /\ Position(tx) = Len(segments)
    BY <1>1, <1>2, <1>4, <1>7 DEF Row, IsNewSegment
  <2>2. Position(tx) \in 1..Len(segments)
    BY <1>1, <1>2, <2>1
  <2>3. [segments EXCEPT ![Position(tx)] = s] \in Seq(Index)
    BY <1>2, <2>2, ExceptSeq
  <2>4. Len([segments EXCEPT ![Position(tx)] = s]) = Len(segments)
    BY <1>2, <2>2, ExceptSeq
  <2>5. \A i \in 1..Len(segments) :
          [segments EXCEPT ![Position(tx)] = s][i] = IF i = Position(tx) THEN s ELSE segments[i]
    BY <1>2, <2>2, ExceptSeq
  <2>6. \A n \in Nat : \A i \in 1..(n - 1) : i \in 1..n /\ i # n
    OBVIOUS
  <2>7. \A i \in 1..(Len(segments) - 1) : i \in 1..Len(segments) /\ i # Position(tx)
    BY <1>2, <2>1, <2>6
  <2> QED BY <1>3, <1>5, <2>1, <2>2, <2>3, <2>4, <2>5, <2>7
<1> QED BY <1>6, <1>7

\* Records up to a number are records up to a larger one.
LEMMA RecordedFurther ==
  ASSUME IInv, NEW low \in Nat, NEW high \in Nat, low <= high, RecordedUpTo(low)
  PROVE  RecordedUpTo(high)
<1> SUFFICES ASSUME NEW k \in Keys PROVE NewestFirst(addresses.changes[k], high)
  BY DEF RecordedUpTo
<1>1. addresses.changes[k] \in Seq(TypeChange)
  BY DEF IInv, TypeOK, Register
<1>2. \A i \in DOMAIN addresses.changes[k] : addresses.changes[k][i].tx_nr \in Nat
  BY <1>1, RecordsAreNumbered
<1>3. NewestFirst(addresses.changes[k], low)
  BY DEF RecordedUpTo
<1> QED BY <1>2, <1>3 DEF NewestFirst

\* The transaction a caller adds finds no record above its own number.
LEMMA AddFindsRecords ==
  ASSUME RetryInv, NEW tx \in Arrivals, Admits(tx), refused \in {tx, NoTransaction}
  PROVE  RecordedUpTo(tx.tx_nr)
<1>1. tx.tx_nr \in Nat /\ max_tx_nr \in Nat /\ max_tx_nr < tx.tx_nr
  BY AdmittedIsNew DEF RetryInv
<1>2. CASE RecordedUpTo(max_tx_nr)
  BY <1>1, <1>2, RecordedFurther DEF RetryInv
<1>3. CASE ~RecordedUpTo(max_tx_nr)
  BY <1>3, SegmentAssumption DEF RetryInv
<1> QED BY <1>2, <1>3

\* A transaction stopped in the register opens no segment and is not refused
\* in one.
LEMMA StoppedPassesSegment ==
  ASSUME NEW tx \in Arrivals, StoppedInRegister(tx)
  PROVE  ~IsNewSegment(tx) /\ SegmentsRefusing(tx) = {}
<1>1. InSegment(tx)
  BY DEF StoppedInRegister
<1>2. ~IsNewSegment(tx)
  BY <1>1 DEF InSegment, Segment, EmptyIndex
<1> QED BY <1>1, <1>2 DEF SegmentsRefusing

\* The row after any of the four ways of an add.
LEMMA RowStaysReached ==
  ASSUME RetryInv, NEW tx \in Arrivals, StartsInRow(tx), AddOrRefuse(tx)
  PROVE  /\ RowIsReached'
         /\ segments' # <<>> =>
              \A i \in 1..(Len(segments) - 1) : segments'[i] = segments[i]
<1>1. Admits(tx) /\ IInv /\ RowIsReached
  BY AddsRegister DEF RetryInv
<1>2. CASE RefusedOpening(tx)
  <2>1. segments # <<>> => FirstSegment(tx) = first_segment
    BY <1>1, AskedSegment
  <2> QED BY <1>1, <1>2, <2>1 DEF RefusedOpening, RowIsReached, options, counters
<1>3. CASE ~RefusedOpening(tx)
  <2>1. PICK s \in SegmentsHolding(tx) \cup SegmentsRefusing(tx) : segments' = Row(tx, s)
    BY <1>3 DEF AddOrRefuse, Add, RefusedInSegment, RefusedInRegister
  <2>2. s \in Index
    BY <1>1, <2>1, SegmentsLeft
  <2>3. /\ first_segment' = FirstSegment(tx)
        /\ segment_transactions' = segment_transactions
        /\ \/ transaction_count' = transaction_count /\ max_tx_nr' = max_tx_nr
           \/ transaction_count' = transaction_count + 1 /\ max_tx_nr' = tx.tx_nr
    BY <1>3 DEF AddOrRefuse, Add, RefusedInSegment, RefusedInRegister, options, counters
  <2>4. /\ segments' \in Seq(Index)
        /\ Len(segments') = Position(tx)
        /\ \A i \in 1..(Len(segments) - 1) : segments'[i] = segments[i]
        /\ transaction_count = 0 => Position(tx) = 1
        /\ (FirstSegment(tx) + Position(tx) - 1) * segment_transactions <= tx.tx_nr
    BY <1>1, <2>1, <2>2, RowAfterAdd
  <2>5. /\ transaction_count \in Nat
        /\ transaction_count # 0 => tx.tx_nr = max_tx_nr + 1
        /\ tx.tx_nr \in Nat
        /\ FirstSegment(tx) \in Nat
        /\ Position(tx) \in Nat
    <3>1. FirstSegment(tx) \in Nat /\ Position(tx) \in 1..(Len(segments) + 1)
      BY <1>1, AskedSegment
    <3> QED BY <1>1, <3>1, SegmentAssumption DEF IInv, TypeOK, Admits, Transaction
  <2>6. segment_transactions \in Nat
    BY <1>1, SegmentAssumption DEF IInv, TypeOK
  <2> DEFINE start == (FirstSegment(tx) + Position(tx) - 1) * segment_transactions
  <2>7. start \in Int /\ start <= tx.tx_nr
    BY <2>4, <2>5, <2>6
  <2>8. (first_segment' + Len(segments') - 1) * segment_transactions' = start
    BY <2>3, <2>4
  <2> HIDE DEF start
  <2>9. RowIsReached'
    BY <2>3, <2>4, <2>5, <2>7, <2>8 DEF RowIsReached
  <2> QED BY <2>4, <2>9
<1> QED BY <1>2, <1>3

\* A transaction refused in the register is then one its segment counts.
LEMMA RefusedIsInSegment ==
  ASSUME RetryInv, NEW tx \in Arrivals, StartsInRow(tx), RefusedInRegister(tx)
  PROVE  InSegment(tx)'
<1>1. Admits(tx) /\ IInv /\ RowIsReached
  BY DEF RefusedInRegister, RetryInv
<1>2. PICK s \in SegmentsHolding(tx) : segments' = Row(tx, s)
  BY DEF RefusedInRegister
<1>3. s \in Index /\ s.transaction_count # 0 /\ s.max_tx_nr = tx.tx_nr
  BY <1>1, HeldIsCounted
<1>4. /\ segments' \in Seq(Index)
      /\ Len(segments') = Position(tx)
      /\ segments'[Position(tx)] = s
  BY <1>1, <1>2, <1>3, RowAfterAdd
<1>5. Position(tx) >= 1 /\ Position(tx) \in Nat
  BY <1>1, AskedSegment
<1>6. segments' # <<>>
  BY <1>4, <1>5
<1>7. FirstSegment(tx)' = FirstSegment(tx) /\ SegmentOf(tx.tx_nr)' = SegmentOf(tx.tx_nr)
  BY <1>6 DEF RefusedInRegister, FirstSegment, SegmentOf, options
<1>8. Position(tx)' = Position(tx)
  BY <1>7 DEF Position
<1>9. ~IsNewSegment(tx)'
  BY <1>4, <1>5, <1>8 DEF IsNewSegment
<1>10. Segment(tx)' = s
  BY <1>4, <1>8, <1>9 DEF Segment
<1> QED BY <1>3, <1>10 DEF InSegment

\* The records after any of the four ways of an add.
LEMMA RecordsStayHeld ==
  ASSUME RetryInv, NEW tx \in Arrivals, refused \in {tx, NoTransaction},
         StartsInRow(tx), AddOrRefuse(tx)
  PROVE  \/ RecordedUpTo(max_tx_nr)'
         \/ /\ refused' \in Arrivals
            /\ StoppedInRegister(refused)'
            /\ RecordedUpTo(refused.tx_nr)'
<1>1. Admits(tx) /\ IInv
  BY AddsRegister DEF RetryInv
<1>2. RecordedUpTo(tx.tx_nr)
  BY <1>1, AddFindsRecords
<1>3. /\ UnknownTypes(tx) # {} => addresses'.changes = addresses.changes
      /\ \A k \in Keys : NewestFirst(addresses'.changes[k], tx.tx_nr)
  <2>1. /\ UnknownTypes(tx) # {} => addresses'.changes = addresses.changes
        /\ \A k \in Keys : NewestFirst(addresses.changes[k], tx.tx_nr)
                            => NewestFirst(addresses'.changes[k], tx.tx_nr)
    BY <1>1, AddsRegister, AddLeavesRegister
  <2> QED BY <1>2, <2>1 DEF RecordedUpTo
<1>4. CASE Add(tx)
  <2>1. max_tx_nr' = tx.tx_nr
    BY <1>4 DEF Add
  <2> QED BY <1>3, <2>1 DEF RecordedUpTo
<1>5. RecordedUpTo(max_tx_nr) \/ (refused = tx /\ StoppedInRegister(tx))
  BY SegmentAssumption DEF RetryInv
<1>6. CASE RefusedOpening(tx) \/ RefusedInSegment(tx)
  <2>1. RecordedUpTo(max_tx_nr)
    BY <1>5, <1>6, StoppedPassesSegment DEF RefusedOpening, RefusedInSegment
  <2>2. addresses' = addresses /\ max_tx_nr' = max_tx_nr
    BY <1>6 DEF RefusedOpening, RefusedInSegment, counters
  <2> QED BY <2>1, <2>2 DEF RecordedUpTo
<1>7. CASE RefusedInRegister(tx) /\ UnknownTypes(tx) = {}
  <2>1. refused' = tx
    BY <1>7 DEF RefusedInRegister
  <2>2. StoppedInRegister(refused)'
    <3>1. InSegment(tx)'
      BY <1>7, RefusedIsInSegment
    <3>2. InSegment(refused)'
      BY <2>1, <3>1 DEF InSegment, Segment, IsNewSegment, Position, FirstSegment, SegmentOf
    <3>3. UnknownTypes(refused') = {}
      BY <1>7, <2>1
    <3> QED BY <3>2, <3>3 DEF StoppedInRegister
  <2>3. RecordedUpTo(refused.tx_nr)'
    BY <1>3, <2>1 DEF RecordedUpTo
  <2> QED BY <2>1, <2>2, <2>3
<1>8. CASE RefusedInRegister(tx) /\ UnknownTypes(tx) # {}
  <2>1. RecordedUpTo(max_tx_nr)
    BY <1>5, <1>8 DEF StoppedInRegister
  <2>2. addresses'.changes = addresses.changes /\ max_tx_nr' = max_tx_nr
    BY <1>3, <1>8 DEF RefusedInRegister, counters
  <2> QED BY <2>1, <2>2 DEF RecordedUpTo
<1> QED BY <1>4, <1>6, <1>7, <1>8 DEF AddOrRefuse

\* An emptied chain has no row and no records.
LEMMA EmptiedIsHeld ==
  ASSUME Emptied
  PROVE  RowIsReached' /\ RecordedUpTo(max_tx_nr)'
<1>1. segments' = <<>> /\ addresses' = EmptyRegister
  BY DEF Emptied
<1>2. RowIsReached'
  BY <1>1 DEF RowIsReached
<1>3. \A k \in Keys : addresses'.changes[k] = <<>>
  BY <1>1 DEF EmptyRegister
<1>4. RecordedUpTo(max_tx_nr)'
  BY <1>3 DEF RecordedUpTo, NewestFirst
<1> QED BY <1>2, <1>4

LEMMA InitRetryInv == Init => RetryInv
<1> SUFFICES ASSUME Init PROVE RetryInv
  OBVIOUS
<1>1. segments = <<>> /\ addresses = EmptyRegister
  BY DEF Init
<1>2. RowIsReached
  BY <1>1 DEF RowIsReached
<1>3. \A k \in Keys : addresses.changes[k] = <<>>
  BY <1>1 DEF EmptyRegister
<1>4. RecordedUpTo(max_tx_nr)
  <2>1. \A top : NewestFirst(<<>>, top)
    BY DEF NewestFirst
  <2> QED BY <1>3, <2>1 DEF RecordedUpTo
<1> QED BY <1>2, <1>4, InitIInv DEF RetryInv

\* What a caller who adds again may do is something any caller may do.
LEMMA RetryingIsCalling == NextRetrying => Next
  BY DEF NextRetrying, Next

LEMMA NextRetryInv == RetryInv /\ [NextRetrying]_vars => RetryInv'
<1> SUFFICES ASSUME RetryInv, [NextRetrying]_vars PROVE RetryInv'
  OBVIOUS
<1>1. IInv'
  BY NextIInv, RetryingIsCalling DEF RetryInv
<1>2. CASE Lifecycle
  <2>1. Emptied
    BY <1>2 DEF Lifecycle, Initialise, Release, Reset
  <2> QED BY <1>1, <2>1, EmptiedIsHeld DEF RetryInv
<1>3. ASSUME NEW tx \in Arrivals, refused \in {tx, NoTransaction},
             StartsInRow(tx), AddOrRefuse(tx)
      PROVE  RetryInv'
  BY <1>1, <1>3, RowStaysReached, RecordsStayHeld DEF RetryInv
<1>4. CASE UNCHANGED vars
  <2>1. RowIsReached'
    BY <1>4 DEF RetryInv, RowIsReached, vars, options, counters
  <2>2. refused' = refused /\ addresses' = addresses /\ max_tx_nr' = max_tx_nr
    BY <1>4 DEF vars, counters
  <2>3. RecordedUpTo(max_tx_nr) => RecordedUpTo(max_tx_nr)'
    BY <2>2 DEF RecordedUpTo
  <2>4. RecordedUpTo(refused.tx_nr) => RecordedUpTo(refused.tx_nr)'
    BY <2>2 DEF RecordedUpTo
  <2>5. StoppedInRegister(refused) => StoppedInRegister(refused)'
    BY <1>4 DEF StoppedInRegister, InSegment, Segment, IsNewSegment, Position, FirstSegment,
                SegmentOf, vars, options, counters
  <2> QED BY <1>1, <2>1, <2>2, <2>3, <2>4, <2>5 DEF RetryInv
<1> QED BY <1>2, <1>3, <1>4 DEF NextRetrying

LEMMA RetryInvariantHolds == RetrySpec => []RetryInv
  BY InitRetryInv, NextRetryInv, PTL DEF RetrySpec

(***************************************************************************)
(* However often an add finds no room and is made again, and wherever it   *)
(* stopped, grdb_addresses_add gives a key the type of a transaction once. *)
(***************************************************************************)
THEOREM TypesAreWrittenOnce == RetrySpec => []NoTypeIsWrittenTwice
<1>1. RetryInv => NoTypeIsWrittenTwice
  BY DEF RetryInv, RecordedUpTo, NewestFirst, NoTypeIsWrittenTwice
<1> QED BY <1>1, RetryInvariantHolds, PTL

(***************************************************************************)
(* For the caller in order, a segment that is not the last of the row is   *)
(* never written again, by an add that succeeds or by one that is refused. *)
(***************************************************************************)
THEOREM ClosedForGood == RetrySpec => ClosedSegmentsStand
<1> DEFINE Stands == segments' # <<>> =>
                       \A i \in 1..(Len(segments) - 1) : segments'[i] = segments[i]
<1>1. RetryInv /\ [NextRetrying]_vars => [Stands]_vars
  <2> SUFFICES ASSUME RetryInv, NextRetrying PROVE Stands
    OBVIOUS
  <2>1. CASE Lifecycle
    BY <2>1 DEF Lifecycle, Initialise, Release, Reset, Emptied
  <2>2. ASSUME NEW tx \in Arrivals, StartsInRow(tx), AddOrRefuse(tx) PROVE Stands
    BY <2>2, RowStaysReached
  <2> QED BY <2>1, <2>2 DEF NextRetrying
<1> QED BY <1>1, RetryInvariantHolds, PTL DEF RetrySpec, ClosedSegmentsStand

-----------------------------------------------------------------------------
(* What a transaction says, read off it and by the walks of the code.      *)

LEMMA NamedAgree == ASSUME NEW tx PROVE L!Named(tx) = Named(tx) /\ L!Notes(tx) = Notes(tx)
  BY DEF L!Named, Named, L!Notes, Notes, L!NamingTypes, NamingTypes

\* The two parts of a concatenation.
LEMMA PartsOfConcat ==
  ASSUME NEW S, NEW s \in Seq(S), NEW t \in Seq(S)
  PROVE  /\ s \o t \in Seq(S)
         /\ Len(s \o t) = Len(s) + Len(t)
         /\ DOMAIN (s \o t) = 1..(Len(s) + Len(t))
         /\ \A i \in 1..Len(s) : (s \o t)[i] = s[i]
         /\ \A i \in 1..Len(t) : (s \o t)[Len(s) + i] = t[i]
  OBVIOUS

\* The three parts of the walk over a transaction.
LEMMA TouchesParts ==
  ASSUME NEW tx \in Transaction
  PROVE  LET a == Len(tx.signers)
             b == Len(tx.balances)
             n == Len(Named(tx))
         IN  /\ a \in Nat /\ b \in Nat /\ n \in Nat
             /\ DOMAIN tx.signers = 1..a /\ DOMAIN tx.balances = 1..b /\ DOMAIN Named(tx) = 1..n
             /\ DOMAIN Touches(tx) = 1..(a + b + n)
             /\ \A i \in 1..a :
                  Touches(tx)[i] = [role |-> "signed", key |-> tx.signers[i], coin |-> NoCommunity]
             /\ \A i \in 1..b :
                  Touches(tx)[a + i] = [role |-> "balance", key |-> tx.balances[i].key,
                                        coin |-> tx.balances[i].coin]
             /\ \A i \in 1..n :
                  Touches(tx)[a + b + i] = [role |-> "other", key |-> Named(tx)[i],
                                            coin |-> NoCommunity]
<1> DEFINE a == Len(tx.signers)
           b == Len(tx.balances)
           n == Len(Named(tx))
           signed == [i \in 1..a |->
                        [role |-> "signed", key |-> tx.signers[i], coin |-> NoCommunity]]
           moved  == [i \in 1..b |->
                        [role |-> "balance", key |-> tx.balances[i].key,
                         coin |-> tx.balances[i].coin]]
           named  == [i \in 1..n |->
                        [role |-> "other", key |-> Named(tx)[i], coin |-> NoCommunity]]
<1>1. /\ a \in Nat /\ b \in Nat
      /\ DOMAIN tx.signers = 1..a /\ DOMAIN tx.balances = 1..b
  BY DEF Transaction
<1>2. n \in Nat /\ DOMAIN Named(tx) = 1..n
  <2>1. \A x, y, z : /\ Len(<<x, y, z>>) = 3 /\ DOMAIN <<x, y, z>> = 1..3
                     /\ Len(<<x, y>>) = 2 /\ DOMAIN <<x, y>> = 1..2
    OBVIOUS
  <2>2. Len(<<>>) = 0 /\ DOMAIN <<>> = 1..0
    OBVIOUS
  <2>3. 3 \in Nat /\ 2 \in Nat /\ 0 \in Nat
    OBVIOUS
  <2>4. CASE tx.type = "community_root"
    <3>1. Named(tx) = <<tx.body[1], tx.body[2], tx.body[3]>>
      BY <2>4 DEF Named
    <3> QED BY <2>1, <2>3, <3>1, Zenon
  <2>5. CASE tx.type # "community_root" /\ tx.type \in NamingTypes
    <3>1. Named(tx) = <<tx.body[1], tx.body[2]>>
      BY <2>5 DEF Named
    <3> QED BY <2>1, <2>3, <3>1, Zenon
  <2>6. CASE tx.type # "community_root" /\ tx.type \notin NamingTypes
    <3>1. Named(tx) = <<>>
      BY <2>6 DEF Named
    <3> QED BY <2>2, <2>3, <3>1, Zenon
  <2> QED BY <2>4, <2>5, <2>6
<1>3. Touches(tx) = (signed \o moved) \o named
  BY DEF Touches
<1> HIDE DEF a, b, n
<1> DEFINE Touched == UNION {{signed[i] : i \in 1..a}, {moved[i] : i \in 1..b}, {named[i] : i \in 1..n}}
<1>4. signed \in Seq(Touched) /\ moved \in Seq(Touched) /\ named \in Seq(Touched)
  <2>1. /\ \A i \in 1..a : [role |-> "signed", key |-> tx.signers[i], coin |-> NoCommunity] \in Touched
        /\ \A i \in 1..b : [role |-> "balance", key |-> tx.balances[i].key,
                            coin |-> tx.balances[i].coin] \in Touched
        /\ \A i \in 1..n : [role |-> "other", key |-> Named(tx)[i], coin |-> NoCommunity] \in Touched
    OBVIOUS
  <2> HIDE DEF Touched
  <2>2. signed \in Seq(Touched)
    BY <1>1, <2>1, IsASeq
  <2>3. moved \in Seq(Touched)
    BY <1>1, <2>1, IsASeq
  <2>4. named \in Seq(Touched)
    BY <1>2, <2>1, IsASeq
  <2> QED BY <2>2, <2>3, <2>4
<1>5. Len(signed) = a /\ Len(moved) = b /\ Len(named) = n
  BY <1>1, <1>2
<1>6. /\ \A i \in 1..a : signed[i] = [role |-> "signed", key |-> tx.signers[i], coin |-> NoCommunity]
      /\ \A i \in 1..b : moved[i] = [role |-> "balance", key |-> tx.balances[i].key,
                                     coin |-> tx.balances[i].coin]
      /\ \A i \in 1..n : named[i] = [role |-> "other", key |-> Named(tx)[i], coin |-> NoCommunity]
  OBVIOUS
<1> HIDE DEF signed, moved, named, Touched
<1> DEFINE two == signed \o moved
<1>7. /\ two \in Seq(Touched) /\ Len(two) = a + b
      /\ \A i \in 1..a : two[i] = signed[i]
      /\ \A i \in 1..b : two[a + i] = moved[i]
  <2>1. /\ signed \o moved \in Seq(Touched)
        /\ Len(signed \o moved) = Len(signed) + Len(moved)
        /\ \A i \in 1..Len(signed) : (signed \o moved)[i] = signed[i]
        /\ \A i \in 1..Len(moved) : (signed \o moved)[Len(signed) + i] = moved[i]
    BY <1>4, PartsOfConcat
  <2> QED BY <1>5, <2>1, Zenon
<1> HIDE DEF two
<1>8. /\ DOMAIN (two \o named) = 1..(a + b + n)
      /\ \A i \in 1..(a + b) : (two \o named)[i] = two[i]
      /\ \A i \in 1..n : (two \o named)[a + b + i] = named[i]
  <2>1. /\ DOMAIN (two \o named) = 1..(Len(two) + Len(named))
        /\ \A i \in 1..Len(two) : (two \o named)[i] = two[i]
        /\ \A i \in 1..Len(named) : (two \o named)[Len(two) + i] = named[i]
    <3>1. two \in Seq(Touched)
      BY <1>7
    <3> QED BY <1>4, <3>1, PartsOfConcat
  <2> QED BY <1>5, <1>7, <2>1, Zenon
<1>9. Touches(tx) = two \o named
  BY <1>3 DEF two
<1>10. \A i \in 1..a : Touches(tx)[i] = signed[i]
  <2>1. \A i \in 1..a : i \in 1..(a + b)
    BY <1>1
  <2> QED BY <1>7, <1>8, <1>9, <2>1
<1>11. \A i \in 1..b : Touches(tx)[a + i] = moved[i]
  <2>1. \A i \in 1..b : a + i \in 1..(a + b)
    BY <1>1
  <2> QED BY <1>7, <1>8, <1>9, <2>1
<1>12. \A i \in 1..n : Touches(tx)[a + b + i] = named[i]
  BY <1>8, <1>9
<1>13. DOMAIN Touches(tx) = 1..(a + b + n)
  BY <1>8, <1>9
<1> QED BY <1>1, <1>2, <1>6, <1>10, <1>11, <1>12, <1>13 DEF a, b, n

\* The walk meets the signers, the balance entries and the named keys, and
\* nothing else.
Reads(T, tx) ==
  /\ \A i \in DOMAIN T :
       \/ T[i].role = "signed" /\ T[i].key \in L!Entries(tx.signers)
       \/ /\ T[i].role = "balance"
          /\ \E e \in L!Entries(tx.balances) : T[i].key = e.key /\ T[i].coin = e.coin
       \/ T[i].role = "other" /\ T[i].key \in L!Entries(Named(tx))
  /\ \A k \in L!Entries(tx.signers) : \E i \in DOMAIN T : T[i].role = "signed" /\ T[i].key = k
  /\ \A e \in L!Entries(tx.balances) : \E i \in DOMAIN T :
       T[i].role = "balance" /\ T[i].key = e.key /\ T[i].coin = e.coin
  /\ \A k \in L!Entries(Named(tx)) : \E i \in DOMAIN T : T[i].role = "other" /\ T[i].key = k

LEMMA WalkReads ==
  ASSUME NEW tx \in Transaction
  PROVE  Reads(Touches(tx), tx)
<1> DEFINE a == Len(tx.signers)
           b == Len(tx.balances)
           n == Len(Named(tx))
           T == Touches(tx)
<1>1. /\ a \in Nat /\ b \in Nat /\ n \in Nat
      /\ DOMAIN tx.signers = 1..a /\ DOMAIN tx.balances = 1..b /\ DOMAIN Named(tx) = 1..n
      /\ DOMAIN T = 1..(a + b + n)
      /\ \A i \in 1..a : T[i] = [role |-> "signed", key |-> tx.signers[i], coin |-> NoCommunity]
      /\ \A i \in 1..b : T[a + i] = [role |-> "balance", key |-> tx.balances[i].key,
                                     coin |-> tx.balances[i].coin]
      /\ \A i \in 1..n : T[a + b + i] = [role |-> "other", key |-> Named(tx)[i],
                                         coin |-> NoCommunity]
  BY TouchesParts
<1> HIDE DEF a, b, n, T
<1>2. /\ \A i \in 1..a : T[i].role = "signed" /\ T[i].key = tx.signers[i]
      /\ \A i \in 1..b : /\ T[a + i].role = "balance"
                         /\ T[a + i].key = tx.balances[i].key
                         /\ T[a + i].coin = tx.balances[i].coin
      /\ \A i \in 1..n : T[a + b + i].role = "other" /\ T[a + b + i].key = Named(tx)[i]
  <2>1. ASSUME NEW i \in 1..a PROVE T[i].role = "signed" /\ T[i].key = tx.signers[i]
    <3>1. T[i] = [role |-> "signed", key |-> tx.signers[i], coin |-> NoCommunity]
      BY <1>1
    <3> QED BY <3>1
  <2>2. ASSUME NEW i \in 1..b
        PROVE  /\ T[a + i].role = "balance"
               /\ T[a + i].key = tx.balances[i].key
               /\ T[a + i].coin = tx.balances[i].coin
    <3>1. T[a + i] = [role |-> "balance", key |-> tx.balances[i].key,
                      coin |-> tx.balances[i].coin]
      BY <1>1
    <3> QED BY <3>1
  <2>3. ASSUME NEW i \in 1..n
        PROVE  T[a + b + i].role = "other" /\ T[a + b + i].key = Named(tx)[i]
    <3>1. T[a + b + i] = [role |-> "other", key |-> Named(tx)[i], coin |-> NoCommunity]
      BY <1>1
    <3> QED BY <3>1
  <2> QED BY <2>1, <2>2, <2>3
<1>3. /\ \A i \in 1..a : i \in 1..(a + b + n)
      /\ \A i \in 1..b : a + i \in 1..(a + b + n)
      /\ \A i \in 1..n : a + b + i \in 1..(a + b + n)
  BY <1>1
<1>4. \A k : k \in L!Entries(tx.signers) <=> \E i \in 1..a : k = tx.signers[i]
  BY <1>1 DEF L!Entries
<1>5. \A e : e \in L!Entries(tx.balances) <=> \E i \in 1..b : e = tx.balances[i]
  BY <1>1 DEF L!Entries
<1>6. \A k : k \in L!Entries(Named(tx)) <=> \E i \in 1..n : k = Named(tx)[i]
  BY <1>1 DEF L!Entries
<1>7. ASSUME NEW i \in DOMAIN T
      PROVE  \/ T[i].role = "signed" /\ T[i].key \in L!Entries(tx.signers)
             \/ /\ T[i].role = "balance"
                /\ \E e \in L!Entries(tx.balances) : T[i].key = e.key /\ T[i].coin = e.coin
             \/ T[i].role = "other" /\ T[i].key \in L!Entries(Named(tx))
  <2>1. CASE i \in 1..a
    BY <2>1, <1>2, <1>4
  <2>2. CASE i - a \in 1..b
    <3> DEFINE j == i - a
    <3>1. j \in 1..b /\ i = a + j
      BY <2>2, <1>1
    <3> HIDE DEF j
    <3>2. T[i].role = "balance" /\ T[i].key = tx.balances[j].key /\ T[i].coin = tx.balances[j].coin
      BY <3>1, <1>2
    <3>3. tx.balances[j] \in L!Entries(tx.balances)
      BY <3>1, <1>5
    <3> QED BY <3>2, <3>3
  <2>3. CASE i - a - b \in 1..n
    <3> DEFINE j == i - a - b
    <3>1. j \in 1..n /\ i = a + b + j
      BY <2>3, <1>1
    <3> HIDE DEF j
    <3> QED BY <3>1, <1>2, <1>6
  <2>4. i \in 1..a \/ i - a \in 1..b \/ i - a - b \in 1..n
    BY <1>1
  <2> QED BY <2>1, <2>2, <2>3, <2>4
<1>8. \A k \in L!Entries(tx.signers) : \E i \in DOMAIN T : T[i].role = "signed" /\ T[i].key = k
  <2> TAKE k \in L!Entries(tx.signers)
  <2>1. PICK i \in 1..a : k = tx.signers[i]
    BY <1>4
  <2>2. i \in DOMAIN T
    BY <1>1, <1>3
  <2>3. T[i].role = "signed" /\ T[i].key = k
    BY <1>2, <2>1
  <2> QED BY <2>2, <2>3
<1>9. \A e \in L!Entries(tx.balances) : \E i \in DOMAIN T :
        T[i].role = "balance" /\ T[i].key = e.key /\ T[i].coin = e.coin
  <2> TAKE e \in L!Entries(tx.balances)
  <2>1. PICK i \in 1..b : e = tx.balances[i]
    BY <1>5
  <2>2. a + i \in DOMAIN T
    BY <1>1, <1>3
  <2>3. T[a + i].role = "balance" /\ T[a + i].key = e.key /\ T[a + i].coin = e.coin
    BY <1>2, <2>1
  <2> QED BY <2>2, <2>3
<1>10. \A k \in L!Entries(Named(tx)) : \E i \in DOMAIN T : T[i].role = "other" /\ T[i].key = k
  <2> TAKE k \in L!Entries(Named(tx))
  <2>1. PICK i \in 1..n : k = Named(tx)[i]
    BY <1>6
  <2>2. a + b + i \in DOMAIN T
    BY <1>1, <1>3
  <2>3. T[a + b + i].role = "other" /\ T[a + b + i].key = k
    BY <1>2, <2>1
  <2> QED BY <2>2, <2>3
<1>11. Reads(T, tx)
  BY <1>7, <1>8, <1>9, <1>10 DEF Reads
<1> QED BY <1>11 DEF T

\* The names a transaction enters, one kind after the other.
LEMMA RolesAre ==
  ASSUME NEW tx, NEW home
  PROVE  /\ \A name \in L!Roles(tx, home) :
              \/ \E k \in L!Signers(tx) : name = <<"signed", k>>
              \/ \E k \in L!Moved(tx) : name = <<"balance", k>>
              \/ \E k \in L!OnlyNamed(tx) : name = <<"other", k>>
              \/ \E c \in L!ForeignCoins(tx, home) : name = <<"coin", c>>
              \/ L!ForeignCoins(tx, home) # {} /\ name = <<"foreign", NoCommunity>>
              \/ name = <<"type", tx.type>>
         /\ \A k \in L!Signers(tx) : <<"signed", k>> \in L!Roles(tx, home)
         /\ \A k \in L!Moved(tx) : <<"balance", k>> \in L!Roles(tx, home)
         /\ \A k \in L!OnlyNamed(tx) : <<"other", k>> \in L!Roles(tx, home)
         /\ \A c \in L!ForeignCoins(tx, home) : <<"coin", c>> \in L!Roles(tx, home)
         /\ L!ForeignCoins(tx, home) # {} => <<"foreign", NoCommunity>> \in L!Roles(tx, home)
         /\ <<"type", tx.type>> \in L!Roles(tx, home)
  BY DEF L!Roles

LEMMA RolesOfKeys ==
  ASSUME NEW tx, NEW home, NEW k
  PROVE  /\ <<"signed", k>> \in L!Roles(tx, home) => k \in L!Signers(tx)
         /\ <<"balance", k>> \in L!Roles(tx, home) => k \in L!Moved(tx)
<1>1. \A r, x, q, y : <<r, x>> = <<q, y>> => r = q /\ x = y
  OBVIOUS
<1>2. ASSUME <<"signed", k>> \in L!Roles(tx, home) PROVE k \in L!Signers(tx)
  <2>1. \/ \E j \in L!Signers(tx) : <<"signed", k>> = <<"signed", j>>
        \/ \E j \in L!Moved(tx) : <<"signed", k>> = <<"balance", j>>
        \/ \E j \in L!OnlyNamed(tx) : <<"signed", k>> = <<"other", j>>
        \/ \E c \in L!ForeignCoins(tx, home) : <<"signed", k>> = <<"coin", c>>
        \/ <<"signed", k>> = <<"foreign", NoCommunity>>
        \/ <<"signed", k>> = <<"type", tx.type>>
    BY <1>2, RolesAre, Zenon
  <2> QED BY <2>1, <1>1
<1>3. ASSUME <<"balance", k>> \in L!Roles(tx, home) PROVE k \in L!Moved(tx)
  <2>1. \/ \E j \in L!Signers(tx) : <<"balance", k>> = <<"signed", j>>
        \/ \E j \in L!Moved(tx) : <<"balance", k>> = <<"balance", j>>
        \/ \E j \in L!OnlyNamed(tx) : <<"balance", k>> = <<"other", j>>
        \/ \E c \in L!ForeignCoins(tx, home) : <<"balance", k>> = <<"coin", c>>
        \/ <<"balance", k>> = <<"foreign", NoCommunity>>
        \/ <<"balance", k>> = <<"type", tx.type>>
    BY <1>3, RolesAre, Zenon
  <2> QED BY <2>1, <1>1
<1> QED BY <1>2, <1>3

\* An index in which nothing stands at a transaction's number or past it but
\* what the transaction itself says.
Clean(index, tx, home) ==
  \A m \in index.sets :
    \/ m[2] < Offset(index, tx)
    \/ m[2] = Offset(index, tx) /\ m[1] \in L!Roles(tx, home)

LEMMA TouchedRoles ==
  ASSUME NEW tx \in Transaction, NEW k, k # NoKey
  PROVE  /\ (\E i \in DOMAIN Touches(tx) : Touches(tx)[i].role = "signed" /\ Touches(tx)[i].key = k)
              <=> k \in L!Signers(tx)
         /\ (\E i \in DOMAIN Touches(tx) : Touches(tx)[i].role = "balance" /\ Touches(tx)[i].key = k)
              <=> k \in L!Moved(tx)
         /\ (\E i \in DOMAIN Touches(tx) : Touches(tx)[i].role = "other" /\ Touches(tx)[i].key = k)
              <=> k \in L!Entries(Named(tx))
<1>1. k \in L!Signers(tx) <=> k \in L!Entries(tx.signers)
  BY DEF L!Signers
<1>2. k \in L!Moved(tx) <=> \E e \in L!Entries(tx.balances) : k = e.key
  BY DEF L!Moved
<1>3. "signed" # "balance" /\ "signed" # "other" /\ "balance" # "other"
  OBVIOUS
<1> DEFINE T == Touches(tx)
<1>4. Reads(T, tx)
  BY WalkReads
<1> HIDE DEF T
<1>5. (\E i \in DOMAIN T : T[i].role = "signed" /\ T[i].key = k) <=> k \in L!Signers(tx)
  BY <1>1, <1>3, <1>4 DEF Reads
<1>6. (\E i \in DOMAIN T : T[i].role = "balance" /\ T[i].key = k) <=> k \in L!Moved(tx)
  BY <1>2, <1>3, <1>4 DEF Reads
<1>7. (\E i \in DOMAIN T : T[i].role = "other" /\ T[i].key = k) <=> k \in L!Entries(Named(tx))
  BY <1>3, <1>4 DEF Reads
<1> QED BY <1>5, <1>6, <1>7 DEF T

\* Whether a named key did something besides is whether it signed or its
\* balance moved, in an add that is made again too.
LEMMA OtherRoleIsRead ==
  ASSUME NEW index \in Index, NEW tx \in Transaction, AcceptsNumber(index, tx),
         NEW home, Clean(index, tx, home), NEW k, k # NoKey
  PROVE  HasOtherRole(index, tx, k) <=> k \in L!Signers(tx) \cup L!Moved(tx)
<1> DEFINE off == Offset(index, tx)
           touched(role) == \E i \in DOMAIN Touches(tx) :
                              Touches(tx)[i].role = role /\ Touches(tx)[i].key = k
           stand(role) == OffsetsIn(index, <<role, k>>) \cup (IF touched(role) THEN {off} ELSE {})
<1>1. off \in U32 /\ MaxU32 \in Nat
  BY OffsetType, WidthAssumption
<1>2. \A role : \A o \in OffsetsIn(index, <<role, k>>) :
        o \in Nat /\ (o < off \/ (o = off /\ <<role, k>> \in L!Roles(tx, home)))
  <2> SUFFICES ASSUME NEW role, NEW o \in OffsetsIn(index, <<role, k>>)
               PROVE  o \in Nat /\ (o < off \/ (o = off /\ <<role, k>> \in L!Roles(tx, home)))
    OBVIOUS
  <2>1. o \in U32 /\ <<<<role, k>>, o>> \in index.sets
    BY DEF OffsetsIn
  <2>2. <<<<role, k>>, o>>[1] = <<role, k>> /\ <<<<role, k>>, o>>[2] = o
    OBVIOUS
  <2>3. o < off \/ (o = off /\ <<role, k>> \in L!Roles(tx, home))
    BY <2>1, <2>2, Zenon DEF Clean
  <2> QED BY <1>1, <2>1, <2>3 DEF U32
<1>3. HasOtherRole(index, tx, k) <=> EndsAt(stand("signed"), off) \/ EndsAt(stand("balance"), off)
  BY DEF HasOtherRole
<1>4. \A role : EndsAt(stand(role), off) <=>
                  touched(role) \/ off \in OffsetsIn(index, <<role, k>>)
  <2> TAKE role
  <2> DEFINE offs == OffsetsIn(index, <<role, k>>)
  <2>1. \A o \in offs : o \in Nat /\ o <= off
    BY <1>1, <1>2 DEF U32
  <2>2. off \in Nat
    BY <1>1 DEF U32
  <2> HIDE DEF offs, off, touched
  <2>3. EndsAt(offs \cup (IF touched(role) THEN {off} ELSE {}), off)
          <=> touched(role) \/ off \in offs
    BY <2>1, <2>2 DEF EndsAt
  <2> QED BY <2>3 DEF offs
<1>5. \A role : off \in OffsetsIn(index, <<role, k>>) => <<role, k>> \in L!Roles(tx, home)
  <2>1. off \in Nat
    BY <1>1 DEF U32
  <2> HIDE DEF off
  <2> QED BY <1>2, <2>1
<1>6. /\ touched("signed") <=> k \in L!Signers(tx)
      /\ touched("balance") <=> k \in L!Moved(tx)
  BY TouchedRoles
<1>7. /\ off \in OffsetsIn(index, <<"signed", k>>) => k \in L!Signers(tx)
      /\ off \in OffsetsIn(index, <<"balance", k>>) => k \in L!Moved(tx)
  BY <1>5, RolesOfKeys
<1> HIDE DEF off, touched, stand
<1> QED BY <1>3, <1>4, <1>6, <1>7

\* A balance in another coin.
LEMMA ForeignIsRead ==
  ASSUME NEW index, NEW tx \in Transaction, NEW home, Community(index, tx) = home
  PROVE  /\ \A i \in DOMAIN Touches(tx) : IsForeign(index, tx, Touches(tx)[i]) =>
              Touches(tx)[i].coin \in L!ForeignCoins(tx, home)
         /\ \A c \in L!ForeignCoins(tx, home) : \E i \in DOMAIN Touches(tx) :
              IsForeign(index, tx, Touches(tx)[i]) /\ Touches(tx)[i].coin = c
<1> DEFINE T == Touches(tx)
<1>1. Reads(T, tx)
  BY WalkReads
<1>2. \A c : c \in L!ForeignCoins(tx, home)
               <=> c # home /\ \E e \in L!Entries(tx.balances) : c = e.coin
  BY DEF L!ForeignCoins
<1>3. \A t : IsForeign(index, tx, t) <=> t.role = "balance" /\ t.coin # home
  BY DEF IsForeign
<1>4. "signed" # "balance" /\ "signed" # "other" /\ "balance" # "other"
  OBVIOUS
<1> HIDE DEF T
<1>5. \A i \in DOMAIN T : T[i].role = "balance" =>
        \E e \in L!Entries(tx.balances) : T[i].key = e.key /\ T[i].coin = e.coin
  BY <1>1, <1>4 DEF Reads
<1>6. \A e \in L!Entries(tx.balances) : \E i \in DOMAIN T :
        T[i].role = "balance" /\ T[i].key = e.key /\ T[i].coin = e.coin
  BY <1>1 DEF Reads
<1>7. \A i \in DOMAIN T : IsForeign(index, tx, T[i]) => T[i].coin \in L!ForeignCoins(tx, home)
  BY <1>2, <1>3, <1>5
<1>8. \A c \in L!ForeignCoins(tx, home) : \E i \in DOMAIN T :
        IsForeign(index, tx, T[i]) /\ T[i].coin = c
  BY <1>2, <1>3, <1>6
<1> QED BY <1>7, <1>8 DEF T

\* A touch that enters a set enters it under a role the transaction gives.
LEMMA EntersARole ==
  ASSUME NEW index \in Index, NEW tx \in Transaction, AcceptsNumber(index, tx),
         NEW home, Clean(index, tx, home),
         NEW i \in DOMAIN Touches(tx), Touches(tx)[i].key # NoKey,
         ~(Touches(tx)[i].role = "other" /\ HasOtherRole(index, tx, Touches(tx)[i].key))
  PROVE  <<Touches(tx)[i].role, Touches(tx)[i].key>> \in L!Roles(tx, home)
<1> DEFINE t == Touches(tx)[i]
           k == t.key
<1>1. Reads(Touches(tx), tx)
  BY WalkReads
<1>2. t.role = "signed" \/ t.role = "balance" \/ t.role = "other"
  BY <1>1 DEF Reads
<1>3. CASE t.role = "signed"
  <2>1. k \in L!Signers(tx)
    BY <1>3, TouchedRoles
  <2> QED BY <1>3, <2>1, RolesAre
<1>4. CASE t.role = "balance"
  <2>1. k \in L!Moved(tx)
    BY <1>4, TouchedRoles
  <2> QED BY <1>4, <2>1, RolesAre
<1>5. CASE t.role = "other"
  <2>1. k \in L!Entries(Named(tx))
    BY <1>5, TouchedRoles
  <2>2. k \notin L!Signers(tx) \cup L!Moved(tx)
    BY <1>5, OtherRoleIsRead
  <2>3. L!Named(tx) = Named(tx)
    BY NamedAgree
  <2>4. k \in L!OnlyNamed(tx)
    BY <2>1, <2>2, <2>3 DEF L!OnlyNamed
  <2> QED BY <1>5, <2>4, RolesAre
<1> QED BY <1>2, <1>3, <1>4, <1>5

\* However far an add comes, it enters only names the transaction gives.
LEMMA MarksAreRoles ==
  ASSUME NEW index \in Index, NEW tx \in Transaction, AcceptsNumber(index, tx),
         NEW home, Clean(index, tx, home), Community(index, tx) = home, NEW place
  PROVE  Marks(index, tx, place) \subseteq L!Roles(tx, home)
<1> DEFINE T == Touches(tx)
           Done(i, part) == At(i, part) < place
           Enters(i) == /\ T[i].key # NoKey
                        /\ Done(i, 3)
                        /\ ~(T[i].role = "other" /\ HasOtherRole(index, tx, T[i].key))
           R == L!Roles(tx, home)
<1>1. \A i \in DOMAIN T : Enters(i) => <<T[i].role, T[i].key>> \in R
  BY EntersARole
<1>2. \A i \in DOMAIN T : IsForeign(index, tx, T[i]) => <<"coin", T[i].coin>> \in R
  BY ForeignIsRead, RolesAre
<1>3. (\E i \in DOMAIN T : IsForeign(index, tx, T[i])) => <<"foreign", NoCommunity>> \in R
  <2>1. (\E i \in DOMAIN T : IsForeign(index, tx, T[i])) => L!ForeignCoins(tx, home) # {}
    BY ForeignIsRead
  <2> QED BY <2>1, RolesAre
<1>4. <<"type", tx.type>> \in R
  BY RolesAre
<1>5. Marks(index, tx, place) =
        {<<T[i].role, T[i].key>> : i \in {j \in DOMAIN T : Enters(j)}}
        \cup {<<"coin", T[i].coin>> :
                i \in {j \in DOMAIN T : IsForeign(index, tx, T[j]) /\ Done(j, 6)}}
        \cup (IF \E i \in DOMAIN T : IsForeign(index, tx, T[i]) /\ Done(i, 7)
               THEN {<<"foreign", NoCommunity>>} ELSE {})
        \cup (IF TypePlace(tx) < place THEN {<<"type", tx.type>>} ELSE {})
  BY DEF Marks
<1> HIDE DEF T, Done, Enters, R
<1>6. Marks(index, tx, place) \subseteq R
  BY <1>1, <1>2, <1>3, <1>4, <1>5
<1> QED BY <1>6 DEF R

\* An add that comes to its end has entered all of them.
LEMMA MarksInTheEnd ==
  ASSUME NEW index \in Index, NEW tx \in Transaction, AcceptsNumber(index, tx),
         NEW home, Clean(index, tx, home), Community(index, tx) = home
  PROVE  Marks(index, tx, EndOfAdd(tx)) = L!Roles(tx, home)
<1> DEFINE T == Touches(tx)
           place == EndOfAdd(tx)
           Done(i, part) == At(i, part) < place
           Enters(i) == /\ T[i].key # NoKey
                        /\ Done(i, 3)
                        /\ ~(T[i].role = "other" /\ HasOtherRole(index, tx, T[i].key))
           M == Marks(index, tx, place)
<1>1. \A i \in DOMAIN T : \A part \in 1..7 : Done(i, part)
  <2>1. Len(T) \in Nat /\ DOMAIN T = 1..Len(T)
    BY PlaceType
  <2> QED BY <2>1 DEF EndOfAdd, TypePlace, At
<1>2. TypePlace(tx) < place
  BY PlaceType DEF EndOfAdd
<1>3. \A i \in DOMAIN T : Done(i, 3) /\ Done(i, 6) /\ Done(i, 7)
  BY <1>1
<1>4. M =
        {<<T[i].role, T[i].key>> : i \in {j \in DOMAIN T : Enters(j)}}
        \cup {<<"coin", T[i].coin>> :
                i \in {j \in DOMAIN T : IsForeign(index, tx, T[j]) /\ Done(j, 6)}}
        \cup (IF \E i \in DOMAIN T : IsForeign(index, tx, T[i]) /\ Done(i, 7)
               THEN {<<"foreign", NoCommunity>>} ELSE {})
        \cup (IF TypePlace(tx) < place THEN {<<"type", tx.type>>} ELSE {})
  BY DEF Marks
<1>5. \A i \in DOMAIN T :
        T[i].key # NoKey /\ ~(T[i].role = "other" /\ HasOtherRole(index, tx, T[i].key))
          => <<T[i].role, T[i].key>> \in M
  <2>1. \A i \in DOMAIN T : Enters(i) => <<T[i].role, T[i].key>> \in M
    <3> HIDE DEF T, Done, Enters, M, place
    <3> QED BY <1>4
  <2> QED BY <1>3, <2>1
<1>6. \A i \in DOMAIN T : IsForeign(index, tx, T[i]) =>
        <<"coin", T[i].coin>> \in M /\ <<"foreign", NoCommunity>> \in M
  <2> HIDE DEF T, Done, Enters, M, place
  <2> QED BY <1>3, <1>4
<1>7. <<"type", tx.type>> \in M
  <2> HIDE DEF T, Done, Enters, M, place
  <2> QED BY <1>2, <1>4
<1> HIDE DEF T, Done, Enters, M, place
<1>8. "signed" # "other" /\ "balance" # "other"
  OBVIOUS
<1>9. \A k \in L!Signers(tx) : <<"signed", k>> \in M
  <2> TAKE k \in L!Signers(tx)
  <2>1. k # NoKey
    BY DEF L!Signers
  <2>2. PICK i \in DOMAIN T : T[i].role = "signed" /\ T[i].key = k
    BY <2>1, TouchedRoles DEF T
  <2> QED BY <1>5, <1>8, <2>1, <2>2
<1>10. \A k \in L!Moved(tx) : <<"balance", k>> \in M
  <2> TAKE k \in L!Moved(tx)
  <2>1. k # NoKey
    BY DEF L!Moved
  <2>2. PICK i \in DOMAIN T : T[i].role = "balance" /\ T[i].key = k
    BY <2>1, TouchedRoles DEF T
  <2> QED BY <1>5, <1>8, <2>1, <2>2
<1>11. \A k \in L!OnlyNamed(tx) : <<"other", k>> \in M
  <2> TAKE k \in L!OnlyNamed(tx)
  <2>1. k # NoKey /\ k \notin L!Signers(tx) \cup L!Moved(tx) /\ k \in L!Entries(Named(tx))
    BY NamedAgree DEF L!OnlyNamed
  <2>2. PICK i \in DOMAIN T : T[i].role = "other" /\ T[i].key = k
    BY <2>1, TouchedRoles DEF T
  <2>3. ~HasOtherRole(index, tx, k)
    BY <2>1, OtherRoleIsRead
  <2> QED BY <1>5, <2>1, <2>2, <2>3
<1>12. \A c \in L!ForeignCoins(tx, home) : <<"coin", c>> \in M
  <2> TAKE c \in L!ForeignCoins(tx, home)
  <2>1. PICK i \in DOMAIN T : IsForeign(index, tx, T[i]) /\ T[i].coin = c
    BY ForeignIsRead DEF T
  <2> QED BY <1>6, <2>1
<1>13. L!ForeignCoins(tx, home) # {} => <<"foreign", NoCommunity>> \in M
  <2> HAVE L!ForeignCoins(tx, home) # {}
  <2>1. PICK c \in L!ForeignCoins(tx, home) : TRUE
    OBVIOUS
  <2>2. PICK i \in DOMAIN T : IsForeign(index, tx, T[i]) /\ T[i].coin = c
    BY ForeignIsRead DEF T
  <2> QED BY <1>6, <2>2
<1>14. L!Roles(tx, home) \subseteq M
  <2> SUFFICES ASSUME NEW name \in L!Roles(tx, home) PROVE name \in M
    OBVIOUS
  <2>1. \/ \E k \in L!Signers(tx) : name = <<"signed", k>>
        \/ \E k \in L!Moved(tx) : name = <<"balance", k>>
        \/ \E k \in L!OnlyNamed(tx) : name = <<"other", k>>
        \/ \E c \in L!ForeignCoins(tx, home) : name = <<"coin", c>>
        \/ L!ForeignCoins(tx, home) # {} /\ name = <<"foreign", NoCommunity>>
        \/ name = <<"type", tx.type>>
    BY DEF L!Roles
  <2> QED BY <1>7, <1>9, <1>10, <1>11, <1>12, <1>13, <2>1, Zenon
<1>15. M \subseteq L!Roles(tx, home)
  BY MarksAreRoles DEF M
<1> QED BY <1>14, <1>15 DEF M, place

-----------------------------------------------------------------------------
(* What one add leaves in an index.                                        *)

LEMMA WrittenSets ==
  ASSUME NEW index \in Index, NEW tx \in Transaction, Accepts(index, tx),
         NEW place \in Nat, NEW w \in WrittenBefore(index, tx, place)
  PROVE  /\ w \in Index
         /\ w.sets = index.sets \cup (Marks(index, tx, place) \X {Offset(index, tx)})
         /\ w.first_day = FirstDay(index, tx)
         /\ w.community = IF index.transaction_count = 0 /\ place > 0
                          THEN tx.community ELSE index.community
<1>1. PICK a, c, d : w = Written(index, tx, place, a, c, d)
  BY DEF WrittenBefore
<1>2. w \in Index
  BY WrittenBeforeType
<1>3. DOMAIN index = DOMAIN w
  BY <1>2 DEF Index
<1> DEFINE marks == Marks(index, tx, place) \X {Offset(index, tx)}
           keys == Inserted(index.addresses, AskedKeys(tx, place))
           coins == Inserted(index.coin_communities, AskedCoins(index, tx, place))
           days == DayTable(index, tx, place, d)
           day == FirstDay(index, tx)
<1>4. w = [index EXCEPT
             !.first_day        = day,
             !.day_max_tx       = days,
             !.min_tx_nr        = IF index.transaction_count = 0 /\ place > 0
                                  THEN tx.tx_nr ELSE index.min_tx_nr,
             !.community        = IF index.transaction_count = 0 /\ place > 0
                                  THEN tx.community ELSE index.community,
             !.addresses        = keys,
             !.address_sets     = a,
             !.coin_communities = coins,
             !.coin_sets        = c,
             !.sets             = index.sets \cup marks]
  BY <1>1 DEF Written
<1> HIDE DEF marks, keys, coins, days, day
<1>5. /\ w.sets = index.sets \cup marks
      /\ w.first_day = day
      /\ w.community = IF index.transaction_count = 0 /\ place > 0
                       THEN tx.community ELSE index.community
  BY <1>4 DEF Index
<1> QED BY <1>2, <1>5 DEF marks, day

LEMMA AddedSets ==
  ASSUME NEW index \in Index, NEW tx \in Transaction, Accepts(index, tx),
         NEW home, Clean(index, tx, home), Community(index, tx) = home,
         NEW w \in Added(index, tx)
  PROVE  /\ w.base_tx_nr = index.base_tx_nr
         /\ w.sets = index.sets \cup (L!Roles(tx, home) \X {Offset(index, tx)})
         /\ w.community = home
<1>1. PICK v \in WrittenBefore(index, tx, EndOfAdd(tx)) :
        w = [v EXCEPT !.max_tx_nr = tx.tx_nr,
                      !.transaction_count = (v.transaction_count + 1) % (MaxU32 + 1)]
  BY DEF Added
<1>2. EndOfAdd(tx) \in Nat /\ EndOfAdd(tx) > 0
  BY PlaceType DEF EndOfAdd
<1>3. /\ v \in Index
      /\ v.sets = index.sets \cup (Marks(index, tx, EndOfAdd(tx)) \X {Offset(index, tx)})
      /\ v.community = IF index.transaction_count = 0 /\ EndOfAdd(tx) > 0
                       THEN tx.community ELSE index.community
  BY <1>1, <1>2, WrittenSets
<1>4. w.sets = v.sets /\ w.community = v.community
  BY <1>1, <1>3 DEF Index
<1>5. v.community = home
  BY <1>2, <1>3 DEF Community
<1>6. Marks(index, tx, EndOfAdd(tx)) = L!Roles(tx, home)
  BY MarksInTheEnd DEF Accepts
<1>7. w.base_tx_nr = index.base_tx_nr
  BY AddedType DEF Keeps
<1> QED BY <1>3, <1>4, <1>5, <1>6, <1>7

\* An add that found no room has entered some of the names, and is accepted
\* when it is made again.
LEMMA OutOfRoomSets ==
  ASSUME NEW index \in Index, NEW tx \in Transaction, Accepts(index, tx),
         NEW home, Clean(index, tx, home), Community(index, tx) = home,
         NEW w \in OutOfRoom(index, tx)
  PROVE  /\ \E some \in SUBSET L!Roles(tx, home) :
              w.sets = index.sets \cup (some \X {Offset(index, tx)})
         /\ w.base_tx_nr = index.base_tx_nr
         /\ index.transaction_count # 0 => w.community = index.community
         /\ Accepts(w, tx)
<1>1. PICK place \in RefusalPlaces(index, tx) : w \in WrittenBefore(index, tx, place)
  BY Zenon DEF OutOfRoom
<1>2. place \in Nat
  BY RefusalPlacesType
<1>3. /\ w \in Index
      /\ w.sets = index.sets \cup (Marks(index, tx, place) \X {Offset(index, tx)})
      /\ w.first_day = FirstDay(index, tx)
      /\ w.community = IF index.transaction_count = 0 /\ place > 0
                       THEN tx.community ELSE index.community
  BY <1>1, <1>2, WrittenSets
<1>4. Marks(index, tx, place) \subseteq L!Roles(tx, home)
  BY MarksAreRoles DEF Accepts
<1>5. /\ w.base_tx_nr = index.base_tx_nr
      /\ w.max_tx_nr = index.max_tx_nr
      /\ w.transaction_count = index.transaction_count
  BY <1>1, <1>2, WrittenBeforeType
<1>6. AcceptsNumber(w, tx)
  BY <1>5 DEF Accepts, AcceptsNumber, Offset
<1>7. FirstDay(w, tx) = FirstDay(index, tx)
  BY <1>3, <1>5 DEF FirstDay
<1>8. Accepts(w, tx)
  BY <1>6, <1>7 DEF Accepts, DayIndex
<1> QED BY <1>3, <1>4, <1>5, <1>8

-----------------------------------------------------------------------------
(* What one add leaves in the register.                                    *)

\* All types the records of a register give.
Gives(changes) ==
  UNION {{<<k, c.tx_nr, c.type>> : c \in L!Entries(changes[k])} : k \in Keys}

LEMMA GivesAre ==
  ASSUME NEW changes, NEW k, NEW n, NEW t
  PROVE  <<k, n, t>> \in Gives(changes) <=>
           k \in Keys /\ \E c \in L!Entries(changes[k]) : c.tx_nr = n /\ c.type = t
<1>1. \A x, y, z, u, v, w : <<x, y, z>> = <<u, v, w>> <=> x = u /\ y = v /\ z = w
  OBVIOUS
<1>2. \A g : g \in Gives(changes) <=>
        \E j \in Keys : \E c \in L!Entries(changes[j]) : g = <<j, c.tx_nr, c.type>>
  BY DEF Gives
<1>3. ASSUME <<k, n, t>> \in Gives(changes)
      PROVE  k \in Keys /\ \E c \in L!Entries(changes[k]) : c.tx_nr = n /\ c.type = t
  <2>1. PICK j \in Keys : \E c \in L!Entries(changes[j]) : <<k, n, t>> = <<j, c.tx_nr, c.type>>
    BY <1>2, <1>3
  <2>2. PICK c \in L!Entries(changes[j]) : <<k, n, t>> = <<j, c.tx_nr, c.type>>
    BY <2>1
  <2>3. k = j /\ n = c.tx_nr /\ t = c.type
    BY <1>1, <2>2
  <2> QED BY <2>2, <2>3
<1>4. ASSUME k \in Keys, NEW c \in L!Entries(changes[k]), c.tx_nr = n, c.type = t
      PROVE  <<k, n, t>> \in Gives(changes)
  BY <1>2, <1>4
<1> QED BY <1>3, <1>4

\* A record in front of the others.
LEMMA EntriesInFront ==
  ASSUME NEW S, NEW records \in Seq(S), NEW c \in S
  PROVE  L!Entries(<<c>> \o records) = {c} \cup L!Entries(records)
<1> DEFINE longer == <<c>> \o records
           n == Len(records)
<1>1. /\ n \in Nat
      /\ DOMAIN records = 1..n
      /\ DOMAIN longer = 1..(n + 1)
      /\ longer[1] = c
      /\ \A i \in 1..n : longer[i + 1] = records[i]
  OBVIOUS
<1> HIDE DEF longer, n
<1>2. ASSUME NEW i \in DOMAIN longer PROVE longer[i] = c \/ \E j \in DOMAIN records : longer[i] = records[j]
  <2>1. CASE i = 1
    BY <1>1, <2>1
  <2>2. CASE i # 1
    <3> DEFINE j == i - 1
    <3>1. j \in 1..n /\ i = j + 1
      BY <1>1, <2>2
    <3> HIDE DEF j
    <3> QED BY <1>1, <3>1
  <2> QED BY <2>1, <2>2
<1>3. \A i \in 1..n : i + 1 \in DOMAIN longer
  BY <1>1
<1>4. 1 \in DOMAIN longer
  BY <1>1
<1>5. L!Entries(longer) = {c} \cup L!Entries(records)
  <2>1. ASSUME NEW e \in L!Entries(longer) PROVE e \in {c} \cup L!Entries(records)
    <3>1. PICK i \in DOMAIN longer : e = longer[i]
      BY DEF L!Entries
    <3> QED BY <1>2, <3>1 DEF L!Entries
  <2>2. ASSUME NEW e \in L!Entries(records) PROVE e \in L!Entries(longer)
    <3>1. PICK i \in 1..n : e = records[i]
      BY <1>1 DEF L!Entries
    <3>2. i + 1 \in DOMAIN longer /\ e = longer[i + 1]
      BY <1>1, <1>3, <3>1
    <3> QED BY <3>2 DEF L!Entries
  <2>3. c \in L!Entries(longer)
    BY <1>1, <1>4 DEF L!Entries
  <2> QED BY <2>1, <2>2, <2>3
<1> QED BY <1>5 DEF longer

\* A note adds the type it gives, when it is not there, and nothing else.
LEMMA NotedGives ==
  ASSUME NEW changes \in TypeChanges, NEW note \in Note, NEW n \in Nat,
         note.key = NoKey \/ note.type \in AddressTypes
  PROVE  Gives(Noted(changes, note, n)) =
           Gives(changes) \cup (IF note.key = NoKey THEN {} ELSE {<<note.key, n, note.type>>})
<1>1. CASE note.key = NoKey
  BY <1>1 DEF Noted
<1>2. CASE note.key # NoKey /\ IsNoted(changes, note, n)
  <2>1. note.key \in Keys
    BY <1>2 DEF Note
  <2>2. changes[note.key] \in Seq(TypeChange)
    BY <2>1 DEF TypeChanges
  <2>3. PICK i \in DOMAIN changes[note.key] :
          /\ changes[note.key][i].type = note.type
          /\ \A j \in 1..i : changes[note.key][j].tx_nr = n
    BY <1>2 DEF IsNoted
  <2>4. i \in 1..i
    BY <2>2, <2>3
  <2>5. changes[note.key][i] \in L!Entries(changes[note.key])
    BY <2>3 DEF L!Entries
  <2>6. <<note.key, n, note.type>> \in Gives(changes)
    BY <2>1, <2>3, <2>4, <2>5, GivesAre
  <2>7. Noted(changes, note, n) = changes
    BY <1>2 DEF Noted
  <2> QED BY <1>2, <2>6, <2>7
<1>3. CASE note.key # NoKey /\ ~IsNoted(changes, note, n)
  <2> DEFINE c == [tx_nr |-> n, type |-> note.type]
             new == Noted(changes, note, n)
  <2>1. note.key \in Keys /\ note.type \in AddressTypes
    BY <1>3 DEF Note
  <2>2. c \in TypeChange /\ c.tx_nr = n /\ c.type = note.type
    BY <2>1 DEF TypeChange
  <2>3. changes[note.key] \in Seq(TypeChange)
    BY <2>1 DEF TypeChanges
  <2>4. /\ new[note.key] = <<c>> \o changes[note.key]
        /\ \A k \in Keys : k # note.key => new[k] = changes[k]
    BY <1>3, <2>1 DEF Noted, TypeChanges
  <2> HIDE DEF c, new
  <2>5. L!Entries(new[note.key]) = {c} \cup L!Entries(changes[note.key])
    BY <2>2, <2>3, <2>4, EntriesInFront
  <2>6. \A k \in Keys : L!Entries(new[k]) =
          L!Entries(changes[k]) \cup (IF k = note.key THEN {c} ELSE {})
    BY <2>4, <2>5
  <2>7. Gives(new) = Gives(changes) \cup {<<note.key, n, note.type>>}
    <3>1. \A g : g \in Gives(new) <=>
            \E j \in Keys : \E d \in L!Entries(new[j]) : g = <<j, d.tx_nr, d.type>>
      BY DEF Gives
    <3>2. \A g : g \in Gives(changes) <=>
            \E j \in Keys : \E d \in L!Entries(changes[j]) : g = <<j, d.tx_nr, d.type>>
      BY DEF Gives
    <3>3. \A g \in Gives(new) : g \in Gives(changes) \/ g = <<note.key, n, note.type>>
      BY <2>2, <2>6, <3>1, <3>2
    <3>4. \A g \in Gives(changes) : g \in Gives(new)
      BY <2>6, <3>1, <3>2
    <3>5. <<note.key, n, note.type>> \in Gives(new)
      <4>1. c \in L!Entries(new[note.key])
        BY <2>5
      <4> QED BY <2>1, <2>2, <4>1, GivesAre
    <3> QED BY <3>3, <3>4, <3>5
  <2> QED BY <1>3, <2>7 DEF new
<1> QED BY <1>1, <1>2, <1>3

LEMMA TwoNotesAtMost ==
  ASSUME NEW tx \in Transaction
  PROVE  DOMAIN Notes(tx) \subseteq 1..2
<1>1. \A x, y : DOMAIN <<x, y>> = 1..2 /\ DOMAIN <<x>> = 1..1
  OBVIOUS
<1>2. DOMAIN <<>> = {} /\ 1..1 \subseteq 1..2
  OBVIOUS
<1> DEFINE gmw == [key |-> tx.body[2], type |-> "gmw"]
           auf == [key |-> tx.body[3], type |-> "auf"]
           one == [key |-> tx.body[1], type |-> tx.gives]
           two == [key |-> tx.body[2], type |-> tx.gives]
           deferred == [key |-> tx.body[2], type |-> "deferred"]
<1>3. \/ Notes(tx) = <<gmw, auf>>
      \/ Notes(tx) = <<one, two>>
      \/ Notes(tx) = <<deferred>>
      \/ Notes(tx) = <<>>
  BY Zenon DEF Notes
<1> HIDE DEF gmw, auf, one, two, deferred
<1> QED BY <1>1, <1>2, <1>3, Zenon

\* What a note gives.
GivenBy(note, n) == IF note.key = NoKey THEN {} ELSE {<<note.key, n, note.type>>}

LEMMA GivenByNotes ==
  ASSUME NEW tx \in Transaction
  PROVE  L!Given(tx) = UNION {GivenBy(Notes(tx)[i], tx.tx_nr) : i \in DOMAIN Notes(tx)}
<1>1. L!Notes(tx) = Notes(tx)
  BY NamedAgree
<1> DEFINE notes == Notes(tx)
<1>2. L!Given(tx) = {<<m.key, tx.tx_nr, m.type>> : m \in {o \in L!Entries(notes) : o.key # NoKey}}
  BY <1>1, Zenon DEF L!Given
<1> HIDE DEF notes
<1>3. \A m : m \in L!Entries(notes) <=> \E i \in DOMAIN notes : m = notes[i]
  BY DEF L!Entries
<1>4. \A g : g \in L!Given(tx) <=> \E i \in DOMAIN notes : notes[i].key # NoKey
                                     /\ g = <<notes[i].key, tx.tx_nr, notes[i].type>>
  BY <1>2, <1>3
<1>5. \A g : \A i \in DOMAIN notes : g \in GivenBy(notes[i], tx.tx_nr) <=>
         notes[i].key # NoKey /\ g = <<notes[i].key, tx.tx_nr, notes[i].type>>
  BY DEF GivenBy
<1>6. \A g : g \in L!Given(tx) <=> \E i \in DOMAIN notes : g \in GivenBy(notes[i], tx.tx_nr)
  BY <1>4, <1>5
<1>7. L!Given(tx) = UNION {GivenBy(notes[i], tx.tx_nr) : i \in DOMAIN notes}
  BY <1>6
<1> QED BY <1>7 DEF notes

\* The records of an add are the types its transaction gives, up to the place
\* it came to.
LEMMA ChangesGive ==
  ASSUME NEW register \in Register, NEW tx \in Transaction, UnknownTypes(tx) = {},
         NEW place \in Nat
  PROVE  /\ \E some \in SUBSET L!Given(tx) :
              Gives(ChangesBefore(register, tx, place)) = Gives(register.changes) \cup some
         /\ place = EndOfAsks(tx) =>
              Gives(ChangesBefore(register, tx, place)) = Gives(register.changes) \cup L!Given(tx)
<1> DEFINE notes == Notes(tx)
           Done(i) == IsNote(tx, i) /\ At(i, 3) < place
           once == IF Done(1) THEN Noted(register.changes, notes[1], tx.tx_nr)
                              ELSE register.changes
           twice == IF Done(2) THEN Noted(once, notes[2], tx.tx_nr) ELSE once
           give(i) == GivenBy(notes[i], tx.tx_nr)
           first == IF Done(1) THEN give(1) ELSE {}
           second == IF Done(2) THEN give(2) ELSE {}
<1>1. ChangesBefore(register, tx, place) = twice
  BY DEF ChangesBefore
<1>2. /\ Len(notes) \in Nat /\ DOMAIN notes = 1..Len(notes)
      /\ \A i \in DOMAIN notes : i \in Nat /\ notes[i] \in Note
  BY NotesType, EachNoteIsANote
<1>3. \A i \in DOMAIN notes : notes[i].key = NoKey \/ notes[i].type \in AddressTypes
  BY DEF UnknownTypes
<1>4. \A i : Done(i) => i \in DOMAIN notes
  BY <1>2 DEF IsNote
<1>5. register.changes \in TypeChanges /\ tx.tx_nr \in Nat
  BY DEF Register, TypeChanges, Transaction
<1>6. once \in TypeChanges /\ Gives(once) = Gives(register.changes) \cup first
  <2>1. CASE Done(1)
    <3>1. /\ notes[1] \in Note
          /\ notes[1].key = NoKey \/ notes[1].type \in AddressTypes
      BY <1>2, <1>3, <1>4, <2>1
    <3> DEFINE new == Noted(register.changes, notes[1], tx.tx_nr)
    <3>2. new \in TypeChanges
      BY <1>5, <3>1, NotedType
    <3>3. Gives(new) = Gives(register.changes) \cup GivenBy(notes[1], tx.tx_nr)
      BY <1>5, <3>1, NotedGives DEF GivenBy
    <3>4. once = new /\ first = GivenBy(notes[1], tx.tx_nr)
      BY <2>1
    <3> HIDE DEF new, once, first
    <3> QED BY <3>2, <3>3, <3>4
  <2>2. CASE ~Done(1)
    <3>1. once = register.changes /\ first = {}
      BY <2>2
    <3> HIDE DEF once, first
    <3> QED BY <1>5, <3>1
  <2> QED BY <2>1, <2>2
<1>7. Gives(twice) = Gives(once) \cup second
  <2> HIDE DEF once
  <2>1. CASE Done(2)
    <3>1. /\ notes[2] \in Note
          /\ notes[2].key = NoKey \/ notes[2].type \in AddressTypes
      BY <1>2, <1>3, <1>4, <2>1
    <3>2. Gives(Noted(once, notes[2], tx.tx_nr)) = Gives(once) \cup GivenBy(notes[2], tx.tx_nr)
      BY <1>5, <1>6, <3>1, NotedGives DEF GivenBy
    <3>3. twice = Noted(once, notes[2], tx.tx_nr) /\ second = GivenBy(notes[2], tx.tx_nr)
      BY <2>1
    <3> HIDE DEF twice, second
    <3> QED BY <3>2, <3>3
  <2>2. CASE ~Done(2)
    <3>1. twice = once /\ second = {}
      BY <2>2
    <3> HIDE DEF twice, second
    <3> QED BY <3>1
  <2> QED BY <2>1, <2>2
<1>8. L!Given(tx) = UNION {give(i) : i \in DOMAIN notes}
  BY GivenByNotes
<1>9. first \cup second \subseteq L!Given(tx)
  <2>1. first \subseteq L!Given(tx)
    <3> HIDE DEF notes
    <3> QED BY <1>4, <1>8
  <2>2. second \subseteq L!Given(tx)
    <3> HIDE DEF notes
    <3> QED BY <1>4, <1>8
  <2> QED BY <2>1, <2>2
<1>10. ASSUME place = EndOfAsks(tx) PROVE L!Given(tx) \subseteq first \cup second
  <2>1. \A i \in DOMAIN notes : Done(i)
    <3>1. Len(Asks(tx)) \in Nat /\ DOMAIN Asks(tx) = 1..Len(Asks(tx))
      <4>1. Len(Asks(tx)) \in Nat
        BY AsksType
      <4> QED BY <4>1 DEF Asks
    <3>2. \A i \in DOMAIN notes : i \in 1..Len(Asks(tx))
      BY <3>1, AsksBeginWithNotes
    <3>3. \A i \in DOMAIN notes : At(i, 3) < place
      BY <1>10, <3>1, <3>2 DEF EndOfAsks, At
    <3>4. \A i \in DOMAIN notes : IsNote(tx, i)
      BY <1>2 DEF IsNote
    <3> QED BY <3>3, <3>4
  <2>2. DOMAIN notes \subseteq 1..2
    BY TwoNotesAtMost
  <2>3. \A i \in DOMAIN notes : (i = 1 \/ i = 2) /\ Done(i)
    BY <2>1, <2>2
  <2> HIDE DEF notes, Done, give
  <2>4. \A i \in DOMAIN notes : give(i) \subseteq first \cup second
    BY <2>3
  <2> QED BY <1>8, <2>4
<1> HIDE DEF twice, once, first, second
<1>11. Gives(twice) = Gives(register.changes) \cup (first \cup second)
  BY <1>6, <1>7
<1>12. \E some \in SUBSET L!Given(tx) : Gives(twice) = Gives(register.changes) \cup some
  BY <1>9, <1>11
<1>13. place = EndOfAsks(tx) => Gives(twice) = Gives(register.changes) \cup L!Given(tx)
  BY <1>9, <1>10, <1>11
<1> QED BY <1>1, <1>12, <1>13

\* What the register is asked beside the notes are the balance entries.
LEMMA BalancesAreAsked ==
  ASSUME NEW tx \in Transaction, NEW k \in Keys
  PROVE  /\ (\E i \in DOMAIN Asks(tx) : ~IsNote(tx, i) /\ Asks(tx)[i].key = k)
              <=> k \in L!Moved(tx)
         /\ \A i \in DOMAIN Asks(tx) : At(i, 2) < EndOfAsks(tx)
<1> DEFINE moved == [i \in 1..Len(tx.balances) |->
                       [key |-> tx.balances[i].key, type |-> "balance"]]
           notes == Notes(tx)
           a == Len(notes)
           b == Len(tx.balances)
           S == {moved[i] : i \in 1..b} \cup {notes[i] : i \in 1..a}
<1>1. a \in Nat /\ DOMAIN notes = 1..a /\ notes \in Seq(Note)
  BY NotesType
<1>2. b \in Nat /\ DOMAIN tx.balances = 1..b
  BY DEF Transaction
<1>3. moved \in Seq(S) /\ Len(moved) = b
  <2>1. \A i \in 1..b : [key |-> tx.balances[i].key, type |-> "balance"] \in S
    OBVIOUS
  <2> HIDE DEF S
  <2>2. moved \in Seq(S)
    BY <1>2, <2>1, IsASeq
  <2> QED BY <1>2, <2>2
<1>4. notes \in Seq(S)
  <2> HIDE DEF notes, moved
  <2> QED BY <1>1
<1>5. \A i \in 1..b : moved[i].key = tx.balances[i].key
  OBVIOUS
<1>6. Asks(tx) = notes \o moved
  BY DEF Asks
<1> HIDE DEF notes, moved, S
<1>7. /\ Len(notes \o moved) = Len(notes) + Len(moved)
      /\ DOMAIN (notes \o moved) = 1..(Len(notes) + Len(moved))
      /\ \A i \in 1..Len(notes) : (notes \o moved)[i] = notes[i]
      /\ \A i \in 1..Len(moved) : (notes \o moved)[Len(notes) + i] = moved[i]
  <2>1. moved \in Seq(S)
    BY <1>3
  <2> QED BY <1>4, <2>1, PartsOfConcat
<1>8. Len(Asks(tx)) = a + b /\ DOMAIN Asks(tx) = 1..(a + b)
  BY <1>3, <1>6, <1>7
<1>9. \A i \in 1..b : Asks(tx)[a + i] = moved[i]
  BY <1>3, <1>6, <1>7
<1> HIDE DEF a, b
<1>10. \A i : IsNote(tx, i) <=> i \in 1..a
  BY DEF IsNote, a, notes
<1>11. k # NoKey
  BY BlankAssumption
<1>12. k \in L!Moved(tx) <=> \E i \in 1..b : tx.balances[i].key = k
  <2>1. \A e : e \in L!Entries(tx.balances) <=> \E i \in 1..b : e = tx.balances[i]
    BY <1>2 DEF L!Entries
  <2>2. k \in L!Moved(tx) <=> \E e \in L!Entries(tx.balances) : k = e.key
    BY <1>11 DEF L!Moved
  <2> QED BY <2>1, <2>2
<1>13. ASSUME NEW i \in DOMAIN Asks(tx), ~IsNote(tx, i), Asks(tx)[i].key = k
       PROVE  k \in L!Moved(tx)
  <2> DEFINE j == i - a
  <2>1. j \in 1..b /\ i = a + j
    BY <1>1, <1>2, <1>8, <1>10, <1>13
  <2> HIDE DEF j
  <2>2. tx.balances[j].key = k
    BY <1>5, <1>9, <1>13, <2>1
  <2> QED BY <1>12, <2>1, <2>2
<1>14. ASSUME NEW j \in 1..b, tx.balances[j].key = k
       PROVE  \E i \in DOMAIN Asks(tx) : ~IsNote(tx, i) /\ Asks(tx)[i].key = k
  <2>1. a + j \in DOMAIN Asks(tx) /\ ~IsNote(tx, a + j)
    BY <1>1, <1>2, <1>8, <1>10
  <2>2. Asks(tx)[a + j].key = k
    BY <1>5, <1>9, <1>14
  <2> QED BY <2>1, <2>2
<1>15. \A i \in DOMAIN Asks(tx) : At(i, 2) < EndOfAsks(tx)
  <2>1. \A i \in 1..(a + b) : 8 * i + 2 < 8 * (a + b + 1) + 0
    BY <1>1, <1>2
  <2> QED BY <1>8, <2>1 DEF EndOfAsks, At
<1> QED BY <1>12, <1>13, <1>14, <1>15

LEMMA BalancesGive ==
  ASSUME NEW register \in Register, NEW tx \in Transaction, NEW place \in Nat, NEW k \in Keys
  PROVE  /\ \/ BalancesBefore(register, tx, place)[k] = register.last_balance_tx[k]
            \/ BalancesBefore(register, tx, place)[k] = tx.tx_nr /\ k \in L!Moved(tx)
         /\ place = EndOfAsks(tx) =>
              BalancesBefore(register, tx, place)[k] =
                IF k \in L!Moved(tx) THEN tx.tx_nr ELSE register.last_balance_tx[k]
<1>1. BalancesBefore(register, tx, place)[k] =
        IF \E i \in DOMAIN Asks(tx) : ~IsNote(tx, i) /\ Asks(tx)[i].key = k /\ At(i, 2) < place
        THEN tx.tx_nr ELSE register.last_balance_tx[k]
  BY DEF BalancesBefore
<1>2. /\ (\E i \in DOMAIN Asks(tx) : ~IsNote(tx, i) /\ Asks(tx)[i].key = k) <=> k \in L!Moved(tx)
      /\ \A i \in DOMAIN Asks(tx) : At(i, 2) < EndOfAsks(tx)
  BY BalancesAreAsked
<1> QED BY <1>1, <1>2, Zenon

\* The register an add leaves gives what it gave and what the transaction
\* gives, as far as the add came.
LEMMA RegisterGives ==
  ASSUME NEW register \in Register, NEW tx \in Transaction, UnknownTypes(tx) = {},
         NEW w \in RegisterAdded(register, tx) \cup RegisterRefused(register, tx)
  PROVE  /\ \E some \in SUBSET L!Given(tx) : Gives(w.changes) = Gives(register.changes) \cup some
         /\ \A k \in Keys :
              \/ w.last_balance_tx[k] = register.last_balance_tx[k]
              \/ w.last_balance_tx[k] = tx.tx_nr /\ k \in L!Moved(tx)
         /\ w \in RegisterAdded(register, tx) =>
              /\ Gives(w.changes) = Gives(register.changes) \cup L!Given(tx)
              /\ \A k \in Keys : w.last_balance_tx[k] =
                   IF k \in L!Moved(tx) THEN tx.tx_nr ELSE register.last_balance_tx[k]
<1>1. ASSUME NEW place \in Nat, NEW r \in RegisterBefore(register, tx, place)
      PROVE  /\ r.changes = ChangesBefore(register, tx, place)
             /\ r.last_balance_tx = BalancesBefore(register, tx, place)
  <2>1. \E keys, e : r = [register EXCEPT !.keys            = keys,
                                          !.entries         = e,
                                          !.last_balance_tx = BalancesBefore(register, tx, place),
                                          !.changes         = ChangesBefore(register, tx, place)]
    BY <1>1 DEF RegisterBefore
  <2> QED BY <2>1 DEF Register
<1>2. CASE w \in RegisterAdded(register, tx)
  <2>1. EndOfAsks(tx) \in Nat
    BY AsksType
  <2>2. PICK r \in RegisterBefore(register, tx, EndOfAsks(tx)) :
          w = [r EXCEPT !.max_tx_nr = tx.tx_nr,
                        !.transaction_count = (r.transaction_count + 1) % (MaxU32 + 1)]
    BY <1>2 DEF RegisterAdded
  <2>3. r \in Register
    BY <2>1, RegisterBeforeType
  <2>4. w.changes = r.changes /\ w.last_balance_tx = r.last_balance_tx
    BY <2>2, <2>3 DEF Register
  <2>5. /\ w.changes = ChangesBefore(register, tx, EndOfAsks(tx))
        /\ w.last_balance_tx = BalancesBefore(register, tx, EndOfAsks(tx))
    BY <1>1, <2>1, <2>4
  <2>6. Gives(w.changes) = Gives(register.changes) \cup L!Given(tx)
    BY <2>1, <2>5, ChangesGive
  <2>7. \A k \in Keys : w.last_balance_tx[k] =
          IF k \in L!Moved(tx) THEN tx.tx_nr ELSE register.last_balance_tx[k]
    BY <2>1, <2>5, BalancesGive
  <2> QED BY <2>6, <2>7
<1>3. CASE w \in RegisterRefused(register, tx) /\ w \notin RegisterAdded(register, tx)
  <2>1. PICK place \in RoomPlaces(register, tx) \cup UnknownTypes(tx) :
          w \in RegisterBefore(register, tx, place)
    BY <1>3, Zenon DEF RegisterRefused
  <2>2. place \in Nat
    BY <2>1, RegisterPlacesType
  <2>3. /\ w.changes = ChangesBefore(register, tx, place)
        /\ w.last_balance_tx = BalancesBefore(register, tx, place)
    BY <1>1, <2>1, <2>2
  <2>4. \E some \in SUBSET L!Given(tx) : Gives(w.changes) = Gives(register.changes) \cup some
    BY <2>2, <2>3, ChangesGive
  <2>5. \A k \in Keys : \/ w.last_balance_tx[k] = register.last_balance_tx[k]
                        \/ w.last_balance_tx[k] = tx.tx_nr /\ k \in L!Moved(tx)
    BY <2>2, <2>3, BalancesGive
  <2> QED BY <1>3, <2>4, <2>5
<1> QED BY <1>2, <1>3

-----------------------------------------------------------------------------
(***************************************************************************)
(* The chain between two adds.  What the segments and the register hold    *)
(* beyond the last number belongs to the one transaction the caller holds. *)
(***************************************************************************)
FactsOf(s) == {<<m[1], s.base_tx_nr + m[2]>> : m \in s.sets}
FactsIn(row) == UNION {FactsOf(row[i]) : i \in DOMAIN row}

\* The transaction to be added again, if its add came as far as to write.
Held == {tx \in Arrivals : refused = tx /\ (InSegment(tx) \/ Accepts(Segment(tx), tx))}

\* A fact is of a number that is counted, or of the transaction held.
FactsStand(F, top, T, home) ==
  \A f \in F : \/ f[2] <= top
               \/ \E t \in T : f[2] = t.tx_nr /\ f[1] \in L!Roles(t, home)

\* A segment counts numbers the chain counts, or the transaction held, whole.
CountsStand(row, top, T, home) ==
  \A i \in DOMAIN row : row[i].transaction_count # 0 =>
    \/ row[i].max_tx_nr <= top
    \/ \E t \in T : /\ row[i].max_tx_nr = t.tx_nr
                    /\ L!Roles(t, home) \X {t.tx_nr} \subseteq FactsIn(row)

\* A type is given by a number that is counted, or by the transaction held.
TypesStand(G, top, T) ==
  \A g \in G : g[2] <= top \/ \E t \in T : g[2] = t.tx_nr /\ g \in L!Given(t)

Through(S, top) == {f \in S : f[2] <= top}

\* The last number among the facts that moved the balance of k.
IsLastMove(F, k, m) ==
  /\ m = 0 \/ <<<<"balance", k>>, m>> \in F
  /\ \A f \in F : f[1] = <<"balance", k>> => f[2] <= m

\* The register knows it, unless the transaction held overwrote it.
MovesStand(balances, F, top, T) ==
  \A k \in Keys : \E m \in 0..top :
    /\ IsLastMove(Through(F, top), k, m)
    /\ \/ balances[k] = m
       \/ \E t \in T : balances[k] = t.tx_nr /\ t.tx_nr > top /\ k \in L!Moved(t)

\* The segments that count something agree on the chain's own coin.
HomeStands(row, count, home) ==
  /\ \A i \in DOMAIN row : row[i].transaction_count # 0 => row[i].community = home
  /\ count # 0 => row # <<>> /\ row[1].transaction_count # 0

LedgerInv(home) ==
  /\ RetryInv
  /\ FactsStand(FactsIn(segments), max_tx_nr, Held, home)
  /\ CountsStand(segments, max_tx_nr, Held, home)
  /\ TypesStand(Gives(addresses.changes), max_tx_nr, Held)
  /\ MovesStand(addresses.last_balance_tx, FactsIn(segments), max_tx_nr, Held)
  /\ HomeStands(segments, transaction_count, home)

-----------------------------------------------------------------------------
(***************************************************************************)
(* One add, seen on the facts, the types and the moves alone.  The number  *)
(* is beyond the last, and what is beyond the last is of this transaction. *)
(***************************************************************************)
Numbered(F) == \A f \in F : f = <<f[1], f[2]>> /\ f[2] \in Nat

\* The facts with the given ones of one number.
Adds(F2, F, some, n) == F2 = F \cup (some \X {n})

SameThrough(F2, F, top) == Through(F2, top) = Through(F, top)

\* Facts: those up to the last number stand, the new ones are of tx.
LEMMA FactsAfter ==
  ASSUME NEW home, NEW tx, NEW top \in Nat, tx.tx_nr \in Nat, top < tx.tx_nr,
         NEW T \in SUBSET {tx}, NEW F, Numbered(F),
         FactsStand(F, top, T, home),
         NEW some, some \subseteq L!Roles(tx, home),
         NEW F2, Adds(F2, F, some, tx.tx_nr)
  PROVE  /\ Numbered(F2)
         /\ FactsStand(F2, top, {tx}, home)
         /\ FactsStand(F2, tx.tx_nr, {}, home)
         /\ SameThrough(F2, F, top)
         /\ some = L!Roles(tx, home) =>
              Adds(Through(F2, tx.tx_nr), Through(F, top), some, tx.tx_nr)
<1> USE DEF Adds, SameThrough
<1> DEFINE n == tx.tx_nr
           R == L!Roles(tx, home)
<1>1. \A f \in F : f[2] \in Nat /\ (f[2] <= top \/ (f[2] = n /\ f[1] \in R))
  BY DEF FactsStand, Numbered
<1>2. \A f \in some \X {n} : f = <<f[1], f[2]>> /\ f[2] = n /\ f[1] \in R /\ f[2] \in Nat
  OBVIOUS
<1>3. \A f \in F2 : f[2] \in Nat /\ (f[2] <= top \/ (f[2] = n /\ f[1] \in R))
  BY <1>1, <1>2
<1>4. FactsStand(F2, top, {tx}, home) /\ FactsStand(F2, n, {}, home)
  <2> HIDE DEF R
  <2>1. \A f \in F2 : f[2] <= n
    BY <1>3
  <2>2. FactsStand(F2, n, {}, home)
    BY <2>1 DEF FactsStand
  <2>3. FactsStand(F2, top, {tx}, home)
    BY <1>3 DEF FactsStand, R
  <2> QED BY <2>2, <2>3
<1>5. Through(F2, top) = Through(F, top)
  <2>1. \A f \in some \X {n} : ~(f[2] <= top)
    BY <1>2
  <2> QED BY <2>1 DEF Through
<1>6. ASSUME some = R PROVE Through(F2, n) = Through(F, top) \cup (some \X {n})
  <2> HIDE DEF R
  <2>1. \A f \in F2 : f[2] <= n
    BY <1>3
  <2>2. \A f \in F : f[2] <= top \/ f \in some \X {n}
    <3> SUFFICES ASSUME NEW f \in F, ~(f[2] <= top) PROVE f \in some \X {n}
      OBVIOUS
    <3>1. f = <<f[1], f[2]>> /\ f[2] = n /\ f[1] \in R
      BY <1>1 DEF Numbered
    <3> QED BY <3>1, <1>6
  <2> QED BY <2>1, <2>2 DEF Through
<1>7. Numbered(F2)
  BY <1>2 DEF Numbered
<1> QED BY <1>4, <1>5, <1>6, <1>7

Joins(G2, G, some) == G2 = G \cup some

\* Types likewise.
LEMMA TypesAfter ==
  ASSUME NEW tx, NEW top \in Nat, tx.tx_nr \in Nat, top < tx.tx_nr,
         NEW T \in SUBSET {tx}, NEW G, \A g \in G : g[2] \in Nat,
         TypesStand(G, top, T),
         NEW some, some \subseteq L!Given(tx), NEW G2, Joins(G2, G, some)
  PROVE  /\ TypesStand(G2, top, {tx})
         /\ TypesStand(G2, tx.tx_nr, {})
         /\ SameThrough(G2, G, top)
         /\ some = L!Given(tx) => Joins(Through(G2, tx.tx_nr), Through(G, top), some)
<1> USE DEF Joins, SameThrough
<1> DEFINE n == tx.tx_nr
           R == L!Given(tx)
<1>1. \A g \in G : g[2] \in Nat /\ (g[2] <= top \/ (g[2] = n /\ g \in R))
  BY DEF TypesStand
<1>2. \A g \in some : g[2] = n /\ g \in R
  <2>1. \A g \in R : g[2] = n
    BY DEF L!Given
  <2> QED BY <2>1
<1> HIDE DEF R
<1>3. \A g \in G2 : g[2] \in Nat /\ (g[2] <= top \/ (g[2] = n /\ g \in R))
  BY <1>1, <1>2
<1>4. TypesStand(G2, top, {tx})
  BY <1>3 DEF TypesStand, R
<1>5. TypesStand(G2, n, {})
  <2>1. \A g \in G2 : g[2] <= n
    BY <1>3
  <2> QED BY <2>1 DEF TypesStand
<1>6. Through(G2, top) = Through(G, top)
  <2>1. \A g \in some : ~(g[2] <= top)
    BY <1>2
  <2> QED BY <2>1 DEF Through
<1>7. ASSUME some = R PROVE Through(G2, n) = Through(G, top) \cup some
  <2>1. \A g \in G2 : g[2] <= n
    BY <1>3
  <2>2. \A g \in G : g[2] <= top \/ g \in some
    BY <1>1, <1>7
  <2> QED BY <2>1, <2>2 DEF Through
<1> QED BY <1>4, <1>5, <1>6, <1>7 DEF R

\* There is one last move of a key.
LEMMA OneLastMove ==
  ASSUME NEW F, NEW k, NEW m \in Nat, NEW n \in Nat, IsLastMove(F, k, m), IsLastMove(F, k, n)
  PROVE  m = n
<1>1. m <= n
  <2>1. CASE m = 0
    BY <2>1
  <2>2. CASE <<<<"balance", k>>, m>> \in F
    BY <2>2 DEF IsLastMove
  <2> QED BY <2>1, <2>2 DEF IsLastMove
<1>2. n <= m
  <2>1. CASE n = 0
    BY <2>1
  <2>2. CASE <<<<"balance", k>>, n>> \in F
    BY <2>2 DEF IsLastMove
  <2> QED BY <2>1, <2>2 DEF IsLastMove
<1> QED BY <1>1, <1>2

\* Moves after an add that was refused: the last move that is counted stands.
LEMMA MovesAfterRefusal ==
  ASSUME NEW tx, NEW top \in Nat, tx.tx_nr \in Nat, top < tx.tx_nr, NEW T \in SUBSET {tx},
         NEW F, NEW F2, SameThrough(F2, F, top),
         NEW B, MovesStand(B, F, top, T), NEW B2,
         \A k \in Keys : B2[k] = B[k] \/ (B2[k] = tx.tx_nr /\ k \in L!Moved(tx))
  PROVE  MovesStand(B2, F2, top, {tx})
<1> SUFFICES ASSUME NEW k \in Keys
             PROVE  \E m \in 0..top :
                      /\ IsLastMove(Through(F2, top), k, m)
                      /\ \/ B2[k] = m
                         \/ \E t \in {tx} : B2[k] = t.tx_nr /\ t.tx_nr > top /\ k \in L!Moved(t)
  BY DEF MovesStand
<1>1. PICK m \in 0..top :
        /\ IsLastMove(Through(F, top), k, m)
        /\ B[k] = m \/ (B[k] = tx.tx_nr /\ k \in L!Moved(tx))
  BY DEF MovesStand
<1>2. B2[k] = m \/ (B2[k] = tx.tx_nr /\ tx.tx_nr > top /\ k \in L!Moved(tx))
  BY <1>1
<1> QED BY <1>1, <1>2 DEF SameThrough

\* The balances a transaction moves stand at its number, the others as before.
MovedBy(B2, B, tx) ==
  \A k \in Keys : B2[k] = IF k \in L!Moved(tx) THEN tx.tx_nr ELSE B[k]

\* So do the last moves among the facts.
MovesOn(B2, F2, F, top, tx, k) ==
  \E m \in 0..top :
    /\ IsLastMove(Through(F, top), k, m)
    /\ IsLastMove(Through(F2, tx.tx_nr), k, IF k \in L!Moved(tx) THEN tx.tx_nr ELSE m)
    /\ B2[k] = IF k \in L!Moved(tx) THEN tx.tx_nr ELSE m

\* After one that went through: the transaction's moves, and else what stood.
LEMMA MovesAfterAdd ==
  ASSUME NEW home, NEW tx, NEW top \in Nat, tx.tx_nr \in Nat, top < tx.tx_nr,
         NEW T \in SUBSET {tx}, NEW F, Numbered(F),
         FactsStand(F, top, T, home),
         NEW F2, Adds(F2, F, L!Roles(tx, home), tx.tx_nr),
         NEW B, MovesStand(B, F, top, T), NEW B2,
         MovedBy(B2, B, tx), NEW k \in Keys
  PROVE  MovesOn(B2, F2, F, top, tx, k)
<1> USE DEF MovesOn
<1> DEFINE n == tx.tx_nr
           R == L!Roles(tx, home)
           F3 == Through(F, top) \cup (R \X {n})
<1>1. PICK m \in 0..top :
        /\ IsLastMove(Through(F, top), k, m)
        /\ B[k] = m \/ (B[k] = n /\ k \in L!Moved(tx))
  BY DEF MovesStand
<1>2. Through(F2, n) = F3
  <2>1. L!Roles(tx, home) \subseteq L!Roles(tx, home)
    OBVIOUS
  <2>3. Adds(Through(F2, tx.tx_nr), Through(F, top), L!Roles(tx, home), tx.tx_nr)
    BY <2>1, FactsAfter
  <2>2. Through(F2, tx.tx_nr) = Through(F, top) \cup (L!Roles(tx, home) \X {tx.tx_nr})
    BY <2>3 DEF Adds
  <2> QED BY <2>2
<1>3. <<"balance", k>> \in R <=> k \in L!Moved(tx)
  BY RolesOfKeys, RolesAre
<1> HIDE DEF R
<1>4. CASE k \in L!Moved(tx)
  <2>1. <<<<"balance", k>>, n>> \in F3
    BY <1>3, <1>4
  <2>2. \A f \in F3 : f[2] <= n
    <3>1. \A f \in Through(F, top) : f[2] \in Nat /\ f[2] <= top
      BY DEF Through, Numbered
    <3> QED BY <3>1
  <2>3. IsLastMove(F3, k, n)
    BY <2>1, <2>2 DEF IsLastMove
  <2>4. B2[k] = n
    BY <1>4 DEF MovedBy
  <2> QED BY <1>1, <1>2, <1>4, <2>3, <2>4
<1>5. CASE k \notin L!Moved(tx)
  <2>1. \A f \in R \X {n} : f[1] # <<"balance", k>>
    BY <1>3, <1>5
  <2>2. IsLastMove(F3, k, m)
    <3>1. m = 0 \/ <<<<"balance", k>>, m>> \in F3
      BY <1>1 DEF IsLastMove
    <3>2. ASSUME NEW f \in F3, f[1] = <<"balance", k>> PROVE f[2] <= m
      BY <1>1, <2>1, <3>2 DEF IsLastMove
    <3> QED BY <3>1, <3>2 DEF IsLastMove
  <2>3. B2[k] = m
    BY <1>1, <1>5 DEF MovedBy
  <2> QED BY <1>1, <1>2, <1>5, <2>2, <2>3
<1> QED BY <1>4, <1>5

\* The moves the ledger counts, of a register and the facts beside it.
MovesAmong(B, F, top) ==
  [k \in Keys |->
     IF B[k] <= top THEN B[k]
     ELSE Max({0} \cup {f[2] : f \in {g \in Through(F, top) : g[1] = <<"balance", k>>}})]

\* The move the ledger counts is the last one, whoever overwrote the register.
LEMMA CountedMove ==
  ASSUME NEW B, NEW F, NEW top \in Nat, NEW T, \A t \in T : t.tx_nr \in Nat,
         Numbered(F), MovesStand(B, F, top, T), NEW k \in Keys,
         NEW m \in 0..top, IsLastMove(Through(F, top), k, m)
  PROVE  MovesAmong(B, F, top)[k] = m
<1> DEFINE S == {0} \cup {f[2] : f \in {g \in Through(F, top) : g[1] = <<"balance", k>>}}
<1>0. MovesAmong(B, F, top)[k] = IF B[k] <= top THEN B[k] ELSE Max(S)
  BY DEF MovesAmong
<1>1. PICK n \in 0..top :
        /\ IsLastMove(Through(F, top), k, n)
        /\ B[k] = n \/ (\E t \in T : B[k] = t.tx_nr /\ t.tx_nr > top)
  BY DEF MovesStand
<1>2. n = m
  BY <1>1, OneLastMove
<1> HIDE DEF S
<1>3. Max(S) = m
  <2>1. m \in S
    <3>1. CASE m = 0
      BY <3>1 DEF S
    <3>2. CASE <<<<"balance", k>>, m>> \in Through(F, top)
      <4>1. <<<<"balance", k>>, m>> \in {g \in Through(F, top) : g[1] = <<"balance", k>>}
        BY <3>2
      <4>2. <<<<"balance", k>>, m>>[2] = m
        OBVIOUS
      <4> QED BY <4>1, <4>2 DEF S
    <3> QED BY <3>1, <3>2 DEF IsLastMove
  <2>2. \A y \in S : y \in Nat /\ y <= m
    BY DEF IsLastMove, Numbered, Through, S
  <2>3. Max(S) \in S /\ \A y \in S : Max(S) >= y
    <3>1. \A y \in S : m >= y
      BY <2>2
    <3>2. \E x \in S : \A y \in S : x >= y
      BY <2>1, <3>1
    <3>3. Max(S) = CHOOSE x \in S : \A y \in S : x >= y
      BY DEF Max
    <3> QED BY <3>2, <3>3
  <2>4. Max(S) \in Nat /\ Max(S) <= m
    BY <2>2, <2>3
  <2>5. Max(S) >= m
    BY <2>1, <2>3
  <2> QED BY <2>4, <2>5
<1>4. CASE B[k] = m
  BY <1>0, <1>4
<1>5. CASE \E t \in T : B[k] = t.tx_nr /\ t.tx_nr > top
  <2>1. B[k] \in Nat /\ B[k] > top
    BY <1>5
  <2>2. ~(B[k] <= top)
    BY <2>1
  <2> QED BY <1>0, <1>3, <2>2
<1> QED BY <1>1, <1>2, <1>4, <1>5

\* The moves counted are the same, when the facts counted are.
LEMMA SameMoves ==
  ASSUME NEW top \in Nat, NEW T, \A t \in T : t.tx_nr \in Nat,
         NEW T2, \A t \in T2 : t.tx_nr \in Nat,
         NEW F, Numbered(F), NEW F2, Numbered(F2), SameThrough(F2, F, top),
         NEW B, MovesStand(B, F, top, T), NEW B2, MovesStand(B2, F2, top, T2)
  PROVE  MovesAmong(B2, F2, top) = MovesAmong(B, F, top)
<1>1. ASSUME NEW k \in Keys PROVE MovesAmong(B2, F2, top)[k] = MovesAmong(B, F, top)[k]
  <2>1. PICK m \in 0..top : IsLastMove(Through(F, top), k, m)
    BY DEF MovesStand
  <2>2. IsLastMove(Through(F2, top), k, m)
    BY <2>1 DEF SameThrough
  <2>3. MovesAmong(B, F, top)[k] = m
    BY <2>1, CountedMove
  <2>4. MovesAmong(B2, F2, top)[k] = m
    BY <2>2, CountedMove
  <2> QED BY <2>3, <2>4
<1>2. /\ MovesAmong(B, F, top) = [k \in Keys |-> MovesAmong(B, F, top)[k]]
      /\ MovesAmong(B2, F2, top) = [k \in Keys |-> MovesAmong(B2, F2, top)[k]]
  BY DEF MovesAmong
<1> QED BY <1>1, <1>2

MovesEnter(M2, M, tx) ==
  M2 = [k \in Keys |-> IF k \in L!Moved(tx) THEN tx.tx_nr ELSE M[k]]

\* They move as the ledger's do, when a transaction enters.
LEMMA EnteredMoves ==
  ASSUME NEW home, NEW tx, NEW top \in Nat, tx.tx_nr \in Nat, top < tx.tx_nr,
         NEW T \in SUBSET {tx}, NEW F, Numbered(F),
         FactsStand(F, top, T, home),
         NEW F2, Numbered(F2), Adds(F2, F, L!Roles(tx, home), tx.tx_nr),
         NEW B, MovesStand(B, F, top, T), NEW B2, MovedBy(B2, B, tx),
         MovesStand(B2, F2, tx.tx_nr, {})
  PROVE  MovesEnter(MovesAmong(B2, F2, tx.tx_nr), MovesAmong(B, F, top), tx)
<1>1. ASSUME NEW k \in Keys
      PROVE  MovesAmong(B2, F2, tx.tx_nr)[k] =
               IF k \in L!Moved(tx) THEN tx.tx_nr ELSE MovesAmong(B, F, top)[k]
  <2>1. MovesOn(B2, F2, F, top, tx, k)
    BY MovesAfterAdd
  <2>2. PICK m \in 0..top :
          /\ IsLastMove(Through(F, top), k, m)
          /\ IsLastMove(Through(F2, tx.tx_nr), k, IF k \in L!Moved(tx) THEN tx.tx_nr ELSE m)
    BY <2>1 DEF MovesOn
  <2>3. \A t \in T : t.tx_nr \in Nat
    OBVIOUS
  <2>4. MovesAmong(B, F, top)[k] = m
    BY <2>2, <2>3, CountedMove
  <2>5. (IF k \in L!Moved(tx) THEN tx.tx_nr ELSE m) \in 0..tx.tx_nr
    OBVIOUS
  <2>6. \A t \in {} : t.tx_nr \in Nat
    OBVIOUS
  <2>7. MovesAmong(B2, F2, tx.tx_nr)[k] = IF k \in L!Moved(tx) THEN tx.tx_nr ELSE m
    BY <2>2, <2>5, <2>6, CountedMove
  <2> QED BY <2>4, <2>7
<1>2. MovesAmong(B2, F2, tx.tx_nr) = [k \in Keys |-> MovesAmong(B2, F2, tx.tx_nr)[k]]
  BY DEF MovesAmong
<1> QED BY <1>1, <1>2 DEF MovesEnter

-----------------------------------------------------------------------------
(***************************************************************************)
(* The row an add leaves, and the facts in it.                             *)
(***************************************************************************)
LEMMA RowIs ==
  ASSUME RetryInv, NEW tx \in Arrivals, Admits(tx), StartsInRow(tx), NEW s \in Index
  PROVE  /\ Position(tx) \in Nat /\ Position(tx) >= 1
         /\ DOMAIN Row(tx, s) = DOMAIN segments \cup {Position(tx)}
         /\ Row(tx, s)[Position(tx)] = s
         /\ \A i \in DOMAIN segments : i # Position(tx) => Row(tx, s)[i] = segments[i]
         /\ Position(tx) \in DOMAIN segments => Segment(tx) = segments[Position(tx)]
         /\ Position(tx) \notin DOMAIN segments =>
              Segment(tx) = EmptyIndex(SegmentOf(tx.tx_nr) * segment_transactions)
<1> DEFINE p == Position(tx)
<1>1. IInv /\ segments \in Seq(Index)
  BY DEF RetryInv, IInv, TypeOK
<1>2. p \in 1..(Len(segments) + 1)
  BY <1>1, AskedSegment
<1>3. Len(segments) \in Nat /\ DOMAIN segments = 1..Len(segments)
  BY <1>1
<1> HIDE DEF p
<1>4. CASE p = Len(segments) + 1
  <2>1. IsNewSegment(tx)
    BY <1>4 DEF IsNewSegment, p
  <2>2. Row(tx, s) = Append(segments, s)
    BY <2>1 DEF Row
  <2>3. /\ DOMAIN Append(segments, s) = 1..(Len(segments) + 1)
        /\ \A i \in 1..Len(segments) : Append(segments, s)[i] = segments[i]
        /\ Append(segments, s)[Len(segments) + 1] = s
    BY <1>1
  <2>4. p \notin DOMAIN segments /\ 1..(Len(segments) + 1) = 1..Len(segments) \cup {p}
    BY <1>3, <1>4
  <2>5. Segment(tx) = EmptyIndex(SegmentOf(tx.tx_nr) * segment_transactions)
    BY <2>1 DEF Segment
  <2> QED BY <1>2, <1>3, <1>4, <2>2, <2>3, <2>4, <2>5 DEF p
<1>5. CASE p # Len(segments) + 1
  <2>1. ~IsNewSegment(tx)
    BY <1>5 DEF IsNewSegment, p
  <2>2. Row(tx, s) = [segments EXCEPT ![p] = s]
    BY <2>1 DEF Row, p
  <2>3. p \in DOMAIN segments
    BY <1>2, <1>3, <1>5
  <2>4. Segment(tx) = segments[p]
    BY <2>1 DEF Segment, p
  <2>5. /\ DOMAIN [segments EXCEPT ![p] = s] = DOMAIN segments
        /\ [segments EXCEPT ![p] = s][p] = s
        /\ \A i \in DOMAIN segments : i # p => [segments EXCEPT ![p] = s][i] = segments[i]
    BY <1>1, <2>3
  <2>6. DOMAIN segments \cup {p} = DOMAIN segments
    BY <2>3
  <2>7. p \in Nat /\ p >= 1
    BY <1>2
  <2> QED BY <2>2, <2>3, <2>4, <2>5, <2>6, <2>7 DEF p
<1> QED BY <1>4, <1>5

\* The facts of a segment that took some of them.
LEMMA FactsOfAdded ==
  ASSUME NEW index \in Index, NEW tx, tx.tx_nr \in Nat, NEW s \in Index,
         s.base_tx_nr = index.base_tx_nr, NEW some,
         s.sets = index.sets \cup (some \X {Offset(index, tx)})
  PROVE  FactsOf(s) = FactsOf(index) \cup (some \X {tx.tx_nr})
<1> DEFINE base == index.base_tx_nr
           o == Offset(index, tx)
<1>1. base \in Nat /\ base + o = tx.tx_nr
  <2>1. base \in Nat
    BY DEF Index
  <2>2. o = tx.tx_nr - base
    BY DEF Offset
  <2> HIDE DEF base, o
  <2> QED BY <2>1, <2>2
<1>2. FactsOf(s) = {<<m[1], base + m[2]>> : m \in index.sets \cup (some \X {o})}
  BY DEF FactsOf
<1>3. FactsOf(index) = {<<m[1], base + m[2]>> : m \in index.sets}
  BY DEF FactsOf
<1> HIDE DEF base, o
<1>4. {<<m[1], base + m[2]>> : m \in some \X {o}} = some \X {tx.tx_nr}
  <2>1. \A m \in some \X {o} : <<m[1], base + m[2]>> \in some \X {tx.tx_nr}
    BY <1>1
  <2>2. \A f \in some \X {tx.tx_nr} : \E m \in some \X {o} : f = <<m[1], base + m[2]>>
    <3> SUFFICES ASSUME NEW name \in some
                 PROVE  \E m \in some \X {o} : <<name, tx.tx_nr>> = <<m[1], base + m[2]>>
      OBVIOUS
    <3>1. <<name, o>> \in some \X {o} /\ <<name, o>>[1] = name /\ <<name, o>>[2] = o
      OBVIOUS
    <3> QED BY <1>1, <3>1
  <2> QED BY <2>1, <2>2
<1> QED BY <1>2, <1>3, <1>4

\* The facts of the row, when its segment took some.
LEMMA FactsInRow ==
  ASSUME RetryInv, NEW tx \in Arrivals, Admits(tx), StartsInRow(tx),
         NEW s \in Index, NEW some,
         FactsOf(s) = FactsOf(Segment(tx)) \cup (some \X {tx.tx_nr})
  PROVE  Adds(FactsIn(Row(tx, s)), FactsIn(segments), some, tx.tx_nr)
<1> DEFINE p == Position(tx)
           D == DOMAIN segments
           new == some \X {tx.tx_nr}
<1>1. /\ DOMAIN Row(tx, s) = D \cup {p}
      /\ Row(tx, s)[p] = s
      /\ \A i \in D : i # p => Row(tx, s)[i] = segments[i]
  BY RowIs
<1>2. FactsOf(s) = (IF p \in D THEN FactsOf(segments[p]) ELSE {}) \cup new
  <2>1. CASE p \in D
    BY <2>1, RowIs
  <2>2. CASE p \notin D
    <3>1. Segment(tx).sets = {}
      <4>1. Segment(tx) = EmptyIndex(SegmentOf(tx.tx_nr) * segment_transactions)
        BY <2>2, RowIs
      <4> QED BY <4>1 DEF EmptyIndex
    <3>2. FactsOf(Segment(tx)) = {}
      BY <3>1 DEF FactsOf
    <3> QED BY <2>2, <3>2
  <2> QED BY <2>1, <2>2
<1> HIDE DEF p, D, new
<1>3. FactsIn(Row(tx, s)) = UNION {FactsOf(Row(tx, s)[i]) : i \in D \cup {p}}
  BY <1>1 DEF FactsIn
<1>4. FactsIn(segments) = UNION {FactsOf(segments[i]) : i \in D}
  BY DEF FactsIn, D
<1>5. ASSUME NEW f \in FactsIn(Row(tx, s)) PROVE f \in FactsIn(segments) \cup new
  <2>1. PICK i \in D \cup {p} : f \in FactsOf(Row(tx, s)[i])
    BY <1>3, <1>5
  <2>2. CASE i = p
    BY <1>1, <1>2, <1>4, <2>1, <2>2
  <2>3. CASE i # p
    BY <1>1, <1>4, <2>1, <2>3
  <2> QED BY <2>2, <2>3
<1>6. ASSUME NEW f \in FactsIn(segments) \cup new PROVE f \in FactsIn(Row(tx, s))
  <2>1. FactsOf(s) \subseteq FactsIn(Row(tx, s))
    BY <1>1, <1>3
  <2>2. CASE f \in new
    BY <1>2, <2>1, <2>2
  <2>3. CASE f \in FactsIn(segments)
    <3>1. PICK i \in D : f \in FactsOf(segments[i])
      BY <1>4, <2>3
    <3>2. CASE i = p
      BY <1>2, <2>1, <3>1, <3>2
    <3>3. CASE i # p
      BY <1>1, <1>3, <3>1, <3>3
    <3> QED BY <3>2, <3>3
  <2> QED BY <2>2, <2>3, <1>6
<1> QED BY <1>5, <1>6 DEF Adds, new

LEMMA FactsAreNumbered ==
  ASSUME NEW row \in Seq(Index)
  PROVE  Numbered(FactsIn(row))
<1> SUFFICES ASSUME NEW i \in DOMAIN row, NEW m \in row[i].sets
             PROVE  row[i].base_tx_nr + m[2] \in Nat
  BY DEF Numbered, FactsIn, FactsOf
<1>1. row[i] \in Index
  OBVIOUS
<1>2. row[i].base_tx_nr \in Nat /\ row[i].sets \subseteq SetNames \X U32
  BY <1>1 DEF Index
<1>3. m \in SetNames \X U32
  BY <1>2
<1>4. m[2] \in Nat
  BY <1>3, WidthAssumption DEF U32
<1> QED BY <1>2, <1>4

LEMMA RowIsRow ==
  ASSUME IInv
  PROVE  segments \in Seq(Index)
  BY DEF IInv, TypeOK

\* What is held is the transaction that is added now, if anything is.
LEMMA HeldIsAdded ==
  ASSUME NEW tx \in Arrivals, refused \in {tx, NoTransaction}
  PROVE  Held \in SUBSET {tx}
  BY SegmentAssumption DEF Held

(***************************************************************************)
(* What an add finds in its segment: numbers before its own, or what an    *)
(* earlier add of the same transaction wrote; and the chain's own coin.    *)
(***************************************************************************)
LEMMA AddFinds ==
  ASSUME NEW home, LedgerInv(home), NEW tx \in Arrivals, tx.community = home,
         refused \in {tx, NoTransaction}, Admits(tx), StartsInRow(tx)
  PROVE  /\ Segment(tx) \in Index
         /\ tx \in Transaction /\ tx.tx_nr \in Nat
         /\ Clean(Segment(tx), tx, home)
         /\ Community(Segment(tx), tx) = home
         /\ Held \in SUBSET {tx}
<1> DEFINE s == Segment(tx)
           p == Position(tx)
<1>1. RetryInv /\ IInv
  BY DEF LedgerInv, RetryInv
<1>2. s \in Index /\ tx \in Transaction /\ tx.tx_nr \in Nat /\ max_tx_nr \in Nat /\ max_tx_nr < tx.tx_nr
  BY <1>1, AskedSegment, AdmittedIsNew
<1>3. Held \in SUBSET {tx}
  BY HeldIsAdded
<1>4. \/ p \in DOMAIN segments /\ s = segments[p]
      \/ s = EmptyIndex(SegmentOf(tx.tx_nr) * segment_transactions)
  BY <1>1, <1>2, RowIs
<1>5. s.base_tx_nr \in Nat
  BY <1>2 DEF Index
<1>6. Clean(s, tx, home)
  <2> SUFFICES ASSUME NEW m \in s.sets
               PROVE  \/ m[2] < Offset(s, tx)
                      \/ m[2] = Offset(s, tx) /\ m[1] \in L!Roles(tx, home)
    BY DEF Clean
  <2>1. p \in DOMAIN segments /\ s = segments[p]
    BY <1>4 DEF EmptyIndex
  <2>2. m \in SetNames \X U32
    BY <1>2 DEF Index
  <2>3. m[2] \in Nat
    BY <2>2, WidthAssumption DEF U32
  <2>4. <<m[1], s.base_tx_nr + m[2]>> \in FactsIn(segments)
    BY <2>1 DEF FactsIn, FactsOf
  <2>5. \/ s.base_tx_nr + m[2] <= max_tx_nr
        \/ s.base_tx_nr + m[2] = tx.tx_nr /\ m[1] \in L!Roles(tx, home)
    <3>1. FactsStand(FactsIn(segments), max_tx_nr, Held, home)
      BY DEF LedgerInv
    <3> QED BY <1>3, <2>4, <3>1 DEF FactsStand
  <2>6. Offset(s, tx) = tx.tx_nr - s.base_tx_nr
    BY DEF Offset
  <2> HIDE DEF s
  <2> QED BY <1>2, <1>5, <2>3, <2>5, <2>6
<1>7. Community(s, tx) = home
  <2>1. CASE s.transaction_count = 0
    BY <2>1 DEF Community
  <2>2. CASE s.transaction_count # 0
    <3>1. p \in DOMAIN segments /\ s = segments[p]
      BY <1>4, <2>2 DEF EmptyIndex
    <3>2. s.community = home
      BY <2>2, <3>1 DEF LedgerInv, HomeStands
    <3> QED BY <2>2, <3>2 DEF Community
  <2> QED BY <2>1, <2>2
<1> QED BY <1>2, <1>3, <1>6, <1>7

\* The row with the segment past which an add got: it holds tx whole.
LEMMA HoldingFacts ==
  ASSUME NEW home, LedgerInv(home), NEW tx \in Arrivals, tx.community = home,
         refused \in {tx, NoTransaction}, Admits(tx), StartsInRow(tx),
         NEW s \in SegmentsHolding(tx)
  PROVE  /\ Adds(FactsIn(Row(tx, s)), FactsIn(segments), L!Roles(tx, home), tx.tx_nr)
         /\ s.community = home
<1> DEFINE R == L!Roles(tx, home)
<1>1. RetryInv /\ IInv
  BY DEF LedgerInv, RetryInv
<1>2. s \in Index /\ s.transaction_count # 0 /\ s.max_tx_nr = tx.tx_nr
  BY <1>1, HeldIsCounted
<1>3. /\ Segment(tx) \in Index /\ tx \in Transaction /\ tx.tx_nr \in Nat
      /\ Clean(Segment(tx), tx, home) /\ Community(Segment(tx), tx) = home
      /\ Held \in SUBSET {tx}
  BY AddFinds
<1>4. CASE InSegment(tx)
  <2>1. s = Segment(tx)
    BY <1>4 DEF SegmentsHolding
  <2>2. s.community = home
    BY <1>2, <1>3, <2>1 DEF Community
  <2>3. FactsOf(s) = FactsOf(Segment(tx)) \cup ({} \X {tx.tx_nr})
    BY <2>1
  <2>4. Adds(FactsIn(Row(tx, s)), FactsIn(segments), {}, tx.tx_nr)
    BY <1>1, <1>2, <2>3, FactsInRow
  <2>5. FactsIn(Row(tx, s)) = FactsIn(segments)
    BY <2>4 DEF Adds
  <2>6. Position(tx) \in DOMAIN segments /\ s = segments[Position(tx)]
    <3>1. Position(tx) \notin DOMAIN segments =>
            s = EmptyIndex(SegmentOf(tx.tx_nr) * segment_transactions)
      BY <1>1, <1>2, <2>1, RowIs
    <3>2. Position(tx) \in DOMAIN segments
      BY <1>2, <3>1 DEF EmptyIndex
    <3> QED BY <1>1, <1>2, <2>1, <3>2, RowIs
  <2>7. max_tx_nr \in Nat /\ max_tx_nr < tx.tx_nr
    BY <1>1, AdmittedIsNew
  <2>8. R \X {tx.tx_nr} \subseteq FactsIn(segments)
    <3>1. CountsStand(segments, max_tx_nr, Held, home)
      BY DEF LedgerInv
    <3>2. ~(s.max_tx_nr <= max_tx_nr)
      BY <1>2, <1>3, <2>7
    <3>3. PICK t \in Held : L!Roles(t, home) \X {t.tx_nr} \subseteq FactsIn(segments)
      BY <1>2, <2>6, <3>1, <3>2 DEF CountsStand
    <3>4. t = tx
      BY <1>3
    <3> QED BY <3>3, <3>4
  <2> HIDE DEF R
  <2>9. FactsIn(Row(tx, s)) = FactsIn(segments) \cup (R \X {tx.tx_nr})
    BY <2>5, <2>8
  <2> QED BY <2>2, <2>9 DEF Adds, R
<1>5. CASE ~InSegment(tx)
  <2>1. Accepts(Segment(tx), tx) /\ s \in Added(Segment(tx), tx)
    BY <1>5 DEF SegmentsHolding
  <2>2. /\ s.base_tx_nr = Segment(tx).base_tx_nr
        /\ s.sets = Segment(tx).sets \cup (R \X {Offset(Segment(tx), tx)})
        /\ s.community = home
    BY <1>3, <2>1, AddedSets
  <2> HIDE DEF R
  <2>3. FactsOf(s) = FactsOf(Segment(tx)) \cup (R \X {tx.tx_nr})
    BY <1>2, <1>3, <2>2, FactsOfAdded
  <2>4. Adds(FactsIn(Row(tx, s)), FactsIn(segments), R, tx.tx_nr)
    BY <1>1, <1>2, <2>3, FactsInRow
  <2> QED BY <2>2, <2>4 DEF R
<1> QED BY <1>4, <1>5

\* The row with the segment that did not let an add past: some of tx, or none
\* when the segment accepts no such transaction.
LEMMA RefusingFacts ==
  ASSUME NEW home, LedgerInv(home), NEW tx \in Arrivals, tx.community = home,
         refused \in {tx, NoTransaction}, Admits(tx), StartsInRow(tx),
         NEW s \in SegmentsRefusing(tx)
  PROVE  /\ s \in Index
         /\ \E some : /\ some \subseteq L!Roles(tx, home)
                      /\ Adds(FactsIn(Row(tx, s)), FactsIn(segments), some, tx.tx_nr)
         /\ s.transaction_count = Segment(tx).transaction_count
         /\ s.max_tx_nr = Segment(tx).max_tx_nr
         /\ s.transaction_count # 0 => s.community = home
         /\ Accepts(Segment(tx), tx) => Accepts(s, tx)
         /\ ~Accepts(Segment(tx), tx) => s = Segment(tx) /\ ~InSegment(tx)
<1> DEFINE R == L!Roles(tx, home)
<1>1. RetryInv /\ IInv
  BY DEF LedgerInv, RetryInv
<1>2. s \in Index
  BY <1>1, SegmentsLeft
<1>3. /\ Segment(tx) \in Index /\ tx \in Transaction /\ tx.tx_nr \in Nat
      /\ Clean(Segment(tx), tx, home) /\ Community(Segment(tx), tx) = home
  BY AddFinds
<1>4. ~InSegment(tx)
  BY DEF SegmentsRefusing
<1>5. CASE Accepts(Segment(tx), tx)
  <2>1. s \in OutOfRoom(Segment(tx), tx)
    BY <1>4, <1>5 DEF SegmentsRefusing
  <2>2. /\ \E some \in SUBSET R : s.sets = Segment(tx).sets \cup (some \X {Offset(Segment(tx), tx)})
        /\ s.base_tx_nr = Segment(tx).base_tx_nr
        /\ Segment(tx).transaction_count # 0 => s.community = Segment(tx).community
        /\ Accepts(s, tx)
    BY <1>3, <1>5, <2>1, OutOfRoomSets
  <2> HIDE DEF R
  <2>3. PICK some \in SUBSET R : s.sets = Segment(tx).sets \cup (some \X {Offset(Segment(tx), tx)})
    BY <2>2
  <2>4. FactsOf(s) = FactsOf(Segment(tx)) \cup (some \X {tx.tx_nr})
    BY <1>2, <1>3, <2>2, <2>3, FactsOfAdded
  <2>5. Adds(FactsIn(Row(tx, s)), FactsIn(segments), some, tx.tx_nr)
    BY <1>1, <1>2, <2>4, FactsInRow
  <2>6. /\ s.transaction_count = Segment(tx).transaction_count
        /\ s.max_tx_nr = Segment(tx).max_tx_nr
    BY <1>3, <1>5, <2>1, OutOfRoomType
  <2>7. s.transaction_count # 0 => s.community = home
    BY <1>3, <2>2, <2>6 DEF Community
  <2>8. some \subseteq L!Roles(tx, home)
    BY <2>3 DEF R
  <2> QED BY <1>2, <1>5, <2>2, <2>5, <2>6, <2>7, <2>8
<1>6. CASE ~Accepts(Segment(tx), tx)
  <2>1. s = Segment(tx)
    BY <1>4, <1>6 DEF SegmentsRefusing
  <2>2. FactsOf(s) = FactsOf(Segment(tx)) \cup ({} \X {tx.tx_nr})
    BY <2>1
  <2>3. Adds(FactsIn(Row(tx, s)), FactsIn(segments), {}, tx.tx_nr)
    BY <1>1, <1>2, <2>2, FactsInRow
  <2>4. s.transaction_count # 0 => s.community = home
    BY <1>3, <2>1 DEF Community
  <2>5. {} \subseteq L!Roles(tx, home)
    OBVIOUS
  <2> QED BY <1>2, <1>4, <1>6, <2>1, <2>3, <2>4, <2>5
<1> QED BY <1>5, <1>6

\* The segment tx is asked for after a step that left it standing as s.
LEMMA SegmentAfter ==
  ASSUME RetryInv, NEW tx \in Arrivals, Admits(tx), StartsInRow(tx), NEW s \in Index,
         segments' = Row(tx, s), first_segment' = FirstSegment(tx), UNCHANGED options
  PROVE  Segment(tx)' = s
<1>1. IInv /\ RowIsReached
  BY DEF RetryInv
<1>2. /\ segments' \in Seq(Index)
      /\ Len(segments') = Position(tx)
      /\ segments'[Position(tx)] = s
  BY <1>1, RowAfterAdd
<1>3. Position(tx) >= 1 /\ Position(tx) \in Nat
  BY <1>1, AskedSegment
<1>4. segments' # <<>>
  BY <1>2, <1>3
<1>5. FirstSegment(tx)' = FirstSegment(tx) /\ SegmentOf(tx.tx_nr)' = SegmentOf(tx.tx_nr)
  BY <1>4 DEF FirstSegment, SegmentOf, options
<1>6. Position(tx)' = Position(tx)
  BY <1>5 DEF Position
<1>7. ~IsNewSegment(tx)'
  BY <1>2, <1>3, <1>6 DEF IsNewSegment
<1> QED BY <1>2, <1>6, <1>7 DEF Segment

\* More may be held: what stands stands.
LEMMA HeldFurther ==
  ASSUME NEW home, NEW T, NEW T2, T \subseteq T2, NEW top,
         NEW row, NEW F, NEW G, NEW B
  PROVE  /\ FactsStand(F, top, T, home) => FactsStand(F, top, T2, home)
         /\ CountsStand(row, top, T, home) => CountsStand(row, top, T2, home)
         /\ TypesStand(G, top, T) => TypesStand(G, top, T2)
         /\ MovesStand(B, F, top, T) => MovesStand(B, F, top, T2)
<1>1. FactsStand(F, top, T, home) => FactsStand(F, top, T2, home)
  BY DEF FactsStand
<1>2. CountsStand(row, top, T, home) => CountsStand(row, top, T2, home)
  BY DEF CountsStand
<1>3. TypesStand(G, top, T) => TypesStand(G, top, T2)
  BY DEF TypesStand
<1>4. MovesStand(B, F, top, T) => MovesStand(B, F, top, T2)
  BY DEF MovesStand
<1> QED BY <1>1, <1>2, <1>3, <1>4

\* The segments of the row stand, when the add got past its own.
LEMMA CountsAfterHolding ==
  ASSUME NEW home, LedgerInv(home), NEW tx \in Arrivals, tx.community = home,
         refused \in {tx, NoTransaction}, Admits(tx), StartsInRow(tx),
         NEW s \in SegmentsHolding(tx)
  PROVE  /\ CountsStand(Row(tx, s), max_tx_nr, {tx}, home)
         /\ CountsStand(Row(tx, s), tx.tx_nr, {}, home)
         /\ \A n \in Nat : HomeStands(Row(tx, s), n, home)
<1> DEFINE p == Position(tx)
           D == DOMAIN segments
           row == Row(tx, s)
           R == L!Roles(tx, home)
<1>1. RetryInv /\ IInv /\ RowIsReached
  BY DEF LedgerInv, RetryInv
<1>2. s \in Index /\ s.transaction_count # 0 /\ s.max_tx_nr = tx.tx_nr
  BY <1>1, HeldIsCounted
<1>3. s.community = home /\ FactsIn(row) = FactsIn(segments) \cup (R \X {tx.tx_nr})
  BY HoldingFacts DEF Adds
<1>4. /\ DOMAIN row = D \cup {p} /\ row[p] = s
      /\ \A i \in D : i # p => row[i] = segments[i]
      /\ p \in Nat
  BY <1>1, <1>2, RowIs
<1>5. tx.tx_nr \in Nat /\ max_tx_nr \in Nat /\ max_tx_nr < tx.tx_nr /\ Held \in SUBSET {tx}
  BY <1>1, AdmittedIsNew, HeldIsAdded
<1>6. \A i \in D : segments[i] \in Index /\ segments[i].max_tx_nr \in Nat
  <2>1. segments \in Seq(Index)
    BY <1>1 DEF IInv, TypeOK
  <2>2. \A i \in D : segments[i] \in Index
    BY <2>1
  <2> HIDE DEF D
  <2> QED BY <2>2 DEF Index
<1> HIDE DEF p, D, row, R
<1>7. \A i \in D : segments[i].transaction_count # 0 =>
        segments[i].max_tx_nr <= max_tx_nr \/ segments[i].max_tx_nr = tx.tx_nr
  <2>1. CountsStand(segments, max_tx_nr, Held, home)
    BY DEF LedgerInv
  <2> QED BY <1>5, <2>1 DEF CountsStand, D
<1>8. \A i \in DOMAIN row : row[i].transaction_count # 0 =>
        row[i].max_tx_nr \in Nat /\ (row[i].max_tx_nr <= max_tx_nr \/ row[i].max_tx_nr = tx.tx_nr)
  <2> SUFFICES ASSUME NEW i \in D \cup {p}, row[i].transaction_count # 0
               PROVE  /\ row[i].max_tx_nr \in Nat
                      /\ row[i].max_tx_nr <= max_tx_nr \/ row[i].max_tx_nr = tx.tx_nr
    BY <1>4
  <2>1. CASE i = p
    BY <1>2, <1>4, <1>5, <2>1
  <2>2. CASE i # p
    BY <1>4, <1>6, <1>7, <2>2
  <2> QED BY <2>1, <2>2
<1>9. CountsStand(row, max_tx_nr, {tx}, home)
  <2>1. R \X {tx.tx_nr} \subseteq FactsIn(row)
    BY <1>3
  <2> QED BY <1>8, <2>1 DEF CountsStand, R
<1>10. CountsStand(row, tx.tx_nr, {}, home)
  <2>1. \A i \in DOMAIN row : row[i].transaction_count # 0 => row[i].max_tx_nr <= tx.tx_nr
    BY <1>5, <1>8
  <2> QED BY <2>1 DEF CountsStand
<1>11. ASSUME NEW i \in DOMAIN row, row[i].transaction_count # 0 PROVE row[i].community = home
  <2>1. CASE i = p
    BY <1>3, <1>4, <2>1
  <2>2. CASE i # p
    <3>1. i \in D /\ row[i] = segments[i]
      BY <1>4, <1>11, <2>2
    <3> QED BY <1>11, <3>1 DEF LedgerInv, HomeStands, D
  <2> QED BY <2>1, <2>2
<1>12. row # <<>> /\ row[1].transaction_count # 0
  <2>1. row # <<>>
    BY <1>4
  <2>2. CASE p = 1
    BY <1>2, <1>4, <2>1, <2>2
  <2>3. CASE p # 1
    <3>1. transaction_count # 0
      BY <1>1, <1>2, <2>3, RowAfterAdd DEF p
    <3>2. segments # <<>> /\ segments[1].transaction_count # 0
      BY <3>1 DEF LedgerInv, HomeStands
    <3>3. 1 \in D
      BY <1>1, <3>2 DEF IInv, TypeOK, D
    <3> QED BY <1>4, <2>1, <2>3, <3>2, <3>3
  <2> QED BY <2>2, <2>3
<1> QED BY <1>9, <1>10, <1>11, <1>12 DEF HomeStands, row

\* They stand as well when it did not.
LEMMA CountsAfterRefusing ==
  ASSUME NEW home, LedgerInv(home), NEW tx \in Arrivals, tx.community = home,
         refused \in {tx, NoTransaction}, Admits(tx), StartsInRow(tx),
         NEW s \in SegmentsRefusing(tx)
  PROVE  /\ CountsStand(Row(tx, s), max_tx_nr, Held, home)
         /\ HomeStands(Row(tx, s), transaction_count, home)
<1> DEFINE p == Position(tx)
           D == DOMAIN segments
           row == Row(tx, s)
<1>1. RetryInv /\ IInv /\ RowIsReached
  BY DEF LedgerInv, RetryInv
<1>2. /\ s \in Index
      /\ s.transaction_count = Segment(tx).transaction_count
      /\ s.max_tx_nr = Segment(tx).max_tx_nr
      /\ s.transaction_count # 0 => s.community = home
  BY RefusingFacts
<1>3. FactsIn(segments) \subseteq FactsIn(row)
  <2>1. PICK some : Adds(FactsIn(Row(tx, s)), FactsIn(segments), some, tx.tx_nr)
    BY RefusingFacts
  <2> QED BY <2>1 DEF Adds
<1>4. /\ DOMAIN row = D \cup {p} /\ row[p] = s
      /\ \A i \in D : i # p => row[i] = segments[i]
      /\ p \in Nat
      /\ p \in D => Segment(tx) = segments[p]
  BY <1>1, <1>2, RowIs
<1>5. p \in D \/ s.transaction_count = 0
  <2>1. p \notin D => Segment(tx) = EmptyIndex(SegmentOf(tx.tx_nr) * segment_transactions)
    BY <1>1, <1>2, RowIs
  <2> QED BY <1>2, <2>1 DEF EmptyIndex
<1> HIDE DEF p, D, row
<1>6. ASSUME NEW i \in DOMAIN row, row[i].transaction_count # 0
      PROVE  /\ i \in D
             /\ row[i].transaction_count = segments[i].transaction_count
             /\ row[i].max_tx_nr = segments[i].max_tx_nr
             /\ row[i].community = home
  <2>1. CASE i = p
    <3>1. p \in D
      BY <1>4, <1>5, <1>6, <2>1
    <3> QED BY <1>2, <1>4, <1>6, <2>1, <3>1
  <2>2. CASE i # p
    <3>1. i \in D /\ row[i] = segments[i]
      BY <1>4, <1>6, <2>2
    <3>2. row[i].community = home
      BY <1>6, <3>1 DEF LedgerInv, HomeStands, D
    <3> QED BY <3>1, <3>2
  <2> QED BY <2>1, <2>2
<1>7. CountsStand(row, max_tx_nr, Held, home)
  <2> SUFFICES ASSUME NEW i \in DOMAIN row, row[i].transaction_count # 0
               PROVE  \/ row[i].max_tx_nr <= max_tx_nr
                      \/ \E t \in Held : /\ row[i].max_tx_nr = t.tx_nr
                                         /\ L!Roles(t, home) \X {t.tx_nr} \subseteq FactsIn(row)
    BY DEF CountsStand
  <2>1. CountsStand(segments, max_tx_nr, Held, home)
    BY DEF LedgerInv
  <2>2. \/ segments[i].max_tx_nr <= max_tx_nr
        \/ \E t \in Held : /\ segments[i].max_tx_nr = t.tx_nr
                           /\ L!Roles(t, home) \X {t.tx_nr} \subseteq FactsIn(segments)
    BY <1>6, <2>1 DEF CountsStand, D
  <2> QED BY <1>3, <1>6, <2>2
<1>8. transaction_count # 0 => row # <<>> /\ row[1].transaction_count # 0
  <2> SUFFICES ASSUME transaction_count # 0 PROVE row # <<>> /\ row[1].transaction_count # 0
    OBVIOUS
  <2>1. segments # <<>> /\ segments[1].transaction_count # 0
    BY DEF LedgerInv, HomeStands
  <2>2. 1 \in D
    BY <1>1, <2>1 DEF IInv, TypeOK, D
  <2>3. row # <<>>
    BY <1>4
  <2> QED BY <1>2, <1>4, <2>1, <2>2, <2>3
<1> QED BY <1>6, <1>7, <1>8 DEF HomeStands, row

-----------------------------------------------------------------------------
(***************************************************************************)
(* Each way an add may end keeps the invariant.                            *)
(***************************************************************************)
LEMMA GivesAreNumbered ==
  ASSUME IInv
  PROVE  \A g \in Gives(addresses.changes) : g[2] \in Nat
<1>1. addresses.changes \in [Keys -> Seq(TypeChange)]
  BY DEF IInv, TypeOK, Register
<1> SUFFICES ASSUME NEW k \in Keys, NEW i \in DOMAIN addresses.changes[k]
             PROVE  addresses.changes[k][i].tx_nr \in Nat
  BY DEF Gives, L!Entries
<1>2. addresses.changes[k] \in Seq(TypeChange)
  BY <1>1
<1>3. addresses.changes[k][i] \in TypeChange
  BY <1>2
<1> QED BY <1>3 DEF TypeChange

\* What any add leaves in the register.
LEMMA RegisterAfter ==
  ASSUME IInv, NEW tx \in Arrivals, UnknownTypes(tx) = {}, AddOrRefuse(tx)
  PROVE  /\ \E some : /\ some \subseteq L!Given(tx)
                      /\ Joins(Gives(addresses'.changes), Gives(addresses.changes), some)
         /\ \A k \in Keys :
              \/ addresses'.last_balance_tx[k] = addresses.last_balance_tx[k]
              \/ addresses'.last_balance_tx[k] = tx.tx_nr /\ k \in L!Moved(tx)
<1>1. addresses \in Register /\ tx \in Transaction
  BY SegmentAssumption DEF IInv, TypeOK
<1>2. CASE addresses' = addresses
  <2>1. Joins(Gives(addresses'.changes), Gives(addresses.changes), {})
    BY <1>2 DEF Joins
  <2>2. {} \subseteq L!Given(tx)
    OBVIOUS
  <2> QED BY <1>2, <2>1, <2>2
<1>3. CASE addresses' \in RegisterAdded(addresses, tx) \cup RegisterRefused(addresses, tx)
  <2>1. /\ \E some \in SUBSET L!Given(tx) :
             Gives(addresses'.changes) = Gives(addresses.changes) \cup some
        /\ \A k \in Keys :
             \/ addresses'.last_balance_tx[k] = addresses.last_balance_tx[k]
             \/ addresses'.last_balance_tx[k] = tx.tx_nr /\ k \in L!Moved(tx)
    BY <1>1, <1>3, RegisterGives
  <2>2. PICK some \in SUBSET L!Given(tx) :
          Gives(addresses'.changes) = Gives(addresses.changes) \cup some
    BY <2>1
  <2>3. Joins(Gives(addresses'.changes), Gives(addresses.changes), some)
    BY <2>2 DEF Joins
  <2> QED BY <2>1, <2>2, <2>3
<1> QED BY <1>2, <1>3, AddsRegister

\* What one that went through leaves in it.
LEMMA RegisterAfterAdd ==
  ASSUME IInv, NEW tx \in Arrivals, UnknownTypes(tx) = {}, Add(tx)
  PROVE  /\ Joins(Gives(addresses'.changes), Gives(addresses.changes), L!Given(tx))
         /\ MovedBy(addresses'.last_balance_tx, addresses.last_balance_tx, tx)
<1>1. addresses \in Register /\ tx \in Transaction
  BY SegmentAssumption DEF IInv, TypeOK
<1>2. addresses' \in RegisterAdded(addresses, tx)
  BY DEF Add
<1>3. /\ Gives(addresses'.changes) = Gives(addresses.changes) \cup L!Given(tx)
      /\ \A k \in Keys : addresses'.last_balance_tx[k] =
           IF k \in L!Moved(tx) THEN tx.tx_nr ELSE addresses.last_balance_tx[k]
  BY <1>1, <1>2, RegisterGives
<1> QED BY <1>3 DEF Joins, MovedBy

\* Nothing is held once nothing is refused.
LEMMA NothingIsHeld == refused' = NoTransaction => Held' = {}
  BY SegmentAssumption DEF Held

\* The add went through.
LEMMA AddKeeps ==
  ASSUME NEW home, LedgerInv(home), RetryInv', NEW tx \in Arrivals, tx.community = home,
         UnknownTypes(tx) = {}, refused \in {tx, NoTransaction}, StartsInRow(tx), Add(tx)
  PROVE  LedgerInv(home)'
<1> DEFINE F == FactsIn(segments)
           F2 == FactsIn(segments')
           n == tx.tx_nr
<1>1. RetryInv /\ IInv /\ Admits(tx)
  BY DEF LedgerInv, RetryInv, Add
<1>2. PICK s \in SegmentsHolding(tx) : segments' = Row(tx, s)
  BY DEF Add
<1>3. Adds(F2, F, L!Roles(tx, home), n)
  BY <1>1, <1>2, HoldingFacts
<1>4. max_tx_nr' = n /\ Held' = {} /\ transaction_count' \in Nat
  BY NothingIsHeld DEF Add, RetryInv, IInv, TypeOK
<1>5. n \in Nat /\ max_tx_nr \in Nat /\ max_tx_nr < n /\ Held \in SUBSET {tx}
  BY <1>1, AdmittedIsNew, HeldIsAdded
<1>6. Numbered(F) /\ \A g \in Gives(addresses.changes) : g[2] \in Nat
  BY <1>1, RowIsRow, FactsAreNumbered, GivesAreNumbered
<1>7. /\ Joins(Gives(addresses'.changes), Gives(addresses.changes), L!Given(tx))
      /\ MovedBy(addresses'.last_balance_tx, addresses.last_balance_tx, tx)
  BY <1>1, RegisterAfterAdd
<1>8. /\ FactsStand(F, max_tx_nr, Held, home)
      /\ TypesStand(Gives(addresses.changes), max_tx_nr, Held)
      /\ MovesStand(addresses.last_balance_tx, F, max_tx_nr, Held)
  BY DEF LedgerInv
<1>9. CountsStand(segments', n, {}, home) /\ HomeStands(segments', transaction_count', home)
  BY <1>1, <1>2, <1>4, CountsAfterHolding
<1> HIDE DEF F, F2
<1>10. FactsStand(F2, n, {}, home)
  <2>1. L!Roles(tx, home) \subseteq L!Roles(tx, home)
    OBVIOUS
  <2> QED BY <1>3, <1>5, <1>6, <1>8, <2>1, FactsAfter
<1>11. TypesStand(Gives(addresses'.changes), n, {})
  <2>1. L!Given(tx) \subseteq L!Given(tx)
    OBVIOUS
  <2> QED BY <1>5, <1>6, <1>7, <1>8, <2>1, TypesAfter
<1>12. MovesStand(addresses'.last_balance_tx, F2, n, {})
  <2> SUFFICES ASSUME NEW k \in Keys
               PROVE  \E m \in 0..n : /\ IsLastMove(Through(F2, n), k, m)
                                      /\ addresses'.last_balance_tx[k] = m
    BY DEF MovesStand
  <2>1. PICK m \in 0..max_tx_nr :
          /\ IsLastMove(Through(F2, n), k, IF k \in L!Moved(tx) THEN n ELSE m)
          /\ addresses'.last_balance_tx[k] = IF k \in L!Moved(tx) THEN n ELSE m
    <3>1. MovesOn(addresses'.last_balance_tx, F2, F, max_tx_nr, tx, k)
      BY <1>3, <1>5, <1>6, <1>7, <1>8, MovesAfterAdd
    <3> QED BY <3>1 DEF MovesOn
  <2>2. (IF k \in L!Moved(tx) THEN n ELSE m) \in 0..n
    BY <1>5
  <2> QED BY <2>1, <2>2
<1> QED BY <1>4, <1>9, <1>10, <1>11, <1>12 DEF LedgerInv, F2

\* What a refused add does to the ledger: nothing.
LeavesLedger ==
  /\ SameThrough(FactsIn(segments'), FactsIn(segments), max_tx_nr)
  /\ SameThrough(Gives(addresses'.changes), Gives(addresses.changes), max_tx_nr)
  /\ UNCHANGED counters

\* What the caller holds after a refusal.
LEMMA HeldByRegister ==
  ASSUME RetryInv, NEW tx \in Arrivals, UnknownTypes(tx) = {}, StartsInRow(tx),
         RefusedInRegister(tx)
  PROVE  Held' = {tx}
<1>1. InSegment(tx)'
  BY RefusedIsInSegment
<1>2. refused' = tx
  BY DEF RefusedInRegister
<1>3. Held' = {t \in Arrivals : refused' = t /\ (InSegment(t)' \/ Accepts(Segment(t)', t))}
  BY DEF Held
<1> QED BY <1>1, <1>2, <1>3

LEMMA HeldBySegment ==
  ASSUME NEW home, LedgerInv(home), NEW tx \in Arrivals, tx.community = home,
         refused \in {tx, NoTransaction}, StartsInRow(tx), RefusedInSegment(tx)
  PROVE  /\ Accepts(Segment(tx), tx) => Held' = {tx}
         /\ ~Accepts(Segment(tx), tx) => Held = {} /\ Held' = {}
<1>1. RetryInv /\ Admits(tx)
  BY DEF LedgerInv, RefusedInSegment
<1>2. PICK s \in SegmentsRefusing(tx) : segments' = Row(tx, s)
  BY DEF RefusedInSegment
<1>3. /\ first_segment' = FirstSegment(tx) /\ UNCHANGED options
      /\ refused' = IF Accepts(Segment(tx), tx) THEN tx ELSE NoTransaction
  BY DEF RefusedInSegment
<1>4. /\ s \in Index
      /\ Accepts(Segment(tx), tx) => Accepts(s, tx)
      /\ ~Accepts(Segment(tx), tx) => ~InSegment(tx)
  BY <1>1, <1>2, RefusingFacts
<1>5. ASSUME Accepts(Segment(tx), tx)
      PROVE  Held' = {tx}
  <2>1. Segment(tx)' = s
    BY <1>1, <1>2, <1>3, <1>4, SegmentAfter
  <2>2. Held' = {t \in Arrivals : refused' = t /\ (InSegment(t)' \/ Accepts(Segment(t)', t))}
    BY DEF Held
  <2>3. refused' = tx /\ Accepts(Segment(tx)', tx)
    BY <1>3, <1>4, <1>5, <2>1
  <2> QED BY <2>2, <2>3
<1>6. ASSUME ~Accepts(Segment(tx), tx)
      PROVE  Held = {} /\ Held' = {}
  <2>1. Held \in SUBSET {tx}
    BY HeldIsAdded
  <2> QED BY <1>3, <1>4, <1>6, <2>1, NothingIsHeld DEF Held
<1> QED BY <1>5, <1>6

LEMMA HeldByOpening ==
  ASSUME NEW tx \in Arrivals, refused \in {tx, NoTransaction}, RefusedOpening(tx)
  PROVE  Held \subseteq Held'
<1>1. /\ transaction_count' = transaction_count /\ segments' = segments /\ UNCHANGED options
      /\ first_segment' = FirstSegment(tx) /\ refused' = tx /\ IsNewSegment(tx)
  BY DEF RefusedOpening, counters
<1>2. FirstSegment(tx)' = FirstSegment(tx) /\ SegmentOf(tx.tx_nr)' = SegmentOf(tx.tx_nr)
  BY <1>1 DEF FirstSegment, SegmentOf, options
<1>3. Position(tx)' = Position(tx)
  BY <1>2 DEF Position
<1>4. IsNewSegment(tx)'
  BY <1>1, <1>3 DEF IsNewSegment
<1>5. Segment(tx)' = Segment(tx)
  BY <1>1, <1>2, <1>4 DEF Segment, options
<1>6. Held' = {t \in Arrivals : refused' = t /\ (InSegment(t)' \/ Accepts(Segment(t)', t))}
  BY DEF Held
<1>7. Held \in SUBSET {tx}
  BY HeldIsAdded
<1>8. tx \in Held => InSegment(tx)' \/ Accepts(Segment(tx)', tx)
  BY <1>5 DEF Held, InSegment
<1> QED BY <1>1, <1>6, <1>7, <1>8

\* Refused by the register, with the segment holding it.
LEMMA RegisterRefusalKeeps ==
  ASSUME NEW home, LedgerInv(home), RetryInv', NEW tx \in Arrivals, tx.community = home,
         UnknownTypes(tx) = {}, refused \in {tx, NoTransaction}, StartsInRow(tx),
         RefusedInRegister(tx)
  PROVE  LedgerInv(home)' /\ LeavesLedger
<1> DEFINE F == FactsIn(segments)
           F2 == FactsIn(segments')
           top == max_tx_nr
<1>1. RetryInv /\ IInv /\ Admits(tx)
  BY DEF LedgerInv, RetryInv, RefusedInRegister
<1>2. PICK s \in SegmentsHolding(tx) : segments' = Row(tx, s)
  BY DEF RefusedInRegister
<1>3. Adds(F2, F, L!Roles(tx, home), tx.tx_nr)
  BY <1>1, <1>2, HoldingFacts
<1>4. UNCHANGED counters /\ max_tx_nr' = top /\ transaction_count' = transaction_count /\ refused' = tx
  BY DEF RefusedInRegister, counters
<1>5. Held' = {tx}
  BY <1>1, HeldByRegister
<1>6. tx.tx_nr \in Nat /\ top \in Nat /\ top < tx.tx_nr /\ Held \in SUBSET {tx}
  BY <1>1, AdmittedIsNew, HeldIsAdded
<1>7. Numbered(F) /\ \A g \in Gives(addresses.changes) : g[2] \in Nat
  BY <1>1, RowIsRow, FactsAreNumbered, GivesAreNumbered
<1>8. AddOrRefuse(tx)
  BY DEF AddOrRefuse
<1>9. PICK some : /\ some \subseteq L!Given(tx)
                  /\ Joins(Gives(addresses'.changes), Gives(addresses.changes), some)
  BY <1>1, <1>8, RegisterAfter
<1>10. \A k \in Keys :
        \/ addresses'.last_balance_tx[k] = addresses.last_balance_tx[k]
        \/ addresses'.last_balance_tx[k] = tx.tx_nr /\ k \in L!Moved(tx)
  BY <1>1, <1>8, RegisterAfter
<1>11. /\ FactsStand(F, top, Held, home)
       /\ TypesStand(Gives(addresses.changes), top, Held)
       /\ MovesStand(addresses.last_balance_tx, F, top, Held)
       /\ transaction_count \in Nat
  BY <1>1 DEF LedgerInv, IInv, TypeOK
<1>12. CountsStand(segments', top, {tx}, home) /\ HomeStands(segments', transaction_count, home)
  BY <1>1, <1>2, <1>11, CountsAfterHolding
<1> HIDE DEF F, F2, top
<1>13. FactsStand(F2, top, {tx}, home) /\ SameThrough(F2, F, top)
  <2>1. L!Roles(tx, home) \subseteq L!Roles(tx, home)
    OBVIOUS
  <2> QED BY <1>3, <1>6, <1>7, <1>11, <2>1, FactsAfter
<1>14. /\ TypesStand(Gives(addresses'.changes), top, {tx})
       /\ SameThrough(Gives(addresses'.changes), Gives(addresses.changes), top)
  BY <1>6, <1>7, <1>9, <1>11, TypesAfter
<1>15. MovesStand(addresses'.last_balance_tx, F2, top, {tx})
  BY <1>6, <1>10, <1>11, <1>13, MovesAfterRefusal
<1>16. LedgerInv(home)'
  BY <1>4, <1>5, <1>12, <1>13, <1>14, <1>15 DEF LedgerInv, F2
<1> QED BY <1>4, <1>13, <1>14, <1>16 DEF LeavesLedger, F, F2, top

\* Refused in the segment, for want of room or for what it is.
LEMMA SegmentRefusalKeeps ==
  ASSUME NEW home, LedgerInv(home), RetryInv', NEW tx \in Arrivals, tx.community = home,
         refused \in {tx, NoTransaction}, StartsInRow(tx), RefusedInSegment(tx)
  PROVE  LedgerInv(home)' /\ LeavesLedger
<1> DEFINE F == FactsIn(segments)
           F2 == FactsIn(segments')
           top == max_tx_nr
<1>1. RetryInv /\ IInv /\ Admits(tx)
  BY DEF LedgerInv, RetryInv, RefusedInSegment
<1>2. PICK s \in SegmentsRefusing(tx) : segments' = Row(tx, s)
  BY DEF RefusedInSegment
<1>3. PICK some : some \subseteq L!Roles(tx, home) /\ Adds(F2, F, some, tx.tx_nr)
  BY <1>1, <1>2, RefusingFacts
<1>4. /\ UNCHANGED counters /\ max_tx_nr' = top /\ transaction_count' = transaction_count
      /\ addresses' = addresses
      /\ first_segment' = FirstSegment(tx) /\ UNCHANGED options
      /\ refused' = IF Accepts(Segment(tx), tx) THEN tx ELSE NoTransaction
  BY DEF RefusedInSegment, counters
<1>5. tx.tx_nr \in Nat /\ top \in Nat /\ top < tx.tx_nr /\ Held \in SUBSET {tx}
  BY <1>1, AdmittedIsNew, HeldIsAdded
<1>6. Numbered(F)
  BY <1>1, RowIsRow, FactsAreNumbered
<1>7. /\ FactsStand(F, top, Held, home)
      /\ TypesStand(Gives(addresses.changes), top, Held)
      /\ MovesStand(addresses.last_balance_tx, F, top, Held)
  BY DEF LedgerInv
<1>8. CountsStand(segments', top, Held, home) /\ HomeStands(segments', transaction_count, home)
  BY <1>1, <1>2, CountsAfterRefusing
<1>9. /\ s \in Index
      /\ Accepts(Segment(tx), tx) => Accepts(s, tx)
      /\ ~Accepts(Segment(tx), tx) => s = Segment(tx) /\ ~InSegment(tx)
  BY <1>1, <1>2, RefusingFacts
<1> HIDE DEF F, F2, top
<1>10. SameThrough(F2, F, top) /\ FactsStand(F2, top, {tx}, home)
  BY <1>3, <1>5, <1>6, <1>7, FactsAfter
<1>11. LeavesLedger
  <2>1. SameThrough(Gives(addresses'.changes), Gives(addresses.changes), max_tx_nr)
    BY <1>4 DEF SameThrough
  <2> QED BY <1>4, <1>10, <2>1 DEF LeavesLedger, F, F2, top
<1>12. CASE Accepts(Segment(tx), tx)
  <2>2. Held' = {tx}
    BY <1>12, HeldBySegment
  <2>3. CountsStand(segments', top, {tx}, home)
    BY <1>5, <1>8, HeldFurther
  <2>4. TypesStand(Gives(addresses.changes), top, {tx})
    BY <1>5, <1>7, HeldFurther
  <2>5. MovesStand(addresses.last_balance_tx, F2, top, {tx})
    BY <1>5, <1>7, <1>10, MovesAfterRefusal
  <2>6. LedgerInv(home)'
    BY <1>4, <1>8, <1>10, <2>2, <2>3, <2>4, <2>5 DEF LedgerInv, F2
  <2> QED BY <1>11, <2>6
<1>13. CASE ~Accepts(Segment(tx), tx)
  <2>1. Held = {} /\ Held' = {}
    BY <1>13, HeldBySegment
  <2>2. F2 = F
    <3>1. FactsOf(s) = FactsOf(Segment(tx)) \cup ({} \X {tx.tx_nr})
      BY <1>9, <1>13
    <3>2. Adds(FactsIn(Row(tx, s)), FactsIn(segments), {}, tx.tx_nr)
      BY <1>1, <1>9, <3>1, FactsInRow
    <3> QED BY <1>2, <3>2 DEF Adds, F, F2
  <2>3. LedgerInv(home)'
    BY <1>4, <1>7, <1>8, <2>1, <2>2 DEF LedgerInv, F2
  <2> QED BY <1>11, <2>3
<1> QED BY <1>12, <1>13

\* No room for the segment itself.
LEMMA OpeningRefusalKeeps ==
  ASSUME NEW home, LedgerInv(home), RetryInv', NEW tx \in Arrivals,
         refused \in {tx, NoTransaction}, RefusedOpening(tx)
  PROVE  LedgerInv(home)' /\ LeavesLedger
<1>1. /\ UNCHANGED counters /\ max_tx_nr' = max_tx_nr /\ transaction_count' = transaction_count
      /\ addresses' = addresses /\ segments' = segments /\ UNCHANGED options
      /\ first_segment' = FirstSegment(tx) /\ refused' = tx /\ IsNewSegment(tx)
  BY DEF RefusedOpening, counters
<1>6. Held \subseteq Held'
  BY HeldByOpening
<1>7. /\ FactsStand(FactsIn(segments), max_tx_nr, Held, home)
      /\ CountsStand(segments, max_tx_nr, Held, home)
      /\ TypesStand(Gives(addresses.changes), max_tx_nr, Held)
      /\ MovesStand(addresses.last_balance_tx, FactsIn(segments), max_tx_nr, Held)
      /\ HomeStands(segments, transaction_count, home)
  BY DEF LedgerInv
<1>8. /\ FactsStand(FactsIn(segments), max_tx_nr, Held', home)
      /\ CountsStand(segments, max_tx_nr, Held', home)
      /\ TypesStand(Gives(addresses.changes), max_tx_nr, Held')
      /\ MovesStand(addresses.last_balance_tx, FactsIn(segments), max_tx_nr, Held')
  BY <1>6, <1>7, HeldFurther
<1>9. LedgerInv(home)'
  BY <1>1, <1>7, <1>8 DEF LedgerInv
<1>10. LeavesLedger
  BY <1>1 DEF LeavesLedger, SameThrough
<1> QED BY <1>9, <1>10

\* A chain with nothing in it.
LEMMA NothingStands ==
  ASSUME NEW home, NEW T, NEW count, count = 0
  PROVE  /\ FactsIn(<<>>) = {} /\ Gives(EmptyRegister.changes) = {}
         /\ FactsStand(FactsIn(<<>>), 0, T, home)
         /\ CountsStand(<<>>, 0, T, home)
         /\ TypesStand(Gives(EmptyRegister.changes), 0, T)
         /\ MovesStand(EmptyRegister.last_balance_tx, FactsIn(<<>>), 0, T)
         /\ HomeStands(<<>>, count, home)
<1>1. FactsIn(<<>>) = {}
  BY DEF FactsIn
<1>2. Gives(EmptyRegister.changes) = {}
  <2>1. \A k \in Keys : EmptyRegister.changes[k] = <<>> /\ EmptyRegister.last_balance_tx[k] = 0
    BY DEF EmptyRegister
  <2>2. L!Entries(<<>>) = {}
    BY DEF L!Entries
  <2> QED BY <2>1, <2>2 DEF Gives
<1>3. MovesStand(EmptyRegister.last_balance_tx, {}, 0, T)
  <2> SUFFICES ASSUME NEW k \in Keys
               PROVE  /\ IsLastMove(Through({}, 0), k, 0)
                      /\ EmptyRegister.last_balance_tx[k] = 0
    <3>1. 0 \in 0..0
      OBVIOUS
    <3> QED BY <3>1 DEF MovesStand
  <2>1. EmptyRegister.last_balance_tx[k] = 0
    BY DEF EmptyRegister
  <2>2. IsLastMove(Through({}, 0), k, 0)
    BY DEF IsLastMove, Through
  <2> QED BY <2>1, <2>2
<1>4. FactsStand({}, 0, T, home) /\ TypesStand({}, 0, T)
  BY DEF FactsStand, TypesStand
<1>5. CountsStand(<<>>, 0, T, home) /\ HomeStands(<<>>, count, home)
  BY DEF CountsStand, HomeStands
<1> QED BY <1>1, <1>2, <1>3, <1>4, <1>5

LEMMA EmptiedKeeps ==
  ASSUME NEW home, RetryInv', Emptied
  PROVE  LedgerInv(home)'
<1>1. /\ segments' = <<>> /\ addresses' = EmptyRegister
      /\ max_tx_nr' = 0 /\ transaction_count' = 0
  BY DEF Emptied
<1> QED BY <1>1, NothingStands DEF LedgerInv

LEMMA InitLedgerInv ==
  ASSUME NEW home, Init
  PROVE  LedgerInv(home)
<1>1. /\ segments = <<>> /\ addresses = EmptyRegister
      /\ max_tx_nr = 0 /\ transaction_count = 0
  BY DEF Init
<1> QED BY <1>1, InitRetryInv, NothingStands DEF LedgerInv

\* A step of LedgerSpec is a step of the caller who adds again.
LEMMA DeliveringIsRetrying == [NextLedger]_answerVars => [NextRetrying]_vars
  BY DEF NextLedger, answerVars, Deliver, NextRetrying, AddOrRefuse

\* The chain where nothing happens, the caller's transaction included.
LEMMA HeldStays ==
  ASSUME UNCHANGED vars
  PROVE  Held' = Held
<1>1. /\ segments' = segments /\ transaction_count' = transaction_count
      /\ refused' = refused /\ first_segment' = first_segment /\ UNCHANGED options
  BY DEF vars, counters
<1>2. /\ segment_transactions' = segment_transactions
      /\ \A n : SegmentOf(n)' = SegmentOf(n)
  BY <1>1 DEF options, SegmentOf
<1>3. \A t \in Arrivals : Segment(t)' = Segment(t)
  BY <1>1, <1>2 DEF Segment, IsNewSegment, Position, FirstSegment
<1>4. \A t \in Arrivals : InSegment(t)' = InSegment(t)
  BY <1>3 DEF InSegment
<1> QED BY <1>1, <1>3, <1>4 DEF Held

LEMMA StutterKeeps ==
  ASSUME NEW home, LedgerInv(home), RetryInv', UNCHANGED vars
  PROVE  LedgerInv(home)' /\ LeavesLedger
<1>1. /\ segments' = segments /\ addresses' = addresses /\ UNCHANGED counters
      /\ max_tx_nr' = max_tx_nr /\ transaction_count' = transaction_count
  BY DEF vars, counters
<1>2. Held' = Held
  BY HeldStays
<1>3. LedgerInv(home)'
  BY <1>1, <1>2 DEF LedgerInv
<1>4. LeavesLedger
  BY <1>1 DEF LeavesLedger, SameThrough
<1> QED BY <1>3, <1>4

-----------------------------------------------------------------------------
(***************************************************************************)
(* The ledger the chain implements, in the terms of the invariant.         *)
(***************************************************************************)

LEMMA CountedAre ==
  /\ CountedFacts = Through(FactsIn(segments), max_tx_nr)
  /\ CountedTypes = Through(Gives(addresses.changes), max_tx_nr)
  /\ CountedMoves = MovesAmong(addresses.last_balance_tx, FactsIn(segments), max_tx_nr)
<1>1. CountedFacts = Through(FactsIn(segments), max_tx_nr)
  BY DEF CountedFacts, Through, FactsIn, FactsOf
<1>2. CountedTypes = Through(Gives(addresses.changes), max_tx_nr)
  BY DEF CountedTypes, Through, Gives, ToSet, L!Entries
<1>3. CountedMoves = MovesAmong(addresses.last_balance_tx, FactsIn(segments), max_tx_nr)
  BY <1>1 DEF CountedMoves, MovesAmong
<1> QED BY <1>1, <1>2, <1>3

LEMMA CountedAreNext ==
  /\ CountedFacts' = Through(FactsIn(segments'), max_tx_nr')
  /\ CountedTypes' = Through(Gives(addresses'.changes), max_tx_nr')
  /\ CountedMoves' = MovesAmong(addresses'.last_balance_tx, FactsIn(segments'), max_tx_nr')
<1>1. CountedFacts' = Through(FactsIn(segments'), max_tx_nr')
  BY DEF CountedFacts, Through, FactsIn, FactsOf
<1>2. CountedTypes' = Through(Gives(addresses'.changes), max_tx_nr')
  BY DEF CountedTypes, Through, Gives, ToSet, L!Entries
<1>3. CountedMoves' = MovesAmong(addresses'.last_balance_tx, FactsIn(segments'), max_tx_nr')
  BY <1>1 DEF CountedMoves, MovesAmong
<1> QED BY <1>1, <1>2, <1>3

\* The chain's own coin is that of its first segment.
LEMMA HomeIs ==
  ASSUME NEW home, NEW row \in Seq(Index), NEW count, HomeStands(row, count, home), count # 0
  PROVE  row[1].community = home
<1>1. row # <<>> /\ row[1].transaction_count # 0
  BY DEF HomeStands
<1>2. 1 \in DOMAIN row
  BY <1>1
<1> QED BY <1>1, <1>2 DEF HomeStands

\* The numbers of what is held.
LEMMA HeldNumbers ==
  /\ \A t \in Held : t.tx_nr \in Nat
  /\ \A t \in Held' : t.tx_nr \in Nat
<1>1. \A t \in Arrivals : t.tx_nr \in Nat
  BY SegmentAssumption DEF Transaction
<1>2. Held \subseteq Arrivals /\ Held' \subseteq Arrivals
  BY DEF Held
<1> QED BY <1>1, <1>2

\* A refused add, or no step at all, is no step of the ledger.
LEMMA RefusalStutters ==
  ASSUME NEW home, LedgerInv(home), LedgerInv(home)', LeavesLedger
  PROVE  UNCHANGED L!ledgerVars
<1>1. IInv /\ IInv'
  BY DEF LedgerInv, RetryInv
<1>2. segments \in Seq(Index) /\ segments' \in Seq(Index) /\ max_tx_nr \in Nat
  BY <1>1 DEF IInv, TypeOK
<1>3. /\ max_tx_nr' = max_tx_nr /\ min_tx_nr' = min_tx_nr
      /\ transaction_count' = transaction_count
  BY DEF LeavesLedger, counters
<1>4. CountedFacts' = CountedFacts /\ CountedTypes' = CountedTypes
  BY <1>3, CountedAre, CountedAreNext DEF LeavesLedger, SameThrough
<1>5. CountedMoves' = CountedMoves
  <2>1. /\ MovesStand(addresses.last_balance_tx, FactsIn(segments), max_tx_nr, Held)
        /\ MovesStand(addresses'.last_balance_tx, FactsIn(segments'), max_tx_nr, Held')
    BY <1>3 DEF LedgerInv
  <2>2. Numbered(FactsIn(segments)) /\ Numbered(FactsIn(segments'))
    BY <1>2, FactsAreNumbered
  <2>3. SameThrough(FactsIn(segments'), FactsIn(segments), max_tx_nr)
    BY DEF LeavesLedger
  <2>4. MovesAmong(addresses'.last_balance_tx, FactsIn(segments'), max_tx_nr)
          = MovesAmong(addresses.last_balance_tx, FactsIn(segments), max_tx_nr)
    BY <1>2, <2>1, <2>2, <2>3, HeldNumbers, SameMoves
  <2> QED BY <1>3, <2>4, CountedAre, CountedAreNext
<1>6. (IF transaction_count' = 0 THEN NoCommunity ELSE segments'[1].community)
        = (IF transaction_count = 0 THEN NoCommunity ELSE segments[1].community)
  <2>1. /\ HomeStands(segments, transaction_count, home)
        /\ HomeStands(segments', transaction_count, home)
    BY <1>3 DEF LedgerInv
  <2>2. transaction_count # 0 => segments[1].community = home /\ segments'[1].community = home
    BY <1>2, <2>1, HomeIs
  <2> QED BY <1>3, <2>2
<1> QED BY <1>3, <1>4, <1>5, <1>6 DEF L!ledgerVars

\* An add that goes through enters the ledger, whole.
LEMMA AddEnters ==
  ASSUME NEW home, LedgerInv(home), LedgerInv(home)', NEW tx \in Arrivals, tx.community = home,
         UnknownTypes(tx) = {}, refused \in {tx, NoTransaction}, StartsInRow(tx), Add(tx)
  PROVE  L!Enter(tx)
<1> DEFINE F == FactsIn(segments)
           F2 == FactsIn(segments')
           B == addresses.last_balance_tx
           B2 == addresses'.last_balance_tx
           n == tx.tx_nr
           top == max_tx_nr
           own == IF transaction_count = 0 THEN NoCommunity ELSE segments[1].community
           own2 == IF transaction_count' = 0 THEN NoCommunity ELSE segments'[1].community
<1>1. IInv /\ RetryInv /\ RetryInv' /\ Admits(tx)
  BY DEF LedgerInv, RetryInv, Add
<1>2. /\ segments \in Seq(Index) /\ segments' \in Seq(Index)
      /\ transaction_count \in Nat /\ min_tx_nr \in Nat
  BY <1>1 DEF RetryInv, IInv, TypeOK
<1>3. /\ max_tx_nr' = n /\ transaction_count' = transaction_count + 1
      /\ min_tx_nr' = IF transaction_count = 0 THEN n ELSE min_tx_nr
      /\ Held' = {}
  BY NothingIsHeld DEF Add
<1>4. n \in Nat /\ top \in Nat /\ top < n /\ Held \in SUBSET {tx}
  BY <1>1, AdmittedIsNew, HeldIsAdded
<1>5. top = 0 <=> transaction_count = 0
  BY <1>1, <1>2 DEF IInv
<1>6. n # 0 /\ (top # 0 => n = top + 1)
  BY <1>1, <1>5 DEF Admits
<1>7. own2 = home /\ (transaction_count # 0 => own = home)
  <2>1. HomeStands(segments, transaction_count, home) /\ HomeStands(segments', transaction_count', home)
    BY DEF LedgerInv
  <2>2. transaction_count' # 0
    BY <1>2, <1>3
  <2> QED BY <1>2, <2>1, <2>2, HomeIs
<1>8. Adds(F2, F, L!Roles(tx, home), n)
  <2>1. PICK s \in SegmentsHolding(tx) : segments' = Row(tx, s)
    BY DEF Add
  <2> QED BY <1>1, <2>1, HoldingFacts
<1>9. /\ Joins(Gives(addresses'.changes), Gives(addresses.changes), L!Given(tx))
      /\ MovedBy(B2, B, tx)
  BY <1>1, RegisterAfterAdd
<1>10. /\ Numbered(F) /\ Numbered(F2)
       /\ \A g \in Gives(addresses.changes) : g[2] \in Nat
  BY <1>1, <1>2, FactsAreNumbered, GivesAreNumbered
<1>11. /\ FactsStand(F, top, Held, home)
       /\ TypesStand(Gives(addresses.changes), top, Held)
       /\ MovesStand(B, F, top, Held)
       /\ MovesStand(B2, F2, n, {})
  BY <1>3 DEF LedgerInv
<1> HIDE DEF F, F2, B, B2, top
<1>12. Adds(Through(F2, n), Through(F, top), L!Roles(tx, home), n)
  <2>1. L!Roles(tx, home) \subseteq L!Roles(tx, home)
    OBVIOUS
  <2> QED BY <1>4, <1>8, <1>10, <1>11, <2>1, FactsAfter
<1>13. Joins(Through(Gives(addresses'.changes), n), Through(Gives(addresses.changes), top), L!Given(tx))
  <2>1. L!Given(tx) \subseteq L!Given(tx)
    OBVIOUS
  <2> QED BY <1>4, <1>9, <1>10, <1>11, <2>1, TypesAfter
<1>14. MovesEnter(MovesAmong(B2, F2, n), MovesAmong(B, F, top), tx)
  BY <1>4, <1>8, <1>9, <1>10, <1>11, EnteredMoves
<1>15. CountedFacts' = CountedFacts \cup (L!Roles(tx, home) \X {n})
  BY <1>3, <1>12, CountedAre, CountedAreNext DEF Adds, F, F2, top
<1>16. CountedTypes' = CountedTypes \cup L!Given(tx)
  BY <1>3, <1>13, CountedAre, CountedAreNext DEF Joins, top
<1>17. CountedMoves' = [k \in Keys |-> IF k \in L!Moved(tx) THEN n ELSE CountedMoves[k]]
  BY <1>3, <1>14, CountedAre, CountedAreNext DEF MovesEnter, F, F2, B, B2, top
<1>18. own2 = IF max_tx_nr = 0 THEN tx.community ELSE own
  BY <1>5, <1>7 DEF top
<1>19. min_tx_nr' = IF max_tx_nr = 0 THEN n ELSE min_tx_nr
  BY <1>3, <1>5 DEF top
<1>20. CountedFacts' = CountedFacts \cup (L!Roles(tx, own2) \X {n})
  BY <1>7, <1>15
<1> QED BY <1>3, <1>6, <1>16, <1>17, <1>18, <1>19, <1>20 DEF L!Enter, top

\* An emptied chain is a cleared ledger.
LEMMA NothingIsCounted ==
  /\ Through(FactsIn(<<>>), 0) = {} /\ Through(Gives(EmptyRegister.changes), 0) = {}
  /\ MovesAmong(EmptyRegister.last_balance_tx, FactsIn(<<>>), 0) = [k \in Keys |-> 0]
<1>1. FactsIn(<<>>) = {} /\ Gives(EmptyRegister.changes) = {}
  BY NothingStands
<1>2. \A k \in Keys : EmptyRegister.last_balance_tx[k] = 0
  BY DEF EmptyRegister
<1>3. MovesAmong(EmptyRegister.last_balance_tx, FactsIn(<<>>), 0) = [k \in Keys |-> 0]
  BY <1>2 DEF MovesAmong
<1> QED BY <1>1, <1>3 DEF Through

LEMMA EmptiedClears ==
  ASSUME Emptied
  PROVE  L!Clear
<1>1. /\ segments' = <<>> /\ addresses' = EmptyRegister
      /\ min_tx_nr' = 0 /\ max_tx_nr' = 0 /\ transaction_count' = 0
  BY DEF Emptied
<1>2. CountedFacts' = {} /\ CountedTypes' = {} /\ CountedMoves' = [k \in Keys |-> 0]
  BY <1>1, CountedAreNext, NothingIsCounted
<1> QED BY <1>1, <1>2 DEF L!Clear

LEMMA InitIsEmptyLedger ==
  ASSUME Init
  PROVE  L!Init
<1>1. /\ segments = <<>> /\ addresses = EmptyRegister
      /\ min_tx_nr = 0 /\ max_tx_nr = 0 /\ transaction_count = 0
  BY DEF Init
<1>2. CountedFacts = {} /\ CountedTypes = {} /\ CountedMoves = [k \in Keys |-> 0]
  BY <1>1, CountedAre, NothingIsCounted
<1> QED BY <1>1, <1>2 DEF L!Init

\* Every step keeps the invariant and is a step of the ledger, or none.
LEMMA EveryStep ==
  ASSUME NEW home, LedgerInv(home), [NextLedger]_answerVars,
         \A tx \in Arrivals : tx.community = home /\ UnknownTypes(tx) = {}
  PROVE  LedgerInv(home)' /\ [L!Next]_L!ledgerVars
<1>1. RetryInv'
  BY DeliveringIsRetrying, NextRetryInv DEF LedgerInv
<1>2. CASE Lifecycle
  <2>1. Emptied
    BY <1>2 DEF Lifecycle, Initialise, Release, Reset
  <2> QED BY <1>1, <2>1, EmptiedKeeps, EmptiedClears DEF L!Next
<1>3. ASSUME NEW tx \in Arrivals, Deliver(tx)
      PROVE  LedgerInv(home)' /\ [L!Next]_L!ledgerVars
  <2>1. refused \in {tx, NoTransaction} /\ StartsInRow(tx)
    BY <1>3 DEF Deliver
  <2>2. CASE Add(tx)
    <3>1. LedgerInv(home)'
      BY <1>1, <2>1, <2>2, AddKeeps
    <3>2. L!Enter(tx)
      BY <2>1, <2>2, <3>1, AddEnters
    <3> QED BY <3>1, <3>2 DEF L!Next
  <2>3. CASE RefusedOpening(tx) \/ RefusedInSegment(tx) \/ RefusedInRegister(tx)
    <3>1. LedgerInv(home)' /\ LeavesLedger
      BY <1>1, <2>1, <2>3, OpeningRefusalKeeps, SegmentRefusalKeeps, RegisterRefusalKeeps
    <3> QED BY <3>1, RefusalStutters
  <2> QED BY <1>3, <2>2, <2>3 DEF Deliver
<1>4. CASE UNCHANGED answerVars
  <2>1. LedgerInv(home)' /\ LeavesLedger
    BY <1>1, <1>4, StutterKeeps DEF answerVars
  <2> QED BY <2>1, RefusalStutters
<1> QED BY <1>2, <1>3, <1>4 DEF NextLedger

(***************************************************************************)
(* A chain of one community, fed transactions of address types the library *)
(* knows by a caller who adds again what found no room, implements the     *)
(* ledger: whatever an add wrote before it was refused, in however many    *)
(* attempts, its transaction enters in one step and whole.  grdb_chain_add *)
(* and the writes of grdb_transactions_add and grdb_addresses_add under it.*)
(***************************************************************************)
THEOREM ChainIsLedger ==
  ASSUME NEW home \in Communities,
         \A tx \in Arrivals : tx.community = home /\ UnknownTypes(tx) = {}
  PROVE  LedgerSpec => ImplementsLedger
<1>1. InitLedger => LedgerInv(home) /\ L!Init
  BY InitLedgerInv, InitIsEmptyLedger DEF InitLedger
<1>2. LedgerInv(home) /\ [NextLedger]_answerVars => LedgerInv(home)' /\ [L!Next]_L!ledgerVars
  BY EveryStep
<1> QED BY <1>1, <1>2, PTL DEF LedgerSpec, ImplementsLedger, L!Spec

=============================================================================
