------------------------------ MODULE StoreProofs ------------------------------
(***************************************************************************)
(* The invariants of StoredChain for every value of its constants.         *)
(***************************************************************************)
EXTENDS StoredChain, TLAPS

(***************************************************************************)
(* What every decode leaves: a place that is blank, as it was or filled    *)
(* from the bytes, with an arena of its own that is open.                  *)
(***************************************************************************)
LEMMA DecodeLeaves ==
  ASSUME arenas \subseteq Arenas,
         NEW tx \in DecodedTransaction,
         NEW bytes \in SerializedTransaction,
         NEW d \in InitFromProtobuf(tx, bytes)
  PROVE  /\ d.tx \in DecodedTransaction
         /\ d.arenas \subseteq Arenas
         /\ arenas \ {tx.arena} \subseteq d.arenas
         /\ d.result \in {"success", "out_of_memory", "decode_failed", "enum_unhandled"}
         /\ d.tx.arena = NoArena
            \/ (d.tx.arena = tx.arena /\ d.arenas = arenas)
            \/ (d.tx.arena \in d.arenas /\ d.tx.arena \notin arenas \ {tx.arena})
         /\ d.tx.body # NoBody => d.tx = tx \/ d.tx.arena # NoArena
         /\ d.result = "success" =>
              /\ bytes.form = "whole"
              /\ d.tx.tx_nr = bytes.id
              /\ d.tx.body = bytes.body
              /\ d.tx.arena \in d.arenas
              /\ d.tx.arena \notin arenas \ {tx.arena}
<1> DEFINE left == arenas \ {tx.arena}
           filled(a) == [tx_nr |-> bytes.id,
                         body |-> IF bytes.form = "whole" THEN bytes.body ELSE NoBody,
                         arena |-> a]
<1>1. CASE d = [tx |-> tx, arenas |-> arenas, result |-> "out_of_memory"]
  BY <1>1
<1>2. CASE d = [tx |-> tx, arenas |-> arenas, result |-> "decode_failed"]
  BY <1>2
<1>3. CASE d = [tx |-> Blank, arenas |-> left, result |-> "out_of_memory"]
  <2>1. Blank \in DecodedTransaction /\ Blank.arena = NoArena /\ Blank.body = NoBody
    BY SerializedAssumption DEF Blank, DecodedTransaction, Numbers
  <2> QED
    BY <1>3, <2>1
<1>4. ASSUME NEW a \in Opened(left),
             d = [tx |-> filled(a), arenas |-> left \cup {a},
                  result |-> IF bytes.form = "whole" THEN "success" ELSE "enum_unhandled"]
      PROVE  /\ d.tx \in DecodedTransaction
             /\ d.arenas \subseteq Arenas
             /\ left \subseteq d.arenas
             /\ d.result \in {"success", "enum_unhandled"}
             /\ d.tx.arena \in d.arenas
             /\ d.tx.arena # NoArena
             /\ d.tx.arena \notin left
             /\ d.result = "success" =>
                  /\ bytes.form = "whole"
                  /\ d.tx.tx_nr = bytes.id
                  /\ d.tx.body = bytes.body
  <2>1. a \in Arenas /\ a # NoArena /\ a \notin left
    BY SerializedAssumption DEF Opened, Arenas, NoArena
  <2>2. bytes.id \in Numbers /\ bytes.body \in Bodies
    BY DEF SerializedTransaction
  <2>3. filled(a) \in DecodedTransaction
    BY <2>1, <2>2 DEF DecodedTransaction
  <2>4. d.tx = filled(a) /\ d.arenas = left \cup {a}
    BY <1>4
  <2>5. d.tx.arena = a /\ d.tx.tx_nr = bytes.id
    BY <2>4
  <2>6. d.result = "success" => bytes.form = "whole" /\ d.tx.body = bytes.body
    BY <1>4
  <2> QED
    BY <1>4, <2>1, <2>3, <2>4, <2>5, <2>6
<1>5. \/ d = [tx |-> tx, arenas |-> arenas, result |-> "out_of_memory"]
      \/ d = [tx |-> tx, arenas |-> arenas, result |-> "decode_failed"]
      \/ d = [tx |-> Blank, arenas |-> left, result |-> "out_of_memory"]
      \/ \E a \in Opened(left) :
           d = [tx |-> filled(a), arenas |-> left \cup {a},
                result |-> IF bytes.form = "whole" THEN "success" ELSE "enum_unhandled"]
  BY DEF InitFromProtobuf, FromWire, Released
<1> QED
  BY <1>1, <1>2, <1>3, <1>4, <1>5

-----------------------------------------------------------------------------
(***************************************************************************)
(* The inductive invariant: what the runs check, and what it takes to see  *)
(* that it lasts.  A node has one of the two stores, so the other's place  *)
(* is empty; a struct that says something has its arena; and what the      *)
(* adapter holds under a number is whole.                                  *)
(***************************************************************************)
OneStoreOnly ==
  /\ kind = "in_memory" => adapter = NoAdapter
  /\ kind = "host" => store = Zeroed /\ own = Blank

OwnHasItsArena == own.body # NoBody => own.arena # NoArena

HeldIsWhole ==
  adapter.held_tx_nr # 0 => /\ adapter.held.tx_nr = adapter.held_tx_nr
                            /\ adapter.held.body \in Bodies
                            /\ adapter.held.arena # NoArena

IInv ==
  /\ TypeOK
  /\ KeptUnderTheirNumbers
  /\ EveryArenaHasOneOwner
  /\ HostMinds => HeldIsTheHostsRow
  /\ NoRowStaysOpen
  /\ OneStoreOnly
  /\ OwnHasItsArena
  /\ HeldIsWhole

(***************************************************************************)
(* A place given up or never filled has no number and no arena.            *)
(***************************************************************************)
LEMMA BlankFacts ==
  /\ Blank \in DecodedTransaction
  /\ Blank.tx_nr = 0 /\ Blank.body = NoBody /\ Blank.arena = NoArena
  /\ NoBody \notin Bodies /\ NoArena \notin Arenas /\ 0 \in Numbers
  /\ Zeroed \in InMemoryStore /\ Zeroed.records = <<>>
  /\ Zeroed.first_tx_nr = 0 /\ Zeroed.max_tx_nr = 0
  /\ NoAdapter \in Adapter /\ NoAdapter.held = Blank /\ NoAdapter.held_tx_nr = 0
<1>1. 0 \in Numbers
  BY SerializedAssumption DEF Numbers
<1>2. NoArena \notin Arenas /\ NoBody \notin Bodies
  BY SerializedAssumption DEF Arenas, NoArena
<1>3. Blank \in DecodedTransaction
  BY <1>1 DEF Blank, DecodedTransaction
<1>4. Blank.tx_nr = 0 /\ Blank.body = NoBody /\ Blank.arena = NoArena
  BY DEF Blank
<1>5. Zeroed \in InMemoryStore
  <2>1. <<>> \in Seq(DecodedTransaction)
    OBVIOUS
  <2> QED
    BY <1>1, <2>1 DEF Zeroed, InMemoryStore
<1>6. Zeroed.records = <<>> /\ Zeroed.first_tx_nr = 0 /\ Zeroed.max_tx_nr = 0
  BY DEF Zeroed
<1>7. NoAdapter \in Adapter /\ NoAdapter.held = Blank /\ NoAdapter.held_tx_nr = 0
  BY <1>1, <1>3 DEF NoAdapter, Adapter
<1> QED
  BY <1>1, <1>2, <1>3, <1>4, <1>5, <1>6, <1>7

(***************************************************************************)
(* A store emptied and made ready again keeps nothing.                     *)
(***************************************************************************)
LEMMA EmptyStoreStands ==
  ASSUME NEW s, s = [Zeroed EXCEPT !.ready = TRUE] \/ s = Zeroed
  PROVE  /\ s \in InMemoryStore
         /\ s.records = <<>>
         /\ s.first_tx_nr = 0
<1>1. <<>> \in Seq(DecodedTransaction)
  OBVIOUS
<1> QED
  BY <1>1, BlankFacts DEF Zeroed, InMemoryStore

(***************************************************************************)
(* Keeping one more transaction, under the number that comes next.         *)
(***************************************************************************)
LEMMA KeptStands ==
  ASSUME store \in InMemoryStore,
         KeptUnderTheirNumbers,
         NEW tx \in DecodedTransaction,
         tx.body # NoBody,
         IsNext(tx.tx_nr),
         store' = Kept(tx)
  PROVE  /\ store' \in InMemoryStore
         /\ store'.records = Append(store.records, tx)
         /\ KeptUnderTheirNumbers'
<1>1. /\ store.records \in Seq(DecodedTransaction)
      /\ store.first_tx_nr \in Nat /\ store.max_tx_nr \in Nat
      /\ store.first_tx_nr \in Numbers
      /\ tx.tx_nr \in Numbers /\ tx.tx_nr \in Nat /\ tx.body \in Bodies
  BY SerializedAssumption DEF InMemoryStore, DecodedTransaction, Numbers
<1>2. /\ store'.records = Append(store.records, tx)
      /\ store'.first_tx_nr = IF store.first_tx_nr = 0 THEN tx.tx_nr ELSE store.first_tx_nr
      /\ store'.max_tx_nr = tx.tx_nr
  BY DEF Kept, InMemoryStore
<1>3. store' \in InMemoryStore
  <2>1. Append(store.records, tx) \in Seq(DecodedTransaction)
    BY <1>1
  <2> QED
    BY <1>1, <2>1 DEF Kept, InMemoryStore
<1>4. KeptUnderTheirNumbers'
  <2>1. Len(store'.records) = store'.max_tx_nr - store'.first_tx_nr + 1
        /\ store'.first_tx_nr # 0
    <3> DEFINE n     == Len(store.records)
               first == store.first_tx_nr
               last  == store.max_tx_nr
    <3>1. /\ n = IF first = 0 THEN 0 ELSE last - first + 1
          /\ first # 0 => tx.tx_nr = last + 1
          /\ tx.tx_nr # 0
      BY <1>1 DEF KeptUnderTheirNumbers, IsNext
    <3>2. Len(store'.records) = n + 1
      BY <1>1, <1>2
    <3> HIDE DEF n, last
    <3>3. CASE first = 0
      BY <1>1, <1>2, <3>1, <3>2, <3>3
    <3>4. CASE first # 0
      BY <1>1, <1>2, <3>1, <3>2, <3>4 DEF last
    <3> QED BY <3>3, <3>4
  <2>2. ASSUME NEW i \in DOMAIN store'.records
        PROVE  /\ store'.records[i].tx_nr = store'.first_tx_nr + i - 1
               /\ store'.records[i].body \in Bodies
    <3>1. CASE i \in DOMAIN store.records
      <4>1. i \in 1..Len(store.records) /\ store'.records[i] = store.records[i]
        BY <3>1, <1>1, <1>2
      <4>2. /\ store.records[i].tx_nr = store.first_tx_nr + i - 1
            /\ store.records[i].body \in Bodies
        BY <3>1 DEF KeptUnderTheirNumbers
      <4>3. Len(store.records) \in Nat /\ Len(store.records) # 0
        BY <1>1, <4>1
      <4>4. store.first_tx_nr # 0
        BY <4>3 DEF KeptUnderTheirNumbers
      <4>5. store'.first_tx_nr = store.first_tx_nr
        BY <1>2, <4>4
      <4> QED
        BY <4>1, <4>2, <4>5
    <3>2. CASE i = Len(store.records) + 1
      <4>1. store'.records[i] = tx
        BY <3>2, <1>1, <1>2
      <4>2. i = store'.max_tx_nr - store'.first_tx_nr + 1
        BY <3>2, <1>1, <1>2, <2>1
      <4> QED
        BY <4>1, <4>2, <1>1, <1>2
    <3> QED
      BY <1>1, <1>2, <3>1, <3>2
  <2> QED
    BY <2>1, <2>2 DEF KeptUnderTheirNumbers
<1> QED
  BY <1>2, <1>3, <1>4

-----------------------------------------------------------------------------
(***************************************************************************)
(* The invariant without what a step leaves alone: a step that changes the *)
(* store in memory, or the caller's struct, has these to show.             *)
(***************************************************************************)
MemoryPart ==
  /\ store \in InMemoryStore
  /\ own \in DecodedTransaction
  /\ arenas \subseteq Arenas
  /\ KeptUnderTheirNumbers
  /\ \A i \in DOMAIN store.records : store.records[i].arena \in arenas
  /\ \A i, j \in DOMAIN store.records :
       store.records[i].arena = store.records[j].arena => i = j
  /\ \A i \in DOMAIN store.records : store.records[i].arena # own.arena
  /\ own.arena # NoArena => own.arena \in arenas
  /\ OwnHasItsArena

(***************************************************************************)
(* The load that a call forgets is a load.                                 *)
(***************************************************************************)
LEMMA LoadStaysALoad ==
  ASSUME TypeOK, load' = load \/ load' = NoLoad
  PROVE  load' \in Load
<1>1. load \in Load
  BY Zenon DEF TypeOK
<1>2. NoLoad \in Load
  BY DEF NoLoad, Load, Results
<1> QED
  BY <1>1, <1>2

LEMMA MemoryPartSuffices ==
  ASSUME IInv, MemoryPart', kind = "in_memory",
         UNCHANGED <<adapterVars, kind, chain>>,
         load' = load \/ load' = NoLoad
  PROVE  IInv'
<1>1. adapter = NoAdapter /\ adapter' = NoAdapter
  BY DEF IInv, OneStoreOnly, adapterVars
<1>2. /\ adapter'.held_tx_nr = 0
      /\ adapter'.held.arena = NoArena
  BY <1>1, BlankFacts
<1>3. TypeOK'
  <2>1. load' \in Load
    BY LoadStaysALoad DEF IInv
  <2>2. /\ arenas' \subseteq Arenas
        /\ store' \in InMemoryStore
        /\ own' \in DecodedTransaction
    BY DEF MemoryPart
  <2> QED
    BY <2>1, <2>2 DEF IInv, TypeOK, adapterVars
<1>4. EveryArenaHasOneOwner'
  BY <1>2 DEF MemoryPart, EveryArenaHasOneOwner
<1>5. (HostMinds => HeldIsTheHostsRow)' /\ HeldIsWhole'
  BY <1>2 DEF HeldIsTheHostsRow, HeldIsWhole
<1>6. NoRowStaysOpen' /\ OneStoreOnly'
  BY <1>1 DEF IInv, NoRowStaysOpen, OneStoreOnly, adapterVars
<1> QED
  BY <1>3, <1>4, <1>5, <1>6 DEF IInv, MemoryPart

LEMMA MemoryPartHolds ==
  ASSUME IInv
  PROVE  MemoryPart
  BY DEF IInv, TypeOK, EveryArenaHasOneOwner, MemoryPart

(***************************************************************************)
(* Every step of the store in memory keeps the invariant.                  *)
(***************************************************************************)
LEMMA InMemoryKeeps ==
  ASSUME IInv, InMemoryNext
  PROVE  IInv'
<1>1. /\ kind = "in_memory"
      /\ UNCHANGED <<adapterVars, kind, chain>>
      /\ load' = load \/ load' = NoLoad
  BY DEF InMemoryNext, Heard
<1>2. SUFFICES MemoryPart'
  BY <1>1, MemoryPartSuffices
<1>3. MemoryPart
  BY MemoryPartHolds
<1> USE <1>3
<1>4. /\ store.records \in Seq(DecodedTransaction)
      /\ \A i \in DOMAIN store.records : store.records[i].arena # NoArena
  BY BlankFacts DEF MemoryPart, InMemoryStore
<1>5. ASSUME store' = [Zeroed EXCEPT !.ready = TRUE] \/ store' = Zeroed,
             own' = own,
             arenas' = arenas \/ arenas' = arenas \ RecordArenas
      PROVE  MemoryPart'
  <2>1. store' \in InMemoryStore /\ store'.records = <<>> /\ store'.first_tx_nr = 0
    BY <1>5, EmptyStoreStands
  <2>2. KeptUnderTheirNumbers'
    BY <2>1 DEF KeptUnderTheirNumbers
  <2>3. own'.arena # NoArena => own'.arena \in arenas'
    BY <1>5 DEF MemoryPart, RecordArenas
  <2>4. arenas' \subseteq Arenas /\ own' \in DecodedTransaction /\ OwnHasItsArena'
    BY <1>5 DEF MemoryPart, OwnHasItsArena
  <2> QED
    BY <2>1, <2>2, <2>3, <2>4 DEF MemoryPart
<1>6. CASE InMemoryInit
  BY <1>5, <1>6 DEF InMemoryInit
<1>7. CASE InMemoryRelease
  BY <1>5, <1>7 DEF InMemoryRelease
<1>8. CASE InMemoryReset
  BY <1>5, <1>8 DEF InMemoryReset
<1>9. CASE own.body # NoBody /\ MoveIn
  <2>1. CASE UNCHANGED <<store, own>>
    <3>1. UNCHANGED <<store, own, arenas>>
      BY <1>9, <2>1 DEF MoveIn
    <3> QED
      BY <3>1 DEF MemoryPart, KeptUnderTheirNumbers, OwnHasItsArena
  <2>2. CASE IsNext(own.tx_nr) /\ store' = Kept(own) /\ own' = MovedFrom(own)
    <3>1. arenas' = arenas /\ own' = Blank
      BY <1>9, <2>2 DEF MoveIn, MovedFrom
    <3>2. /\ store' \in InMemoryStore
          /\ store'.records = Append(store.records, own)
          /\ KeptUnderTheirNumbers'
      BY <1>9, <2>2, KeptStands DEF MemoryPart
    <3>3. own.arena \in arenas /\ own.arena # NoArena
      BY <1>9 DEF MemoryPart, OwnHasItsArena
    <3>4. /\ \A i \in DOMAIN store'.records : store'.records[i].arena \in arenas'
          /\ \A i, j \in DOMAIN store'.records :
               store'.records[i].arena = store'.records[j].arena => i = j
          /\ \A i \in DOMAIN store'.records : store'.records[i].arena # NoArena
      BY <1>4, <3>1, <3>2, <3>3 DEF MemoryPart
    <3>5. own'.arena = NoArena /\ own'.body = NoBody /\ own' \in DecodedTransaction
      BY <3>1, BlankFacts
    <3>6. OwnHasItsArena' /\ arenas' \subseteq Arenas
      BY <3>1, <3>5 DEF OwnHasItsArena, MemoryPart
    <3> QED
      BY <3>2, <3>4, <3>5, <3>6 DEF MemoryPart
  <2> QED
    BY <1>9, <2>1, <2>2 DEF MoveIn
<1>10. CASE OwnRelease
  <2>1. store' = store /\ own' = Blank /\ arenas' = arenas \ {own.arena}
    BY <1>10 DEF OwnRelease, Released
  <2>2. own'.arena = NoArena /\ own'.body = NoBody /\ own' \in DecodedTransaction
    BY <2>1, BlankFacts
  <2>3. KeptUnderTheirNumbers' /\ OwnHasItsArena'
    BY <2>1, <2>2 DEF MemoryPart, KeptUnderTheirNumbers, OwnHasItsArena
  <2> QED
    BY <1>4, <2>1, <2>2, <2>3 DEF MemoryPart
<1>11. ASSUME NEW bytes \in Offers, AppendSerialized(bytes)
       PROVE  MemoryPart'
  <2>1. own' = own
    BY <1>11 DEF AppendSerialized
  <2>2. bytes \in SerializedTransaction
    BY OfferAssumption
  <2>3. Blank \in DecodedTransaction /\ Blank.arena = NoArena
    BY BlankFacts
  <2>4. arenas \ {Blank.arena} = arenas
    BY BlankFacts DEF MemoryPart
  <2>5. CASE UNCHANGED <<store, arenas>>
    BY <2>1, <2>5 DEF MemoryPart, KeptUnderTheirNumbers, OwnHasItsArena
  <2>6. ASSUME NEW d \in InitFromProtobuf(Blank, bytes),
               \/ /\ d.result = "success"
                  /\ ~IsNext(d.tx.tx_nr)
                  /\ arenas' = Released(d.arenas, d.tx)
                  /\ UNCHANGED store
               \/ /\ d.result # "success"
                  /\ arenas' = d.arenas
                  /\ UNCHANGED store
        PROVE  MemoryPart'
    <3>1. /\ arenas \subseteq d.arenas
          /\ d.arenas \subseteq Arenas
          /\ d.result = "success" => d.tx.arena \notin arenas
      BY <2>2, <2>3, <2>4, DecodeLeaves DEF MemoryPart
    <3>2. store' = store /\ arenas \subseteq arenas' /\ arenas' \subseteq Arenas
      BY <2>6, <3>1 DEF Released
    <3>3. KeptUnderTheirNumbers' /\ OwnHasItsArena'
      BY <2>1, <3>2 DEF MemoryPart, KeptUnderTheirNumbers, OwnHasItsArena
    <3> QED
      BY <2>1, <3>2, <3>3 DEF MemoryPart
  <2>7. ASSUME NEW d \in InitFromProtobuf(Blank, bytes),
               d.result = "success",
               IsNext(d.tx.tx_nr),
               store' = Kept(d.tx),
               arenas' = d.arenas
        PROVE  MemoryPart'
    <3>1. /\ d.tx \in DecodedTransaction
          /\ arenas \subseteq d.arenas
          /\ d.arenas \subseteq Arenas
          /\ d.tx.body = bytes.body
          /\ d.tx.arena \in d.arenas /\ d.tx.arena \notin arenas
      BY <2>2, <2>3, <2>4, <2>7, DecodeLeaves DEF MemoryPart
    <3>2. d.tx.body # NoBody
      BY <2>2, <3>1, BlankFacts DEF SerializedTransaction
    <3>3. /\ store' \in InMemoryStore
          /\ store'.records = Append(store.records, d.tx)
          /\ KeptUnderTheirNumbers'
      BY <2>7, <3>1, <3>2, KeptStands DEF MemoryPart
    <3>4. d.tx.arena # own.arena
      <4>1. CASE own.arena = NoArena
        BY <4>1, <3>1, BlankFacts
      <4>2. CASE own.arena # NoArena
        BY <4>2, <3>1 DEF MemoryPart
      <4> QED
        BY <4>1, <4>2
    <3>5. /\ \A i \in DOMAIN store'.records : store'.records[i].arena \in arenas'
          /\ \A i, j \in DOMAIN store'.records :
               store'.records[i].arena = store'.records[j].arena => i = j
          /\ \A i \in DOMAIN store'.records : store'.records[i].arena # own'.arena
      BY <1>4, <2>1, <2>7, <3>1, <3>3, <3>4 DEF MemoryPart
    <3>6. /\ OwnHasItsArena' /\ arenas' \subseteq Arenas /\ own' \in DecodedTransaction
          /\ own'.arena # NoArena => own'.arena \in arenas'
      BY <2>1, <2>7, <3>1 DEF OwnHasItsArena, MemoryPart
    <3> QED
      BY <3>3, <3>5, <3>6 DEF MemoryPart
  <2> QED
    BY <1>11, <2>5, <2>6, <2>7 DEF AppendSerialized
<1>12. ASSUME NEW bytes \in Offers, OwnDecode(bytes)
       PROVE  MemoryPart'
  <2>1. PICK d \in InitFromProtobuf(own, bytes) :
          own' = d.tx /\ arenas' = d.arenas /\ store' = store
    BY <1>12 DEF OwnDecode
  <2>2. bytes \in SerializedTransaction
    BY OfferAssumption
  <2>3. /\ own' \in DecodedTransaction
        /\ arenas' \subseteq Arenas
        /\ arenas \ {own.arena} \subseteq arenas'
        /\ \/ own'.arena = NoArena
           \/ own'.arena = own.arena /\ arenas' = arenas
           \/ own'.arena \in arenas' /\ own'.arena \notin arenas \ {own.arena}
        /\ own'.body # NoBody => own' = own \/ own'.arena # NoArena
    BY <2>1, <2>2, DecodeLeaves DEF MemoryPart
  <2>4. /\ \A i \in DOMAIN store.records : store.records[i].arena \in arenas \ {own.arena}
    BY DEF MemoryPart
  <2>5. /\ \A i \in DOMAIN store'.records : store'.records[i].arena \in arenas'
        /\ \A i \in DOMAIN store'.records : store'.records[i].arena # own'.arena
    BY <1>4, <2>1, <2>3, <2>4 DEF MemoryPart
  <2>6. own'.arena # NoArena => own'.arena \in arenas'
    BY <2>3 DEF MemoryPart
  <2>7. KeptUnderTheirNumbers' /\ OwnHasItsArena' /\ store' \in InMemoryStore
    BY <2>1, <2>3 DEF MemoryPart, KeptUnderTheirNumbers, OwnHasItsArena
  <2>8. \A i, j \in DOMAIN store'.records :
          store'.records[i].arena = store'.records[j].arena => i = j
    BY <2>1 DEF MemoryPart
  <2> QED
    BY <2>3, <2>5, <2>6, <2>7, <2>8 DEF MemoryPart
<1> QED
  BY <1>6, <1>7, <1>8, <1>9, <1>10, <1>11, <1>12 DEF InMemoryNext

-----------------------------------------------------------------------------
(***************************************************************************)
(* What a fetch may leave: nothing of it when the store is in memory, and  *)
(* behind a host an adapter that still has its one arena, and holds under a*)
(* number only what it decoded to the end.                                 *)
(***************************************************************************)
AdapterStands(a, open) ==
  /\ a \in Adapter
  /\ open \subseteq Arenas
  /\ a.held.arena # NoArena => a.held.arena \in open
  /\ a.held_tx_nr # 0 => /\ a.held.tx_nr = a.held_tx_nr
                         /\ a.held.body \in Bodies
                         /\ a.held.arena # NoArena
                         /\ a.held.arena \in open
  /\ HostMinds /\ a.held_tx_nr # 0 =>
       /\ a.held_tx_nr \in DOMAIN rows
       /\ rows[a.held_tx_nr].form = "whole"
       /\ a.held.body = rows[a.held_tx_nr].body

FetchResults ==
  {"success", "out_of_bounds", "decode_failed", "enum_unhandled", "out_of_memory"}

RowsTyped ==
  /\ DOMAIN rows \subseteq Numbers \ {0}
  /\ \A n \in DOMAIN rows : rows[n] \in SerializedTransaction /\ rows[n].id = n

LEMMA HostFetchLeaves ==
  ASSUME arenas \subseteq Arenas,
         RowsTyped,
         AdapterStands(adapter, arenas),
         handedOver \in Nat,
         NEW tx_nr \in Nat,
         NEW o \in HostFetches(tx_nr)
  PROVE  /\ AdapterStands(o.adapter, o.arenas)
         /\ o.handedOver = handedOver
         /\ o.result \in FetchResults
         /\ o.result = "success" => o.adapter.held_tx_nr # 0
<1>1. ToldDone(HandedOver) = handedOver
  BY DEF ToldDone, HandedOver
<1>2. ASSUME NEW result \in FetchResults, o = Refuses(result)
      PROVE  /\ AdapterStands(o.adapter, o.arenas)
             /\ o.handedOver = handedOver
             /\ o.result = result
  <2>1. /\ o.adapter = adapter /\ o.arenas = arenas
        /\ o.handedOver = handedOver /\ o.result = result
    BY <1>2 DEF Refuses
  <2> QED
    BY <2>1
<1>3. CASE IsHeld(tx_nr)
  <2>1. o = Refuses("success")
    BY <1>3 DEF HostFetches
  <2>2. o.adapter = adapter
    BY <2>1 DEF Refuses
  <2> QED
    BY <1>2, <1>3, <2>1, <2>2 DEF FetchResults, IsHeld
<1>4. ASSUME o = [Refuses("decode_failed") EXCEPT !.handedOver = ToldDone(HandedOver)]
      PROVE  /\ AdapterStands(o.adapter, o.arenas)
             /\ o.handedOver = handedOver
             /\ o.result = "decode_failed"
  <2>1. /\ o.adapter = adapter /\ o.arenas = arenas
        /\ o.handedOver = handedOver /\ o.result = "decode_failed"
    BY <1>1, <1>4 DEF Refuses
  <2> QED
    BY <2>1
<1>5. ASSUME NEW n \in DOMAIN rows \cap {tx_nr},
             NEW d \in InitFromProtobuf(adapter.held, rows[n]),
             o = [result |-> d.result,
                  adapter |-> HeldAfterDecode(tx_nr, d),
                  arenas |-> d.arenas,
                  handedOver |-> OpenAfterDecode(d)]
      PROVE  /\ AdapterStands(o.adapter, o.arenas)
             /\ o.handedOver = handedOver
             /\ o.result \in FetchResults
             /\ o.result = "success" => o.adapter.held_tx_nr # 0
  <2>1. /\ n = tx_nr /\ tx_nr \in Numbers /\ tx_nr # 0 /\ tx_nr \in DOMAIN rows
        /\ rows[n] \in SerializedTransaction /\ rows[n].id = tx_nr
    BY DEF RowsTyped
  <2>2. adapter \in Adapter /\ adapter.held \in DecodedTransaction
    BY DEF AdapterStands, Adapter
  <2>3. /\ d.tx \in DecodedTransaction
        /\ d.arenas \subseteq Arenas
        /\ d.result \in {"success", "out_of_memory", "decode_failed", "enum_unhandled"}
        /\ \/ d.tx.arena = NoArena
           \/ d.tx.arena = adapter.held.arena /\ d.arenas = arenas
           \/ d.tx.arena \in d.arenas
        /\ d.result = "success" =>
             /\ rows[n].form = "whole"
             /\ d.tx.tx_nr = rows[n].id
             /\ d.tx.body = rows[n].body
             /\ d.tx.arena \in d.arenas
    BY <2>1, <2>2, DecodeLeaves
  <2>4. /\ o.adapter = HeldAfterDecode(tx_nr, d)
        /\ o.arenas = d.arenas
        /\ o.result = d.result
        /\ o.handedOver = handedOver
    BY <1>1, <1>5 DEF OpenAfterDecode
  <2>5. /\ o.adapter \in Adapter
        /\ o.adapter.held = d.tx
        /\ o.adapter.held_tx_nr = IF d.result = "success" THEN tx_nr ELSE 0
    BY <2>1, <2>2, <2>3, <2>4, BlankFacts DEF HeldAfterDecode, Adapter
  <2>6. o.adapter.held.arena # NoArena => o.adapter.held.arena \in o.arenas
    BY <2>3, <2>4, <2>5 DEF AdapterStands
  <2>7. o.adapter.held_tx_nr # 0 =>
          /\ o.adapter.held.tx_nr = o.adapter.held_tx_nr
          /\ o.adapter.held.body \in Bodies
          /\ o.adapter.held.arena # NoArena
          /\ o.adapter.held.arena \in o.arenas
          /\ o.adapter.held_tx_nr \in DOMAIN rows
          /\ rows[o.adapter.held_tx_nr].form = "whole"
          /\ o.adapter.held.body = rows[o.adapter.held_tx_nr].body
    BY <2>1, <2>3, <2>4, <2>5, BlankFacts DEF SerializedTransaction
  <2>8. o.arenas \subseteq Arenas
    BY <2>3, <2>4
  <2>9. AdapterStands(o.adapter, o.arenas)
    BY <2>5, <2>6, <2>7, <2>8 DEF AdapterStands
  <2>10. o.result \in FetchResults /\ (o.result = "success" => o.adapter.held_tx_nr # 0)
    BY <2>1, <2>3, <2>4, <2>5 DEF FetchResults
  <2> QED
    BY <2>4, <2>9, <2>10
<1>6. \/ IsHeld(tx_nr)
      \/ o = Refuses("out_of_bounds")
      \/ o = Refuses("decode_failed")
      \/ o = [Refuses("decode_failed") EXCEPT !.handedOver = ToldDone(HandedOver)]
      \/ \E n \in DOMAIN rows \cap {tx_nr} :
           \E d \in InitFromProtobuf(adapter.held, rows[n]) :
             o = [result |-> d.result,
                  adapter |-> HeldAfterDecode(tx_nr, d),
                  arenas |-> d.arenas,
                  handedOver |-> OpenAfterDecode(d)]
  BY Zenon DEF HostFetches
<1>7. /\ "success" \in FetchResults /\ "out_of_bounds" \in FetchResults
      /\ "decode_failed" \in FetchResults
  BY DEF FetchResults
<1> QED
  BY <1>2, <1>3, <1>4, <1>5, <1>6, <1>7

-----------------------------------------------------------------------------
(***************************************************************************)
(* The invariant without what the host's side of a step leaves alone.      *)
(***************************************************************************)
HostPart ==
  /\ RowsTyped
  /\ AdapterStands(adapter, arenas)
  /\ handedOver = 0

LEMMA HostPartHolds ==
  ASSUME IInv
  PROVE  HostPart
<1>1. TypeOK /\ EveryArenaHasOneOwner /\ HeldIsWhole /\ (HostMinds => HeldIsTheHostsRow)
      /\ handedOver = 0
  BY DEF IInv, NoRowStaysOpen
<1>2. RowsTyped /\ adapter \in Adapter /\ arenas \subseteq Arenas
  BY <1>1, Zenon DEF TypeOK, RowsTyped
<1>3. adapter.held.arena # NoArena => adapter.held.arena \in arenas
  BY <1>1 DEF EveryArenaHasOneOwner
<1>4. AdapterStands(adapter, arenas)
  BY <1>1, <1>2, <1>3 DEF AdapterStands, HeldIsWhole, HeldIsTheHostsRow
<1> QED
  BY <1>1, <1>2, <1>4 DEF HostPart

(***************************************************************************)
(* A step that leaves the store in memory alone keeps the invariant if it  *)
(* keeps the host's part, and the chain and the load their types.          *)
(***************************************************************************)
LEMMA HostPartSuffices ==
  ASSUME IInv, HostPart',
         UNCHANGED <<store, own, kind, callbacks>>,
         kind = "in_memory" => adapter' = adapter /\ arenas' = arenas,
         chain' \in [first : Numbers, bodies : Seq(Bodies)],
         load' \in Load
  PROVE  IInv'
<1>1. /\ RowsTyped' /\ adapter' \in Adapter /\ arenas' \subseteq Arenas
      /\ handedOver' = 0
      /\ adapter'.held.arena # NoArena => adapter'.held.arena \in arenas'
  BY DEF HostPart, AdapterStands
<1>2. TypeOK'
  BY <1>1 DEF IInv, TypeOK, RowsTyped
<1>3. KeptUnderTheirNumbers' /\ OwnHasItsArena'
  BY DEF IInv, KeptUnderTheirNumbers, OwnHasItsArena
<1>4. OneStoreOnly'
  BY DEF IInv, OneStoreOnly
<1>5. EveryArenaHasOneOwner'
  <2>1. CASE kind = "in_memory"
    BY <2>1 DEF IInv, EveryArenaHasOneOwner
  <2>2. CASE kind = "host"
    <3>1. store' = Zeroed /\ own' = Blank
      BY <2>2 DEF IInv, OneStoreOnly
    <3>2. DOMAIN store'.records = {} /\ own'.arena = NoArena
      BY <3>1, BlankFacts
    <3> QED
      BY <1>1, <3>2 DEF EveryArenaHasOneOwner
  <2> QED
    BY <2>1, <2>2 DEF IInv, TypeOK
<1>6. (HostMinds => HeldIsTheHostsRow)' /\ HeldIsWhole'
  BY DEF HostPart, AdapterStands, HeldIsTheHostsRow, HeldIsWhole
<1>7. NoRowStaysOpen'
  BY <1>1 DEF NoRowStaysOpen
<1> QED
  BY <1>2, <1>3, <1>4, <1>5, <1>6, <1>7 DEF IInv

(***************************************************************************)
(* One more row, under the number it carries; a host that minds keeps what *)
(* it has under every other.                                               *)
(***************************************************************************)
LEMMA RowsStand ==
  ASSUME RowsTyped,
         AdapterStands(adapter, arenas),
         NEW bytes \in Offers,
         bytes.id # 0,
         HostMinds => Continues(bytes.id),
         rows' = WithRow(bytes),
         adapter' = adapter, arenas' = arenas
  PROVE  RowsTyped' /\ AdapterStands(adapter, arenas)'
<1>1. bytes \in SerializedTransaction /\ bytes.id \in Numbers
  BY OfferAssumption DEF SerializedTransaction
<1>2. /\ DOMAIN rows' = DOMAIN rows \cup {bytes.id}
      /\ \A n \in DOMAIN rows' : rows'[n] = IF n = bytes.id THEN bytes ELSE rows[n]
  BY DEF WithRow
<1>3. RowsTyped'
  BY <1>1, <1>2 DEF RowsTyped
<1>4. HostMinds => bytes.id \notin DOMAIN rows
  <2>1. ASSUME HostMinds, bytes.id \in DOMAIN rows
        PROVE  FALSE
    <3>1. bytes.id < bytes.id
      BY <2>1 DEF Continues
    <3>2. bytes.id \in Nat
      BY <1>1, SerializedAssumption DEF Numbers
    <3> QED
      BY <3>1, <3>2
  <2> QED
    BY <2>1
<1>5. HostMinds => \A n \in DOMAIN rows : n \in DOMAIN rows' /\ rows'[n] = rows[n]
  BY <1>2, <1>4
<1>6. AdapterStands(adapter, arenas)'
  BY <1>5 DEF AdapterStands
<1> QED
  BY <1>3, <1>6

LEMMA HostKeeps ==
  ASSUME IInv, HostNext
  PROVE  IInv'
<1>1. /\ kind = "host"
      /\ UNCHANGED <<store, own, kind, chain>>
      /\ load' = load \/ load' = NoLoad
  BY DEF HostNext, Heard, inMemoryVars
<1>2. HostPart
  BY HostPartHolds
<1>3. load' \in Load
  BY <1>1, LoadStaysALoad DEF IInv
<1>4. chain' \in [first : Numbers, bodies : Seq(Bodies)]
  BY <1>1 DEF IInv, TypeOK
<1>5. SUFFICES HostPart' /\ callbacks' = callbacks
  BY <1>1, <1>3, <1>4, HostPartSuffices
<1>6. ASSUME NEW bytes \in Offers, HostReceives(bytes)
      PROVE  HostPart' /\ callbacks' = callbacks
  <2>1. /\ Continues(bytes.id) /\ rows' = WithRow(bytes)
        /\ UNCHANGED <<adapter, callbacks, handedOver, arenas>>
    BY <1>6 DEF HostReceives
  <2>2. bytes.id # 0
    BY <2>1 DEF Continues
  <2>3. RowsTyped' /\ AdapterStands(adapter, arenas)'
    BY <1>2, <2>1, <2>2, RowsStand DEF HostPart
  <2> QED
    BY <1>2, <2>1, <2>3 DEF HostPart
<1>7. ASSUME NEW bytes \in Offers, HostPut(bytes)
      PROVE  HostPart' /\ callbacks' = callbacks
  <2>1. UNCHANGED <<adapter, callbacks, handedOver, arenas>>
    BY <1>7 DEF HostPut
  <2>2. CASE rows' = rows
    BY <1>2, <2>1, <2>2 DEF HostPart, RowsTyped, AdapterStands
  <2>3. CASE bytes.id # 0 /\ (HostMinds => Continues(bytes.id)) /\ rows' = WithRow(bytes)
    <3>1. RowsTyped' /\ AdapterStands(adapter, arenas)'
      BY <1>2, <2>1, <2>3, RowsStand DEF HostPart
    <3> QED
      BY <1>2, <2>1, <3>1 DEF HostPart
  <2> QED
    BY <1>7, <2>1, <2>2, <2>3 DEF HostPut
<1>8. CASE AdapterInit
  <2>1. /\ adapter' = [NoAdapter EXCEPT !.ready = TRUE]
        /\ UNCHANGED <<callbacks, rows, handedOver, arenas>>
    BY <1>8 DEF AdapterInit, hostVars
  <2>2. adapter' \in Adapter /\ adapter'.held_tx_nr = 0 /\ adapter'.held.arena = NoArena
    BY <2>1, BlankFacts DEF NoAdapter, Adapter
  <2>3. AdapterStands(adapter, arenas)'
    BY <1>2, <2>1, <2>2 DEF HostPart, AdapterStands
  <2> QED
    BY <1>2, <2>1, <2>3 DEF HostPart, RowsTyped
<1>9. CASE AdapterRelease
  <2>1. /\ adapter' = NoAdapter /\ arenas' \subseteq arenas
        /\ UNCHANGED <<callbacks, rows, handedOver>>
    BY <1>9 DEF AdapterRelease, hostVars, Released
  <2>2. adapter' \in Adapter /\ adapter'.held_tx_nr = 0 /\ adapter'.held.arena = NoArena
    BY <2>1, BlankFacts
  <2>3. AdapterStands(adapter, arenas)'
    BY <1>2, <2>1, <2>2 DEF HostPart, AdapterStands
  <2> QED
    BY <1>2, <2>1, <2>3 DEF HostPart, RowsTyped
<1> QED
  BY <1>6, <1>7, <1>8, <1>9 DEF HostNext

-----------------------------------------------------------------------------
(***************************************************************************)
(* A fetch through the chain's pointer, whichever store is behind it.      *)
(***************************************************************************)
LEMMA FetchLeaves ==
  ASSUME IInv,
         NEW tx_nr \in Nat,
         NEW fetched \in StoreFetches(tx_nr),
         StoreIsAs(fetched)
  PROVE  /\ HostPart'
         /\ UNCHANGED <<store, own, kind, callbacks>>
         /\ kind = "in_memory" => adapter' = adapter /\ arenas' = arenas
         /\ fetched.result \in FetchResults
         /\ fetched.result = "success" =>
              fetched.tx.body \in Bodies /\ fetched.tx.tx_nr \in Numbers
<1>1. HostPart
  BY HostPartHolds
<1>2. /\ adapter' = fetched.adapter /\ arenas' = fetched.arenas
      /\ handedOver' = fetched.handedOver
      /\ UNCHANGED <<store, own, callbacks, rows, kind>>
  BY DEF StoreIsAs
<1>3. CASE kind = "in_memory"
  <2>1. /\ fetched.adapter = adapter /\ fetched.arenas = arenas
        /\ fetched.handedOver = handedOver
        /\ fetched.result = IF Holds(tx_nr) THEN "success" ELSE "out_of_bounds"
        /\ fetched.tx = IF Holds(tx_nr) THEN RecordOf(tx_nr) ELSE Blank
    BY <1>3 DEF StoreFetches
  <2>2. Holds(tx_nr) => fetched.tx.body \in Bodies /\ fetched.tx.tx_nr \in Numbers
    <3>1. /\ store \in InMemoryStore /\ KeptUnderTheirNumbers
      BY DEF IInv, TypeOK
    <3>2. /\ store.first_tx_nr \in Nat /\ store.max_tx_nr \in Nat
          /\ store.records \in Seq(DecodedTransaction)
      BY <3>1, SerializedAssumption DEF InMemoryStore, Numbers
    <3>3. SUFFICES ASSUME Holds(tx_nr)
                   PROVE  fetched.tx.body \in Bodies /\ fetched.tx.tx_nr \in Numbers
      OBVIOUS
    <3> DEFINE place == tx_nr - store.first_tx_nr + 1
    <3>4. place \in DOMAIN store.records
      BY <3>1, <3>2, <3>3 DEF Holds, KeptUnderTheirNumbers
    <3>5. store.records[place] \in DecodedTransaction /\ store.records[place].body \in Bodies
      <4>1. store.records[place].body \in Bodies
        BY <3>1, <3>4 DEF KeptUnderTheirNumbers
      <4> HIDE DEF place
      <4>2. store.records[place] \in DecodedTransaction
        BY <3>2, <3>4
      <4> QED BY <4>1, <4>2
    <3> QED
      BY <2>1, <3>3, <3>5 DEF RecordOf, DecodedTransaction
  <2>3. HostPart'
    BY <1>1, <1>2, <2>1 DEF HostPart, RowsTyped, AdapterStands
  <2> QED
    BY <1>2, <2>1, <2>2, <2>3 DEF FetchResults
<1>4. CASE kind = "host"
  <2>1. PICK o \in HostFetches(tx_nr) :
          fetched = [result |-> o.result, tx |-> o.adapter.held,
                     adapter |-> o.adapter, arenas |-> o.arenas,
                     handedOver |-> o.handedOver]
    BY <1>4 DEF StoreFetches
  <2>2. /\ AdapterStands(o.adapter, o.arenas)
        /\ o.handedOver = handedOver
        /\ o.result \in FetchResults
        /\ o.result = "success" => o.adapter.held_tx_nr # 0
    <3>1. arenas \subseteq Arenas /\ handedOver \in Nat
      BY <1>1 DEF HostPart, AdapterStands
    <3> QED
      BY <1>1, <3>1, HostFetchLeaves DEF HostPart
  <2>3. /\ adapter' = o.adapter /\ arenas' = o.arenas /\ handedOver' = handedOver
        /\ fetched.result = o.result /\ fetched.tx = o.adapter.held
    BY <1>2, <2>1, <2>2
  <2>4. HostPart'
    BY <1>1, <1>2, <2>2, <2>3 DEF HostPart, RowsTyped, AdapterStands
  <2>5. o.result = "success" => o.adapter.held.body \in Bodies
                                /\ o.adapter.held.tx_nr \in Numbers
    BY <2>2 DEF AdapterStands, Adapter
  <2> QED
    BY <1>2, <1>4, <2>2, <2>3, <2>4, <2>5
<1> QED
  BY <1>3, <1>4 DEF IInv, TypeOK

LEMMA ChainKeeps ==
  ASSUME IInv, ChainNext
  PROVE  IInv'
<1>1. HostPart /\ load \in Load /\ chain \in [first : Numbers, bodies : Seq(Bodies)]
  <2>1. HostPart
    BY HostPartHolds
  <2>2. load \in Load /\ chain \in [first : Numbers, bodies : Seq(Bodies)]
    BY Zenon DEF IInv, TypeOK
  <2> QED
    BY <2>1, <2>2
<1>2. NoLoad \in Load /\ EmptyChain \in [first : Numbers, bodies : Seq(Bodies)]
  <2>1. <<>> \in Seq(Bodies)
    OBVIOUS
  <2> QED
    BY <2>1, BlankFacts DEF NoLoad, Load, Results, EmptyChain
<1>3. CASE ChainReset
  <2>1. /\ chain' = EmptyChain /\ load' = NoLoad
        /\ UNCHANGED <<arenas, store, own, adapter, callbacks, rows, handedOver, kind>>
    BY <1>3 DEF ChainReset, inMemoryVars, adapterVars
  <2>2. HostPart'
    BY <1>1, <2>1 DEF HostPart, RowsTyped, AdapterStands
  <2> QED
    BY <1>2, <2>1, <2>2, HostPartSuffices
<1>4. ASSUME NEW tx_nr \in Numbers, Fetch(tx_nr)
      PROVE  IInv'
  <2>1. PICK fetched \in StoreFetches(tx_nr) : StoreIsAs(fetched)
    BY <1>4 DEF Fetch
  <2>2. load' = NoLoad /\ chain' = chain
    BY <1>4 DEF Fetch
  <2>3. tx_nr \in Nat
    BY SerializedAssumption DEF Numbers
  <2> QED
    BY <1>1, <1>2, <2>1, <2>2, <2>3, FetchLeaves, HostPartSuffices
<1>5. ASSUME NEW range \in Ranges, LoadBegin(range[1], range[2])
      PROVE  IInv'
  <2> DEFINE from == range[1]
             to == range[2]
             first == IF from = 0 THEN 1 ELSE from
  <2>1. from \in Nat /\ to \in Nat
    BY OfferAssumption
  <2>2. /\ load' = [on |-> to = 0 \/ first <= to,
                    from |-> first, to |-> to, next |-> first,
                    count |-> 0, before |-> Len(chain.bodies),
                    result |-> IF to = 0 \/ first <= to THEN "none" ELSE "invalid_param"]
        /\ UNCHANGED <<arenas, store, own, adapter, callbacks, rows, handedOver, kind, chain>>
    BY <1>5 DEF LoadBegin, inMemoryVars, adapterVars
  <2>3. Len(chain.bodies) \in Nat /\ first \in Nat
    BY <1>1, <2>1
  <2>4. (to = 0 \/ first <= to) \in BOOLEAN
    OBVIOUS
  <2>5. (IF to = 0 \/ first <= to THEN "none" ELSE "invalid_param") \in Results
    BY DEF Results
  <2>6. load' \in Load
    <3> HIDE DEF from, to, first
    <3> QED
      BY <2>1, <2>2, <2>3, <2>4, <2>5 DEF Load
  <2>7. HostPart'
    BY <1>1, <2>2 DEF HostPart, RowsTyped, AdapterStands
  <2> QED
    BY <1>1, <2>2, <2>6, <2>7, HostPartSuffices
<1>6. CASE LoadStep
  <2>1. load.next \in Nat /\ load.to \in Nat /\ load.count \in Nat
    BY <1>1 DEF Load
  <2>2. PICK fetched \in StoreFetches(load.next) :
          /\ StoreIsAs(fetched)
          /\ \/ /\ fetched.result # "success"
                /\ load' = Stopped(RanOut(fetched.result))
                /\ UNCHANGED chain
             \/ /\ fetched.result = "success"
                /\ load' = Stopped("refused")
                /\ UNCHANGED chain
             \/ /\ fetched.result = "success"
                /\ ChainAccepts(fetched.tx.tx_nr)
                /\ chain' = ChainWith(fetched.tx)
                /\ load' = Advanced
    BY <1>6 DEF LoadStep
  <2>3. /\ HostPart'
        /\ UNCHANGED <<store, own, kind, callbacks>>
        /\ kind = "in_memory" => adapter' = adapter /\ arenas' = arenas
        /\ fetched.result \in FetchResults
        /\ fetched.result = "success" =>
             fetched.tx.body \in Bodies /\ fetched.tx.tx_nr \in Numbers
    BY <2>1, <2>2, FetchLeaves
  <2>4. \A result \in Results : Stopped(result) \in Load
    BY <1>1 DEF Stopped, Load
  <2>5. RanOut(fetched.result) \in Results /\ "refused" \in Results
    BY <2>3 DEF RanOut, FetchResults, Results
  <2>6. Advanced \in Load
    <3> DEFINE more == load.to = 0 \/ load.next < load.to
               answer == IF load.to = 0 \/ load.next < load.to THEN "none" ELSE "success"
    <3>1. more \in BOOLEAN /\ answer \in Results
      BY DEF Results
    <3>2. load.count + 1 \in Nat /\ load.next + 1 \in Nat
      BY <2>1
    <3>3. Advanced = [load EXCEPT !.count = load.count + 1, !.next = load.next + 1,
                                  !.on = more, !.result = answer]
      BY DEF Advanced
    <3> HIDE DEF more, answer
    <3> QED
      BY <1>1, <3>1, <3>2, <3>3 DEF Load
  <2>7. load' \in Load
    BY <2>2, <2>4, <2>5, <2>6
  <2>8. chain' \in [first : Numbers, bodies : Seq(Bodies)]
    <3>1. fetched.result = "success" => ChainWith(fetched.tx) \in [first : Numbers, bodies : Seq(Bodies)]
      <4>1. chain.first \in Numbers /\ chain.bodies \in Seq(Bodies)
        BY <1>1
      <4>2. SUFFICES ASSUME fetched.tx.body \in Bodies, fetched.tx.tx_nr \in Numbers
                     PROVE  ChainWith(fetched.tx) \in [first : Numbers, bodies : Seq(Bodies)]
        BY <2>3
      <4>3. Append(chain.bodies, fetched.tx.body) \in Seq(Bodies)
        BY <4>1, <4>2
      <4>4. (IF chain.first = 0 THEN fetched.tx.tx_nr ELSE chain.first) \in Numbers
        BY <4>1, <4>2
      <4> QED
        BY <4>3, <4>4 DEF ChainWith
    <3>2. chain' = chain \/ (fetched.result = "success" /\ chain' = ChainWith(fetched.tx))
      BY <2>2
    <3> QED
      BY <1>1, <3>1, <3>2
  <2> QED
    BY <2>3, <2>7, <2>8, HostPartSuffices
<1> QED
  BY <1>3, <1>4, <1>5, <1>6 DEF ChainNext

-----------------------------------------------------------------------------
LEMMA StoredChainBegins == Init => IInv
<1> SUFFICES ASSUME Init PROVE IInv
  OBVIOUS
<1>1. /\ arenas = {} /\ store = Zeroed /\ own = Blank /\ adapter = NoAdapter
      /\ callbacks \in Callbacks /\ DOMAIN rows = {} /\ handedOver = 0
      /\ kind \in {"in_memory", "host"} /\ chain = EmptyChain /\ load = NoLoad
  BY DEF Init
<1>2. NoLoad \in Load /\ EmptyChain \in [first : Numbers, bodies : Seq(Bodies)]
  <2>1. <<>> \in Seq(Bodies)
    OBVIOUS
  <2> QED
    BY <2>1, BlankFacts DEF NoLoad, Load, Results, EmptyChain
<1>3. TypeOK
  BY <1>1, <1>2, BlankFacts DEF TypeOK
<1>4. KeptUnderTheirNumbers
  BY <1>1, BlankFacts DEF KeptUnderTheirNumbers
<1>5. EveryArenaHasOneOwner
  BY <1>1, BlankFacts DEF EveryArenaHasOneOwner
<1>6. /\ HostMinds => HeldIsTheHostsRow
      /\ HeldIsWhole /\ NoRowStaysOpen /\ OneStoreOnly /\ OwnHasItsArena
  BY <1>1, BlankFacts DEF HeldIsTheHostsRow, HeldIsWhole, NoRowStaysOpen, OneStoreOnly,
     OwnHasItsArena
<1> QED
  BY <1>3, <1>4, <1>5, <1>6 DEF IInv

LEMMA StoredChainGoesOn == IInv /\ [Next]_vars => IInv'
<1> SUFFICES ASSUME IInv, [Next]_vars PROVE IInv'
  OBVIOUS
<1>1. CASE UNCHANGED vars
  <2>1. UNCHANGED <<arenas, store, own, adapter, callbacks, rows, handedOver, kind, chain, load>>
    BY <1>1 DEF vars, inMemoryVars, adapterVars
  <2>2. HostPart'
    BY <2>1, HostPartHolds DEF HostPart, RowsTyped, AdapterStands
  <2>3. load \in Load /\ chain \in [first : Numbers, bodies : Seq(Bodies)]
    BY Zenon DEF IInv, TypeOK
  <2> QED
    BY <2>1, <2>2, <2>3, HostPartSuffices
<1> QED
  BY <1>1, InMemoryKeeps, HostKeeps, ChainKeeps DEF Next

LEMMA StoredChainInvariant == Spec => []IInv
  BY StoredChainBegins, StoredChainGoesOn, PTL DEF Spec

(***************************************************************************)
(* The stores, the chain over them and a load keep their types through     *)
(* every decode that fails, every refusal and every answer of a host.      *)
(***************************************************************************)
THEOREM StoredChainTypes == Spec => []TypeOK
<1>1. IInv => TypeOK
  BY DEF IInv
<1> QED
  BY <1>1, StoredChainInvariant, PTL

(***************************************************************************)
(* in_memory_fetch finds by subtraction: the slot it looks into is always  *)
(* that of the number it was asked for.                                    *)
(***************************************************************************)
THEOREM InMemoryFindsByNumber == Spec => []KeptUnderTheirNumbers
<1>1. IInv => KeptUnderTheirNumbers
  BY DEF IInv
<1> QED
  BY <1>1, StoredChainInvariant, PTL

(***************************************************************************)
(* What a slot, a caller or the adapter still reads was never released,    *)
(* and no two of them would release the same arena.                        *)
(***************************************************************************)
THEOREM ArenasHaveOneOwner == Spec => []EveryArenaHasOneOwner
<1>1. IInv => EveryArenaHasOneOwner
  BY DEF IInv
<1> QED
  BY <1>1, StoredChainInvariant, PTL

(***************************************************************************)
(* ffi_fetch's short cut is sound over a host that keeps only the number   *)
(* after its largest: what it hands out unasked is the host's row.         *)
(***************************************************************************)
THEOREM ShortCutIsSound ==
  ASSUME HostMinds
  PROVE  Spec => []HeldIsTheHostsRow
<1>1. IInv => HeldIsTheHostsRow
  BY DEF IInv
<1> QED
  BY <1>1, StoredChainInvariant, PTL

(***************************************************************************)
(* ffi_fetch tells the host once of every row it was handed, on every way  *)
(* out.                                                                    *)
(***************************************************************************)
THEOREM HostHearsOfEveryRow == Spec => []NoRowStaysOpen
<1>1. IInv => NoRowStaysOpen
  BY DEF IInv
<1> QED
  BY <1>1, StoredChainInvariant, PTL

-----------------------------------------------------------------------------
(***************************************************************************)
(* Loading.  The load l into the chain c has counted the numbers from its  *)
(* first up to its next, all of them at the end of the chain, each with    *)
(* what the store keeps under it.                                          *)
(***************************************************************************)
HasLoaded(c, l) ==
  /\ l.from >= 1
  /\ l.next = l.from + l.count
  /\ Len(c.bodies) = l.before + l.count
  /\ l.count > 0 => c.first # 0 /\ l.next = c.first + Len(c.bodies)
  /\ \A n \in l.from .. l.next - 1 :
       /\ n >= c.first
       /\ n \in DOMAIN KeptBodies
       /\ ChainBody(c, n) = KeptBodies[n]

LoadInv ==
  /\ IInv
  /\ chain.first = 0 => chain.bodies = <<>>
  /\ load.on => /\ HasLoaded(chain, load)
                /\ load.to # 0 => load.next <= load.to

\* What the store in memory keeps, slot by slot.
LEMMA InMemoryKeepsBodies ==
  ASSUME store \in InMemoryStore, KeptUnderTheirNumbers,
         NEW tx_nr \in Nat, Holds(tx_nr)
  PROVE  /\ tx_nr \in Numbers
         /\ tx_nr - store.first_tx_nr + 1 \in DOMAIN store.records
         /\ RecordOf(tx_nr).tx_nr = tx_nr
         /\ RecordOf(tx_nr).body \in Bodies
<1>1. /\ store.first_tx_nr \in Nat /\ store.max_tx_nr \in Nat /\ store.max_tx_nr <= MaxNr
      /\ store.records \in Seq(DecodedTransaction)
      /\ MaxNr \in Nat
  BY SerializedAssumption DEF InMemoryStore, Numbers
<1>2. tx_nr \in Numbers
  BY <1>1 DEF Holds, Numbers
<1> DEFINE place == tx_nr - store.first_tx_nr + 1
<1>3. place \in DOMAIN store.records
  BY <1>1 DEF Holds, KeptUnderTheirNumbers
<1>4. store.records[place].tx_nr = store.first_tx_nr + place - 1
  BY <1>3 DEF KeptUnderTheirNumbers
<1>5. store.first_tx_nr + place - 1 = tx_nr
  BY <1>1
<1>6. store.records[place].body \in Bodies
  BY <1>3 DEF KeptUnderTheirNumbers
<1> QED
  BY <1>2, <1>3, <1>4, <1>5, <1>6 DEF RecordOf

(***************************************************************************)
(* A fetch that succeeds hands out what the store keeps under the number,  *)
(* and one that finds nothing there is right.                              *)
(***************************************************************************)
LEMMA FetchTellsTheTruth ==
  ASSUME HostMinds, IInv, NEW tx_nr \in Nat, NEW fetched \in StoreFetches(tx_nr)
  PROVE  /\ fetched.result = "success" =>
              /\ tx_nr \in DOMAIN KeptBodies
              /\ fetched.tx.tx_nr = tx_nr
              /\ fetched.tx.body = KeptBodies[tx_nr]
         /\ fetched.result = "out_of_bounds" => tx_nr \notin DOMAIN KeptBodies
<1>1. CASE kind = "in_memory"
  <2>1. /\ fetched.result = IF Holds(tx_nr) THEN "success" ELSE "out_of_bounds"
        /\ fetched.tx = IF Holds(tx_nr) THEN RecordOf(tx_nr) ELSE Blank
    BY <1>1 DEF StoreFetches
  <2>2. KeptBodies = [n \in {m \in Numbers : Holds(m)} |-> RecordOf(n).body]
    BY <1>1 DEF KeptBodies
  <2>3. store \in InMemoryStore /\ KeptUnderTheirNumbers
    BY DEF IInv, TypeOK
  <2>4. Holds(tx_nr) => tx_nr \in Numbers /\ RecordOf(tx_nr).tx_nr = tx_nr
    BY <2>3, InMemoryKeepsBodies
  <2> QED
    BY <2>1, <2>2, <2>4
<1>2. CASE kind = "host"
  <2>1. PICK o \in HostFetches(tx_nr) :
          fetched = [result |-> o.result, tx |-> o.adapter.held,
                     adapter |-> o.adapter, arenas |-> o.arenas,
                     handedOver |-> o.handedOver]
    BY <1>2 DEF StoreFetches
  <2>2. fetched.result = o.result /\ fetched.tx = o.adapter.held
    BY <2>1
  <2>3. KeptBodies = [n \in DOMAIN rows |-> rows[n].body]
    BY <1>2 DEF KeptBodies
  <2>4. /\ HeldIsTheHostsRow /\ arenas \subseteq Arenas /\ adapter \in Adapter /\ RowsTyped
    BY HostPartHolds DEF IInv, TypeOK, HostPart
  <2>5. CASE IsHeld(tx_nr)
    <3>1. o = Refuses("success")
      BY <2>5 DEF HostFetches
    <3>2. o.result = "success" /\ o.adapter = adapter
      BY <3>1 DEF Refuses
    <3>3. /\ tx_nr \in DOMAIN rows
          /\ adapter.held.tx_nr = tx_nr
          /\ adapter.held.body = rows[tx_nr].body
      BY <2>4, <2>5 DEF IsHeld, HeldIsTheHostsRow
    <3> QED
      BY <2>2, <2>3, <3>2, <3>3
  <2>6. CASE ~IsHeld(tx_nr)
    <3>1. \/ o = Refuses("out_of_bounds") /\ tx_nr \notin DOMAIN rows
          \/ o.result = "decode_failed"
          \/ \E d \in UNION {InitFromProtobuf(adapter.held, rows[n])
                              : n \in DOMAIN rows \cap {tx_nr}} :
                o = [result |-> d.result, adapter |-> HeldAfterDecode(tx_nr, d),
                     arenas |-> d.arenas, handedOver |-> OpenAfterDecode(d)]
      BY <2>6 DEF HostFetches, Refuses, Gets
    <3>2. CASE o = Refuses("out_of_bounds") /\ tx_nr \notin DOMAIN rows
      BY <2>2, <2>3, <3>2 DEF Refuses
    <3>3. CASE o.result = "decode_failed"
      BY <2>2, <3>3
    <3>4. ASSUME NEW d \in UNION {InitFromProtobuf(adapter.held, rows[n])
                                  : n \in DOMAIN rows \cap {tx_nr}},
                 o = [result |-> d.result, adapter |-> HeldAfterDecode(tx_nr, d),
                      arenas |-> d.arenas, handedOver |-> OpenAfterDecode(d)]
          PROVE  /\ o.result # "out_of_bounds"
                 /\ o.result = "success" =>
                      /\ tx_nr \in DOMAIN rows
                      /\ o.adapter.held.tx_nr = tx_nr
                      /\ o.adapter.held.body = rows[tx_nr].body
      <4>1. tx_nr \in DOMAIN rows /\ d \in InitFromProtobuf(adapter.held, rows[tx_nr])
        BY <3>4
      <4>2. rows[tx_nr] \in SerializedTransaction /\ rows[tx_nr].id = tx_nr
        BY <2>4, <4>1 DEF RowsTyped
      <4>3. adapter.held \in DecodedTransaction
        BY <2>4 DEF Adapter
      <4>4. /\ d.result \in {"success", "out_of_memory", "decode_failed", "enum_unhandled"}
            /\ d.result = "success" =>
                 d.tx.tx_nr = rows[tx_nr].id /\ d.tx.body = rows[tx_nr].body
        BY <2>4, <4>1, <4>2, <4>3, DecodeLeaves
      <4>5. o.result = d.result /\ o.adapter.held = d.tx
        BY <2>4, <3>4 DEF HeldAfterDecode, Adapter
      <4> QED
        BY <4>1, <4>2, <4>4, <4>5
    <3> QED
      BY <2>2, <2>3, <3>1, <3>2, <3>3, <3>4
  <2> QED
    BY <2>5, <2>6
<1> QED
  BY <1>1, <1>2 DEF IInv, TypeOK

\* One number more, counted where the chain ends.
LEMMA LoadAdvances ==
  ASSUME NEW c \in [first : Numbers, bodies : Seq(Bodies)], NEW l \in Load,
         c.first = 0 => c.bodies = <<>>,
         HasLoaded(c, l),
         l.next \in DOMAIN KeptBodies,
         c.first # 0 => l.next = c.first + Len(c.bodies),
         NEW c2, c2 = [first |-> IF c.first = 0 THEN l.next ELSE c.first,
                       bodies |-> Append(c.bodies, KeptBodies[l.next])],
         NEW l2 \in Load, l2.from = l.from, l2.before = l.before,
         l2.count = l.count + 1, l2.next = l.next + 1
  PROVE  HasLoaded(c2, l2) /\ c2.first # 0
<1>1. /\ c.first \in Nat /\ c.bodies \in Seq(Bodies) /\ Len(c.bodies) \in Nat
      /\ l.from \in Nat /\ l.next \in Nat /\ l.count \in Nat /\ l.before \in Nat
  BY SerializedAssumption DEF Load, Numbers
<1> DEFINE b == KeptBodies[l.next]
<1>2. /\ l.from >= 1 /\ l.next = l.from + l.count
      /\ Len(c.bodies) = l.before + l.count
      /\ l.count > 0 => c.first # 0
  BY DEF HasLoaded
<1> HIDE DEF b
<1>3. /\ c2.first = IF c.first = 0 THEN l.next ELSE c.first
      /\ c2.bodies = Append(c.bodies, b)
  BY DEF b
<1>4. /\ Len(c2.bodies) = Len(c.bodies) + 1
      /\ c2.bodies[Len(c.bodies) + 1] = b
      /\ \A i \in 1..Len(c.bodies) : c2.bodies[i] = c.bodies[i]
  BY <1>1, <1>3
<1>5. c2.first # 0 /\ c2.first \in Nat /\ l2.next = c2.first + Len(c2.bodies)
  <2>1. CASE c.first = 0
    BY <1>1, <1>2, <1>3, <1>4, <2>1
  <2>2. CASE c.first # 0
    BY <1>1, <1>3, <1>4, <2>2
  <2> QED
    BY <2>1, <2>2
<1>6. ASSUME NEW n \in l2.from .. l2.next - 1
      PROVE  /\ n >= c2.first
             /\ n \in DOMAIN KeptBodies
             /\ ChainBody(c2, n) = KeptBodies[n]
  <2>1. CASE n = l.next
    <3>1. n = c2.first + Len(c.bodies)
      BY <1>1, <1>4, <1>5, <2>1
    <3>2. n - c2.first + 1 = Len(c.bodies) + 1 /\ n >= c2.first
      BY <1>1, <1>5, <3>1
    <3> QED
      BY <1>4, <2>1, <3>2 DEF ChainBody, b
  <2>2. CASE n # l.next
    <3>1. n \in l.from .. l.next - 1
      BY <1>1, <2>2
    <3>2. l.count > 0 /\ c2.first = c.first
      <4>1. l.count > 0
        BY <1>1, <1>2, <3>1
      <4>2. c.first # 0
        BY <1>2, <4>1
      <4> QED BY <1>3, <4>1, <4>2
    <3>3. n >= c.first /\ n \in DOMAIN KeptBodies /\ ChainBody(c, n) = KeptBodies[n]
      BY <3>1 DEF HasLoaded
    <3>4. l.next = c.first + Len(c.bodies)
      BY <3>2 DEF HasLoaded
    <3>5. n - c.first + 1 \in 1..Len(c.bodies)
      <4> DEFINE f == c.first
                 m == Len(c.bodies)
      <4>1. /\ f \in Nat /\ m \in Nat /\ n \in Int /\ n >= f /\ n <= f + m - 1
        BY <1>1, <3>1, <3>3, <3>4
      <4> HIDE DEF f, m
      <4>2. n - f + 1 \in 1..m
        BY <4>1
      <4> QED BY <4>2 DEF f, m
    <3> QED
      BY <1>4, <3>2, <3>3, <3>5 DEF ChainBody
  <2> QED
    BY <2>1, <2>2
<1>7. /\ l2.from >= 1
      /\ l2.next = l2.from + l2.count
      /\ Len(c2.bodies) = l2.before + l2.count
  <2>1. \A x, y \in Nat : (x + y) + 1 = x + (y + 1)
    OBVIOUS
  <2>2. l2.from >= 1
    BY <1>2, Zenon
  <2>3. l2.next = l2.from + l2.count
    BY <1>1, <1>2, <2>1, Zenon
  <2>4. Len(c2.bodies) = l2.before + l2.count
    BY <1>1, <1>2, <1>4, <2>1, Zenon
  <2> QED
    BY <2>2, <2>3, <2>4
<1>8. \A n \in l2.from .. l2.next - 1 :
        /\ n >= c2.first
        /\ n \in DOMAIN KeptBodies
        /\ ChainBody(c2, n) = KeptBodies[n]
  BY <1>6
<1> QED
  BY <1>5, <1>7, <1>8, Zenon DEF HasLoaded

\* One round of the loop, whichever way it comes out.
LEMMA LoadStepCounts ==
  ASSUME HostMinds, LoadInv, LoadStep
  PROVE  /\ HasLoaded(chain', load')
         /\ chain'.first = 0 => chain'.bodies = <<>>
         /\ load'.on => (load'.to # 0 => load'.next <= load'.to)
         /\ UNCHANGED <<store, rows, kind>>
         /\ ~load'.on /\ load'.result = "success" =>
              IF load'.to = 0 THEN load'.next \notin DOMAIN KeptBodies
              ELSE load'.next = load'.to + 1
<1>1. /\ IInv /\ load.on /\ HasLoaded(chain, load)
      /\ load.to # 0 => load.next <= load.to
      /\ chain.first = 0 => chain.bodies = <<>>
  BY DEF LoadInv, LoadStep
<1>2. load \in Load /\ chain \in [first : Numbers, bodies : Seq(Bodies)]
  BY <1>1, Zenon DEF IInv, TypeOK
<1>3. load.next \in Nat /\ load.to \in Nat /\ load.count \in Nat
  BY <1>2 DEF Load
<1>4. PICK fetched \in StoreFetches(load.next) :
        /\ StoreIsAs(fetched)
        /\ \/ /\ fetched.result # "success"
              /\ load' = Stopped(RanOut(fetched.result))
              /\ UNCHANGED chain
           \/ /\ fetched.result = "success"
              /\ load' = Stopped("refused")
              /\ UNCHANGED chain
           \/ /\ fetched.result = "success"
              /\ ChainAccepts(fetched.tx.tx_nr)
              /\ chain' = ChainWith(fetched.tx)
              /\ load' = Advanced
  BY DEF LoadStep
<1>5. UNCHANGED <<store, rows, kind>>
  BY <1>4 DEF StoreIsAs
<1>6. /\ fetched.result = "success" =>
           /\ load.next \in DOMAIN KeptBodies
           /\ fetched.tx.tx_nr = load.next
           /\ fetched.tx.body = KeptBodies[load.next]
      /\ fetched.result = "out_of_bounds" => load.next \notin DOMAIN KeptBodies
  BY <1>1, <1>3, <1>4, FetchTellsTheTruth
<1>7. ASSUME NEW result, load' = Stopped(result), chain' = chain
      PROVE  /\ HasLoaded(chain', load') /\ ~load'.on
             /\ load'.result = result /\ load'.to = load.to /\ load'.next = load.next
  BY <1>1, <1>2, <1>7 DEF Stopped, Load, HasLoaded
<1>8. CASE /\ fetched.result # "success"
           /\ load' = Stopped(RanOut(fetched.result))
           /\ UNCHANGED chain
  <2>1. RanOut(fetched.result) = "success" =>
          fetched.result = "out_of_bounds" /\ load.to = 0
    BY <1>8 DEF RanOut
  <2> QED
    BY <1>1, <1>5, <1>6, <1>7, <1>8, <2>1
<1>9. CASE /\ fetched.result = "success"
           /\ load' = Stopped("refused")
           /\ UNCHANGED chain
  BY <1>1, <1>5, <1>7, <1>9
<1>10. CASE /\ fetched.result = "success"
            /\ ChainAccepts(fetched.tx.tx_nr)
            /\ chain' = ChainWith(fetched.tx)
            /\ load' = Advanced
  <2>1. load' \in Load
    BY <1>1, StoredChainGoesOn DEF IInv, TypeOK, Next, ChainNext
  <2>2. /\ load'.from = load.from /\ load'.before = load.before /\ load'.to = load.to
        /\ load'.count = load.count + 1 /\ load'.next = load.next + 1
    BY <1>2, <1>10 DEF Advanced, Load
  <2>8. load'.on <=> load.to = 0 \/ load.next < load.to
    <3>1. load'.on = (load.to = 0 \/ load.next < load.to)
      BY <1>2, <1>10 DEF Advanced, Load
    <3> QED
      BY <3>1, Zenon
  <2>3. chain' = [first |-> IF chain.first = 0 THEN load.next ELSE chain.first,
                  bodies |-> Append(chain.bodies, KeptBodies[load.next])]
    BY <1>6, <1>10 DEF ChainWith
  <2>4. chain.first # 0 => load.next = chain.first + Len(chain.bodies)
    BY <1>6, <1>10 DEF ChainAccepts
  <2>5. HasLoaded(chain', load') /\ chain'.first # 0
    BY <1>1, <1>2, <1>6, <1>10, <2>1, <2>2, <2>3, <2>4, LoadAdvances
  <2>6. ~load'.on => load'.to # 0 /\ load'.next = load'.to + 1
    BY <1>1, <1>3, <2>2, <2>8
  <2>7. load'.on => (load'.to # 0 => load'.next <= load'.to)
    BY <1>3, <2>2, <2>8
  <2> QED
    BY <1>5, <2>5, <2>6, <2>7
<1> QED
  BY <1>4, <1>8, <1>9, <1>10

\* What the store keeps is a matter of its records and rows.
LEMMA KeptBodiesStand ==
  ASSUME UNCHANGED <<store, rows, kind>>
  PROVE  KeptBodies' = KeptBodies
  BY DEF KeptBodies, Holds, RecordOf

\* A row the host receives is added to what it keeps.
LEMMA RowIsAdded ==
  ASSUME IInv, kind = "host", kind' = kind,
         NEW bytes \in Offers, Continues(bytes.id), rows' = WithRow(bytes)
  PROVE  /\ bytes.id \notin DOMAIN rows
         /\ DOMAIN KeptBodies = DOMAIN rows
         /\ bytes.body \in Bodies
         /\ KeptBodies' = [n \in DOMAIN KeptBodies \cup {bytes.id} |->
                             IF n = bytes.id THEN bytes.body ELSE KeptBodies[n]]
<1>1. bytes.id \in Nat /\ bytes.body \in Bodies
  BY OfferAssumption, SerializedAssumption DEF SerializedTransaction, Numbers
<1>2. bytes.id \notin DOMAIN rows
  <2>1. \A n \in Nat : ~(n < n)
    OBVIOUS
  <2> QED
    BY <1>1, <2>1 DEF Continues
<1>3. KeptBodies = [n \in DOMAIN rows |-> rows[n].body]
  BY DEF KeptBodies
<1>4. KeptBodies' = [n \in DOMAIN rows' |-> rows'[n].body]
  BY DEF KeptBodies
<1>5. /\ DOMAIN rows' = DOMAIN rows \cup {bytes.id}
      /\ \A n \in DOMAIN rows' : rows'[n] = IF n = bytes.id THEN bytes ELSE rows[n]
  BY DEF WithRow
<1> QED
  BY <1>1, <1>2, <1>3, <1>4, <1>5

\* What is loaded stays loaded when the store only gains numbers.
LEMMA LoadedStands ==
  ASSUME HasLoaded(chain, load), chain' = chain, load' = load,
         \A n \in DOMAIN KeptBodies : n \in DOMAIN KeptBodies' /\ KeptBodies'[n] = KeptBodies[n]
  PROVE  HasLoaded(chain, load)'
  BY DEF HasLoaded, ChainBody

LEMMA LoadGoesOn ==
  ASSUME HostMinds
  PROVE  LoadInv /\ [Next]_vars => LoadInv'
<1> SUFFICES ASSUME LoadInv, [Next]_vars PROVE LoadInv'
  OBVIOUS
<1>1. IInv /\ IInv' /\ (chain.first = 0 => chain.bodies = <<>>)
  BY StoredChainGoesOn DEF LoadInv
<1>2. load \in Load /\ chain \in [first : Numbers, bodies : Seq(Bodies)]
  BY <1>1, Zenon DEF IInv, TypeOK
<1>3. ASSUME chain' = chain \/ chain' = EmptyChain, load' = NoLoad PROVE LoadInv'
  <2>1. ~load'.on
    BY <1>3 DEF NoLoad
  <2>2. chain'.first = 0 => chain'.bodies = <<>>
    BY <1>1, <1>3 DEF EmptyChain
  <2> QED
    BY <1>1, <2>1, <2>2 DEF LoadInv
<1>4. ASSUME chain' = chain, load' = load,
             \A n \in DOMAIN KeptBodies :
               n \in DOMAIN KeptBodies' /\ KeptBodies'[n] = KeptBodies[n]
      PROVE  LoadInv'
  BY <1>1, <1>4, LoadedStands DEF LoadInv
<1>5. CASE InMemoryNext
  BY <1>3, <1>5 DEF InMemoryNext, Heard
<1>6. CASE HostNext
  <2>1. CASE ~load.on
    BY <1>3, <1>6, <2>1 DEF HostNext, Heard
  <2>2. CASE load.on
    <3>1. PICK bytes \in Offers : HostReceives(bytes)
      BY <1>6, <2>2 DEF HostNext
    <3>2. kind = "host" /\ kind' = kind /\ chain' = chain /\ load' = load
      BY <1>6, <2>2 DEF HostNext, Heard
    <3>3. /\ bytes.id \notin DOMAIN rows
          /\ DOMAIN KeptBodies = DOMAIN rows
          /\ KeptBodies' = [n \in DOMAIN KeptBodies \cup {bytes.id} |->
                              IF n = bytes.id THEN bytes.body ELSE KeptBodies[n]]
      BY <1>1, <3>1, <3>2, RowIsAdded DEF HostReceives
    <3>4. \A n \in DOMAIN KeptBodies :
            n \in DOMAIN KeptBodies' /\ KeptBodies'[n] = KeptBodies[n]
      BY <3>3
    <3> QED
      BY <1>4, <3>2, <3>4
  <2> QED
    BY <2>1, <2>2
<1>7. CASE ChainReset \/ \E tx_nr \in Numbers : Fetch(tx_nr)
  BY <1>3, <1>7 DEF ChainReset, Fetch
<1>8. ASSUME NEW range \in Ranges, LoadBegin(range[1], range[2]) PROVE LoadInv'
  <2> DEFINE from == range[1]
             to == range[2]
             first == IF from = 0 THEN 1 ELSE from
             ends == to = 0 \/ first <= to
  <2>1. from \in Nat /\ to \in Nat /\ first \in Nat /\ first >= 1
    BY OfferAssumption
  <2>2. /\ load' = [on |-> ends, from |-> first, to |-> to, next |-> first,
                    count |-> 0, before |-> Len(chain.bodies),
                    result |-> IF ends THEN "none" ELSE "invalid_param"]
        /\ chain' = chain
    BY <1>8 DEF LoadBegin
  <2>3. load'.on = ends /\ ends \in BOOLEAN
    BY <2>2
  <2>4. /\ load'.from = first /\ load'.next = first /\ load'.to = to
        /\ load'.count = 0 /\ load'.before = Len(chain.bodies)
    BY <2>2
  <2>5. load'.on => (load'.to # 0 => load'.next <= load'.to)
    <3>1. load'.on => ends
      BY <2>3, Zenon
    <3> QED
      BY <2>1, <2>4, <3>1
  <2>6. Len(chain'.bodies) \in Nat /\ chain' = chain
    BY <1>2, <2>2
  <2> HIDE DEF first, ends
  <2>7. HasLoaded(chain, load)'
    <3>1. \A n \in load'.from .. load'.next - 1 : FALSE
      BY <2>1, <2>4
    <3>2. /\ load'.from >= 1
          /\ load'.next = load'.from + load'.count
          /\ Len(chain'.bodies) = load'.before + load'.count
          /\ ~(load'.count > 0)
      BY <2>1, <2>4, <2>6
    <3> QED
      BY <3>1, <3>2, Zenon DEF HasLoaded
  <2> QED
    BY <1>1, <2>5, <2>6, <2>7 DEF LoadInv
<1>9. CASE LoadStep
  <2>1. /\ HasLoaded(chain', load')
        /\ chain'.first = 0 => chain'.bodies = <<>>
        /\ load'.on => (load'.to # 0 => load'.next <= load'.to)
        /\ UNCHANGED <<store, rows, kind>>
    BY <1>9, LoadStepCounts
  <2>2. KeptBodies' = KeptBodies
    BY <2>1, KeptBodiesStand
  <2>3. HasLoaded(chain, load)'
    BY <2>1, <2>2 DEF HasLoaded, ChainBody
  <2> QED
    BY <1>1, <2>1, <2>3 DEF LoadInv
<1>10. CASE UNCHANGED vars
  <2>1. UNCHANGED <<store, rows, kind, chain, load>>
    BY <1>10 DEF vars, inMemoryVars, adapterVars
  <2>2. KeptBodies' = KeptBodies
    BY <2>1, KeptBodiesStand
  <2> QED
    BY <1>4, <2>1, <2>2
<1> QED
  BY <1>5, <1>6, <1>7, <1>8, <1>9, <1>10 DEF Next, ChainNext

LEMMA LoadInvariant ==
  ASSUME HostMinds
  PROVE  Spec => []LoadInv
<1>1. Init => LoadInv
  <2> SUFFICES ASSUME Init PROVE LoadInv
    OBVIOUS
  <2>1. IInv
    BY StoredChainBegins
  <2>2. ~load.on /\ chain.bodies = <<>>
    BY DEF Init, NoLoad, EmptyChain
  <2> QED
    BY <2>1, <2>2 DEF LoadInv
<1> QED
  BY <1>1, LoadGoesOn, PTL DEF Spec

(***************************************************************************)
(* When grdb_chain_load is over, the chain grew by what it counted, and    *)
(* what it counted is what the store keeps, refused or not; and a success  *)
(* reached the end that was asked for, or the store's.  Over the store in  *)
(* memory, and over a host that keeps only the number after its largest    *)
(* and may receive rows while the load goes on.                            *)
(***************************************************************************)
THEOREM LoadIsTruthful ==
  ASSUME HostMinds
  PROVE  Spec => LoadTellsTheTruth
<1> DEFINE Truth ==
      LoadIsOver =>
        /\ Len(chain'.bodies) = load'.before + load'.count
        /\ \A n \in load'.from .. load'.from + load'.count - 1 :
             ChainBody(chain', n) = KeptBodies[n]
        /\ load'.result = "success" =>
             IF load'.to = 0 THEN load'.from + load'.count \notin DOMAIN KeptBodies
             ELSE load'.from + load'.count = load'.to + 1
<1>1. LoadInv /\ [Next]_vars => [Truth]_vars
  <2> SUFFICES ASSUME LoadInv, Next, LoadIsOver
               PROVE  Truth
    OBVIOUS
  <2>1. LoadStep
    <3>1. load.on /\ ~load'.on
      BY DEF LoadIsOver
    <3>2. ~InMemoryNext
      BY <3>1 DEF InMemoryNext
    <3>3. ~HostNext
      BY <3>1 DEF HostNext, Heard
    <3>4. ~ChainReset /\ ~(\E tx_nr \in Numbers : Fetch(tx_nr))
      BY <3>1 DEF ChainReset, Fetch
    <3>5. ~(\E range \in Ranges : LoadBegin(range[1], range[2]))
      BY <3>1 DEF LoadBegin
    <3> QED
      BY <3>2, <3>3, <3>4, <3>5 DEF Next, ChainNext
  <2>2. /\ HasLoaded(chain', load')
        /\ load'.result = "success" =>
              IF load'.to = 0 THEN load'.next \notin DOMAIN KeptBodies
              ELSE load'.next = load'.to + 1
    BY <2>1, LoadStepCounts DEF LoadIsOver
  <2>3. /\ load'.next = load'.from + load'.count
        /\ Len(chain'.bodies) = load'.before + load'.count
        /\ \A n \in load'.from .. load'.next - 1 : ChainBody(chain', n) = KeptBodies[n]
    BY <2>2 DEF HasLoaded
  <2>4. \A n \in load'.from .. load'.from + load'.count - 1 : ChainBody(chain', n) = KeptBodies[n]
    <3>2. load'.from \in Nat /\ load'.count \in Nat
      BY StoredChainGoesOn DEF LoadInv, IInv, TypeOK, Load
    <3>1. load'.from + load'.count - 1 = load'.next - 1
      BY <2>3, <3>2
    <3> QED
      BY <2>3, <3>1, Zenon
  <2>5. load'.result = "success" =>
          IF load'.to = 0 THEN load'.from + load'.count \notin DOMAIN KeptBodies
          ELSE load'.from + load'.count = load'.to + 1
    BY <2>2, <2>3, Zenon
  <2> QED
    BY <2>3, <2>4, <2>5, Zenon
<1> QED
  BY <1>1, LoadInvariant, PTL DEF Spec, LoadTellsTheTruth

-----------------------------------------------------------------------------
(***************************************************************************)
(* The refinement of Store.  A store in memory that has a first number has *)
(* a last one that is not before it: its run is not empty.                 *)
(***************************************************************************)
RunIsNotEmpty == store.first_tx_nr # 0 => store.first_tx_nr <= store.max_tx_nr

\* Keeping the next transaction in memory is an append to what is kept.
LEMMA KeepingIsAppending ==
  ASSUME kind = "in_memory", kind' = kind,
         store \in InMemoryStore, KeptUnderTheirNumbers, RunIsNotEmpty,
         NEW tx \in DecodedTransaction,
         tx.body # NoBody,
         IsNext(tx.tx_nr),
         store' = Kept(tx)
  PROVE  RunIsNotEmpty' /\ Promised!Next
<1>1. /\ store.records \in Seq(DecodedTransaction) /\ Len(store.records) \in Nat
      /\ store.first_tx_nr \in Nat /\ store.max_tx_nr \in Nat
      /\ store.first_tx_nr \in Numbers /\ store.max_tx_nr \in Numbers
      /\ tx.tx_nr \in Numbers /\ tx.tx_nr \in Nat /\ tx.body \in Bodies
  BY SerializedAssumption DEF InMemoryStore, DecodedTransaction, Numbers
<1>2. /\ store'.records = Append(store.records, tx)
      /\ store'.first_tx_nr = IF store.first_tx_nr = 0 THEN tx.tx_nr ELSE store.first_tx_nr
      /\ store'.max_tx_nr = tx.tx_nr
  BY DEF Kept, InMemoryStore
<1>3. /\ tx.tx_nr # 0
      /\ store.first_tx_nr # 0 => tx.tx_nr = store.max_tx_nr + 1
  BY DEF IsNext
<1>4. Len(store.records) =
        IF store.first_tx_nr = 0 THEN 0 ELSE store.max_tx_nr - store.first_tx_nr + 1
  BY DEF KeptUnderTheirNumbers
<1>5. RunIsNotEmpty'
  BY <1>1, <1>2, <1>3 DEF RunIsNotEmpty
<1> DEFINE held == {m \in Numbers : Holds(m)}
<1>6. /\ KeptBodies = [n \in held |-> RecordOf(n).body]
      /\ DOMAIN KeptBodies = held
  BY DEF KeptBodies
<1>7. KeptBodies' = [n \in {m \in Numbers : Holds(m)'} |-> RecordOf(n)'.body]
  BY DEF KeptBodies
<1>8. \A m \in Numbers : m \in Nat /\ m \in Int
  BY SerializedAssumption DEF Numbers
<1>9. \A m \in Numbers :
        Holds(m) <=> store.first_tx_nr # 0 /\ store.first_tx_nr <= m /\ m <= store.max_tx_nr
  BY DEF Holds
<1>10. \A m \in Numbers : Holds(m)' <=> Holds(m) \/ m = tx.tx_nr
  <2>1. \A m \in Numbers :
          Holds(m)' <=> /\ store'.first_tx_nr # 0
                        /\ store'.first_tx_nr <= m /\ m <= store'.max_tx_nr
    BY DEF Holds
  <2>2. CASE store.first_tx_nr = 0
    BY <1>1, <1>2, <1>3, <1>8, <1>9, <2>1, <2>2
  <2>3. CASE store.first_tx_nr # 0
    BY <1>1, <1>2, <1>3, <1>8, <1>9, <2>1, <2>3 DEF RunIsNotEmpty
  <2> QED
    BY <2>2, <2>3
<1>11. \A m \in held : RecordOf(m)' = RecordOf(m)
  <2> SUFFICES ASSUME NEW m \in held PROVE RecordOf(m)' = RecordOf(m)
    OBVIOUS
  <2>1. m \in Nat /\ Holds(m)
    BY <1>8
  <2>2. m - store.first_tx_nr + 1 \in DOMAIN store.records /\ store'.first_tx_nr = store.first_tx_nr
    BY <1>2, <2>1, InMemoryKeepsBodies DEF Holds
  <2>3. store'.records[m - store.first_tx_nr + 1] = store.records[m - store.first_tx_nr + 1]
    BY <1>1, <1>2, <2>2
  <2> QED
    BY <2>2, <2>3 DEF RecordOf
<1>12. RecordOf(tx.tx_nr)' = tx
  <2>1. tx.tx_nr - store'.first_tx_nr + 1 = Len(store.records) + 1
    BY <1>1, <1>2, <1>3, <1>4
  <2>2. store'.records[Len(store.records) + 1] = tx
    BY <1>1, <1>2
  <2> QED
    BY <2>1, <2>2 DEF RecordOf
<1>13. tx.tx_nr \notin held
  BY <1>1, <1>3, <1>9
<1>14. held # {} => tx.tx_nr - 1 \in held /\ \A n \in held : n < tx.tx_nr
  <2> SUFFICES ASSUME held # {} PROVE tx.tx_nr - 1 \in held /\ \A n \in held : n < tx.tx_nr
    OBVIOUS
  <2>1. store.first_tx_nr # 0
    BY <1>9
  <2>2. tx.tx_nr - 1 = store.max_tx_nr
    BY <1>1, <1>3, <2>1
  <2>3. Holds(store.max_tx_nr)
    BY <1>1, <2>1 DEF Holds, RunIsNotEmpty
  <2>4. \A n \in held : n < tx.tx_nr
    BY <1>1, <1>3, <1>8, <1>9, <2>1
  <2> QED
    BY <1>1, <2>2, <2>3, <2>4
<1> HIDE DEF held
<1>15. {m \in Numbers : Holds(m)'} = held \cup {tx.tx_nr}
  BY <1>1, <1>10 DEF held
<1>16. KeptBodies' = [n \in held \cup {tx.tx_nr} |->
                        IF n = tx.tx_nr THEN tx.body ELSE KeptBodies[n]]
  <2>1. \A n \in held : RecordOf(n)'.body = KeptBodies[n]
    BY <1>6, <1>11
  <2>2. RecordOf(tx.tx_nr)'.body = tx.body
    BY <1>12
  <2>3. KeptBodies' = [n \in held \cup {tx.tx_nr} |-> RecordOf(n)'.body]
    BY <1>7, <1>15
  <2> QED
    BY <1>13, <2>1, <2>2, <2>3
<1>17. Promised!Append(tx.tx_nr, tx.body)
  BY <1>3, <1>6, <1>13, <1>14, <1>16 DEF Promised!Append, Promised!Continues
<1>18. tx.tx_nr \in DOMAIN KeptBodies'
  BY <1>16
<1> QED
  BY <1>1, <1>5, <1>17, <1>18 DEF Promised!Next

\* A row put or received is an append to what the host keeps.
LEMMA PuttingIsAppending ==
  ASSUME IInv, kind = "host", kind' = kind,
         NEW bytes \in Offers, Continues(bytes.id), rows' = WithRow(bytes)
  PROVE  Promised!Next
<1>1. /\ bytes.id \notin DOMAIN rows
      /\ DOMAIN KeptBodies = DOMAIN rows
      /\ bytes.body \in Bodies
      /\ KeptBodies' = [n \in DOMAIN KeptBodies \cup {bytes.id} |->
                          IF n = bytes.id THEN bytes.body ELSE KeptBodies[n]]
  BY RowIsAdded
<1>2. Promised!Append(bytes.id, bytes.body)
  BY <1>1 DEF Promised!Append, Promised!Continues, Continues
<1>3. bytes.id \in DOMAIN KeptBodies'
  BY <1>1
<1> QED
  BY <1>1, <1>2, <1>3 DEF Promised!Next

\* A store in memory emptied whole keeps nothing.
LEMMA EmptyingIsClearing ==
  ASSUME kind' = "in_memory", store'.first_tx_nr = 0
  PROVE  RunIsNotEmpty' /\ Promised!Clear
<1>1. {m \in Numbers : Holds(m)'} = {}
  BY DEF Holds
<1>2. KeptBodies' = [n \in {m \in Numbers : Holds(m)'} |-> RecordOf(n)'.body]
  BY DEF KeptBodies
<1>3. KeptBodies' = [n \in {} |-> 0]
  BY <1>1, <1>2
<1> QED
  BY <1>3 DEF Promised!Clear, RunIsNotEmpty

StepsAsPromised == Promised!Next \/ UNCHANGED KeptBodies

LEMMA InMemoryRefines ==
  ASSUME IInv, RunIsNotEmpty, InMemoryNext
  PROVE  RunIsNotEmpty' /\ StepsAsPromised
<1>1. kind = "in_memory" /\ kind' = kind /\ rows' = rows
  BY DEF InMemoryNext, adapterVars
<1>2. /\ store \in InMemoryStore /\ own \in DecodedTransaction /\ arenas \subseteq Arenas
      /\ KeptUnderTheirNumbers
  BY DEF IInv, TypeOK
<1>3. ASSUME store' = store PROVE RunIsNotEmpty' /\ StepsAsPromised
  BY <1>1, <1>3, KeptBodiesStand DEF RunIsNotEmpty, StepsAsPromised
<1>4. ASSUME store' = [Zeroed EXCEPT !.ready = TRUE] \/ store' = Zeroed
      PROVE  RunIsNotEmpty' /\ StepsAsPromised
  <2>1. store'.first_tx_nr = 0
    BY <1>4, EmptyStoreStands
  <2> QED
    BY <1>1, <2>1, EmptyingIsClearing DEF StepsAsPromised, Promised!Next
<1>5. CASE InMemoryInit \/ InMemoryRelease \/ InMemoryReset
  BY <1>4, <1>5 DEF InMemoryInit, InMemoryRelease, InMemoryReset
<1>6. CASE own.body # NoBody /\ MoveIn
  <2>1. CASE store' = store
    BY <1>3, <2>1
  <2>2. CASE IsNext(own.tx_nr) /\ store' = Kept(own)
    BY <1>1, <1>2, <1>6, <2>2, KeepingIsAppending DEF StepsAsPromised
  <2> QED
    BY <1>6, <2>1, <2>2 DEF MoveIn
<1>7. CASE OwnRelease \/ \E bytes \in Offers : OwnDecode(bytes)
  BY <1>3, <1>7 DEF OwnRelease, OwnDecode
<1>8. ASSUME NEW bytes \in Offers, AppendSerialized(bytes)
      PROVE  RunIsNotEmpty' /\ StepsAsPromised
  <2>1. CASE store' = store
    BY <1>3, <2>1
  <2>2. CASE store' # store
    <3>1. PICK d \in InitFromProtobuf(Blank, bytes) :
            d.result = "success" /\ IsNext(d.tx.tx_nr) /\ store' = Kept(d.tx)
      BY <1>8, <2>2 DEF AppendSerialized
    <3>2. bytes \in SerializedTransaction /\ bytes.body \in Bodies
      BY OfferAssumption DEF SerializedTransaction
    <3>3. d.tx \in DecodedTransaction /\ d.tx.body = bytes.body
      BY <1>2, <3>1, <3>2, BlankFacts, DecodeLeaves
    <3>4. d.tx.body # NoBody
      BY <3>2, <3>3, BlankFacts
    <3> QED
      BY <1>1, <1>2, <3>1, <3>3, <3>4, KeepingIsAppending DEF StepsAsPromised
  <2> QED
    BY <2>1, <2>2
<1> QED
  BY <1>5, <1>6, <1>7, <1>8 DEF InMemoryNext

LEMMA HostRefines ==
  ASSUME HostMinds, IInv, HostNext
  PROVE  StepsAsPromised /\ store' = store
<1>1. kind = "host" /\ kind' = kind /\ store' = store
  BY DEF HostNext, inMemoryVars
<1>2. CASE rows' = rows
  BY <1>1, <1>2, KeptBodiesStand DEF StepsAsPromised
<1>3. ASSUME NEW bytes \in Offers, Continues(bytes.id), rows' = WithRow(bytes)
      PROVE  StepsAsPromised
  BY <1>1, <1>3, PuttingIsAppending DEF StepsAsPromised
<1>4. CASE \E bytes \in Offers : HostReceives(bytes)
  BY <1>1, <1>3, <1>4 DEF HostReceives
<1>5. CASE \E bytes \in Offers : HostPut(bytes)
  BY <1>1, <1>2, <1>3, <1>5 DEF HostPut
<1>6. CASE AdapterInit \/ AdapterRelease
  BY <1>1, <1>2, <1>6 DEF AdapterInit, AdapterRelease, hostVars
<1> QED
  BY <1>1, <1>4, <1>5, <1>6 DEF HostNext

LEMMA ChainLeavesStore ==
  ASSUME ChainNext \/ UNCHANGED vars
  PROVE  UNCHANGED <<store, rows, kind>>
<1>1. CASE ChainReset
  BY <1>1 DEF ChainReset, inMemoryVars, adapterVars
<1>2. CASE \E tx_nr \in Numbers : Fetch(tx_nr)
  BY <1>2 DEF Fetch, StoreIsAs
<1>3. CASE \E range \in Ranges : LoadBegin(range[1], range[2])
  BY <1>3 DEF LoadBegin, inMemoryVars, adapterVars
<1>4. CASE LoadStep
  BY <1>4 DEF LoadStep, StoreIsAs
<1>5. CASE UNCHANGED vars
  BY <1>5 DEF vars, inMemoryVars, adapterVars
<1> QED
  BY <1>1, <1>2, <1>3, <1>4, <1>5 DEF ChainNext

(***************************************************************************)
(* Both stores are the store of store.h: every call of every caller is, of *)
(* what is kept, an append that continues one gapless run, an emptying, or *)
(* nothing at all; decodes that fail, refusals and moves included.  The    *)
(* host is one that keeps only the number after its largest.               *)
(***************************************************************************)
THEOREM StoresImplementStore ==
  ASSUME HostMinds
  PROVE  Spec => ImplementsStore
<1>1. Init => RunIsNotEmpty /\ Promised!Init
  <2> SUFFICES ASSUME Init PROVE RunIsNotEmpty /\ Promised!Init
    OBVIOUS
  <2>1. store.first_tx_nr = 0 /\ DOMAIN rows = {}
    BY BlankFacts DEF Init
  <2>2. KeptBodies = [n \in {} |-> 0]
    <3>1. CASE kind = "in_memory"
      <4>1. {m \in Numbers : Holds(m)} = {}
        BY <2>1 DEF Holds
      <4> QED
        BY <3>1, <4>1 DEF KeptBodies
    <3>2. CASE kind = "host"
      BY <2>1, <3>2 DEF KeptBodies
    <3> QED
      BY <3>1, <3>2 DEF Init
  <2> QED
    BY <2>1, <2>2 DEF RunIsNotEmpty, Promised!Init
<1>2. IInv /\ RunIsNotEmpty /\ [Next]_vars => RunIsNotEmpty' /\ [Promised!Next]_KeptBodies
  <2> SUFFICES ASSUME IInv, RunIsNotEmpty, [Next]_vars
               PROVE  RunIsNotEmpty' /\ StepsAsPromised
    BY DEF StepsAsPromised
  <2>1. CASE InMemoryNext
    BY <2>1, InMemoryRefines
  <2>2. CASE HostNext
    BY <2>2, HostRefines DEF RunIsNotEmpty
  <2>3. CASE ChainNext \/ UNCHANGED vars
    BY <2>3, ChainLeavesStore, KeptBodiesStand DEF RunIsNotEmpty, StepsAsPromised
  <2> QED
    BY <2>1, <2>2, <2>3 DEF Next
<1> QED
  BY <1>1, <1>2, StoredChainInvariant, PTL DEF Spec, ImplementsStore, Promised!Spec

=============================================================================
