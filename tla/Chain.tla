-------------------------------- MODULE Chain --------------------------------
(***************************************************************************)
(* grdb_chain: a row of segment indices over one gapless run of numbers,   *)
(* and one address register beside it.  An add goes to the segment its     *)
(* number falls in, then to the register, and only then is it counted; it  *)
(* may be refused for want of room at any point, and is added again.       *)
(*                                                                         *)
(* `refused` is not a field of the chain.  It is what the caller holds: the*)
(* transaction whose last add found no room and is to be made again.       *)
(***************************************************************************)
EXTENDS AddressRegister

CONSTANTS
  SegmentSizes,  \* what the options may ask for: segment_transactions
  Arrivals,      \* transactions that callers may hand to the chain
  NoTransaction

ASSUME SegmentAssumption == /\ SegmentSizes \subseteq 1..MaxU32
                            /\ Arrivals \subseteq Transaction
                            /\ NoTransaction \notin Arrivals

VARIABLES
  ready,
  segment_transactions,
  first_segment,
  segments,
  addresses,
  min_tx_nr,
  max_tx_nr,
  transaction_count,
  refused

options == <<ready, segment_transactions>>
counters == <<min_tx_nr, max_tx_nr, transaction_count>>
vars == <<options, first_segment, segments, addresses, counters, refused>>

TypeOK ==
  /\ ready \in BOOLEAN
  /\ segment_transactions \in SegmentSizes \cup {0}
  /\ first_segment \in Nat
  /\ segments \in Seq(Index)
  /\ addresses \in Register
  /\ min_tx_nr \in Nat
  /\ max_tx_nr \in Nat
  /\ transaction_count \in Nat
  /\ refused \in Arrivals \cup {NoTransaction}

Emptied ==
  /\ first_segment' = 0
  /\ segments' = <<>>
  /\ addresses' = EmptyRegister
  /\ min_tx_nr' = 0
  /\ max_tx_nr' = 0
  /\ transaction_count' = 0
  /\ refused' = NoTransaction

Init ==
  /\ ready = FALSE
  /\ segment_transactions = 0
  /\ first_segment = 0
  /\ segments = <<>>
  /\ addresses = EmptyRegister
  /\ min_tx_nr = 0
  /\ max_tx_nr = 0
  /\ transaction_count = 0
  /\ refused = NoTransaction

\* grdb_chain_init.  Refused for want of room it leaves a zeroed chain,
\* which is the state it found.
Initialise(size) ==
  /\ ~ready
  /\ ready' = TRUE
  /\ segment_transactions' = size
  /\ Emptied

Release ==
  /\ ready
  /\ ready' = FALSE
  /\ segment_transactions' = 0
  /\ Emptied

Reset ==
  /\ ready
  /\ Emptied
  /\ UNCHANGED options

-----------------------------------------------------------------------------
\* A slip: numbers counted from one, as the chain's are.
SegmentOfFromOne(tx_nr) == (tx_nr - 1) \div segment_transactions

SegmentOf(tx_nr) == tx_nr \div segment_transactions

\* Where the row begins, once this transaction is asked for.
FirstSegment(tx) ==
  IF transaction_count = 0 /\ segments = <<>> THEN SegmentOf(tx.tx_nr) ELSE first_segment

Position(tx) == SegmentOf(tx.tx_nr) - FirstSegment(tx) + 1

IsNewSegment(tx) == Position(tx) = Len(segments) + 1

\* A slip: the segment is based at the number that opened it.
SegmentAtNumber(tx) ==
  IF IsNewSegment(tx) THEN EmptyIndex(tx.tx_nr) ELSE segments[Position(tx)]

Segment(tx) ==
  IF IsNewSegment(tx) THEN EmptyIndex(SegmentOf(tx.tx_nr) * segment_transactions)
  ELSE segments[Position(tx)]

\* A slip: a new segment goes to the front of the row.
RowFromTheFront(tx, segment) ==
  IF IsNewSegment(tx) THEN <<segment>> \o segments
  ELSE [segments EXCEPT ![Position(tx)] = segment]

\* The row with the segment of tx standing as given.
Row(tx, segment) ==
  IF IsNewSegment(tx) THEN Append(segments, segment)
  ELSE [segments EXCEPT ![Position(tx)] = segment]

Admits(tx) ==
  /\ ready
  /\ tx.tx_nr # 0
  /\ transaction_count # 0 => tx.tx_nr = max_tx_nr + 1
  /\ SegmentOf(tx.tx_nr) >= FirstSegment(tx)
  /\ Position(tx) <= Len(segments) + 1

\* A slip: a number the segment counts is added to it again.
NeverInSegment(tx) == FALSE

(***************************************************************************)
(* Whether an earlier add of this number reached the segment and failed in *)
(* the register.                                                           *)
(***************************************************************************)
InSegment(tx) ==
  Segment(tx).transaction_count # 0 /\ Segment(tx).max_tx_nr = tx.tx_nr

\* The segment as it stands when the register is reached.
SegmentsHolding(tx) ==
  IF InSegment(tx) THEN {Segment(tx)}
  ELSE IF Accepts(Segment(tx), tx) THEN Added(Segment(tx), tx) ELSE {}

\* The segment as an add that does not get past it leaves it.
SegmentsRefusing(tx) ==
  IF InSegment(tx) THEN {}
  ELSE IF Accepts(Segment(tx), tx) THEN OutOfRoom(Segment(tx), tx) ELSE {Segment(tx)}

(***************************************************************************)
(* grdb_chain_add, by how far it gets.                                     *)
(***************************************************************************)
Add(tx) ==
  /\ Admits(tx)
  /\ RegisterAccepts(addresses, tx)
  /\ \E segment \in SegmentsHolding(tx) : segments' = Row(tx, segment)
  /\ addresses' \in RegisterAdded(addresses, tx)
  /\ first_segment' = FirstSegment(tx)
  /\ min_tx_nr' = IF transaction_count = 0 THEN tx.tx_nr ELSE min_tx_nr
  /\ max_tx_nr' = tx.tx_nr
  /\ transaction_count' = transaction_count + 1
  /\ refused' = NoTransaction
  /\ UNCHANGED options

\* No room for the segment itself.  The row stays empty, or as it was.
RefusedOpening(tx) ==
  /\ Admits(tx)
  /\ IsNewSegment(tx)
  /\ first_segment' = FirstSegment(tx)
  /\ refused' = tx
  /\ UNCHANGED <<options, segments, addresses, counters>>

\* Refused in the segment, which is opened by then: for want of room, or
\* because the segment accepts no such transaction, now or later.
RefusedInSegment(tx) ==
  /\ Admits(tx)
  /\ \E segment \in SegmentsRefusing(tx) : segments' = Row(tx, segment)
  /\ first_segment' = FirstSegment(tx)
  /\ refused' = IF Accepts(Segment(tx), tx) THEN tx ELSE NoTransaction
  /\ UNCHANGED <<options, addresses, counters>>

\* Refused in the register, with the segment already counting it.
RefusedInRegister(tx) ==
  /\ Admits(tx)
  /\ \E segment \in SegmentsHolding(tx) : segments' = Row(tx, segment)
  /\ addresses' \in IF RegisterAccepts(addresses, tx)
                    THEN RegisterRefused(addresses, tx) ELSE {addresses}
  /\ first_segment' = FirstSegment(tx)
  /\ refused' = IF UnknownTypes(tx) = {} THEN tx ELSE NoTransaction
  /\ UNCHANGED <<options, counters>>

AddOrRefuse(tx) ==
  Add(tx) \/ RefusedOpening(tx) \/ RefusedInSegment(tx) \/ RefusedInRegister(tx)

Lifecycle == (\E size \in SegmentSizes : Initialise(size)) \/ Release \/ Reset

\* Any caller: whatever was refused, the next transaction may be another.
Next == Lifecycle \/ \E tx \in Arrivals : AddOrRefuse(tx)

Spec == Init /\ [][Next]_vars

(***************************************************************************)
(* The caller of the documentation: a transaction that found no room is    *)
(* added again until it is in, or the chain is emptied.  One refused for   *)
(* what it is (a type the library does not know) is dropped.  Numbers are  *)
(* handed out in order: a chain that counts nothing yet, but has opened a  *)
(* segment for a transaction that was dropped, is offered numbers of that  *)
(* segment and not of a later one.                                         *)
(***************************************************************************)
StartsInRow(tx) ==
  transaction_count = 0 /\ segments # <<>> => SegmentOf(tx.tx_nr) = first_segment

NextRetrying ==
  \/ Lifecycle
  \/ \E tx \in Arrivals :
       refused \in {tx, NoTransaction} /\ StartsInRow(tx) /\ AddOrRefuse(tx)

RetrySpec == Init /\ [][NextRetrying]_vars

-----------------------------------------------------------------------------
(***************************************************************************)
(* Every segment of the row covers the run of numbers after the one before *)
(* it, and holds numbers of its own run only; with a gapless run of numbers*)
(* behind the chain's own counters.  Whatever callers do between refusals. *)
(***************************************************************************)
SegmentsPartitionTheRun ==
  /\ \A i \in DOMAIN segments :
       LET s == segments[i]
           base == (first_segment + i - 1) * segment_transactions
           run == base..(base + segment_transactions - 1)
       IN  /\ s.base_tx_nr = base
           /\ s.transaction_count # 0 =>
                /\ s.min_tx_nr \in run
                /\ s.max_tx_nr \in run
                /\ s.max_tx_nr = s.min_tx_nr + s.transaction_count - 1
  /\ transaction_count # 0 =>
       /\ min_tx_nr > 0
       /\ max_tx_nr = min_tx_nr + transaction_count - 1

(***************************************************************************)
(* However long the run, no number is truncated to 32 bits on its way into *)
(* a set and no day slot wraps to "no transaction": a segment never holds  *)
(* more than UINT32_MAX numbers.  (chain.h: the wall an index alone has.)  *)
(***************************************************************************)
NothingIsTruncated ==
  \A i \in DOMAIN segments :
    /\ \A m \in segments[i].sets : m[2] < segment_transactions
    /\ \A d \in DOMAIN segments[i].day_max_tx :
         segments[i].day_max_tx[d] <= segment_transactions
    /\ segments[i].transaction_count <= segment_transactions

(***************************************************************************)
(* Ids and slots: whatever a refusal left of a key map without its vector, *)
(* every key, coin and entry that something was written under is found     *)
(* again, so that no address is lost to the queries.                       *)
(***************************************************************************)
WrittenIsReachable ==
  /\ \A i \in DOMAIN segments : \A m \in segments[i].sets :
       LET s == segments[i] IN
       /\ m[1][1] \in {"balance", "signed", "other"} =>
            s.addresses[m[1][2]] \in 1..s.address_sets
       /\ m[1][1] = "coin" => s.coin_communities[m[1][2]] \in 1..s.coin_sets
  /\ \A k \in Keys :
       addresses.changes[k] # <<>> \/ addresses.last_balance_tx[k] # 0
         => KnowsKey(addresses, k)

(***************************************************************************)
(* However often an add is refused and made again, a transaction gives a   *)
(* key a type once: no two records of a key are the same.                  *)
(***************************************************************************)
NoTypeIsWrittenTwice ==
  \A k \in Keys : \A i, j \in DOMAIN addresses.changes[k] :
    addresses.changes[k][i] = addresses.changes[k][j] => i = j

(***************************************************************************)
(* The type of an address as of a counted number is history: no add, let it*)
(* succeed or be refused, changes what the register answers for it.        *)
(***************************************************************************)
TypesAsOfStand ==
  [][transaction_count' # 0 =>
       \A k \in Keys : \A n \in 1..max_tx_nr :
         TypeAt(addresses, k, n)' = TypeAt(addresses, k, n)]_vars

(***************************************************************************)
(* A segment that is not the last is left as it stands and never written   *)
(* again (chain.h, grdb_chain_add), for the caller who hands out numbers   *)
(* in order: to a chain that counts nothing, numbers of two segments may be*)
(* offered and dropped, and then the first is no longer the last.          *)
(***************************************************************************)
ClosedSegmentsStand ==
  [][segments' # <<>> =>
       \A i \in 1..(Len(segments) - 1) : segments'[i] = segments[i]]_vars

(***************************************************************************)
(* A transaction that found no room gets in once there is room: its add is *)
(* never stuck behind what it left itself, unless the chain is emptied.    *)
(* One with a type the library does not know is refused for good whenever  *)
(* the add comes to look at it, and days run forward in this property's    *)
(* runs, so nothing else stands against an add.                            *)
(***************************************************************************)
RefusedGetsIn ==
  \A tx \in Arrivals :
    refused = tx /\ tx.type \in TransactionTypes /\ UnknownTypes(tx) = {}
      ~> \/ max_tx_nr = tx.tx_nr
         \/ refused = NoTransaction /\ segments = <<>>

\* Room comes back, and the caller does add again: the add that is to be
\* made again is made in the end, not refused for ever.
FairRetrySpec ==
  RetrySpec /\ \A tx \in Arrivals : WF_vars(refused = tx /\ Add(tx))

=============================================================================
