--------------------------- MODULE AddressRegister ---------------------------
(***************************************************************************)
(* grdb_addresses, the register of a chain's addresses: the types each was *)
(* given and the last transaction that moved its balance.  Type records    *)
(* are linked newest first; here they are a sequence per key, newest first.*)
(*                                                                         *)
(* As in the index of a segment, an add may be refused at any allocation,  *)
(* and what it had written stands.                                         *)
(***************************************************************************)
EXTENDS TransactionsIndex

TypeChange == [tx_nr : Nat, type : AddressTypes]

Register ==
  [keys              : [Keys -> Nat],   \* key map: id + 1, 0 for an unseen key
   entries           : Nat,             \* size of the vector behind it
   last_balance_tx   : [Keys -> Nat],   \* 0 for a key without a balance entry
   changes           : [Keys -> Seq(TypeChange)],
   max_tx_nr         : Nat,
   transaction_count : U32]

\* What grdb_addresses_init leaves, and reset again.
EmptyRegister ==
  [keys              |-> [k \in Keys |-> 0],
   entries           |-> 0,
   last_balance_tx   |-> [k \in Keys |-> 0],
   changes           |-> [k \in Keys |-> <<>>],
   max_tx_nr         |-> 0,
   transaction_count |-> 0]

\* What the add asks of the register: the notes, then the balance entries.
Asks(tx) ==
  Notes(tx) \o [i \in 1..Len(tx.balances) |->
                  [key |-> tx.balances[i].key, type |-> "balance"]]

IsNote(tx, i) == i \in 1..Len(Notes(tx))

(***************************************************************************)
(* note_type: a blank key is passed over before its type is looked at.     *)
(* A record of this very transaction and type, among the newest of the key *)
(* that carry its number, is not written again.                            *)
(***************************************************************************)
IsNoted(changes, note, tx_nr) ==
  \E i \in DOMAIN changes[note.key] :
    /\ changes[note.key][i].type = note.type
    /\ \A j \in 1..i : changes[note.key][j].tx_nr = tx_nr

\* A slip: the record is written again.
NotedAgain(changes, note, tx_nr) ==
  IF note.key = NoKey THEN changes
  ELSE [changes EXCEPT ![note.key] = <<[tx_nr |-> tx_nr, type |-> note.type]>> \o @]

Noted(changes, note, tx_nr) ==
  IF note.key = NoKey \/ IsNoted(changes, note, tx_nr) THEN changes
  ELSE [changes EXCEPT ![note.key] = <<[tx_nr |-> tx_nr, type |-> note.type]>> \o @]

\* No transaction gives more than two types.
ChangesBefore(register, tx, place) ==
  LET notes == Notes(tx)
      Done(i) == IsNote(tx, i) /\ At(i, 3) < place
      once  == IF Done(1) THEN Noted(register.changes, notes[1], tx.tx_nr)
                          ELSE register.changes
  IN  IF Done(2) THEN Noted(once, notes[2], tx.tx_nr) ELSE once

-----------------------------------------------------------------------------
(***************************************************************************)
(* Places of an add, as in TransactionsIndex: 1 the key map takes the key, *)
(* 2 its entry is grown (and the entry's balance number written), 3 the    *)
(* type record is written.                                                 *)
(***************************************************************************)
EndOfAsks(tx) == At(Len(Asks(tx)) + 1, 0)

\* A slip: every address type is written down.
NothingUnknown(tx) == {}

\* An address type the library does not know is found here, note by note.
UnknownTypes(tx) ==
  {At(i, 1) : i \in {j \in DOMAIN Notes(tx) :
                       Notes(tx)[j].key # NoKey /\ Notes(tx)[j].type \notin AddressTypes}}

\* Where a register with this state can run out of room.
RoomPlaces(register, tx) ==
  LET key(i) == Asks(tx)[i].key
      FirstAsked(i) == key(i) \in Keys /\ \A j \in 1..(i - 1) : key(j) # key(i)
      Grows(i) == register.keys[key(i)] = 0 \/ register.keys[key(i)] > register.entries
  IN  {At(i, 1) : i \in {j \in DOMAIN Asks(tx) : FirstAsked(j) /\ register.keys[key(j)] = 0}}
      \cup {At(i, 2) : i \in {j \in DOMAIN Asks(tx) : FirstAsked(j) /\ Grows(j)}}
      \cup {At(i, 3) : i \in {j \in DOMAIN Notes(tx) : key(j) # NoKey}}

\* A slip: an entry keeps the first number it was given.
FirstBalancesBefore(register, tx, place) ==
  [k \in Keys |->
     IF register.last_balance_tx[k] = 0 /\
        \E i \in DOMAIN Asks(tx) :
          ~IsNote(tx, i) /\ Asks(tx)[i].key = k /\ At(i, 2) < place
     THEN tx.tx_nr ELSE register.last_balance_tx[k]]

\* The last balance number of every key, with the entries before place.
BalancesBefore(register, tx, place) ==
  [k \in Keys |->
     IF \E i \in DOMAIN Asks(tx) :
          ~IsNote(tx, i) /\ Asks(tx)[i].key = k /\ At(i, 2) < place
     THEN tx.tx_nr ELSE register.last_balance_tx[k]]

AskedBefore(tx, part, place) ==
  [k \in Keys |-> {i \in DOMAIN Asks(tx) : Asks(tx)[i].key = k /\ At(i, part) < place}]

RegisterBefore(register, tx, place) ==
  LET keys    == Inserted(register.keys, AskedBefore(tx, 1, place))
      reached == {k \in Keys : AskedBefore(tx, 2, place)[k] # {}}
      heading == {k \in Keys : \E i \in DOMAIN Asks(tx) :
                                  Asks(tx)[i].key = k /\ At(i, 2) = place}
  IN  {[register EXCEPT !.keys            = keys,
                        !.entries         = e,
                        !.last_balance_tx = BalancesBefore(register, tx, place),
                        !.changes         = ChangesBefore(register, tx, place)] :
         e \in Slots(register.entries, keys, reached, heading)}

(***************************************************************************)
(* grdb_addresses_add.  Numbers may leave gaps here: what a transaction    *)
(* says is noted under its number, which only has to grow.                 *)
(***************************************************************************)
RegisterAccepts(register, tx) ==
  /\ register.transaction_count # 0 => tx.tx_nr > register.max_tx_nr
  /\ tx.type \in TransactionTypes

RegisterAdded(register, tx) ==
  IF UnknownTypes(tx) # {} THEN {}
  ELSE {[r EXCEPT !.max_tx_nr = tx.tx_nr,
                  !.transaction_count = (@ + 1) % (MaxU32 + 1)] :
          r \in RegisterBefore(register, tx, EndOfAsks(tx))}

\* The registers a refused add can leave: out of room somewhere, or stopped
\* at the first address type the library does not know.
RegisterRefused(register, tx) ==
  LET reached == {p \in RoomPlaces(register, tx) \cup UnknownTypes(tx) :
                    \A u \in UnknownTypes(tx) : p <= u}
  IN  UNION {RegisterBefore(register, tx, p) : p \in reached}

-----------------------------------------------------------------------------
(***************************************************************************)
(* Asking.  entry_of_key needs the key in the map and its entry in the     *)
(* vector.                                                                 *)
(***************************************************************************)
KnowsKey(register, key) ==
  key \in Keys /\ register.keys[key] \in 1..register.entries

\* grdb_addresses_type
TypeOf(register, key) ==
  IF KnowsKey(register, key) /\ register.changes[key] # <<>>
  THEN register.changes[key][1].type ELSE "none"

\* A slip: the newest record, whatever number is asked.
TypeAtAnyTime(register, key, at_tx_nr) ==
  IF TypeOf(register, key) = "none" THEN "nothing" ELSE TypeOf(register, key)

\* grdb_addresses_type_at: the first record, newest first, at or below the
\* number; "nothing" when the call answers false.
TypeAt(register, key, at_tx_nr) ==
  LET below == IF KnowsKey(register, key)
               THEN {i \in DOMAIN register.changes[key] :
                       register.changes[key][i].tx_nr <= at_tx_nr}
               ELSE {}
  IN  IF below = {} THEN "nothing" ELSE register.changes[key][Min(below)].type

\* grdb_addresses_last_balance; 0 when the call answers false.
LastBalance(register, key) ==
  IF KnowsKey(register, key) THEN register.last_balance_tx[key] ELSE 0

=============================================================================
