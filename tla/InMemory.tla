------------------------------- MODULE InMemory -------------------------------
(***************************************************************************)
(* grdb_in_memory: the store that keeps its transactions decoded, one in a *)
(* slot, in order.  A transaction is moved in, or decoded into the slot it *)
(* will live in; a fetch hands back the address of the slot.               *)
(*                                                                         *)
(* The vector and the scratch come from the allocator of the store; the    *)
(* arenas of the transactions from the host, and they are what can be lost.*)
(* `own` is a transaction a caller holds, to be moved in.                  *)
(***************************************************************************)
EXTENDS Serialized

VARIABLES
  store,  \* the grdb_in_memory
  own     \* the caller's grdr_complete_transaction

Zeroed == [ready |-> FALSE, records |-> <<>>, first_tx_nr |-> 0, max_tx_nr |-> 0]

InMemoryStore ==
  [ready : BOOLEAN, records : Seq(DecodedTransaction),
   first_tx_nr : Numbers, max_tx_nr : Numbers]

RecordArenas == {store.records[i].arena : i \in DOMAIN store.records}

\* grdb_in_memory_init, given room for the scratch; without it the store
\* stays zeroed.
InMemoryInit ==
  /\ ~store.ready
  /\ store' = [Zeroed EXCEPT !.ready = TRUE]
  /\ UNCHANGED <<arenas, own>>

InMemoryRelease ==
  /\ store.ready
  /\ arenas' = arenas \ RecordArenas
  /\ store' = Zeroed
  /\ UNCHANGED own

InMemoryReset ==
  /\ store.ready
  /\ arenas' = arenas \ RecordArenas
  /\ store' = [Zeroed EXCEPT !.ready = TRUE]
  /\ UNCHANGED own

\* A slip: any number above those kept.
IsAbove(tx_nr) == tx_nr > store.max_tx_nr

IsNext(tx_nr) ==
  /\ tx_nr # 0
  /\ store.first_tx_nr # 0 => tx_nr = store.max_tx_nr + 1

\* A slip: every append is noted as the first.
KeptAsFirst(tx) ==
  [store EXCEPT !.records = Append(@, tx), !.first_tx_nr = tx.tx_nr, !.max_tx_nr = tx.tx_nr]

\* note_appended, after tx was put in the newest slot.
Kept(tx) ==
  [store EXCEPT !.records = Append(@, tx),
                !.first_tx_nr = IF @ = 0 THEN tx.tx_nr ELSE @,
                !.max_tx_nr = tx.tx_nr]

\* A slip: the caller's struct still points at what it gave away.
StillTheCallers(tx) == tx

\* What the move leaves in the struct it was made from.
MovedFrom(tx) == Blank

\* in_memory_append.
MoveIn ==
  /\ store.ready
  /\ \/ /\ IsNext(own.tx_nr)
        /\ store' = Kept(own)
        /\ own' = MovedFrom(own)
     \/ UNCHANGED <<store, own>>  \* not the next number, or no room for a slot
  /\ UNCHANGED arenas

\* in_memory_append_serialized: decoded into a slot, which is popped again
\* when the decode fails or the number is not the next.
AppendSerialized(bytes) ==
  /\ store.ready
  /\ \/ UNCHANGED <<store, arenas>>  \* no room for a slot
     \/ \E d \in InitFromProtobuf(Blank, bytes) :
          \/ /\ d.result = "success"
             /\ IsNext(d.tx.tx_nr)
             /\ store' = Kept(d.tx)
             /\ arenas' = d.arenas
          \/ /\ d.result = "success"
             /\ ~IsNext(d.tx.tx_nr)
             /\ arenas' = Released(d.arenas, d.tx)
             /\ UNCHANGED store
          \/ /\ d.result # "success"
             /\ arenas' = d.arenas
             /\ UNCHANGED store
  /\ UNCHANGED own

\* The caller decodes bytes into its own struct, as the tests and hosts do.
OwnDecode(bytes) ==
  /\ \E d \in InitFromProtobuf(own, bytes) :
       /\ own' = d.tx
       /\ arenas' = d.arenas
  /\ UNCHANGED store

\* And releases it, moved from or not.
OwnRelease ==
  /\ own # Blank
  /\ arenas' = Released(arenas, own)
  /\ own' = Blank
  /\ UNCHANGED store

\* in_memory_fetch: there is no decode and no copy.
Holds(tx_nr) ==
  /\ store.first_tx_nr # 0
  /\ store.first_tx_nr <= tx_nr
  /\ tx_nr <= store.max_tx_nr

RecordOf(tx_nr) == store.records[tx_nr - store.first_tx_nr + 1]

=============================================================================
