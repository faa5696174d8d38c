------------------------------ MODULE StoredChain ------------------------------
(***************************************************************************)
(* A chain that reads through a store: grdb_chain_load asks the store for  *)
(* one number after another and adds what it is handed, until the end it   *)
(* was given, or the store's, or the first refusal.                        *)
(*                                                                         *)
(* A node has one store, kept in memory or behind a host.  The chain is    *)
(* here what Ledger says of it: the run it counts, from its first number.  *)
(* An add may be refused at any number; what a refused add leaves behind   *)
(* is the matter of Chain.  One thread makes all the calls; only the host  *)
(* may receive rows of its own while a load is going on.                   *)
(***************************************************************************)
EXTENDS InMemory, HostStore

CONSTANTS
  Offers,  \* the bytes that callers and hosts may come with
  Ranges   \* what callers ask to load: <<from, to>>, 0 for an end left open

ASSUME OfferAssumption == /\ Offers \subseteq SerializedTransaction
                          /\ Ranges \subseteq Nat \X Nat

VARIABLES
  kind,   \* which store the chain was given
  chain,  \* its first number, 0 while empty, and what it counts from there
  load    \* the load going on, or the last one

inMemoryVars == <<store, own>>
adapterVars == <<adapter, callbacks, rows, handedOver>>
vars == <<arenas, inMemoryVars, adapterVars, kind, chain, load>>

EmptyChain == [first |-> 0, bodies |-> <<>>]

NoLoad ==
  [on |-> FALSE, from |-> 0, to |-> 0, next |-> 0, count |-> 0, before |-> 0,
   result |-> "none"]

Results ==
  {"none", "success", "out_of_bounds", "decode_failed", "enum_unhandled",
   "out_of_memory", "invalid_param", "refused"}

Load ==
  [on : BOOLEAN, from : Nat, to : Nat, next : Nat, count : Nat, before : Nat,
   result : Results]

Callbacks == [put : BOOLEAN, release : BOOLEAN]

TypeOK ==
  /\ arenas \subseteq Arenas
  /\ store \in InMemoryStore
  /\ own \in DecodedTransaction
  /\ adapter \in Adapter
  /\ callbacks \in Callbacks
  /\ DOMAIN rows \subseteq Numbers \ {0}
  /\ \A n \in DOMAIN rows : rows[n] \in SerializedTransaction /\ rows[n].id = n
  /\ handedOver \in Nat
  /\ kind \in {"in_memory", "host"}
  /\ chain \in [first : Numbers, bodies : Seq(Bodies)]
  /\ load \in Load

Init ==
  /\ arenas = {}
  /\ store = Zeroed
  /\ own = Blank
  /\ adapter = NoAdapter
  /\ callbacks \in Callbacks
  /\ rows = [n \in {} |-> 0]
  /\ handedOver = 0
  /\ kind \in {"in_memory", "host"}
  /\ chain = EmptyChain
  /\ load = NoLoad

-----------------------------------------------------------------------------
IsReadable == IF kind = "in_memory" THEN store.ready ELSE adapter.ready

\* grdb_chain_store_fetch, through the pointer the chain was given: each way
\* it can come out, and the store as it is then.
StoreFetches(tx_nr) ==
  IF kind = "in_memory"
  THEN {[result |-> IF Holds(tx_nr) THEN "success" ELSE "out_of_bounds",
         tx |-> IF Holds(tx_nr) THEN RecordOf(tx_nr) ELSE Blank,
         adapter |-> adapter, arenas |-> arenas, handedOver |-> handedOver]}
  ELSE {[result |-> o.result, tx |-> o.adapter.held,
         adapter |-> o.adapter, arenas |-> o.arenas, handedOver |-> o.handedOver]
        : o \in HostFetches(tx_nr)}

StoreIsAs(fetched) ==
  /\ adapter' = fetched.adapter
  /\ arenas' = fetched.arenas
  /\ handedOver' = fetched.handedOver
  /\ UNCHANGED <<store, own, callbacks, rows, kind>>

\* grdb_chain_fetch.
Fetch(tx_nr) ==
  /\ ~load.on
  /\ IsReadable
  /\ \E fetched \in StoreFetches(tx_nr) : StoreIsAs(fetched)
  /\ load' = NoLoad
  /\ UNCHANGED chain

\* grdb_chain_reset.
ChainReset ==
  /\ ~load.on
  /\ chain' = EmptyChain
  /\ load' = NoLoad
  /\ UNCHANGED <<arenas, inMemoryVars, adapterVars, kind>>

\* Whether grdb_chain_add may count this number.
ChainAccepts(tx_nr) ==
  /\ tx_nr # 0
  /\ chain.first # 0 => tx_nr = chain.first + Len(chain.bodies)

ChainWith(tx) ==
  [first |-> IF chain.first = 0 THEN tx.tx_nr ELSE chain.first,
   bodies |-> Append(chain.bodies, tx.body)]

-----------------------------------------------------------------------------
\* grdb_chain_load up to its loop: from 0 is from 1, and an end before the
\* beginning is refused.
LoadBegin(from, to) ==
  LET first == IF from = 0 THEN 1 ELSE from IN
  /\ ~load.on
  /\ IsReadable
  /\ load' = [on |-> to = 0 \/ first <= to,
              from |-> first, to |-> to, next |-> first,
              count |-> 0, before |-> Len(chain.bodies),
              result |-> IF to = 0 \/ first <= to THEN "none" ELSE "invalid_param"]
  /\ UNCHANGED <<arenas, inMemoryVars, adapterVars, kind, chain>>

Stopped(result) == [load EXCEPT !.on = FALSE, !.result = result]

\* A slip: a store that ran out is a success whatever end was named.
RanOutAnywhere(result) == IF result = "out_of_bounds" THEN "success" ELSE result

\* The store ran out and the caller named no end: that is where it stops.
RanOut(result) ==
  IF result = "out_of_bounds" /\ load.to = 0 THEN "success" ELSE result

\* One number further, or through.
Advanced ==
  [load EXCEPT !.count = @ + 1,
               !.next = @ + 1,
               !.on = load.to = 0 \/ load.next < load.to,
               !.result = IF load.to = 0 \/ load.next < load.to THEN "none" ELSE "success"]

\* One round of the loop of grdb_chain_load.
LoadStep ==
  /\ load.on
  /\ \E fetched \in StoreFetches(load.next) :
       /\ StoreIsAs(fetched)
       /\ \/ /\ fetched.result # "success"
             /\ load' = Stopped(RanOut(fetched.result))
             /\ UNCHANGED chain
          \/ /\ fetched.result = "success"
             /\ load' = Stopped("refused")
             /\ UNCHANGED chain
          \/ /\ fetched.result = "success"
             /\ ChainAccepts(fetched.tx.tx_nr)
             /\ chain' = ChainWith(fetched.tx)
             /\ load' = Advanced

-----------------------------------------------------------------------------
\* What a load answered is read before the next call.
Heard == load' = IF load.on THEN load ELSE NoLoad

InMemoryNext ==
  /\ kind = "in_memory"
  /\ ~load.on
  /\ \/ InMemoryInit
     \/ InMemoryRelease
     \/ InMemoryReset
     \/ own.body # NoBody /\ MoveIn  \* a caller offers what it decoded to the end
     \/ OwnRelease
     \/ \E bytes \in Offers : AppendSerialized(bytes) \/ OwnDecode(bytes)
  /\ Heard
  /\ UNCHANGED <<adapterVars, kind, chain>>

HostNext ==
  /\ kind = "host"
  /\ \/ \E bytes \in Offers : HostReceives(bytes)
     \/ /\ ~load.on
        /\ \/ AdapterInit
           \/ AdapterRelease
           \/ \E bytes \in Offers : HostPut(bytes)
  /\ Heard
  /\ UNCHANGED <<inMemoryVars, kind, chain>>

ChainNext ==
  \/ ChainReset
  \/ \E tx_nr \in Numbers : Fetch(tx_nr)
  \/ \E range \in Ranges : LoadBegin(range[1], range[2])
  \/ LoadStep

Next == InMemoryNext \/ HostNext \/ ChainNext

Spec == Init /\ [][Next]_vars

-----------------------------------------------------------------------------
\* Every slot of the store in memory holds the transaction of its number, and
\* there are as many slots as numbers: fetch finds by subtraction alone.  A
\* decode that fails half way, a number that is not the next and a struct
\* moved from must all leave it so.
KeptUnderTheirNumbers ==
  /\ Len(store.records) =
       (IF store.first_tx_nr = 0 THEN 0 ELSE store.max_tx_nr - store.first_tx_nr + 1)
  /\ \A i \in DOMAIN store.records :
       /\ store.records[i].tx_nr = store.first_tx_nr + i - 1
       /\ store.records[i].body \in Bodies

\* The arena of a transaction is open for as long as a slot of the store, the
\* caller's struct or the adapter's place points at it, and no two of them
\* point at the same: what a move leaves behind, a second decode into one
\* place and a release must not free what another still reads.
EveryArenaHasOneOwner ==
  /\ \A i \in DOMAIN store.records : store.records[i].arena \in arenas
  /\ \A i, j \in DOMAIN store.records :
       store.records[i].arena = store.records[j].arena => i = j
  /\ \A i \in DOMAIN store.records : store.records[i].arena # own.arena
  /\ own.arena # NoArena => own.arena \in arenas
  /\ adapter.held.arena # NoArena => adapter.held.arena \in arenas
  /\ own.arena # NoArena => own.arena # adapter.held.arena

\* in_memory.h: the store owns the arenas of what it takes and releases them
\* all; store.h: after an append that failed, nothing was kept.  So every
\* arena that is open still has an owner to release it.
EveryArenaIsReleasable ==
  arenas \subseteq RecordArenas \cup {own.arena, adapter.held.arena}

\* What the adapter hands out again without asking is what the host keeps
\* under that number, whole, whatever was fetched or failed to decode between.
HeldIsTheHostsRow ==
  adapter.held_tx_nr # 0 =>
    /\ adapter.held_tx_nr \in DOMAIN rows
    /\ rows[adapter.held_tx_nr].form = "whole"
    /\ adapter.held.tx_nr = adapter.held_tx_nr
    /\ adapter.held.body = rows[adapter.held_tx_nr].body
    /\ adapter.held.arena \in arenas

\* ffi.h: release is called exactly once for every get that was answered with
\* a yes, decoded or not; so between calls no row is held open.
NoRowStaysOpen == handedOver = 0

\* What the store keeps, as Store has it.
KeptBodies ==
  IF kind = "in_memory"
  THEN [n \in {m \in Numbers : Holds(m)} |-> RecordOf(n).body]
  ELSE [n \in DOMAIN rows |-> rows[n].body]

Promised == INSTANCE Store WITH kept <- KeptBodies

\* The store is a gapless run that only appends continue, until it is emptied
\* whole: in memory, whatever is offered in whichever form.
ImplementsStore == Promised!Spec

\* A load that is over has said the truth: the chain grew by what it counted,
\* refused or not; what it counted is what the store keeps under those
\* numbers; and a success reached the end it was given, or the store's.
LoadIsOver == load.on /\ ~load'.on

ChainBody(c, tx_nr) == c.bodies[tx_nr - c.first + 1]

LoadTellsTheTruth ==
  [][LoadIsOver =>
       /\ Len(chain'.bodies) = load'.before + load'.count
       /\ \A n \in load'.from .. load'.from + load'.count - 1 :
            ChainBody(chain', n) = KeptBodies[n]
       /\ load'.result = "success" =>
            IF load'.to = 0 THEN load'.from + load'.count \notin DOMAIN KeptBodies
            ELSE load'.from + load'.count = load'.to + 1]_vars

\* store.h: append_serialized answers INVALID_PARAM to a number that is not
\* the one after the store's largest.
AppendContinuesTheRun ==
  [][\A n \in Numbers :
       /\ DOMAIN rows # {}
       /\ n \in DOMAIN rows'
       /\ (n \in DOMAIN rows => rows'[n] # rows[n])
       => n - 1 \in DOMAIN rows /\ \A m \in DOMAIN rows : m < n]_vars

=============================================================================
