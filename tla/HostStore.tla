------------------------------- MODULE HostStore -------------------------------
(***************************************************************************)
(* grdb_chain_ffi: the store behind a host's three callbacks.  The host    *)
(* keeps bytes under numbers; the adapter keeps one transaction decoded,   *)
(* and which number that is.                                               *)
(*                                                                         *)
(* The host is outside this code.  It answers a get with the row it has,   *)
(* with nothing, or with an error of its own; what it is given to keep it  *)
(* may refuse.                                                             *)
(***************************************************************************)
EXTENDS Serialized

CONSTANT HostMinds  \* whether the host keeps only the number after its largest

VARIABLES
  adapter,    \* the grdb_chain_ffi
  callbacks,  \* which of the optional ones the host gave: put, release
  rows,       \* what the host keeps: number -> bytes
  handedOver  \* rows the host holds open until it hears release

NoAdapter == [ready |-> FALSE, held |-> Blank, held_tx_nr |-> 0]

Adapter == [ready : BOOLEAN, held : DecodedTransaction, held_tx_nr : Numbers]

hostVars == <<callbacks, rows, handedOver>>

\* A number above 0 that continues what is kept, whatever it begins with.
Continues(tx_nr) ==
  /\ tx_nr # 0
  /\ \A n \in DOMAIN rows : n < tx_nr
  /\ DOMAIN rows # {} => tx_nr - 1 \in DOMAIN rows

WithRow(bytes) == [n \in DOMAIN rows \cup {bytes.id} |->
                     IF n = bytes.id THEN bytes ELSE rows[n]]

\* The host's own doing: a row it received elsewhere, after its last.
HostReceives(bytes) ==
  /\ Continues(bytes.id)
  /\ rows' = WithRow(bytes)
  /\ UNCHANGED <<adapter, callbacks, handedOver, arenas>>

-----------------------------------------------------------------------------
\* grdb_chain_ffi_init, given room for the scratch.
AdapterInit ==
  /\ ~adapter.ready
  /\ adapter' = [NoAdapter EXCEPT !.ready = TRUE]
  /\ UNCHANGED <<hostVars, arenas>>

AdapterRelease ==
  /\ adapter.ready
  /\ adapter' = NoAdapter
  /\ arenas' = Released(arenas, adapter.held)
  /\ UNCHANGED hostVars

\* The ways host.get may answer: the row, a yes with nothing in it, no such
\* row, or a failure of the lookup.
Gets(tx_nr) ==
  {"nothing", "error"} \cup (IF tx_nr \in DOMAIN rows THEN {"row"} ELSE {"not_found"})

HandedOver == IF callbacks.release THEN handedOver + 1 ELSE handedOver

ToldDone(open) == IF callbacks.release THEN open - 1 ELSE open

\* A slip: the host hears only of what could be decoded.
OpenAfterGoodDecode(d) ==
  IF d.result = "success" THEN ToldDone(HandedOver) ELSE HandedOver

\* The host hears once per handover, decoded or not.
OpenAfterDecode(d) == ToldDone(HandedOver)

\* A slip: the number is given up only for another.
HeldAfterGoodDecode(tx_nr, d) ==
  [adapter EXCEPT !.held = d.tx,
                  !.held_tx_nr = IF d.result = "success" THEN tx_nr ELSE @]

\* The number held is given up before the decode, which may fail with half
\* of another transaction in the place.
HeldAfterDecode(tx_nr, d) ==
  [adapter EXCEPT !.held = d.tx,
                  !.held_tx_nr = IF d.result = "success" THEN tx_nr ELSE 0]

Refuses(result) ==
  [result |-> result, adapter |-> adapter, arenas |-> arenas, handedOver |-> handedOver]

IsHeld(tx_nr) == adapter.held_tx_nr # 0 /\ adapter.held_tx_nr = tx_nr

\* ffi_fetch: the ways it can come out.
HostFetches(tx_nr) ==
  IF IsHeld(tx_nr) THEN {Refuses("success")}
  ELSE
    {Refuses("out_of_bounds") : answer \in Gets(tx_nr) \cap {"not_found"}}
    \cup {Refuses("decode_failed") : answer \in Gets(tx_nr) \cap {"error"}}
    \cup {[Refuses("decode_failed") EXCEPT !.handedOver = ToldDone(HandedOver)]
          : answer \in Gets(tx_nr) \cap {"nothing"}}
    \cup {[result |-> d.result,
           adapter |-> HeldAfterDecode(tx_nr, d),
           arenas |-> d.arenas,
           handedOver |-> OpenAfterDecode(d)]
          : d \in UNION {InitFromProtobuf(adapter.held, rows[n])
                         : n \in DOMAIN rows \cap {tx_nr}}}

\* ffi_append_serialized: the bytes go to the host under the number read out
\* of them, and are never decoded here.  Bytes with no number, or none that
\* can be read, do not reach it; a host may refuse the others.
HostPut(bytes) ==
  /\ adapter.ready
  /\ callbacks.put
  /\ \/ /\ Peeks(bytes)
        /\ bytes.id # 0
        /\ HostMinds => Continues(bytes.id)
        /\ rows' = WithRow(bytes)
     \/ UNCHANGED rows
  /\ UNCHANGED <<adapter, callbacks, handedOver, arenas>>

=============================================================================
