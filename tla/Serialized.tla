------------------------------ MODULE Serialized ------------------------------
(***************************************************************************)
(* The bytes of a ConfirmedTransaction, the struct they are decoded into,  *)
(* and the arena that struct carries with it.                              *)
(*                                                                         *)
(* Of the bytes there is the number in field 1, what else they say, and how*)
(* far a decode of them gets.  Of the struct there is its number, what it  *)
(* says and which arena holds its arrays: a struct that is copied without  *)
(* being emptied leaves that arena with two owners.                        *)
(***************************************************************************)
EXTENDS Integers, Sequences, FiniteSets

CONSTANTS
  Bodies,    \* what a transaction says beside its number
  NoBody,
  MaxNr,     \* bound: the largest number of any transaction
  MaxArenas  \* bound: how many arenas the host's memory has room for

ASSUME SerializedAssumption == /\ NoBody \notin Bodies
                               /\ MaxNr \in Nat
                               /\ MaxArenas \in Nat

VARIABLE arenas  \* the arenas that are open, whoever owns them

Numbers == 0..MaxNr
Arenas == 1..MaxArenas
NoArena == 0

(***************************************************************************)
(* malformed: no message, even to the read of the number alone.            *)
(* misread:   well formed, and refused by the decode of the message or of  *)
(*            its body (a version, a hash size, a missing part).           *)
(* unhandled: decoded, of a type the runtime form has no case for.         *)
(* whole:     decoded all the way.                                         *)
(***************************************************************************)
Forms == {"malformed", "misread", "unhandled", "whole"}

SerializedTransaction == [id : Numbers, body : Bodies, form : Forms]

DecodedTransaction ==
  [tx_nr : Numbers, body : Bodies \cup {NoBody}, arena : Arenas \cup {NoArena}]

\* grdr_complete_transaction_init.
Blank == [tx_nr |-> 0, body |-> NoBody, arena |-> NoArena]

\* What is left open once grdr_complete_transaction_release is through.
Released(open, tx) == open \ {tx.arena}

\* The next arena memory has room for, as a set: empty when there is none.
Opened(open) ==
  {a \in Arenas \ open : \A b \in Arenas \ open : a <= b}

(***************************************************************************)
(* grdm_complete_transaction_from_wire, into tx: what it held is released, *)
(* an arena is opened, and the fields are copied up to the type.           *)
(***************************************************************************)
FromWire(tx, bytes) ==
  LET left == Released(arenas, tx) IN
  {[tx |-> Blank, arenas |-> left, result |-> "out_of_memory"]}
  \cup
  {[tx |-> [tx_nr |-> bytes.id,
            body |-> IF bytes.form = "whole" THEN bytes.body ELSE NoBody,
            arena |-> a],
    arenas |-> left \cup {a},
    result |-> IF bytes.form = "whole" THEN "success" ELSE "enum_unhandled"]
   : a \in Opened(left)}

(***************************************************************************)
(* grdr_complete_transaction_init_from_protobuf: the ways it can come out. *)
(* Nothing of tx is touched before message and body are both decoded, and  *)
(* the scratch they are decoded in may be too small for either.            *)
(***************************************************************************)
InitFromProtobuf(tx, bytes) ==
  {[tx |-> tx, arenas |-> arenas, result |-> "out_of_memory"]}
  \cup
  IF bytes.form \in {"malformed", "misread"}
  THEN {[tx |-> tx, arenas |-> arenas, result |-> "decode_failed"]}
  ELSE FromWire(tx, bytes)

\* grdw_confirmed_transaction_peek_id: whether it comes to the number.
Peeks(bytes) == bytes.form # "malformed"

=============================================================================
