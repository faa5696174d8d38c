------------------------- MODULE CompleteTransaction -------------------------
(***************************************************************************)
(* grdr_complete_transaction, as far as the indices of a chain read it:    *)
(* its number, the second it was confirmed, its type, the community of its *)
(* chain, who signed, whose balance moved in which coin, the keys named in *)
(* its body and the address type a registration carries.                   *)
(*                                                                         *)
(* The two walks every index makes over a transaction are here as          *)
(* sequences, in the order the code makes them: Touches (the segment index)*)
(* and Notes (the types the address register writes down).                 *)
(***************************************************************************)
EXTENDS Integers, Sequences

CONSTANTS
  Keys,         \* public keys that are addresses
  NoKey,        \* the all-zero key: the sender of a creation, a missing entry
  Communities,  \* community uuids; every community has a coin of its own
  NoCommunity   \* the all-zero uuid

ASSUME BlankAssumption == /\ NoKey \notin Keys
                          /\ NoCommunity \notin Communities

(***************************************************************************)
(* grdt_transaction below GRDT_TRANSACTION_COUNT, "none" included; a value *)
(* past the enumeration is "unknown".  grdt_address likewise.              *)
(***************************************************************************)
TransactionTypes ==
  {"none", "creation", "transfer", "friends_update", "register_address",
   "deferred_transfer", "community_root", "redeem_deferred", "timeout_deferred"}

AddressTypes ==
  {"none", "human", "gmw", "auf", "project", "subaccount", "crypto", "deferred"}

\* The types whose body names keys: the cases of the switch in
\* grdb_transactions_add that fill named[].
NamingTypes ==
  {"creation", "transfer", "deferred_transfer", "redeem_deferred",
   "register_address", "community_root"}

Transaction ==
  [tx_nr     : Nat,
   second    : Int,                          \* confirmed_at.seconds
   type      : TransactionTypes \cup {"unknown"},
   community : Communities,                  \* tx_community_uuid
   signers   : Seq(Keys \cup {NoKey}),       \* signature_pairs
   balances  : Seq([key : Keys \cup {NoKey}, coin : Communities]),
   body      : [1..3 -> Keys \cup {NoKey}],  \* the union's keys, in struct order
   gives     : AddressTypes \cup {"unknown"}]  \* address_type

Touch ==
  [role : {"signed", "other"}, key : Keys \cup {NoKey}, coin : {NoCommunity}]
    \cup [role : {"balance"}, key : Keys \cup {NoKey}, coin : Communities]

(***************************************************************************)
(* The keys named in the body, named[0..2]: three in a community root, two *)
(* in the other naming types, none elsewhere whatever the union holds.     *)
(***************************************************************************)
Named(tx) ==
  IF tx.type = "community_root" THEN <<tx.body[1], tx.body[2], tx.body[3]>>
  ELSE IF tx.type \in NamingTypes THEN <<tx.body[1], tx.body[2]>>
  ELSE <<>>

(***************************************************************************)
(* Everything grdb_transactions_add looks at, in its order: signatures,    *)
(* then balance entries, then the named keys.                              *)
(***************************************************************************)
Touches(tx) ==
  [i \in 1..Len(tx.signers) |->
     [role |-> "signed", key |-> tx.signers[i], coin |-> NoCommunity]]
  \o
  [i \in 1..Len(tx.balances) |->
     [role |-> "balance", key |-> tx.balances[i].key, coin |-> tx.balances[i].coin]]
  \o
  [i \in 1..Len(Named(tx)) |->
     [role |-> "other", key |-> Named(tx)[i], coin |-> NoCommunity]]

(***************************************************************************)
(* The types grdb_addresses_add gives, in its order: a community root types*)
(* its GMW and AUF keys, a registration types both its keys with the type  *)
(* it carries, a deferred transfer types its recipient.                    *)
(***************************************************************************)
Notes(tx) ==
  CASE tx.type = "community_root" ->
         <<[key |-> tx.body[2], type |-> "gmw"], [key |-> tx.body[3], type |-> "auf"]>>
    [] tx.type = "register_address" ->
         <<[key |-> tx.body[1], type |-> tx.gives], [key |-> tx.body[2], type |-> tx.gives]>>
    [] tx.type = "deferred_transfer" ->
         <<[key |-> tx.body[2], type |-> "deferred"]>>
    [] OTHER -> <<>>

=============================================================================
