----------------------------- MODULE RuntimeForm -----------------------------
(***************************************************************************)
(* The runtime form: one transaction with everything a reader wants of it, *)
(* its lists and blocks in an arena of its own (mapping/runtime_from_wire.c*)
(* and data/runtime/complete_transaction.c).                               *)
(*                                                                         *)
(* The two unions of the struct are "detail" and "context": the member its *)
(* type owns, NULL where it owns none.  An arena is how much was asked for *)
(* and how much of it is taken.                                            *)
(***************************************************************************)
EXTENDS WireForm

\* sizeof of what the lists hold, and of what a pairing adds.
AccountBalanceSize == 56

EncryptedMemoSize == 24

SignaturePairSize == 96

LedgerAnchorSize == 48

Align8(n) == ((n + 7) \div 8) * 8

NoArena == [size |-> 0, used |-> 0]

\* grdr_complete_transaction_init
Blank ==
  [tx_nr |-> 0, confirmed_at |-> [seconds |-> 0, nanos |-> 0],
   created_at |-> [seconds |-> 0, nanos |-> 0], tx_community_uuid |-> Nil,
   ledger_anchor |-> NoAnchor, transaction_type |-> "none", detail |-> NULL,
   context |-> NULL, tx_running_hash |-> Nil, account_balances |-> <<>>,
   encrypted_memos |-> <<>>, signature_pairs |-> <<>>, cross_group_type |-> 0,
   tx_pairing_community_uuid |-> NULL, pairing_ledger_anchor |-> NULL,
   body_bytes |-> NoBytes, memory_area |-> NoArena]

SumOf(list, Size(_)) == FoldLeft(LAMBDA sum, item : sum + Size(item), 0, list)

-----------------------------------------------------------------------------
(* The detail and the context, copied out of the body's part.              *)

CopyTransfer(part) ==
  [sender_pubkey |-> part.sender.pubkey, recipient_pubkey |-> part.recipient,
   amount |-> part.sender.amount, coin_community_uuid |-> part.sender.community_uuid]

\* Nobody sends a creation, and the coin it names is not copied: zeros stay.
CopyCreation(part) ==
  [sender_pubkey |-> Nil, recipient_pubkey |-> part.recipient.pubkey,
   amount |-> part.recipient.amount, coin_community_uuid |-> Nil]

CopyRegisterAddress(part) ==
  [user_public_key |-> part.user_pubkey, name_hash |-> part.name_hash,
   account_public_key |-> part.account_pubkey]

CopyCommunityRoot(part) ==
  [public_key |-> part.pubkey, gmw_public_key |-> part.gmw_pubkey,
   auf_public_key |-> part.auf_pubkey]

\* The types with a layout; a friends update has none, and no type has none.
LaidOut ==
  {"transfer", "creation", "register_address", "deferred_transfer",
   "redeem_deferred", "timeout_deferred", "community_root"}

Detail(type, part) ==
  CASE type = "transfer" -> CopyTransfer(part)
    [] type = "creation" -> CopyCreation(part)
    [] type = "register_address" -> CopyRegisterAddress(part)
    [] type \in {"deferred_transfer", "redeem_deferred"} -> CopyTransfer(part.transfer)
    [] type = "timeout_deferred" -> NULL
    [] type = "community_root" -> CopyCommunityRoot(part)

Context(type, part) ==
  CASE type = "creation" -> [target_date |-> part.target_date.seconds]
    [] type = "register_address" ->
         [address_type |-> part.address_type, derivation_index |-> part.derivation_index]
    [] type = "deferred_transfer" -> [timeout_duration |-> part.timeout_duration]
    [] type \in {"redeem_deferred", "timeout_deferred"} ->
         [previous_tx |-> part.deferred_transfer_transaction_nr]
    [] OTHER -> NULL

-----------------------------------------------------------------------------
(* The arena: what is asked for beforehand, and what is taken afterwards.  *)

\* A slip: an anchor is counted whether there is one or not.
AnchorAlwaysCounted(confirmed, body) ==
  Align8(Len(confirmed.account_balances) * AccountBalanceSize)
  + Align8(Len(body.memos) * EncryptedMemoSize)
  + SumOf(body.memos, LAMBDA m : Align8(m.memo.size))
  + (IF body.other_community_uuid = NULL THEN 0 ELSE UuidSize)
  + Align8(Len(confirmed.transaction.sig_map) * SignaturePairSize)
  + Align8(LedgerAnchorSize) + Align8(confirmed.transaction.body_bytes.size)

MemorySizeFromWire(confirmed, body) ==
  LET transaction == confirmed.transaction
  IN  Align8(Len(confirmed.account_balances) * AccountBalanceSize)
      + (IF body.memos = <<>> THEN 0
         ELSE Align8(Len(body.memos) * EncryptedMemoSize)
              + SumOf(body.memos, LAMBDA m : Align8(m.memo.size)))
      + (IF body.other_community_uuid = NULL THEN 0 ELSE UuidSize)
      + Align8(Len(transaction.sig_map) * SignaturePairSize)
      + (IF transaction.pairing_ledger_anchor.type = Unspecified THEN 0
         ELSE Align8(LedgerAnchorSize))
      + Align8(transaction.body_bytes.size)

\* More than an arena can be opened with.
TooLarge(size) == size > MaxAlloc

\* The sizes a transaction's parts take out of its arena, in the order taken.
Allocations(tx) ==
  LET Of(there, size) == IF there THEN <<size>> ELSE <<>>
      balances   == Len(tx.account_balances)
      memos      == Len(tx.encrypted_memos)
      signatures == Len(tx.signature_pairs)
  IN  Of(balances > 0, balances * AccountBalanceSize)
      \o Of(memos > 0, memos * EncryptedMemoSize)
      \o [i \in 1..memos |-> tx.encrypted_memos[i].memo.size]
      \o Of(signatures > 0, signatures * SignaturePairSize)
      \o Of(tx.tx_pairing_community_uuid # NULL, UuidSize)
      \o Of(tx.pairing_ledger_anchor # NULL, LedgerAnchorSize)
      \o Of(tx.body_bytes.size > 0, tx.body_bytes.size)

\* An arena charges every block rounded up to eight bytes.
Taken(tx) == SumOf(Allocations(tx), Align8)

(***************************************************************************)
(* Everything of a transaction that lives in its arena, taken from an      *)
(* arena of this size; how far the lists got when it is too small is not   *)
(* told apart.                                                             *)
(***************************************************************************)
FilledFrom(size, envelope, tx) ==
  IF Taken(tx) <= size
  THEN [result |-> "SUCCESS", tx |-> [tx EXCEPT !.memory_area = [size |-> size, used |-> Taken(tx)]]]
  ELSE [result |-> "OUT_OF_MEMORY",
        tx |-> [envelope EXCEPT !.memory_area = [size |-> size, used |-> size]]]

(***************************************************************************)
(* The target is released first, so an answer starts from Blank whatever   *)
(* it held.  A type without a layout is refused after the arena is opened: *)
(* the arena stays until the next release.  What arnm answers to a copy of *)
(* an empty block is not in this repository: emptyClone.                   *)
(***************************************************************************)
CompleteTransactionFromWire(body, confirmed, community, emptyClone) ==
  LET size == MemorySizeFromWire(confirmed, body)
      envelope == [Blank EXCEPT !.tx_nr = confirmed.id, !.confirmed_at = confirmed.confirmed_at,
                                !.created_at = body.created_at,
                                !.tx_community_uuid = community,
                                !.ledger_anchor = confirmed.ledger_anchor,
                                !.memory_area = [size |-> size, used |-> 0]]
      transaction == confirmed.transaction
  IN  IF TooLarge(size) THEN [result |-> "RESOURCE_SIZE_EXCEED", tx |-> Blank]
      ELSE IF body.transaction_type \notin LaidOut
      THEN [result |-> "ENUM_UNHANDLED", tx |-> envelope]
      ELSE IF emptyClone # "SUCCESS" /\ \E i \in DOMAIN body.memos : body.memos[i].memo.size = 0
      THEN [result |-> emptyClone, tx |-> [envelope EXCEPT !.memory_area.used = size]]
      ELSE FilledFrom(size, envelope,
             [envelope EXCEPT !.detail = Detail(body.transaction_type, body.data),
                              !.context = Context(body.transaction_type, body.data),
                              !.transaction_type = body.transaction_type,
                              !.tx_running_hash = confirmed.running_hash,
                              !.account_balances = confirmed.account_balances,
                              !.encrypted_memos = body.memos,
                              !.signature_pairs = transaction.sig_map,
                              !.cross_group_type = body.type,
                              !.tx_pairing_community_uuid = body.other_community_uuid,
                              !.pairing_ledger_anchor =
                                 IF transaction.pairing_ledger_anchor.type = Unspecified
                                 THEN NULL ELSE transaction.pairing_ledger_anchor,
                              !.body_bytes = transaction.body_bytes])

-----------------------------------------------------------------------------
(* What a reader asks of a transaction.                                    *)

Local == 0

Inbound == 1

Outbound == 2

TransferTypes == {"transfer", "redeem_deferred", "deferred_transfer"}

GetAccountBalanceForPublicKey(tx, key) ==
  LET own   == {i \in DOMAIN tx.account_balances : tx.account_balances[i].pubkey = key}
      first == CHOOSE i \in own : \A j \in own : i <= j
  IN  IF own = {} THEN NULL ELSE tx.account_balances[first]

GetSenderCommunityUuid(tx) ==
  CASE tx.cross_group_type \in {Local, Outbound} -> tx.tx_community_uuid
    [] tx.cross_group_type = Inbound -> tx.tx_pairing_community_uuid
    [] OTHER -> NULL

\* A slip: as for the sender.
RecipientSitsWithSender(tx) == GetSenderCommunityUuid(tx)

GetRecipientCommunityUuid(tx) ==
  CASE tx.cross_group_type \in {Local, Inbound} -> tx.tx_community_uuid
    [] tx.cross_group_type = Outbound -> tx.tx_pairing_community_uuid
    [] OTHER -> NULL

GetSenderPublicKey(tx) ==
  IF tx.transaction_type \in TransferTypes THEN tx.detail.sender_pubkey ELSE NULL

GetRecipientPublicKey(tx) ==
  IF tx.transaction_type \in TransferTypes \cup {"creation"}
  THEN tx.detail.recipient_pubkey ELSE NULL

GetRegisteredAccount(tx) ==
  IF tx.transaction_type = "register_address" THEN tx.detail.account_public_key ELSE NULL

GetAmount(tx) ==
  IF tx.transaction_type \in TransferTypes \cup {"creation"} THEN tx.detail.amount ELSE 0

GetTargetDate(tx) ==
  IF tx.transaction_type = "creation" THEN tx.context.target_date ELSE 0

GetTimeoutDuration(tx) ==
  IF tx.transaction_type = "deferred_transfer" THEN tx.context.timeout_duration ELSE 0

=============================================================================
