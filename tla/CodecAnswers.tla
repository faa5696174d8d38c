----------------------------- MODULE CodecAnswers -----------------------------
(***************************************************************************)
(* What the forms of a transaction owe each other: Codec's properties.     *)
(***************************************************************************)
EXTENDS Codec, Assembly

Read == decoding # NULL /\ decoding.result = "SUCCESS"

ReadBack == reading # NULL /\ reading.result = "SUCCESS"

Unedited == reading # NULL /\ reading.edit.kind = "none"

-----------------------------------------------------------------------------
(* From the wire.                                                          *)

\* Lists the decoder's limits leave alone: each is shorter than its counter can say.
Countable(c) ==
  \A list \in {c.body.memos, c.confirmed.account_balances, c.confirmed.transaction.sig_map} :
    Len(list) < MaxCount

\* What is left of a message when only these lists found room.
SignedIn(transaction, room) ==
  [transaction EXCEPT !.sig_map = IF "sig_pair" \in room THEN @ ELSE <<>>]

WireIn(confirmed, room) ==
  LET signed == [confirmed EXCEPT !.transaction = SignedIn(@, room)]
  IN  [signed EXCEPT !.account_balances = IF "account_balances" \in room THEN @ ELSE <<>>]

BodyIn(body, room) == [body EXCEPT !.memos = IF "memos" \in room THEN @ ELSE <<>>]

(***************************************************************************)
(* A transaction that is encoded, sent and decoded arrives as it was       *)
(* composed, member for member: zeros, which protobuf leaves out, all-zero *)
(* uuids, empty lists, the member of the oneof; only a list that found no  *)
(* room is empty, and one as long as its counter is refused rather than    *)
(* cut (grdw_confirmed_transaction_encode, _decode, and the two mappings   *)
(* between them).                                                          *)
(***************************************************************************)
SentIsReceived ==
  decoding # NULL /\ arrived.kind = "unchanged" /\ decoding.result # "OUT_OF_MEMORY" =>
    IF Countable(composed)
    THEN /\ decoding.wire = WireIn(composed.confirmed, decoding.room)
         /\ decoding.body = BodyIn(composed.body, decoding.room)
    ELSE decoding.room = Lists => decoding.result # "SUCCESS"

\* The keys a transaction names, as its part of the body holds them.
KeysOf(body) ==
  LET part == body.data
      Parties(transfer) == <<transfer.sender.pubkey, transfer.recipient>>
  IN  CASE body.transaction_type = "transfer" -> Parties(part)
        [] body.transaction_type = "creation" -> <<part.recipient.pubkey>>
        [] body.transaction_type \in {"deferred_transfer", "redeem_deferred"} ->
             Parties(part.transfer)
        [] body.transaction_type = "register_address" ->
             <<part.user_pubkey, part.name_hash, part.account_pubkey>>
        [] body.transaction_type = "community_root" ->
             <<part.pubkey, part.gmw_pubkey, part.auf_pubkey>>
        [] OTHER -> <<>>

(***************************************************************************)
(* Whatever another program leaves out, repeats or adds, what is decoded   *)
(* names no key, hash or signature but those that were sent: a missing one *)
(* is a refusal, never an array of zeros (the size checks of               *)
(* wire_from_pbtools.c).                                                   *)
(***************************************************************************)
NoKeyIsMadeUp ==
  Read =>
    LET wire == decoding.wire
        sent == composed.confirmed
    IN  /\ wire.running_hash = sent.running_hash
        /\ KeysOf(decoding.body) = KeysOf(composed.body)
        /\ Range(wire.transaction.sig_map) \subseteq Range(sent.transaction.sig_map)
        /\ {b.pubkey : b \in Range(wire.account_balances)}
             \subseteq {b.pubkey : b \in Range(sent.account_balances)}

\* The number a store learns without decoding (grdw_confirmed_transaction_peek_id) is the one
\* the decoded transaction has, wherever the field stands and however often.
PeekedIsDecoded ==
  decoding # NULL /\ decoding.wire # NULL => decoding.peeked = Success(decoding.wire.id)

-----------------------------------------------------------------------------
(* The arena.                                                              *)

(***************************************************************************)
(* The size worked out beforehand is what is taken afterwards, to the      *)
(* byte: a size too small would refuse a good transaction, one too large   *)
(* would keep what nobody uses (memory_size_from_wire, memory_size_from_   *)
(* json, against the allocations that follow).  No arena is larger than    *)
(* arnm hands out.                                                         *)
(***************************************************************************)
ArenaIsExact ==
  /\ tx.memory_area.size <= MaxAlloc /\ target.memory_area.size <= MaxAlloc
  /\ decoding # NULL /\ decoding.body # NULL => decoding.result # "OUT_OF_MEMORY"
  /\ Read => tx.memory_area.used = tx.memory_area.size
  /\ ReadBack => target.memory_area.used = target.memory_area.size

-----------------------------------------------------------------------------
(* JSON.                                                                   *)

\* Enumerations of a transaction whose value has a name, and an anchor that says nothing
\* it does not mean.
Expressible(t) ==
  LET Spoken(anchor) ==
        /\ anchor.type # Unspecified => LedgerAnchorToString(anchor.type) # Unknown
        /\ anchor.type = Unspecified => anchor = NoAnchor
  IN  /\ Spoken(t.ledger_anchor)
      /\ t.pairing_ledger_anchor # NULL => Spoken(t.pairing_ledger_anchor)
      /\ t.cross_group_type \in 0..3
      /\ \A m \in Range(t.encrypted_memos) : m.type \in 0..2
      /\ t.transaction_type = "register_address" => t.context.address_type \in 1..7

HoldsAnEmptyMemo(t) == \E m \in Range(t.encrypted_memos) : m.memo = NoBytes

(***************************************************************************)
(* A document read back unedited is the transaction it was written from,   *)
(* arena and all, whatever the target held before - and exactly when each  *)
(* of its enumerations has a name, but that arnm may answer a memo of no   *)
(* bytes with an error, which is then the answer (json_from_runtime.c then *)
(* runtime_from_json.c, the memos at :704).                                *)
(***************************************************************************)
DocumentReadsBack ==
  Unedited =>
    /\ reading.result = "SUCCESS" /\ target = tx => Expressible(tx)
    /\ Expressible(tx) =>
         \/ reading.result = "SUCCESS" /\ target = tx
         \/ HoldsAnEmptyMemo(tx) /\ reading.result \in EmptyMemos \ {"SUCCESS"}

\* Members a document may do without: the two of a cross-group transaction and the lists.
MayBeAbsent ==
  {"tx_pairing_community_uuid", "pairing_ledger_anchor", "account_balances",
   "encrypted_memos", "signature_pairs"}

\* The transaction with what an absent member leaves.
WithoutMember(t, key) ==
  CASE key \in {"tx_pairing_community_uuid", "pairing_ledger_anchor"} ->
         [t EXCEPT ![key] = NULL, !.memory_area = NoArena]
    [] OTHER -> [t EXCEPT ![key] = <<>>, !.memory_area = NoArena]

(***************************************************************************)
(* An edited document is refused, or reads as the same transaction, or as  *)
(* the one without a member that may be absent.  One way remains: an       *)
(* anchor whose type name nobody knows reads as no anchor                  *)
(* (runtime_from_json.c, "refused rather than defaulted").                 *)
(***************************************************************************)
NothingIsDefaulted ==
  ReadBack /\ ~Unedited /\ Expressible(tx) =>
    LET edit == reading.edit
        left == [target EXCEPT !.memory_area = NoArena]
    IN  \/ target = tx
        \/ edit.kind # "below" /\ edit.key \in MayBeAbsent /\ left = WithoutMember(tx, edit.key)
        \/ /\ edit.kind = "below" /\ edit.key \in {"ledger_anchor", "pairing_ledger_anchor"}
           /\ edit.edit.key = "type" /\ target = [tx EXCEPT ![edit.key] = NoAnchor]

\* A read that is refused after the text has parsed leaves nothing of what the target held, and
\* no arena open (grdm_complete_transaction_from_json).
RefusedLeavesNothing ==
  reading # NULL /\ reading.result # "SUCCESS" /\ reading.edit.kind # "not JSON" =>
    target = Blank

-----------------------------------------------------------------------------
(* Said of the code and not so.                                            *)

\* The decoder answers OUT_OF_MEMORY when its arena is too small
\* (wire/confirmed_transaction.h); so what it calls a success is all of the message.
SuccessMeansWhole ==
  Read /\ arrived.kind = "unchanged" =>
    decoding.wire = composed.confirmed /\ decoding.body = composed.body

-----------------------------------------------------------------------------
(* The getters.                                                            *)

(***************************************************************************)
(* Asked of the transaction read back from JSON, the getters answer what   *)
(* the host assembled: who sent and who received, from which community to  *)
(* which, how much, until when; and an anchor answers under its own kind   *)
(* and no other.                                                           *)
(***************************************************************************)
GettersAnswerTheBody ==
  ReadBack /\ Unedited /\ arrived.kind = "unchanged" /\ Expressible(tx) =>
    LET body  == composed.body
        type  == body.transaction_type
        keys  == KeysOf(body)
        other == body.other_community_uuid
        sent  == composed.confirmed.ledger_anchor
    IN  /\ GetSenderPublicKey(target) = IF type \in TransferTypes THEN keys[1] ELSE NULL
        /\ GetRecipientPublicKey(target) =
             IF type \in TransferTypes \cup {"creation"} THEN Last(keys) ELSE NULL
        /\ GetRegisteredAccount(target) = IF type = "register_address" THEN keys[3] ELSE NULL
        /\ GetAmount(target) = CASE type = "transfer" -> body.data.sender.amount
                                 [] type \in {"deferred_transfer", "redeem_deferred"} ->
                                      body.data.transfer.sender.amount
                                 [] type = "creation" -> body.data.recipient.amount
                                 [] OTHER -> 0
        /\ GetTargetDate(target) =
             IF type = "creation" THEN body.data.target_date.seconds ELSE 0
        /\ GetTimeoutDuration(target) =
             IF type = "deferred_transfer" THEN body.data.timeout_duration ELSE 0
        /\ body.type = Outbound =>
             GetSenderCommunityUuid(target) = Community /\ GetRecipientCommunityUuid(target) = other
        /\ body.type = Inbound =>
             GetSenderCommunityUuid(target) = other /\ GetRecipientCommunityUuid(target) = Community
        /\ \A b \in Range(target.account_balances) :
             GetAccountBalanceForPublicKey(target, b.pubkey).pubkey = b.pubkey
        /\ GetHieroTransactionId(target.ledger_anchor) =
             IF sent.type = Hiero THEN sent.hiero_transaction_id ELSE NULL
        /\ sent.type \notin {Unspecified, Hiero} =>
             {GetLegacyId(target.ledger_anchor), GetNodeTriggerId(target.ledger_anchor)}
               = {sent.id, 0}

=============================================================================
