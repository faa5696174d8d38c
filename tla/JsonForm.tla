------------------------------- MODULE JsonForm -------------------------------
(***************************************************************************)
(* A transaction as a JSON document and back: mapping/json_from_runtime.c  *)
(* and mapping/runtime_from_json.c.  The reader answers a result and, with *)
(* SUCCESS, the transaction in an arena it sized beforehand.  Texts are    *)
(* the spellings of Json; parsing characters is arnm's.                    *)
(***************************************************************************)
EXTENDS RuntimeForm, Json, Enumerations

EmptyText == Base64Text(NoBytes)

Name(text) == IF Is("name", text) THEN text.name ELSE Unknown

-----------------------------------------------------------------------------
(* json_from_runtime.c                                                     *)

AddEnumString(name) == JString(NameText(name))

AddHex(size, data) == JString(HexText(size, data))

AddUuid(uuid) == IF uuid = NULL THEN JNull ELSE JString(UuidText(uuid))

AddBase64(block) == JString(Base64Text(block))

AddTimestamp(t) == JObject([seconds |-> JNumber(t.seconds), nanos |-> JNumber(t.nanos)])

HieroId(id) ==
  JObject([transaction_valid_start |-> AddTimestamp(id.transactionValidStart),
           account_id |-> JObject([shard_num |-> JNumber(id.accountID.shardNum),
                                   realm_num |-> JNumber(id.accountID.realmNum),
                                   account_num |-> JNumber(id.accountID.accountNum)])])

AddLedgerAnchor(anchor) ==
  LET type == [type |-> AddEnumString(LedgerAnchorToString(anchor.type))]
  IN  IF anchor = NULL THEN JNull
      ELSE CASE anchor.type = Unspecified -> JObject(type)
             [] anchor.type = Hiero ->
                  JObject(Together(type,
                           [hiero_transaction_id |-> HieroId(anchor.hiero_transaction_id)]))
             [] OTHER -> JObject(Together(type, [id |-> JNumber(anchor.id)]))

AddTransfer(d) ==
  [transfer |-> JObject([sender_pubkey |-> AddHex(KeySize, d.sender_pubkey),
                         recipient_pubkey |-> AddHex(KeySize, d.recipient_pubkey),
                         amount |-> JNumber(d.amount),
                         coin_community_uuid |-> AddUuid(d.coin_community_uuid)])]

AddRegisterAddress(d) ==
  [register_address |-> JObject([user_public_key |-> AddHex(KeySize, d.user_public_key),
                                 name_hash |-> AddHex(HashSize, d.name_hash),
                                 account_public_key |-> AddHex(KeySize, d.account_public_key)])]

AddCommunityRoot(d) ==
  [community_root |-> JObject([public_key |-> AddHex(KeySize, d.public_key),
                               gmw_public_key |-> AddHex(KeySize, d.gmw_public_key),
                               auf_public_key |-> AddHex(KeySize, d.auf_public_key)])]

\* The members a type owns: its detail under one, its context beside it.
AddTransactionDetail(tx) ==
  LET d == tx.detail
      c == tx.context
  IN  CASE tx.transaction_type = "transfer" -> AddTransfer(d)
        [] tx.transaction_type = "creation" ->
             Together(AddTransfer(d), [target_date |-> JNumber(c.target_date)])
        [] tx.transaction_type = "register_address" ->
             Together(AddRegisterAddress(d),
                      [address_type |-> AddEnumString(AddressToString(c.address_type)),
                       derivation_index |-> JNumber(c.derivation_index)])
        [] tx.transaction_type = "deferred_transfer" ->
             Together(AddTransfer(d), [timeout_duration |-> JNumber(c.timeout_duration)])
        [] tx.transaction_type = "redeem_deferred" ->
             Together(AddTransfer(d), [previous_tx |-> JNumber(c.previous_tx)])
        [] tx.transaction_type = "timeout_deferred" -> [previous_tx |-> JNumber(c.previous_tx)]
        [] tx.transaction_type = "community_root" -> AddCommunityRoot(d)

AddBalance(b) ==
  JObject([pubkey |-> AddHex(KeySize, b.pubkey), balance |-> JNumber(b.balance),
           community_uuid |-> AddUuid(b.community_uuid)])

AddMemo(m) ==
  JObject([type |-> AddEnumString(MemoKeyToString(m.type)), memo |-> AddBase64(m.memo)])

AddSignature(p) ==
  JObject([public_key |-> AddHex(KeySize, p.public_key),
           signature |-> AddHex(SignatureSize, p.signature)])

AddArrays(tx) ==
  LET Listed(list, Add(_)) == JArray([i \in DOMAIN list |-> Add(list[i])])
  IN  [account_balances |-> Listed(tx.account_balances, AddBalance),
       encrypted_memos |-> Listed(tx.encrypted_memos, AddMemo),
       signature_pairs |-> Listed(tx.signature_pairs, AddSignature)]

\* What is written whatever the type.
AddEnvelope(tx) ==
  [transaction_type |-> AddEnumString(TransactionToString(tx.transaction_type)),
   tx_nr |-> JNumber(tx.tx_nr), confirmed_at |-> AddTimestamp(tx.confirmed_at),
   created_at |-> AddTimestamp(tx.created_at),
   tx_community_uuid |-> AddUuid(tx.tx_community_uuid),
   ledger_anchor |-> AddLedgerAnchor(tx.ledger_anchor),
   tx_running_hash |-> AddHex(HashSize, tx.tx_running_hash),
   cross_group_type |-> AddEnumString(CrossGroupToString(tx.cross_group_type)),
   tx_pairing_community_uuid |-> AddUuid(tx.tx_pairing_community_uuid),
   pairing_ledger_anchor |-> AddLedgerAnchor(tx.pairing_ledger_anchor),
   body_bytes |-> AddBase64(tx.body_bytes)]

AddCompleteTransaction(tx) ==
  Together(Together(AddEnvelope(tx), AddTransactionDetail(tx)), AddArrays(tx))

JsonFromCompleteTransaction(tx) ==
  IF tx.transaction_type \notin LaidOut THEN Failure("ENUM_UNHANDLED")
  ELSE Success(JObject(AddCompleteTransaction(tx)))

-----------------------------------------------------------------------------
(* calculate_hint: what the document will cost, before it is written.      *)

HexFieldBytes(size) == 2 * size + 3

Base64FieldBytes(size) == 4 * ((size + 2) \div 3) + 3

UuidFieldBytes == 39

TransferValues == 10

TransferStringBytes == 2 * HexFieldBytes(KeySize) + UuidFieldBytes

\* A slip: the account id is counted without its members.
FlatAnchorValues(anchor) ==
  CASE anchor.type = Unspecified -> 3
    [] anchor.type = Hiero -> 13
    [] OTHER -> 5

AnchorValues(anchor) ==
  CASE anchor.type = Unspecified -> 3
    [] anchor.type = Hiero -> 19
    [] OTHER -> 5

CalculateHint(tx) ==
  LET type == tx.transaction_type
      balances == Len(tx.account_balances)
      memos == Len(tx.encrypted_memos)
      signatures == Len(tx.signature_pairs)
  IN  [values |->
         1 + 2 * 5 + 2 + 6 + 6 + 3 * 2 + 1 + AnchorValues(tx.ledger_anchor)
         + (CASE type = "transfer" -> TransferValues
              [] type \in {"creation", "deferred_transfer", "redeem_deferred"} ->
                   TransferValues + 2
              [] type = "timeout_deferred" -> 2
              [] type = "register_address" -> 12
              [] type = "community_root" -> 8)
         + balances * 7 + memos * 5 + signatures * 5 + 2
         + (IF tx.pairing_ledger_anchor = NULL THEN 2
            ELSE 1 + AnchorValues(tx.pairing_ledger_anchor)),
       string_bytes |->
         HexFieldBytes(HashSize) + UuidFieldBytes + Base64FieldBytes(tx.body_bytes.size)
         + (CASE type \in TransferTypes \cup {"creation"} -> TransferStringBytes
              [] type = "timeout_deferred" -> 0
              [] type = "register_address" ->
                   2 * HexFieldBytes(KeySize) + HexFieldBytes(HashSize)
              [] type = "community_root" -> 3 * HexFieldBytes(KeySize))
         + balances * (HexFieldBytes(KeySize) + UuidFieldBytes)
         + SumOf(tx.encrypted_memos, LAMBDA m : Base64FieldBytes(m.memo.size))
         + signatures * (HexFieldBytes(KeySize) + HexFieldBytes(SignatureSize))
         + (IF tx.tx_pairing_community_uuid = NULL THEN 0 ELSE UuidFieldBytes)]

-----------------------------------------------------------------------------
(* runtime_from_json.c: shapes below the root                              *)

\* A member the walk before did not meet is a NULL handle.
Handle(seen, key) == IF key \in DOMAIN seen THEN seen[key] ELSE NULL

\* A shape of which every member has to be there.
ReadWhole(value, table, Made(_)) ==
  IF value = NULL THEN Failure("DECODE_FAILED")
  ELSE Then(ReadObject(value, table), LAMBDA seen :
         IF DOMAIN seen = DOMAIN table THEN Success(Made(seen)) ELSE Failure("DECODE_FAILED"))

\* A slip: a member that is missing reads as 0.
TimestampOrZero(value) ==
  IF value = NULL THEN Failure("DECODE_FAILED")
  ELSE Then(ReadObject(value, [seconds |-> As("int"), nanos |-> As("int")]), LAMBDA seen :
         Success(Together(seen, [seconds |-> 0, nanos |-> 0])))

ReadTimestamp(value) ==
  ReadWhole(value, [seconds |-> As("int"), nanos |-> As("int")], LAMBDA seen : seen)

ReadAccountId(value) ==
  ReadWhole(value, [shard_num |-> As("int"), realm_num |-> As("int"), account_num |-> As("int")],
            LAMBDA seen : [shardNum |-> seen.shard_num, realmNum |-> seen.realm_num,
                           accountNum |-> seen.account_num])

ReadHieroTransactionId(value) ==
  Then(ReadWhole(value, [transaction_valid_start |-> As("value"), account_id |-> As("value")],
                 LAMBDA seen : seen), LAMBDA seen :
    Then(ReadTimestamp(seen.transaction_valid_start), LAMBDA start :
      Then(ReadAccountId(seen.account_id), LAMBDA account :
        Success([transactionValidStart |-> start, accountID |-> account]))))

\* A name nobody knows is read as the unspecified anchor, not refused.
ReadLedgerAnchor(value) ==
  IF value = NULL THEN Failure("DECODE_FAILED")
  ELSE Then(ReadObject(value, [type |-> As("string"), hiero_transaction_id |-> As("value"),
                               id |-> As("uint")]), LAMBDA seen :
    IF "type" \notin DOMAIN seen THEN Failure("DECODE_FAILED")
    ELSE LET type == LedgerAnchorFromString(Name(seen.type))
         IN  CASE type = Unspecified -> Success(NoAnchor)
               [] type = Hiero ->
                    Then(ReadHieroTransactionId(Handle(seen, "hiero_transaction_id")), LAMBDA id :
                      Success([type |-> Hiero, hiero_transaction_id |-> id]))
               [] OTHER -> IF "id" \in DOMAIN seen THEN Success([type |-> type, id |-> seen.id])
                           ELSE Failure("DECODE_FAILED"))

ReadTransfer(value) ==
  ReadWhole(value, [sender_pubkey |-> Hex(KeySize), recipient_pubkey |-> Hex(KeySize),
                    amount |-> As("int"), coin_community_uuid |-> As("uuid")],
            LAMBDA seen : seen)

ReadRegisterAddress(value) ==
  ReadWhole(value, [user_public_key |-> Hex(KeySize), name_hash |-> Hex(HashSize),
                    account_public_key |-> Hex(KeySize)], LAMBDA seen : seen)

ReadCommunityRoot(value) ==
  ReadWhole(value, [public_key |-> Hex(KeySize), gmw_public_key |-> Hex(KeySize),
                    auf_public_key |-> Hex(KeySize)], LAMBDA seen : seen)

-----------------------------------------------------------------------------
(* The root, walked once with the table its type calls for.                *)

RequiredEnvelope ==
  [transaction_type |-> As("string"), tx_nr |-> As("uint"), confirmed_at |-> As("value"),
   created_at |-> As("value"), tx_community_uuid |-> As("uuid"), ledger_anchor |-> As("value"),
   tx_running_hash |-> Hex(HashSize), cross_group_type |-> As("string"),
   body_bytes |-> As("string")]

RequiredDetail(type) ==
  CASE type \in TransferTypes \cup {"creation"} -> [transfer |-> As("value")]
    [] type = "register_address" -> [register_address |-> As("value")]
    [] type = "community_root" -> [community_root |-> As("value")]
    [] OTHER -> <<>>

RequiredContext(type) ==
  CASE type = "creation" -> [target_date |-> As("int")]
    [] type = "deferred_transfer" -> [timeout_duration |-> As("int")]
    [] type \in {"redeem_deferred", "timeout_deferred"} -> [previous_tx |-> As("uint")]
    [] type = "register_address" ->
         [address_type |-> As("string"), derivation_index |-> As("uint")]
    [] OTHER -> <<>>

Required(type) ==
  Together(Together(RequiredEnvelope, RequiredDetail(type)), RequiredContext(type))

Optional ==
  [account_balances |-> As("value"), encrypted_memos |-> As("value"),
   signature_pairs |-> As("value"), tx_pairing_community_uuid |-> As("uuid"),
   pairing_ledger_anchor |-> As("value")]

ReadRoot(root, type) ==
  Then(ReadObject(root, Together(Required(type), Optional)), LAMBDA view :
    IF ~(DOMAIN Required(type) \subseteq DOMAIN view) THEN Failure("DECODE_FAILED")
    ELSE IF type = "register_address" /\ AddressFromString(Name(view.address_type)) = AddressNone
    THEN Failure("ENUM_UNKNOWN")
    ELSE Success(view))

ReadTransactionDetail(type, view) ==
  CASE type \in TransferTypes \cup {"creation"} -> ReadTransfer(view.transfer)
    [] type = "register_address" -> ReadRegisterAddress(view.register_address)
    [] type = "community_root" -> ReadCommunityRoot(view.community_root)
    [] type = "timeout_deferred" -> Success(NULL)
    [] OTHER -> Failure("ENUM_UNHANDLED")

\* The members of the second union the root walk filled on its way.
ContextFrom(type, view) ==
  CASE type = "creation" -> [target_date |-> view.target_date]
    [] type = "deferred_transfer" -> [timeout_duration |-> view.timeout_duration]
    [] type \in {"redeem_deferred", "timeout_deferred"} -> [previous_tx |-> view.previous_tx]
    [] type = "register_address" ->
         [address_type |-> AddressFromString(Name(view.address_type)),
          derivation_index |-> view.derivation_index]
    [] OTHER -> NULL

\* A list that is absent, null or no array at all is an empty one.
ReadElements(value) == IF value # NULL /\ Is("array", value) THEN value.array ELSE <<>>

ReadBalance(value) ==
  ReadWhole(value, [pubkey |-> Hex(KeySize), balance |-> As("int"), community_uuid |-> As("uuid")],
            LAMBDA seen : seen)

ReadAccountBalances(list) == Every(list, ReadBalance)

\* A name becomes a value here; the payload stays the text it is.
ReadMemo(value) ==
  Then(ReadWhole(value, [type |-> As("string"), memo |-> As("string")], LAMBDA seen : seen),
       LAMBDA seen :
    IF MemoKeyFromString(Name(seen.type)) = MemoKeyNone THEN Failure("ENUM_UNKNOWN")
    ELSE Success([type |-> MemoKeyFromString(Name(seen.type)), memo |-> seen.memo]))

ReadEncryptedMemos(list) == Every(list, ReadMemo)

ReadSignature(value) ==
  ReadWhole(value, [public_key |-> Hex(KeySize), signature |-> Hex(SignatureSize)],
            LAMBDA seen : seen)

ReadSignaturePairs(list) == Every(list, ReadSignature)

\* The bytes a base64 text spells.
SpelledBytes(text) ==
  IF text.size = 0 THEN NoBytes ELSE BytesOf(text.size, text.base64)

\* A text that decodes to no bytes leaves the block empty: nothing is asked for.
ReadBase64Block(text) ==
  IF ~Is("base64", text) THEN Failure("DECODE_FAILED") ELSE Success(SpelledBytes(text))

(***************************************************************************)
(* A memo of no bytes is measured, asked for and decoded like any other.   *)
(* What arnm says to that, at the latest where it is copied, is emptyMemo. *)
(***************************************************************************)
DeserializeMemo(m, emptyMemo) ==
  IF ~Is("base64", m.memo) THEN Failure("DECODE_FAILED")
  ELSE IF m.memo.size = 0 /\ emptyMemo # "SUCCESS" THEN Failure(emptyMemo)
  ELSE Success([type |-> m.type, memo |-> SpelledBytes(m.memo)])

DeserializeEncryptedMemos(memos, emptyMemo) ==
  Every(memos, LAMBDA m : DeserializeMemo(m, emptyMemo))

\* A slip: null counts as an anchor.
MentionsPairingAnchor(view) == Handle(view, "pairing_ledger_anchor") # NULL

\* An anchor that is there and is not null.
HasPairingAnchor(view) ==
  Handle(view, "pairing_ledger_anchor") \notin {NULL, JNull}

\* The texts whose bytes are copied: every memo's, and the body's.
PayloadsIn(view, named) == [i \in DOMAIN named |-> named[i].memo] \o <<view.body_bytes>>

JsonSize(view, balances, memos, signatures, payloads) ==
  Align8(Len(balances) * AccountBalanceSize)
  + Align8(Len(memos) * EncryptedMemoSize)
  + Align8(Len(signatures) * SignaturePairSize)
  + (IF "tx_pairing_community_uuid" \in DOMAIN view THEN Align8(UuidSize) ELSE 0)
  + (IF HasPairingAnchor(view) THEN Align8(LedgerAnchorSize) ELSE 0)
  + SumOf(payloads, LAMBDA text : Align8(text.size))

(***************************************************************************)
(* The arena is sized from the document: the memos' names are read on the  *)
(* way, and every payload has to be base64 before a byte is copied.        *)
(***************************************************************************)
MemorySizeFromJson(view, balances, memos, signatures) ==
  Then(ReadEncryptedMemos(memos), LAMBDA named :
    LET payloads == PayloadsIn(view, named)
        size     == JsonSize(view, balances, memos, signatures, payloads)
    IN  IF \E i \in DOMAIN payloads : ~Is("base64", payloads[i]) THEN Failure("DECODE_FAILED")
        ELSE IF TooLarge(size) THEN Failure("RESOURCE_SIZE_EXCEED")
        ELSE Success([size |-> size, named |-> named]))

ReadCompleteTransaction(type, cross, view, balances, memos, signatures, emptyMemo) ==
  Then(MemorySizeFromJson(view, balances, memos, signatures), LAMBDA sized :
  Then(ReadTimestamp(view.confirmed_at), LAMBDA confirmed_at :
  Then(ReadTimestamp(view.created_at), LAMBDA created_at :
  Then(ReadLedgerAnchor(view.ledger_anchor), LAMBDA anchor :
  Then(ReadTransactionDetail(type, view), LAMBDA detail :
  Then(ReadAccountBalances(balances), LAMBDA account_balances :
  Then(DeserializeEncryptedMemos(sized.named, emptyMemo), LAMBDA encrypted_memos :
  Then(ReadSignaturePairs(signatures), LAMBDA signature_pairs :
  Then(IF HasPairingAnchor(view) THEN ReadLedgerAnchor(view.pairing_ledger_anchor)
       ELSE Success(NULL), LAMBDA pairing_anchor :
  Then(ReadBase64Block(view.body_bytes), LAMBDA body_bytes :
    LET filled == FilledFrom(sized.size, Blank,
          [Blank EXCEPT !.tx_nr = view.tx_nr, !.confirmed_at = confirmed_at,
                        !.created_at = created_at,
                        !.tx_community_uuid = view.tx_community_uuid,
                        !.ledger_anchor = anchor, !.transaction_type = type,
                        !.detail = detail, !.context = ContextFrom(type, view),
                        !.tx_running_hash = view.tx_running_hash,
                        !.account_balances = account_balances,
                        !.encrypted_memos = encrypted_memos,
                        !.signature_pairs = signature_pairs, !.cross_group_type = cross,
                        !.tx_pairing_community_uuid =
                          Handle(view, "tx_pairing_community_uuid"),
                        !.pairing_ledger_anchor = pairing_anchor,
                        !.body_bytes = body_bytes])
    IN  [result |-> filled.result, value |-> filled.tx]))))))))))

ReadDocument(root, emptyMemo) ==
  Then(ReadObject(root, [transaction_type |-> As("string")]), LAMBDA first :
    IF Handle(first, "transaction_type") \in {NULL, EmptyText} THEN Failure("DECODE_FAILED")
    ELSE LET type == TransactionFromString(Name(first.transaction_type))
         IN  IF type = "none" THEN Failure("ENUM_UNKNOWN")
             ELSE Then(ReadRoot(root, type), LAMBDA view :
               LET cross == CrossGroupFromString(Name(view.cross_group_type))
               IN  IF cross = CrossGroupNone THEN Failure("ENUM_UNKNOWN")
                   ELSE ReadCompleteTransaction(type, cross, view,
                          ReadElements(Handle(view, "account_balances")),
                          ReadElements(Handle(view, "encrypted_memos")),
                          ReadElements(Handle(view, "signature_pairs")), emptyMemo)))

\* What no parser takes for a document.
NotJson == [text |-> "not JSON"]

\* A slip: a refused document leaves the target as it was.
KeptWhenRefused(tx, text, emptyMemo) ==
  IF text = NotJson THEN [result |-> "DECODE_FAILED", tx |-> tx]
  ELSE LET read == ReadDocument(text, emptyMemo)
       IN  [result |-> read.result,
            tx |-> IF read.result = "SUCCESS" THEN read.value ELSE tx]

(***************************************************************************)
(* The target is released once the text has parsed, and again when the     *)
(* document is refused.  A text that does not parse leaves the target as   *)
(* it was.                                                                 *)
(***************************************************************************)
CompleteTransactionFromJson(tx, text, emptyMemo) ==
  IF text = NotJson THEN [result |-> "DECODE_FAILED", tx |-> tx]
  ELSE LET read == ReadDocument(text, emptyMemo)
       IN  [result |-> read.result,
            tx |-> IF read.result = "SUCCESS" THEN read.value ELSE Blank]

=============================================================================
