------------------------------- MODULE Messages -------------------------------
(***************************************************************************)
(* The messages of the Gradido protocol as the generated code writes and   *)
(* reads them (data/proto/gradido): which member goes under which number,  *)
(* in the order of the stream - the encoder fills its buffer from the end, *)
(* so a oneof comes first and the other numbers ascend.  A decoder starts  *)
(* from what init leaves: 0, no bytes, NULL, an empty list.                *)
(*                                                                         *)
(* A message is a record of its members; a oneof is the number of the      *)
(* member that is set with its value, or NoMember.  The lists the          *)
(* workspace has room for are a parameter of the decoders that have one.   *)
(***************************************************************************)
EXTENDS Protobuf

\* A oneof nobody set.  What its union holds then is not initialised.
NoMember == [number |-> 0, value |-> NULL]

Member(number, value) == [number |-> number, value |-> value]

-----------------------------------------------------------------------------
(* basic_types.proto                                                       *)

EncodeAccountBalance(m) ==
  Bytes(1, m.pubkey) \o Varint(2, m.balance) \o Bytes(3, m.community_uuid)

DecodeAccountBalance(f) ==
  [pubkey |-> ReadBytes(f, 1), balance |-> ReadVarint(f, 2),
   community_uuid |-> ReadBytes(f, 3)]

EncodeDurationSeconds(m) == Varint(1, m.seconds)

DecodeDurationSeconds(f) == [seconds |-> ReadVarint(f, 1)]

EncodeEncryptedMemo(m) == Varint(1, m.type) \o Bytes(2, m.memo)

DecodeEncryptedMemo(f) == [type |-> ReadEnum(f, 1), memo |-> ReadBytes(f, 2)]

EncodeSignaturePair(m) == Bytes(1, m.pubkey) \o Bytes(2, m.signature)

DecodeSignaturePair(f) == [pubkey |-> ReadBytes(f, 1), signature |-> ReadBytes(f, 2)]

EncodeSignatureMap(m) == Repeated(1, m.sig_pair, EncodeSignaturePair)

DecodeSignatureMap(f, roomFor) ==
  [sig_pair |-> ReadRepeated(f, 1, DecodeSignaturePair, "sig_pair" \in roomFor)]

EncodeTimestamp(m) == Varint(1, m.seconds) \o Varint(2, m.nanos)

DecodeTimestamp(f) == [seconds |-> ReadVarint(f, 1), nanos |-> ReadInt32(f, 2)]

EncodeTimestampSeconds(m) == Varint(1, m.seconds)

DecodeTimestampSeconds(f) == [seconds |-> ReadVarint(f, 1)]

EncodeTransferAmount(m) ==
  Bytes(1, m.pubkey) \o Varint(2, m.amount) \o Bytes(3, m.community_uuid)

DecodeTransferAmount(f) ==
  [pubkey |-> ReadBytes(f, 1), amount |-> ReadVarint(f, 2),
   community_uuid |-> ReadBytes(f, 3)]

-----------------------------------------------------------------------------
(* hiero_basic_types.proto and ledger_anchor.proto                         *)

EncodeAccountId(m) ==
  (CASE m.account.number = 3 -> VarintAlways(3, m.account.value)
     [] m.account.number = 4 -> BytesAlways(4, m.account.value)
     [] OTHER -> <<>>)
  \o Varint(1, m.shard_num) \o Varint(2, m.realm_num)

DecodeAccountId(f) ==
  LET set == Chosen(f, {3, 4})
  IN  [shard_num |-> ReadVarint(f, 1), realm_num |-> ReadVarint(f, 2),
       account |-> CASE set = 3 -> Member(3, ReadVarint(f, 3))
                     [] set = 4 -> Member(4, ReadBytes(f, 4))
                     [] OTHER -> NoMember]

EncodeTransactionId(m) ==
  Message(1, m.transaction_valid_start, EncodeTimestamp)
  \o Message(2, m.account_id, EncodeAccountId)
  \o Flag(3, m.scheduled) \o Varint(4, m.nonce)

DecodeTransactionId(f) ==
  [transaction_valid_start |-> ReadMessage(f, 1, DecodeTimestamp),
   account_id |-> ReadMessage(f, 2, DecodeAccountId),
   scheduled |-> ReadFlag(f, 3), nonce |-> ReadInt32(f, 4)]

EncodeLedgerAnchor(m) ==
  (CASE m.anchor_id.number = 3 -> MessageAlways(3, m.anchor_id.value, EncodeTransactionId)
     [] m.anchor_id.number = 4 -> VarintAlways(4, m.anchor_id.value)
     [] OTHER -> <<>>)
  \o Varint(1, m.type)

DecodeLedgerAnchor(f) ==
  LET set == Chosen(f, {3, 4})
  IN  [type |-> ReadEnum(f, 1),
       anchor_id |-> CASE set = 3 -> Member(3, ReadMessage(f, 3, DecodeTransactionId))
                       [] set = 4 -> Member(4, ReadVarint(f, 4))
                       [] OTHER -> NoMember]

-----------------------------------------------------------------------------
(* The specific transactions                                               *)

EncodeCommunityFriendsUpdate(m) == Flag(1, m.color_fusion)

DecodeCommunityFriendsUpdate(f) == [color_fusion |-> ReadFlag(f, 1)]

EncodeCommunityRoot(m) ==
  Bytes(1, m.pubkey) \o Bytes(2, m.gmw_pubkey) \o Bytes(3, m.auf_pubkey)

DecodeCommunityRoot(f) ==
  [pubkey |-> ReadBytes(f, 1), gmw_pubkey |-> ReadBytes(f, 2),
   auf_pubkey |-> ReadBytes(f, 3)]

EncodeCreation(m) ==
  Message(1, m.recipient, EncodeTransferAmount)
  \o Message(3, m.target_date, EncodeTimestampSeconds)

DecodeCreation(f) ==
  [recipient |-> ReadMessage(f, 1, DecodeTransferAmount),
   target_date |-> ReadMessage(f, 3, DecodeTimestampSeconds)]

EncodeTransfer(m) ==
  Message(1, m.sender, EncodeTransferAmount) \o Bytes(2, m.recipient)

DecodeTransfer(f) ==
  [sender |-> ReadMessage(f, 1, DecodeTransferAmount), recipient |-> ReadBytes(f, 2)]

EncodeDeferredTransfer(m) ==
  Message(1, m.transfer, EncodeTransfer)
  \o Message(2, m.timeout_duration, EncodeDurationSeconds)

DecodeDeferredTransfer(f) ==
  [transfer |-> ReadMessage(f, 1, DecodeTransfer),
   timeout_duration |-> ReadMessage(f, 2, DecodeDurationSeconds)]

EncodeRedeemDeferredTransfer(m) ==
  Varint(1, m.deferred_transfer_transaction_nr) \o Message(2, m.transfer, EncodeTransfer)

DecodeRedeemDeferredTransfer(f) ==
  [deferred_transfer_transaction_nr |-> ReadVarint(f, 1),
   transfer |-> ReadMessage(f, 2, DecodeTransfer)]

EncodeTimeoutDeferredTransfer(m) == Varint(1, m.deferred_transfer_transaction_nr)

DecodeTimeoutDeferredTransfer(f) ==
  [deferred_transfer_transaction_nr |-> ReadVarint(f, 1)]

EncodeRegisterAddress(m) ==
  Bytes(1, m.user_pubkey) \o Varint(2, m.address_type) \o Bytes(3, m.name_hash)
  \o Bytes(4, m.account_pubkey) \o Varint(5, m.derivation_index)

DecodeRegisterAddress(f) ==
  [user_pubkey |-> ReadBytes(f, 1), address_type |-> ReadEnum(f, 2),
   name_hash |-> ReadBytes(f, 3), account_pubkey |-> ReadBytes(f, 4),
   derivation_index |-> ReadUint32(f, 5)]

-----------------------------------------------------------------------------
(* The body, the signed transaction around it, the confirmed one around    *)
(* that.  The eight members of the body's oneof are numbered 6 to 13.      *)

Specific == 6..13

EncodeSpecific(data) ==
  CASE data.number = 6  -> MessageAlways(6, data.value, EncodeTransfer)
    [] data.number = 7  -> MessageAlways(7, data.value, EncodeCreation)
    [] data.number = 8  -> MessageAlways(8, data.value, EncodeCommunityFriendsUpdate)
    [] data.number = 9  -> MessageAlways(9, data.value, EncodeRegisterAddress)
    [] data.number = 10 -> MessageAlways(10, data.value, EncodeDeferredTransfer)
    [] data.number = 11 -> MessageAlways(11, data.value, EncodeCommunityRoot)
    [] data.number = 12 -> MessageAlways(12, data.value, EncodeRedeemDeferredTransfer)
    [] data.number = 13 -> MessageAlways(13, data.value, EncodeTimeoutDeferredTransfer)
    [] OTHER -> <<>>

DecodeSpecific(f) ==
  LET set == Chosen(f, Specific)
      Set(Decode(_)) == Member(set, ReadMessage(f, set, Decode))
  IN  CASE set = 6  -> Set(DecodeTransfer)
        [] set = 7  -> Set(DecodeCreation)
        [] set = 8  -> Set(DecodeCommunityFriendsUpdate)
        [] set = 9  -> Set(DecodeRegisterAddress)
        [] set = 10 -> Set(DecodeDeferredTransfer)
        [] set = 11 -> Set(DecodeCommunityRoot)
        [] set = 12 -> Set(DecodeRedeemDeferredTransfer)
        [] set = 13 -> Set(DecodeTimeoutDeferredTransfer)
        [] OTHER -> NoMember

EncodeTransactionBody(m) ==
  EncodeSpecific(m.data)
  \o Repeated(1, m.memos, EncodeEncryptedMemo)
  \o Message(2, m.created_at, EncodeTimestamp) \o Varint(3, m.version_number)
  \o Varint(4, m.type) \o Bytes(5, m.other_community_uuid)

DecodeTransactionBody(f, roomFor) ==
  [memos |-> ReadRepeated(f, 1, DecodeEncryptedMemo, "memos" \in roomFor),
   created_at |-> ReadMessage(f, 2, DecodeTimestamp),
   version_number |-> ReadUint32(f, 3), type |-> ReadEnum(f, 4),
   other_community_uuid |-> ReadBytes(f, 5), data |-> DecodeSpecific(f)]

EncodeGradidoTransaction(m) ==
  Message(1, m.sig_map, EncodeSignatureMap) \o Bytes(2, m.body_bytes)
  \o Message(3, m.pairing_ledger_anchor, EncodeLedgerAnchor)

DecodeGradidoTransaction(f, roomFor) ==
  LET SigMap(g) == DecodeSignatureMap(g, roomFor)
  IN  [sig_map |-> ReadMessage(f, 1, SigMap), body_bytes |-> ReadBytes(f, 2),
       pairing_ledger_anchor |-> ReadMessage(f, 3, DecodeLedgerAnchor)]

EncodeConfirmedTransaction(m) ==
  Varint(1, m.id) \o Message(2, m.transaction, EncodeGradidoTransaction)
  \o Message(3, m.confirmed_at, EncodeTimestamp) \o Varint(4, m.version_number)
  \o Bytes(5, m.running_hash) \o Message(6, m.ledger_anchor, EncodeLedgerAnchor)
  \o Repeated(7, m.account_balances, EncodeAccountBalance)

DecodeConfirmedTransaction(f, roomFor) ==
  LET Transaction(g) == DecodeGradidoTransaction(g, roomFor)
  IN  [id |-> ReadVarint(f, 1), transaction |-> ReadMessage(f, 2, Transaction),
       confirmed_at |-> ReadMessage(f, 3, DecodeTimestamp),
       version_number |-> ReadUint32(f, 4), running_hash |-> ReadBytes(f, 5),
       ledger_anchor |-> ReadMessage(f, 6, DecodeLedgerAnchor),
       account_balances |->
         ReadRepeated(f, 7, DecodeAccountBalance, "account_balances" \in roomFor)]

=============================================================================
