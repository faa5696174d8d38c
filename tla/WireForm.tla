------------------------------- MODULE WireForm -------------------------------
(***************************************************************************)
(* The wire form: messages of fixed-size arrays, checked on the way in     *)
(* (mapping/wire_from_pbtools.c) and copied on the way out                 *)
(* (mapping/pbtools_from_wire.c).  A conversion answers a result and, with *)
(* SUCCESS, what it made; what a refused one leaves half filled its        *)
(* callers discard.  A fixed-size array is its content; bytes of any       *)
(* length are a size with a content.  Want of room is the caller's         *)
(* business: see Codec.                                                    *)
(***************************************************************************)
EXTENDS Messages

CONSTANTS
  Nil,              \* an array of zeros
  Garbage,          \* what a union member nobody wrote reads as
  ProtocolVersion,  \* GRDU_GRADIDO_PROTOCOL_VERSION
  MaxCount,         \* 255: the counters of a list are a uint8_t
  MaxU32,           \* UINT32_MAX
  MaxAlloc          \* ARNM_MAX_ALLOC_SIZE

ASSUME MaxCountAssumption == MaxCount \in Nat \ {0}

ASSUME MaxAllocAssumption == MaxAlloc \in Nat /\ MaxU32 \in Nat

\* What an int32_t and a uint32_t hold.
Int32 == -(Word \div 2) .. Word - (Word \div 2) - 1

Uint32 == 0 .. Word - 1

ASSUME VersionAssumption == ProtocolVersion \in Uint32

\* Zeros are an array, and what nobody wrote is read as a uint64_t.
ASSUME NilAssumption == Nil # NULL /\ Garbage \in Nat

UuidSize == 16

KeySize == 32

SignatureSize == 64

HashSize == 32

\* grdt_ledger_anchor: nothing, and an id of the Hiero network.
Unspecified == 0

Hiero == 2

-----------------------------------------------------------------------------
(* The structs of data/wire: which members they have, and what a member    *)
(* can hold.  An array in a struct is always there.                        *)

IsTimestamp(w) == w = [seconds |-> w.seconds, nanos |-> w.nanos] /\ w.nanos \in Int32

IsTransferAmount(w) ==
  /\ w = [pubkey |-> w.pubkey, amount |-> w.amount, community_uuid |-> w.community_uuid]
  /\ w.community_uuid # NULL

IsAccountBalance(w) ==
  /\ w = [pubkey |-> w.pubkey, balance |-> w.balance, community_uuid |-> w.community_uuid]
  /\ w.community_uuid # NULL

\* A block is empty, or arnm gave it out.
IsMemoryBlock(block) ==
  \/ block = NoBytes
  \/ block = BytesOf(block.size, block.data) /\ block.size \in 1..MaxAlloc

IsEncryptedMemo(w) ==
  w = [type |-> w.type, memo |-> w.memo] /\ w.type \in Int32 /\ IsMemoryBlock(w.memo)

IsSignaturePair(w) == w = [public_key |-> w.public_key, signature |-> w.signature]

IsHieroId(w) ==
  LET account == w.accountID
  IN  /\ w = [transactionValidStart |-> w.transactionValidStart, accountID |-> account]
      /\ IsTimestamp(w.transactionValidStart)
      /\ account = [shardNum |-> account.shardNum, realmNum |-> account.realmNum,
                    accountNum |-> account.accountNum]

IsLedgerAnchor(w) ==
  /\ w.type \in Int32
  /\ IF w.type = Hiero
     THEN /\ w = [type |-> Hiero, hiero_transaction_id |-> w.hiero_transaction_id]
          /\ IsHieroId(w.hiero_transaction_id)
     ELSE w = [type |-> w.type, id |-> w.id] /\ w.id \in Nat

IsTransfer(w) == w = [sender |-> w.sender, recipient |-> w.recipient] /\ IsTransferAmount(w.sender)

\* What the union of a body holds for a type.
IsPart(type, w) ==
  CASE type = "none" -> w = NULL
    [] type = "transfer" -> IsTransfer(w)
    [] type = "creation" ->
         /\ w = [recipient |-> w.recipient, target_date |-> w.target_date]
         /\ IsTransferAmount(w.recipient)
         /\ w.target_date = [seconds |-> w.target_date.seconds]
    [] type = "friends_update" ->
         w = [color_fusion |-> w.color_fusion] /\ w.color_fusion \in BOOLEAN
    [] type = "register_address" ->
         /\ w = [user_pubkey |-> w.user_pubkey, address_type |-> w.address_type,
                 derivation_index |-> w.derivation_index, name_hash |-> w.name_hash,
                 account_pubkey |-> w.account_pubkey]
         /\ w.address_type \in Int32 /\ w.derivation_index \in Uint32
    [] type = "deferred_transfer" ->
         /\ w = [transfer |-> w.transfer, timeout_duration |-> w.timeout_duration]
         /\ IsTransfer(w.transfer) /\ w.timeout_duration \in 0..MaxU32
    [] type = "community_root" ->
         w = [pubkey |-> w.pubkey, gmw_pubkey |-> w.gmw_pubkey, auf_pubkey |-> w.auf_pubkey]
    [] type = "redeem_deferred" ->
         /\ w = [deferred_transfer_transaction_nr |-> w.deferred_transfer_transaction_nr,
                 transfer |-> w.transfer]
         /\ IsTransfer(w.transfer) /\ w.deferred_transfer_transaction_nr \in Nat
    [] type = "timeout_deferred" ->
         /\ w = [deferred_transfer_transaction_nr |-> w.deferred_transfer_transaction_nr]
         /\ w.deferred_transfer_transaction_nr \in Nat

Types ==
  {"none", "transfer", "creation", "friends_update", "register_address", "deferred_transfer",
   "community_root", "redeem_deferred", "timeout_deferred"}

IsListOf(list, Is(_)) == list \in Seq(Range(list)) /\ \A i \in DOMAIN list : Is(list[i])

IsTransactionBody(w) ==
  /\ w = [memos |-> w.memos, other_community_uuid |-> w.other_community_uuid,
          created_at |-> w.created_at, type |-> w.type,
          transaction_type |-> w.transaction_type, data |-> w.data]
  /\ IsListOf(w.memos, IsEncryptedMemo) /\ IsTimestamp(w.created_at) /\ w.type \in Int32
  /\ w.transaction_type \in Types /\ IsPart(w.transaction_type, w.data)

\* An anchor that pairs a transaction is there unless it is the one init leaves.
IsGradidoTransaction(w) ==
  /\ w = [sig_map |-> w.sig_map, body_bytes |-> w.body_bytes,
          pairing_ledger_anchor |-> w.pairing_ledger_anchor]
  /\ IsListOf(w.sig_map, IsSignaturePair) /\ IsLedgerAnchor(w.pairing_ledger_anchor)
  /\ w.pairing_ledger_anchor.type = Unspecified =>
       w.pairing_ledger_anchor = [type |-> Unspecified, id |-> 0]

IsConfirmedTransaction(w) ==
  /\ w = [id |-> w.id, transaction |-> w.transaction, confirmed_at |-> w.confirmed_at,
          running_hash |-> w.running_hash, ledger_anchor |-> w.ledger_anchor,
          account_balances |-> w.account_balances]
  /\ w.id \in Nat /\ IsGradidoTransaction(w.transaction) /\ IsTimestamp(w.confirmed_at)
  /\ IsLedgerAnchor(w.ledger_anchor) /\ IsListOf(w.account_balances, IsAccountBalance)

-----------------------------------------------------------------------------
(* Results, and the chain of "if it failed return it, else go on".         *)

Success(value) == [result |-> "SUCCESS", value |-> value]

Failure(result) == [result |-> result, value |-> NULL]

Then(made, Next(_)) == IF made.result = "SUCCESS" THEN Next(made.value) ELSE made

\* Every conversion refuses a NULL message before it looks at it.
NotNull(message, Convert(_)) ==
  IF message = NULL THEN Failure("NULL_POINTER") ELSE Convert(message)

\* A list is converted from the front and given up at the first refusal.
Every(list, Convert(_)) ==
  LET made   == [i \in DOMAIN list |-> Convert(list[i])]
      failed == {i \in DOMAIN list : made[i].result # "SUCCESS"}
  IN  IF failed = {} THEN Success([i \in DOMAIN list |-> made[i].value])
      ELSE Failure(made[CHOOSE i \in failed : \A j \in failed : i <= j].result)

-----------------------------------------------------------------------------
(* wire_from_pbtools.c                                                     *)

CommunityUuidFromPbtools(bytes) ==
  CASE bytes.size = UuidSize -> Success(bytes.data)
    [] bytes.size = 0 -> Success(Nil)
    [] OTHER -> Failure("INVALID_PARAM")

MemoryBlockFromPbtools(bytes) ==
  CASE bytes.size = 0 -> Failure("INVALID_PARAM")
    [] bytes.size > MaxAlloc -> Failure("RESOURCE_SIZE_EXCEED")
    [] OTHER -> Success(bytes)

\* A slip: the length of the key is not looked at.
AnyKeyFromPbtools(pb) ==
  Then(CommunityUuidFromPbtools(pb.community_uuid), LAMBDA uuid :
    Success([pubkey |-> pb.pubkey.data, balance |-> pb.balance, community_uuid |-> uuid]))

AccountBalanceFromPbtools(pb) ==
  IF pb.pubkey.size # KeySize THEN Failure("INVALID_PARAM")
  ELSE Then(CommunityUuidFromPbtools(pb.community_uuid), LAMBDA uuid :
         Success([pubkey |-> pb.pubkey.data, balance |-> pb.balance,
                  community_uuid |-> uuid]))

EncryptedMemoFromPbtools(pb) ==
  IF pb.memo.size = 0 THEN Success([type |-> pb.type, memo |-> NoBytes])
  ELSE Then(MemoryBlockFromPbtools(pb.memo), LAMBDA block :
         Success([type |-> pb.type, memo |-> block]))

SignaturePairFromPbtools(pb) ==
  IF pb.pubkey.size # KeySize \/ pb.signature.size # SignatureSize
  THEN Failure("INVALID_PARAM")
  ELSE Success([public_key |-> pb.pubkey.data, signature |-> pb.signature.data])

TimestampFromPbtools(pb) ==
  NotNull(pb, LAMBDA m : Success([seconds |-> m.seconds, nanos |-> m.nanos]))

TimestampSecondsFromPbtools(pb) ==
  NotNull(pb, LAMBDA m : Success([seconds |-> m.seconds]))

TransferAmountFromPbtools(pb) ==
  NotNull(pb, LAMBDA m :
    IF m.pubkey.size # KeySize THEN Failure("INVALID_PARAM")
    ELSE Then(CommunityUuidFromPbtools(m.community_uuid), LAMBDA uuid :
           Success([pubkey |-> m.pubkey.data, amount |-> m.amount,
                    community_uuid |-> uuid])))

\* Only the account number of an account id is known here, not its alias.
HieroAccountIdFromPbtools(pb) ==
  NotNull(pb, LAMBDA m :
    IF m.account.number # 3 THEN Failure("PB_UNHANDLED_ONEOF_BRANCH")
    ELSE Success([shardNum |-> m.shard_num, realmNum |-> m.realm_num,
                  accountNum |-> m.account.value]))

HieroTransactionIdFromPbtools(pb) ==
  NotNull(pb, LAMBDA m :
    IF m.nonce # 0 \/ m.scheduled THEN Failure("PB_UNHANDLED_PARAMETER")
    ELSE Then(TimestampFromPbtools(m.transaction_valid_start), LAMBDA start :
           Then(HieroAccountIdFromPbtools(m.account_id), LAMBDA account :
             Success([transactionValidStart |-> start, accountID |-> account]))))

(***************************************************************************)
(* The type of an anchor decides what is read of its union, not the member *)
(* that is set.  They disagree in an anchor another program wrote: an      *)
(* assertion stops the program where a Hiero id should be, and any other   *)
(* type reads an id nobody wrote.                                          *)
(***************************************************************************)
LedgerAnchorFromPbtools(pb) ==
  NotNull(pb, LAMBDA m :
    IF m.type # Hiero
    THEN Success([type |-> m.type,
                  id |-> IF m.anchor_id.number = 4 THEN m.anchor_id.value ELSE Garbage])
    ELSE IF m.anchor_id.number # 3 THEN Failure("ASSERTION")
    ELSE Then(HieroTransactionIdFromPbtools(m.anchor_id.value), LAMBDA id :
           Success([type |-> Hiero, hiero_transaction_id |-> id])))

CommunityFriendsUpdateFromPbtools(pb) ==
  NotNull(pb, LAMBDA m : Success([color_fusion |-> m.color_fusion]))

CommunityRootFromPbtools(pb) ==
  NotNull(pb, LAMBDA m :
    IF \E key \in {m.pubkey, m.gmw_pubkey, m.auf_pubkey} : key.size # KeySize
    THEN Failure("INVALID_PARAM")
    ELSE Success([pubkey |-> m.pubkey.data, gmw_pubkey |-> m.gmw_pubkey.data,
                  auf_pubkey |-> m.auf_pubkey.data]))

GradidoCreationFromPbtools(pb) ==
  NotNull(pb, LAMBDA m :
    Then(TransferAmountFromPbtools(m.recipient), LAMBDA recipient :
      Then(TimestampSecondsFromPbtools(m.target_date), LAMBDA date :
        Success([recipient |-> recipient, target_date |-> date]))))

GradidoTransferFromPbtools(pb) ==
  NotNull(pb, LAMBDA m :
    IF m.recipient.size # KeySize THEN Failure("INVALID_PARAM")
    ELSE Then(TransferAmountFromPbtools(m.sender), LAMBDA sender :
           Success([sender |-> sender, recipient |-> m.recipient.data])))

\* The one member read without a look whether it is there.
GradidoDeferredTransferFromPbtools(pb) ==
  NotNull(pb, LAMBDA m :
    IF m.timeout_duration = NULL THEN Failure("NULL_READ")
    ELSE IF m.timeout_duration.seconds > MaxU32 THEN Failure("RESOURCE_SIZE_EXCEED")
    ELSE Then(GradidoTransferFromPbtools(m.transfer), LAMBDA transfer :
           Success([transfer |-> transfer,
                    timeout_duration |-> m.timeout_duration.seconds])))

GradidoRedeemDeferredTransferFromPbtools(pb) ==
  NotNull(pb, LAMBDA m :
    Then(GradidoTransferFromPbtools(m.transfer), LAMBDA transfer :
      Success([deferred_transfer_transaction_nr |-> m.deferred_transfer_transaction_nr,
               transfer |-> transfer])))

GradidoTimeoutDeferredTransferFromPbtools(pb) ==
  NotNull(pb, LAMBDA m :
    Success([deferred_transfer_transaction_nr |-> m.deferred_transfer_transaction_nr]))

RegisterAddressFromPbtools(pb) ==
  NotNull(pb, LAMBDA m :
    IF m.user_pubkey.size # KeySize \/ m.name_hash.size # HashSize
         \/ m.account_pubkey.size # KeySize
    THEN Failure("INVALID_PARAM")
    ELSE Success([user_pubkey |-> m.user_pubkey.data, address_type |-> m.address_type,
                  derivation_index |-> m.derivation_index, name_hash |-> m.name_hash.data,
                  account_pubkey |-> m.account_pubkey.data]))

\* The type of a transaction, and its part of the body, by the member set.
SpecificFromPbtools(data) ==
  LET As(type, made) == Then(made, LAMBDA part : Success([type |-> type, part |-> part]))
      n == data.number
      v == data.value
  IN  CASE n = 0  -> Success([type |-> "none", part |-> NULL])
        [] n = 6  -> As("transfer", GradidoTransferFromPbtools(v))
        [] n = 7  -> As("creation", GradidoCreationFromPbtools(v))
        [] n = 8  -> As("friends_update", CommunityFriendsUpdateFromPbtools(v))
        [] n = 9  -> As("register_address", RegisterAddressFromPbtools(v))
        [] n = 10 -> As("deferred_transfer", GradidoDeferredTransferFromPbtools(v))
        [] n = 11 -> As("community_root", CommunityRootFromPbtools(v))
        [] n = 12 -> As("redeem_deferred", GradidoRedeemDeferredTransferFromPbtools(v))
        [] n = 13 -> As("timeout_deferred", GradidoTimeoutDeferredTransferFromPbtools(v))

TransactionBodyFromPbtools(pb) ==
  IF pb.version_number # ProtocolVersion THEN Failure("PB_INCORRECT_VERSION")
  ELSE IF Len(pb.memos) >= MaxCount THEN Failure("ARRAY_INDEX_OUT_OF_BOUNDS")
  ELSE Then(Every(pb.memos, EncryptedMemoFromPbtools), LAMBDA memos :
       Then(IF pb.other_community_uuid.size = 0 THEN Success(NULL)
            ELSE CommunityUuidFromPbtools(pb.other_community_uuid), LAMBDA other :
       Then(TimestampFromPbtools(pb.created_at), LAMBDA created :
       Then(SpecificFromPbtools(pb.data), LAMBDA data :
         Success([memos |-> memos, other_community_uuid |-> other, created_at |-> created,
                  type |-> pb.type, transaction_type |-> data.type, data |-> data.part])))))

\* grdw_gradido_transaction_init leaves an anchor of zeros.
NoAnchor == [type |-> Unspecified, id |-> 0]

GradidoTransactionFromPb(pb) ==
  NotNull(pb, LAMBDA m :
    LET pairs == IF m.sig_map = NULL THEN <<>> ELSE m.sig_map.sig_pair
    IN  IF Len(pairs) >= MaxCount THEN Failure("ARRAY_INDEX_OUT_OF_BOUNDS")
        ELSE Then(Every(pairs, SignaturePairFromPbtools), LAMBDA sig_map :
             Then(IF m.pairing_ledger_anchor = NULL THEN Success(NoAnchor)
                  ELSE LedgerAnchorFromPbtools(m.pairing_ledger_anchor), LAMBDA anchor :
             Then(MemoryBlockFromPbtools(m.body_bytes), LAMBDA body :
               Success([sig_map |-> sig_map, body_bytes |-> body,
                        pairing_ledger_anchor |-> anchor])))))

ConfirmedTransactionFromPb(pb) ==
  IF pb.version_number # ProtocolVersion THEN Failure("PB_INCORRECT_VERSION")
  ELSE Then(GradidoTransactionFromPb(pb.transaction), LAMBDA transaction :
       Then(TimestampFromPbtools(pb.confirmed_at), LAMBDA confirmed :
       IF pb.running_hash.size # HashSize THEN Failure("INVALID_PARAM")
       ELSE Then(LedgerAnchorFromPbtools(pb.ledger_anchor), LAMBDA anchor :
       IF Len(pb.account_balances) >= MaxCount THEN Failure("ARRAY_INDEX_OUT_OF_BOUNDS")
       ELSE Then(Every(pb.account_balances, AccountBalanceFromPbtools), LAMBDA balances :
         Success([id |-> pb.id, transaction |-> transaction, confirmed_at |-> confirmed,
                  running_hash |-> pb.running_hash.data, ledger_anchor |-> anchor,
                  account_balances |-> balances])))))

-----------------------------------------------------------------------------
(* pbtools_from_wire.c: arrays get their sizes back, everything that has a *)
(* place in the wire form is there.                                        *)

CommunityUuidFromWire(uuid) ==
  IF uuid = NULL THEN NoBytes ELSE BytesOf(UuidSize, uuid)

MemoryBlockFromWire(block) == IF block.size = 0 THEN NoBytes ELSE block

AccountBalanceFromWire(w) ==
  [pubkey |-> BytesOf(KeySize, w.pubkey), balance |-> w.balance,
   community_uuid |-> CommunityUuidFromWire(w.community_uuid)]

EncryptedMemoFromWire(w) == [type |-> w.type, memo |-> MemoryBlockFromWire(w.memo)]

SignaturePairFromWire(w) ==
  [pubkey |-> BytesOf(KeySize, w.public_key), signature |-> BytesOf(SignatureSize, w.signature)]

TimestampFromWire(w) == [seconds |-> w.seconds, nanos |-> w.nanos]

TimestampSecondsFromWire(w) == [seconds |-> w.seconds]

TransferAmountFromWire(w) ==
  [pubkey |-> BytesOf(KeySize, w.pubkey), amount |-> w.amount,
   community_uuid |-> CommunityUuidFromWire(w.community_uuid)]

HieroAccountIdFromWire(w) ==
  [shard_num |-> w.shardNum, realm_num |-> w.realmNum, account |-> Member(3, w.accountNum)]

HieroTransactionIdFromWire(w) ==
  [transaction_valid_start |-> TimestampFromWire(w.transactionValidStart),
   account_id |-> HieroAccountIdFromWire(w.accountID), scheduled |-> FALSE, nonce |-> 0]

LedgerAnchorFromWire(w) ==
  [type |-> w.type,
   anchor_id |-> IF w.type = Hiero
                 THEN Member(3, HieroTransactionIdFromWire(w.hiero_transaction_id))
                 ELSE Member(4, w.id)]

CommunityFriendsUpdateFromWire(w) == [color_fusion |-> w.color_fusion]

CommunityRootFromWire(w) ==
  [pubkey |-> BytesOf(KeySize, w.pubkey), gmw_pubkey |-> BytesOf(KeySize, w.gmw_pubkey),
   auf_pubkey |-> BytesOf(KeySize, w.auf_pubkey)]

GradidoCreationFromWire(w) ==
  [recipient |-> TransferAmountFromWire(w.recipient),
   target_date |-> TimestampSecondsFromWire(w.target_date)]

GradidoTransferFromWire(w) ==
  [sender |-> TransferAmountFromWire(w.sender), recipient |-> BytesOf(KeySize, w.recipient)]

GradidoDeferredTransferFromWire(w) ==
  [transfer |-> GradidoTransferFromWire(w.transfer),
   timeout_duration |-> [seconds |-> w.timeout_duration]]

GradidoRedeemDeferredTransferFromWire(w) ==
  [deferred_transfer_transaction_nr |-> w.deferred_transfer_transaction_nr,
   transfer |-> GradidoTransferFromWire(w.transfer)]

GradidoTimeoutDeferredTransferFromWire(w) ==
  [deferred_transfer_transaction_nr |-> w.deferred_transfer_transaction_nr]

RegisterAddressFromWire(w) ==
  [user_pubkey |-> BytesOf(KeySize, w.user_pubkey), address_type |-> w.address_type,
   name_hash |-> BytesOf(HashSize, w.name_hash),
   account_pubkey |-> BytesOf(KeySize, w.account_pubkey),
   derivation_index |-> w.derivation_index]

SpecificFromWire(type, part) ==
  CASE type = "none" -> NoMember
    [] type = "transfer" -> Member(6, GradidoTransferFromWire(part))
    [] type = "creation" -> Member(7, GradidoCreationFromWire(part))
    [] type = "friends_update" -> Member(8, CommunityFriendsUpdateFromWire(part))
    [] type = "register_address" -> Member(9, RegisterAddressFromWire(part))
    [] type = "deferred_transfer" -> Member(10, GradidoDeferredTransferFromWire(part))
    [] type = "community_root" -> Member(11, CommunityRootFromWire(part))
    [] type = "redeem_deferred" -> Member(12, GradidoRedeemDeferredTransferFromWire(part))
    [] type = "timeout_deferred" -> Member(13, GradidoTimeoutDeferredTransferFromWire(part))

\* The list of memos is the one list whose length is not looked at.
TransactionBodyFromWire(w) ==
  [memos |-> [i \in DOMAIN w.memos |-> EncryptedMemoFromWire(w.memos[i])],
   created_at |-> TimestampFromWire(w.created_at), version_number |-> ProtocolVersion,
   type |-> w.type, other_community_uuid |-> CommunityUuidFromWire(w.other_community_uuid),
   data |-> SpecificFromWire(w.transaction_type, w.data)]

GradidoTransactionFromWire(w) ==
  IF Len(w.sig_map) >= MaxCount THEN Failure("ARRAY_INDEX_OUT_OF_BOUNDS")
  ELSE Success(
    [sig_map |-> IF w.sig_map = <<>> THEN NULL
                 ELSE [sig_pair |-> [i \in DOMAIN w.sig_map |->
                                       SignaturePairFromWire(w.sig_map[i])]],
     body_bytes |-> MemoryBlockFromWire(w.body_bytes),
     pairing_ledger_anchor |->
       IF w.pairing_ledger_anchor.type = Unspecified THEN NULL
       ELSE LedgerAnchorFromWire(w.pairing_ledger_anchor)])

ConfirmedTransactionFromWire(w) ==
  Then(GradidoTransactionFromWire(w.transaction), LAMBDA transaction :
    IF Len(w.account_balances) >= MaxCount THEN Failure("ARRAY_INDEX_OUT_OF_BOUNDS")
    ELSE Success([id |-> w.id, transaction |-> transaction,
                  confirmed_at |-> TimestampFromWire(w.confirmed_at),
                  version_number |-> ProtocolVersion,
                  running_hash |-> BytesOf(HashSize, w.running_hash),
                  ledger_anchor |-> LedgerAnchorFromWire(w.ledger_anchor),
                  account_balances |-> [i \in DOMAIN w.account_balances |->
                                          AccountBalanceFromWire(w.account_balances[i])]]))

=============================================================================
