------------------------------- MODULE Assembly -------------------------------
(***************************************************************************)
(* What a host calls to fill in the wire form: the assemblers of the       *)
(* specific transactions and of a ledger anchor, and the anchor's getters  *)
(* (data/wire/specific_transactions.c, data/wire/ledger_anchor.c).         *)
(***************************************************************************)
EXTENDS WireForm

CommunityFriendsUpdateAssemble(color_fusion) == [color_fusion |-> color_fusion]

CommunityRootAssemble(pubkey, gmw_pubkey, auf_pubkey) ==
  [pubkey |-> pubkey, gmw_pubkey |-> gmw_pubkey, auf_pubkey |-> auf_pubkey]

GradidoCreationAssemble(recipient_pubkey, amount, community_uuid, target_date_seconds) ==
  [recipient |-> [pubkey |-> recipient_pubkey, amount |-> amount,
                  community_uuid |-> community_uuid],
   target_date |-> [seconds |-> target_date_seconds]]

GradidoTransferAssemble(sender_pubkey, amount, community_uuid, recipient_pubkey) ==
  [sender |-> [pubkey |-> sender_pubkey, amount |-> amount, community_uuid |-> community_uuid],
   recipient |-> recipient_pubkey]

GradidoDeferredTransferAssemble(sender, amount, community_uuid, recipient, timeout) ==
  [transfer |-> GradidoTransferAssemble(sender, amount, community_uuid, recipient),
   timeout_duration |-> timeout]

GradidoRedeemDeferredTransferAssemble(tx_nr, sender, amount, community_uuid, recipient) ==
  [deferred_transfer_transaction_nr |-> tx_nr,
   transfer |-> GradidoTransferAssemble(sender, amount, community_uuid, recipient)]

GradidoTimeoutDeferredTransferAssemble(transaction_nr) ==
  [deferred_transfer_transaction_nr |-> transaction_nr]

RegisterAddressAssemble(user_pubkey, type, derivation_index, name_hash, account_pubkey) ==
  [user_pubkey |-> user_pubkey, address_type |-> type,
   derivation_index |-> derivation_index, name_hash |-> name_hash,
   account_pubkey |-> account_pubkey]

-----------------------------------------------------------------------------
(* Ledger anchors: what each assembler sets, which type each getter asks.  *)

NodeTrigger == 4

LegacyTypes == {3, 5, 6, 7, 8}

AssembleHieroTransactionId(seconds, nanos, shard_num, realm_num, account_num) ==
  [type |-> Hiero,
   hiero_transaction_id |->
     [transactionValidStart |-> [seconds |-> seconds, nanos |-> nanos],
      accountID |-> [shardNum |-> shard_num, realmNum |-> realm_num,
                     accountNum |-> account_num]]]

\* A type that has an assembler of its own, or none, leaves the anchor alone.
AssembleLegacyId(anchor, type, legacy_id) ==
  IF type \in {Unspecified, Hiero, NodeTrigger}
  THEN [result |-> "INVALID_ENUM_TYPE", anchor |-> anchor]
  ELSE [result |-> "SUCCESS", anchor |-> [type |-> type, id |-> legacy_id]]

AssembleNodeTriggerTransactionId(id) == [type |-> NodeTrigger, id |-> id]

IsLegacy(anchor) == anchor # NULL /\ anchor.type \in LegacyTypes

IsHieroTransactionId(anchor) == anchor # NULL /\ anchor.type = Hiero

IsNodeTriggerTransactionId(anchor) == anchor # NULL /\ anchor.type = NodeTrigger

GetLegacyId(anchor) == IF IsLegacy(anchor) THEN anchor.id ELSE 0

GetNodeTriggerId(anchor) == IF IsNodeTriggerTransactionId(anchor) THEN anchor.id ELSE 0

GetHieroTransactionId(anchor) ==
  IF IsHieroTransactionId(anchor) THEN anchor.hiero_transaction_id ELSE NULL

=============================================================================
