------------------------------- MODULE MCCodec -------------------------------
(***************************************************************************)
(* Transactions to compose: every type, every kind of anchor and of        *)
(* cross-group transaction, lists of different lengths, zeros, values no   *)
(* enumeration knows.                                                      *)
(***************************************************************************)
EXTENDS CodecHint

CONSTANTS k1, k2, k3, hash, signature, home, abroad, text

At(seconds, nanos) == [seconds |-> seconds, nanos |-> nanos]

HieroAnchor == AssembleHieroTransactionId(3, 1, 0, 2, 5)

Legacy(type) == AssembleLegacyId(NoAnchor, type, 6).anchor

Trigger == AssembleNodeTriggerTransactionId(8)

Memo(type) == [type |-> type, memo |-> BytesOf(4, text)]

Balance(key, amount, community) ==
  [pubkey |-> key, balance |-> amount, community_uuid |-> community]

Pair(key) == [public_key |-> key, signature |-> signature]

Body(type, part, cross, other, memos) ==
  [memos |-> memos, other_community_uuid |-> other, created_at |-> At(4, 0), type |-> cross,
   transaction_type |-> type, data |-> part]

Confirmed(id, anchor, pairing, pairs, balances) ==
  [id |-> id,
   transaction |-> [sig_map |-> pairs, body_bytes |-> NoBytes, pairing_ledger_anchor |-> pairing],
   confirmed_at |-> At(5, 2), running_hash |-> hash, ledger_anchor |-> anchor,
   account_balances |-> balances]

Plain == Confirmed(7, HieroAnchor, NoAnchor, <<Pair(k1)>>, <<Balance(k1, 9, home)>>)

Both == <<Balance(k1, 0, Nil), Balance(k2, 9, abroad)>>

Sample(body, confirmed) == [body |-> body, confirmed |-> confirmed]

Transfer(amount) == GradidoTransferAssemble(k1, amount, home, k2)

Parts ==
  {[type |-> "transfer", part |-> Transfer(3)],
   [type |-> "transfer", part |-> GradidoTransferAssemble(k1, 0, Nil, k1)],
   [type |-> "creation", part |-> GradidoCreationAssemble(k2, 3, home, 2)],
   [type |-> "creation", part |-> GradidoCreationAssemble(k2, 0, Nil, 0)],
   [type |-> "deferred_transfer",
    part |-> GradidoDeferredTransferAssemble(k1, 3, home, k2, 6)],
   [type |-> "deferred_transfer",
    part |-> GradidoDeferredTransferAssemble(k1, 3, home, k2, 0)],
   [type |-> "redeem_deferred",
    part |-> GradidoRedeemDeferredTransferAssemble(4, k1, 3, home, k2)],
   [type |-> "timeout_deferred", part |-> GradidoTimeoutDeferredTransferAssemble(4)],
   [type |-> "timeout_deferred", part |-> GradidoTimeoutDeferredTransferAssemble(0)],
   [type |-> "register_address", part |-> RegisterAddressAssemble(k1, 1, 0, hash, k2)],
   [type |-> "register_address", part |-> RegisterAddressAssemble(k1, 9, 1, hash, k2)],
   [type |-> "register_address", part |-> RegisterAddressAssemble(k1, 0, 0, hash, k2)],
   [type |-> "community_root", part |-> CommunityRootAssemble(k1, k2, k3)],
   [type |-> "friends_update", part |-> CommunityFriendsUpdateAssemble(TRUE)],
   [type |-> "friends_update", part |-> CommunityFriendsUpdateAssemble(FALSE)],
   [type |-> "none", part |-> NULL]}

\* Every type, local, with one memo.
EveryType == {Sample(Body(p.type, p.part, Local, NULL, <<Memo(2)>>), Plain) : p \in Parts}

\* One transfer in every envelope.
OneTransfer(cross, other, memos) == Body("transfer", Transfer(3), cross, other, memos)

EveryEnvelope ==
  {Sample(OneTransfer(Outbound, abroad, <<>>), Confirmed(7, a, p, <<Pair(k1), Pair(k2)>>, Both)) :
     a \in {HieroAnchor, Legacy(7), Trigger, NoAnchor, Legacy(1)},
     p \in {NoAnchor, Trigger}}
  \cup {Sample(OneTransfer(Inbound, abroad, <<Memo(0), Memo(1)>>),
               Confirmed(0, Trigger, HieroAnchor, <<>>, <<>>)),
        Sample(OneTransfer(3, Nil, <<[type |-> 0, memo |-> BytesOf(6, text)]>>), Plain),
        Sample(OneTransfer(5, NULL, <<Memo(4)>>), Plain),
        Sample(OneTransfer(Local, NULL, <<Memo(0), Memo(1), Memo(2)>>), Plain),
        Sample(OneTransfer(Local, NULL, <<>>),
               Confirmed(7, Trigger, NoAnchor, <<Pair(k1), Pair(k2), Pair(k3)>>, <<>>)),
        Sample(OneTransfer(Local, NULL, <<[type |-> 1, memo |-> BytesOf(400, text)]>>), Plain)}

MCCompositions == EveryType \cup EveryEnvelope

=============================================================================
