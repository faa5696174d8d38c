-------------------------- MODULE SampleTransactions --------------------------
(***************************************************************************)
(* Transactions of every shape the indices tell apart, over two keys and   *)
(* two communities, for the small instances.                               *)
(***************************************************************************)
EXTENDS CompleteTransaction

CONSTANTS alice, bob, own, other

Tx(nr, second, type, signers, balances, body, gives) ==
  [tx_nr |-> nr, second |-> second, type |-> type, community |-> own,
   signers |-> signers, balances |-> balances, body |-> body, gives |-> gives]

Bal(key, coin) == [key |-> key, coin |-> coin]

\* bob signs and pays alice in a foreign coin.
TransferTx(nr, second) ==
  Tx(nr, second, "transfer", <<bob>>, <<Bal(bob, other), Bal(alice, own)>>,
     <<bob, alice, NoKey>>, "none")

\* bob signs, and alice's balance moves in a foreign coin.
PaymentTx(nr, second) ==
  Tx(nr, second, "transfer", <<bob>>, <<Bal(alice, other)>>, <<bob, alice, NoKey>>, "none")

\* bob registers alice, whose user and account key are the same.
RegisterTx(nr, second) ==
  Tx(nr, second, "register_address", <<bob>>, <<>>, <<alice, alice, NoKey>>, "human")

\* One key becomes both community accounts; the root key is bob's.
RootTx(nr, second) ==
  Tx(nr, second, "community_root", <<alice>>, <<>>, <<bob, alice, alice>>, "none")

\* A deferred transfer types its recipient and only names its sender.
DeferredTx(nr, second) ==
  Tx(nr, second, "deferred_transfer", <<NoKey>>, <<Bal(NoKey, own)>>,
     <<alice, bob, NoKey>>, "none")

\* A registration whose address type this library does not know.
StrangeTx(nr, second) == [RegisterTx(nr, second) EXCEPT !.gives = "unknown"]

\* A transaction type this library does not know.
UnknownTx(nr, second) == [TransferTx(nr, second) EXCEPT !.type = "unknown"]

\* Nothing but a number and a day.
EmptyTx(nr, second) ==
  Tx(nr, second, "friends_update", <<>>, <<>>, <<NoKey, NoKey, NoKey>>, "none")

=============================================================================
