-------------------------------- MODULE Ledger --------------------------------
(***************************************************************************)
(* What a chain promises, without segments, registers or room: a gapless   *)
(* run of numbers and the facts its transactions state.  A transaction is  *)
(* in with everything it says, or it is not in.                            *)
(*                                                                         *)
(* The roles here are read off the transaction as transactions.h words     *)
(* them, not by the walk the index makes.                                  *)
(***************************************************************************)
EXTENDS CompleteTransaction

CONSTANT Arrivals

VARIABLES
  first,  \* smallest number held, 0 while empty
  last,   \* largest number held, 0 while empty
  home,   \* the community whose coin is the chain's own
  facts,  \* <<set name, number>>
  types,  \* <<key, number, type given>>
  moved   \* the last number that moved a key's balance, 0 for none

ledgerVars == <<first, last, home, facts, types, moved>>

Entries(seq) == {seq[i] : i \in DOMAIN seq}
Signers(tx) == Entries(tx.signers) \ {NoKey}
Moved(tx) == {b.key : b \in Entries(tx.balances)} \ {NoKey}
OnlyNamed(tx) == Entries(Named(tx)) \ (Signers(tx) \cup Moved(tx) \cup {NoKey})
ForeignCoins(tx, community) == {b.coin : b \in Entries(tx.balances)} \ {community}

Roles(tx, community) ==
  {<<"signed", k>> : k \in Signers(tx)}
    \cup {<<"balance", k>> : k \in Moved(tx)}
    \cup {<<"other", k>> : k \in OnlyNamed(tx)}
    \cup {<<"coin", c>> : c \in ForeignCoins(tx, community)}
    \cup {<<"foreign", NoCommunity>> : c \in ForeignCoins(tx, community)}
    \cup {<<"type", tx.type>>}

Given(tx) ==
  {<<n.key, tx.tx_nr, n.type>> : n \in {m \in Entries(Notes(tx)) : m.key # NoKey}}

Init ==
  /\ first = 0
  /\ last = 0
  /\ home = NoCommunity
  /\ facts = {}
  /\ types = {}
  /\ moved = [k \in Keys |-> 0]

Enter(tx) ==
  /\ tx.tx_nr # 0
  /\ last # 0 => tx.tx_nr = last + 1
  /\ first' = IF last = 0 THEN tx.tx_nr ELSE first
  /\ last' = tx.tx_nr
  /\ home' = IF last = 0 THEN tx.community ELSE home
  /\ facts' = facts \cup (Roles(tx, home') \X {tx.tx_nr})
  /\ types' = types \cup Given(tx)
  /\ moved' = [k \in Keys |-> IF k \in Moved(tx) THEN tx.tx_nr ELSE moved[k]]

Clear ==
  /\ first' = 0
  /\ last' = 0
  /\ home' = NoCommunity
  /\ facts' = {}
  /\ types' = {}
  /\ moved' = [k \in Keys |-> 0]

Next == Clear \/ \E tx \in Arrivals : Enter(tx)

Spec == Init /\ [][Next]_ledgerVars

=============================================================================
