---------------------------- MODULE Enumerations ----------------------------
(***************************************************************************)
(* The names of the enumerations (types/*.c): a table from value to name   *)
(* with one answer for every value outside it, and a chain of comparisons  *)
(* from name to value that ends in the enumeration's "none".  The common   *)
(* prefix of the names is left out.                                        *)
(***************************************************************************)
EXTENDS Integers, Sequences

Unknown == "UNKNOWN"

\* A table starts at 0; a gap in it answers as a value past its end does.
ToName(table, value) == IF value + 1 \in DOMAIN table THEN table[value + 1] ELSE Unknown

FromName(table, name, none) ==
  IF \E i \in DOMAIN table : table[i] = name /\ name # Unknown
  THEN (CHOOSE i \in DOMAIN table : table[i] = name) - 1
  ELSE none

AddressNames ==
  <<"NONE", "COMMUNITY_HUMAN", "COMMUNITY_GMW", "COMMUNITY_AUF", "COMMUNITY_PROJECT",
    "SUBACCOUNT", "CRYPTO_ACCOUNT", "DEFERRED_TRANSFER">>

AddressNone == 0

AddressToString(value) == ToName(AddressNames, value)

AddressFromString(name) == FromName(AddressNames, name, AddressNone)

\* NONE sits past what the wire can say, so that 0 stays a local transaction.
CrossGroupNames == <<"LOCAL", "INBOUND", "OUTBOUND", "CROSS", "NONE">>

CrossGroupNone == 4

CrossGroupToString(value) == ToName(CrossGroupNames, value)

CrossGroupFromString(name) == FromName(CrossGroupNames, name, CrossGroupNone)

MemoKeyNames == <<"SHARED_SECRET", "COMMUNITY_SECRET", "PLAIN", "NONE">>

MemoKeyNone == 3

MemoKeyToString(value) == ToName(MemoKeyNames, value)

MemoKeyFromString(name) == FromName(MemoKeyNames, name, MemoKeyNone)

\* The number 1 was never given out.
LedgerAnchorNames ==
  <<"UNSPECIFIED", Unknown, "HIERO_TRANSACTION_ID", "LEGACY_GRADIDO_DB_TRANSACTION_ID",
    "NODE_TRIGGER_TRANSACTION_ID", "LEGACY_GRADIDO_DB_COMMUNITY_ID",
    "LEGACY_GRADIDO_DB_USER_ID", "LEGACY_GRADIDO_DB_CONTRIBUTION_ID",
    "LEGACY_GRADIDO_DB_TRANSACTION_LINK_ID">>

LedgerAnchorToString(value) == ToName(LedgerAnchorNames, value)

LedgerAnchorFromString(name) == FromName(LedgerAnchorNames, name, 0)

TransactionNames ==
  [none |-> "NONE", creation |-> "CREATION", transfer |-> "TRANSFER",
   friends_update |-> "COMMUNITY_FRIENDS_UPDATE", register_address |-> "REGISTER_ADDRESS",
   deferred_transfer |-> "DEFERRED_TRANSFER", community_root |-> "COMMUNITY_ROOT",
   redeem_deferred |-> "REDEEM_DEFERRED_TRANSFER",
   timeout_deferred |-> "TIMEOUT_DEFERRED_TRANSFER"]

TransactionToString(type) == TransactionNames[type]

TransactionFromString(name) ==
  IF \E type \in DOMAIN TransactionNames : TransactionNames[type] = name
  THEN CHOOSE type \in DOMAIN TransactionNames : TransactionNames[type] = name
  ELSE "none"

=============================================================================
