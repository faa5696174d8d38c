--------------------------------- MODULE Store ---------------------------------
(***************************************************************************)
(* What grdb_chain_store promises of whatever is behind its pointers: one  *)
(* gapless run of numbers, each with the transaction it was given under;   *)
(* an append continues the run, and nothing kept is changed or lost before *)
(* the store is emptied whole.                                             *)
(***************************************************************************)
EXTENDS Integers

CONSTANT Bodies

VARIABLE kept  \* number -> what its transaction says

Init == kept = [n \in {} |-> 0]

Continues(tx_nr) ==
  /\ tx_nr # 0
  /\ tx_nr \notin DOMAIN kept
  /\ DOMAIN kept # {} => /\ tx_nr - 1 \in DOMAIN kept
                         /\ \A n \in DOMAIN kept : n < tx_nr

Append(tx_nr, body) ==
  /\ Continues(tx_nr)
  /\ kept' = [n \in DOMAIN kept \cup {tx_nr} |-> IF n = tx_nr THEN body ELSE kept[n]]

Clear == kept' = [n \in {} |-> 0]

Next ==
  \/ Clear
  \/ \E tx_nr \in DOMAIN kept' : \E body \in Bodies : Append(tx_nr, body)

Spec == Init /\ [][Next]_kept

=============================================================================
