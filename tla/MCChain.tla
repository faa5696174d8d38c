------------------------------- MODULE MCChain -------------------------------
(***************************************************************************)
(* Small instances of Chain.                                               *)
(***************************************************************************)
EXTENDS Chain, SampleTransactions

-----------------------------------------------------------------------------
\* Any caller: two callers' versions of number 2, one of them refused for
\* good by the register, and an unknown type.  The row is cut before 2.
AnyCallerSizes == {2}
AnyCallerArrivals ==
  {PaymentTx(1, 3), UnknownTx(1, 1), RegisterTx(2, 4), StrangeTx(2, 0), DeferredTx(3, 0)}

\* The caller who adds again: every transaction that gives types, a
\* registration naming one key twice among them, with a border before every
\* number, before 2, and before 3.
RetrySizes == {1, 2, 3}
RetryArrivals ==
  {UnknownTx(1, 3), RegisterTx(1, 3), PaymentTx(2, 4), RootTx(2, 4), DeferredTx(3, 5), UnknownTx(3, 5),
   TransferTx(4, 9)}
=============================================================================
