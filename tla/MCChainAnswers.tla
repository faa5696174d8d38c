---------------------------- MODULE MCChainAnswers ----------------------------
(***************************************************************************)
(* Small instances of ChainAnswers.                                        *)
(***************************************************************************)
EXTENDS MCChain, ChainAnswers

(***************************************************************************)
(* Six numbers over segments of one, of two and of three, confirmed in     *)
(* order and with days left out; numbers 2 and 4 come in two versions, and *)
(* the chain may begin at any of them.                                     *)
(***************************************************************************)
AnswerSizes == {1, 2, 3}
AnswerArrivals ==
  {RegisterTx(1, -1), PaymentTx(2, 1), RootTx(2, 4), DeferredTx(3, 9), TransferTx(4, 9),
   EmptyTx(4, 10), RegisterTx(5, 13), PaymentTx(6, 13)}

Asking(role, key) == SetAddress(AnyTransaction, key, role)

\* Each part of a filter alone, and a role, a coin and a span together; parts refused and
\* taken back, and a type that only a caller who writes the field himself can ask for.
AnswerFilters ==
  {AnyTransaction,
   Asking("balance", alice), Asking("involved", alice), Asking("involved", bob),
   SetTxRange(AnyTransaction, 0, 5), SetTxRange(AnyTransaction, 3, 2),
   SetTransactionType(AnyTransaction, "transfer"),
   SetTransactionType(SetTransactionType(AnyTransaction, "transfer"), "unknown"),
   [AnyTransaction EXCEPT !.type = "unknown"],
   SetCoinCommunity(AnyTransaction, own),
   SetCoinCommunity(SetCoinCommunity(AnyTransaction, other), NoCommunity),
   AnyCoinAgain(SetAddress(SetCoinCommunity(Asking("balance", bob), other), bob, "none")),
   SetTxRange(SetCoinCommunity(Asking("involved", alice), own), 2, 5),
   SetDateRange(AnyTransaction, 4, 8), SetDateRange(AnyTransaction, 0, 4),
   SetDateRange(AnyTransaction, 0, -1), SetDateRange(AnyTransaction, 6, 0)}

AnswerPages ==
  [skip : {0, 1, 2}, size : {0, 2}, descending : BOOLEAN]

-----------------------------------------------------------------------------
(***************************************************************************)
(* Where the documentation and the code differ: the smallest callers that  *)
(* meet the difference.                                                    *)
(***************************************************************************)
DaySpans == {SetDateRange(AnyTransaction, f, t) : f \in {0, 4}, t \in {4, 5}}
NoPages == {}

\* Number 2 is refused for its address type and then given to another.
TwoForOneNumber == {PaymentTx(1, 3), StrangeTx(2, 3), DeferredTx(2, 3)}

\* The first transaction tried is refused for its type, at number 2.
UnknownFirst == {UnknownTx(2, 3), PaymentTx(1, 3), RegisterTx(2, 3)}

\* The clock of the confirming node goes back by a day.
ClockGoesBack == {PaymentTx(1, 5), RegisterTx(2, 7), PaymentTx(3, 5), DeferredTx(3, 3)}

\* Within one segment: a day later than the first, but earlier than the last.
ClockSlipsBack == {PaymentTx(3, 3), RegisterTx(4, 7), PaymentTx(5, 5)}

=============================================================================
