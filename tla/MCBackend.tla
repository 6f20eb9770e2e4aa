------------------------------ MODULE MCBackend ------------------------------
(***************************************************************************)
(* Values of Backend's constants for TLC.                                  *)
(***************************************************************************)
EXTENDS Promises, TLC

CONSTANTS p1, p2, c1, c2, i1, i2, i3, r1, r2

Keep == [active |-> Absent, quantity |-> Absent, pieces |-> Absent]

\* One body that creates a product with stock, nothing to patch.
StockThree == {[Keep EXCEPT !.quantity = 3, !.pieces = 1]}

\* As above, and archiving, restoring, repacking and emptying.
StockChanges ==
  StockThree \cup {[Keep EXCEPT !.active = FALSE], [Keep EXCEPT !.active = TRUE],
                   [Keep EXCEPT !.pieces = 2], [Keep EXCEPT !.quantity = 0]}

Account == [active |-> Absent, minor |-> Absent, type |-> Absent]
PlainClient    == {Account}
ArchivedClient == {Account, [Account EXCEPT !.active = FALSE]}
OpenAccounts   == ArchivedClient \cup
  {[Account EXCEPT !.minor = 2], [Account EXCEPT !.minor = -2], [Account EXCEPT !.type = "receivable"]}

OneLine    == {[qty |-> 1, price |-> 1]}
TwoLines   == {[qty |-> 1, price |-> 1], [qty |-> 2, price |-> 1]}
\* From one line to the other the quantity rises and the total falls.
TradeLines == {[qty |-> 1, price |-> 3], [qty |-> 2, price |-> 1]}
InvoiceSymmetry == Permutations(InvoiceIds)
ClientSymmetry  == Permutations(Clients)
ProductSymmetry == Permutations(Products)

SmallReceipts == [direction : {"in", "out"}, amount : {1, 2}]
=============================================================================
