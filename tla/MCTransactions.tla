--------------------------- MODULE MCTransactions ---------------------------
(***************************************************************************)
(* Values of Transactions' constants for TLC.                              *)
(***************************************************************************)
EXTENDS Transactions, TLC

CONSTANTS p1, p2, c1, i1, i2, t1, t2

Account == [active |-> Absent, minor |-> Absent, type |-> Absent]
PlainClient == {Account}
ArchivedClient == {Account, [Account EXCEPT !.active = FALSE]}
OneLine == {[qty |-> 1, price |-> 1]}
Symmetry == Permutations(Txs) \cup Permutations(InvoiceIds)

(***************************************************************************)
(* The tables after both products (two packs each), the client and, over   *)
(* both products, the invoices have been created and i2 has been posted.   *)
(***************************************************************************)
Drafted ==
  [NoInvoice EXCEPT !.status = "draft", !.client = c1, !.total = 2, !.version = 1,
     !.items = [p \in Products |-> [qty |-> 1, price |-> 1, pieces |-> 1]]]

Stocked ==
  /\ tenantActive = TRUE
  /\ product = [p \in Products |-> [row |-> "live", active |-> TRUE, quantity |-> 1,
                                    pieces |-> 1, version |-> 2]]
  /\ correction = [p \in Products |-> 2]
  /\ movement = [i \in InvoiceIds |-> [p \in Products |-> IF i = i1 THEN 0 ELSE -1]]
  /\ client = [c \in Clients |-> [NoAccount EXCEPT !.row = "live", !.active = TRUE]]
  /\ invoice = (i1 :> Drafted) @@
       (i2 :> [Drafted EXCEPT !.status = "posted", !.version = 2, !.number = 1])
  /\ nextNumber = 2
  /\ ledger = (i1 :> 0) @@ (i2 :> 2)
  /\ receipt = [r \in ReceiptIds |-> NoReceipt]
  /\ NoneOpen

StockedSpec == Stocked /\ [][TransactionsNext]_everything /\ ServerRuns

StockOne == {[active |-> Absent, quantity |-> 1, pieces |-> 1]}
=============================================================================
