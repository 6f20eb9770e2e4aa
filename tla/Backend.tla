------------------------------- MODULE Backend -------------------------------
(***************************************************************************)
(* The commerce back end of one tenant: product, invoice, client and       *)
(* tenant handlers over the same tables, and what must hold of the tables  *)
(* whatever requests arrive in whatever order.                             *)
(***************************************************************************)
EXTENDS ProductHandlers, InvoiceHandlers, ClientHandlers

TenantNext == \E active \in TenantInputs : UpdateTenant(active)

Next == TenantNext \/ ProductNext \/ InvoiceNext \/ ClientNext

Spec == Init /\ [][Next]_vars

-----------------------------------------------------------------------------
(***************************************************************************)
(* Stock.                                                                  *)
(***************************************************************************)

\* The stock of a product is the sum of its stock_movements rows: no handler
\* changes one without the other (the "stock history" of docs/commerce-api.md).
StockIsItsHistory ==
  \A p \in Products : product[p].row = "live" =>
    product[p].quantity
      = correction[p] + SumFunction([i \in InvoiceIds |-> movement[i][p]])

\* What an invoice has taken out of stock, net: a posted sale its cartons less
\* the returned ones, a posted purchase brings its cartons in, anything never
\* posted leaves the stock alone.  A void sale keeps what was returned before
\* it was voided (transitionInvoice reverses the whole quantity).
NetStock(inv, p) ==
  CASE inv.status = "posted" -> StockOf(inv.doc, inv.items[p].qty) + inv.returned[p]
    [] inv.status = "void"   -> inv.returned[p]
    [] OTHER                 -> 0

\* Posting, editing, voiding, reactivating and returning, in any order and any
\* number of times, leave exactly the stock movements of the present document.
StockMatchesInvoices ==
  \A i \in InvoiceIds, p \in Products : movement[i][p] = NetStock(invoice[i], p)

(***************************************************************************)
(* Accounts.                                                               *)
(***************************************************************************)

\* What an invoice has put on its client's account, net.
NetDebt(inv) ==
  IF inv.client = NoClient THEN 0
  ELSE CASE inv.status = "posted" -> DebtOf(inv.doc, inv.total) - inv.returnedMinor
         [] inv.status = "void"   -> -inv.returnedMinor
         [] OTHER                 -> 0

\* The ledger rows of an invoice (invoice, adjust, return, void, reactivate and
\* their purchase kinds) always add up to the present document; a detached
\* invoice is on nobody's account.
LedgerMatchesInvoices ==
  \A i \in InvoiceIds : ledger[i] = NetDebt(invoice[i])

\* Edits, returns and payments never contradict each other: a line never
\* shrinks below what came back of it, the payments never exceed the total,
\* and what was never posted has neither.
Fits(inv) ==
  /\ \A p \in Products :
       /\ inv.returned[p] <= inv.items[p].qty
       /\ inv.number = 0 \/ inv.doc = "purchase" => inv.returned[p] = 0
  /\ inv.paid <= inv.total
  /\ inv.number = 0 => inv.paid = 0
  /\ inv.number = 0 \/ inv.doc = "purchase" => inv.returnedMinor = 0

HistoryFits == \A i \in InvoiceIds : Fits(invoice[i])

(***************************************************************************)
(* Numbers.                                                                *)
(***************************************************************************)

Numbered == {i \in InvoiceIds : invoice[i].number # 0}

\* Invoice numbers are 1, 2, 3, ... without a gap or a repetition, and exactly
\* the invoices that were posted have one; a deleted invoice never had one.
NumbersAreGapless ==
  /\ {invoice[i].number : i \in Numbered} = 1..(nextNumber - 1)
  /\ \A i, j \in Numbered : invoice[i].number = invoice[j].number => i = j
  /\ Numbered = {i \in InvoiceIds : invoice[i].status \in {"posted", "void"}}

(***************************************************************************)
(* References.                                                             *)
(***************************************************************************)

\* Deleting never pulls a row from under another: the products of invoice and
\* return lines, the clients of invoices, returns and receipts are still there.
NoDanglingRows ==
  /\ \A i \in InvoiceIds :
       /\ \A p \in Products :
            invoice[i].items[p].qty > 0 \/ invoice[i].returned[p] > 0
              => product[p].row = "live"
       /\ \A c \in {invoice[i].client, invoice[i].returnsClient} \ {NoClient} :
            client[c].row = "live"
  /\ \A r \in ReceiptIds : receipt[r].row = "live" =>
       receipt[r].client # NoClient /\ client[receipt[r].client].row = "live"

\* The inductive invariant: each part needs the others to survive a step.
BooksAgree ==
  /\ TypeOK
  /\ StockMatchesInvoices
  /\ LedgerMatchesInvoices
  /\ HistoryFits
  /\ NumbersAreGapless

-----------------------------------------------------------------------------
(***************************************************************************)
(* Action properties.                                                      *)
(***************************************************************************)

\* A receipt, new or corrected, never pushes the balance past zero: money in
\* leaves a debt or nothing, money out leaves a credit or nothing, by the
\* balance read back after the write.
ReceiptsNeverOvershoot ==
  [][\A r \in ReceiptIds, c \in Clients :
       receipt'[r] # receipt[r] /\ receipt'[r].row = "live" /\ receipt'[r].client = c
         => IF receipt'[r].direction = "in" THEN Balance(c)' >= 0
                                            ELSE Balance(c)' <= 0]_vars

\* A number, once assigned, is never changed or taken away.
NumbersAreForever ==
  [][\A i \in Numbered : invoice'[i].number = invoice[i].number]_vars

\* While the tenant is inactive its stock, its ledger, its numbers and its receipts
\* stand still, also for requests that were authenticated before.
BooksCloseWithTenant ==
  [][~tenantActive => UNCHANGED <<stockVars, bookVars, receipt>>]_vars

\* Only a request about a client moves that client's balance: no step changes
\* what two clients owe.
BalancesMoveAlone ==
  [][\A c, d \in Clients :
       Balance(c)' # Balance(c) /\ Balance(d)' # Balance(d) => c = d]_vars
=============================================================================
