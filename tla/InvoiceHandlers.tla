--------------------------- MODULE InvoiceHandlers ---------------------------
(***************************************************************************)
(* The invoice lifecycle (internal/server/invoices.go, invoice_edit.go):   *)
(*                                                                         *)
(*     draft --post--> posted --void--> void --reactivate--> posted        *)
(*       |  ^                                                              *)
(*       |  +--reactivate--+                                               *)
(*       +--cancel--> cancelled --delete--> (gone)                         *)
(*                                                                         *)
(* and what is recorded against a posted invoice: edits, returns and       *)
(* payments.  pdf_url, which saveInvoice empties, is not kept here.        *)
(***************************************************************************)
EXTENDS Commerce

\* The line the form leaves empty.
NoLine == [qty |-> 0, price |-> 0]

LineForms == [Products -> LineInputs \cup {NoLine}]

\* The snapshot of the lines sent: pieces_per_unit comes from the product.
ItemsOf(lines) ==
  [p \in Products |->
     [qty |-> lines[p].qty, price |-> lines[p].price,
      pieces |-> IF lines[p].qty = 0 THEN 0 ELSE product[p].pieces]]

ActiveClient(c) == c \in Clients /\ client[c].row = "live" /\ client[c].active

\* The price of a carton: that of a piece times units_per_package, each bounded
\* by lineTotal.
CartonPrices == {unit * units : unit \in 0..MaxPrice, units \in 1..MaxQuantity}

(***************************************************************************)
(* What saveInvoice asks of every body.  kept: the products already on a   *)
(* posted invoice, which may have been archived since.                     *)
(***************************************************************************)
CanInvoice(c, lines, kept) ==
  LET sent == {p \in Products : lines[p].qty > 0}
  IN  /\ CommerceTx
      /\ ActiveClient(c)
      /\ sent # {}
      /\ \A p \in sent :
            /\ product[p].row = "live"
            /\ product[p].active \/ p \in kept
            /\ lines[p].qty <= MaxQuantity /\ lines[p].price \in CartonPrices
      /\ TotalOf(lines) \in 0..MaxTotal

CreateInvoice(i, c, doc, lines) ==
  /\ CanInvoice(c, lines, {})
  /\ invoice[i].status = "unused"
  /\ invoice' = [invoice EXCEPT ![i] =
        [NoInvoice EXCEPT !.status = "draft", !.doc = doc, !.client = c,
                          !.items = ItemsOf(lines), !.total = TotalOf(lines),
                          !.version = 1]]
  /\ UNCHANGED <<tenantActive, stockVars, client, bookVars, receipt>>

\* Mutant: the version the request carries is not compared.
Current_AnyVersion(i, version) == invoice[i].version < MaxVersion

\* The version the request carries must be the row's.
Current(i, version) ==
  invoice[i].version = version /\ invoice[i].version < MaxVersion

\* Mutant: the UPDATE at the end of saveInvoice without the new lines.
Rewritten_KeepsLines(inv, c, doc, lines) ==
  [inv EXCEPT !.client = c, !.doc = doc, !.total = TotalOf(lines), !.version = @ + 1]

\* Mutant: a save leaves the version as it is.
Rewritten_SameVersion(inv, c, doc, lines) ==
  [inv EXCEPT !.client = c, !.doc = doc, !.items = ItemsOf(lines),
              !.total = TotalOf(lines)]

\* The UPDATE at the end of saveInvoice, with the lines replaced.
Rewritten(inv, c, doc, lines) ==
  [inv EXCEPT !.client = c, !.doc = doc, !.items = ItemsOf(lines),
              !.total = TotalOf(lines), !.version = @ + 1]

UpdateDraft(i, version, c, doc, lines) ==
  /\ CanInvoice(c, lines, {})
  /\ invoice[i].status = "draft"
  /\ Current(i, version)
  /\ invoice' = [invoice EXCEPT ![i] = Rewritten(invoice[i], c, doc, lines)]
  /\ UNCHANGED <<tenantActive, stockVars, client, bookVars, receipt>>

\* Mutant: an edit may move a posted invoice to another client.
SameAccount_AnyClient(inv, c, doc) == inv.doc = doc

\* A posted invoice keeps its client and its document type.
SameAccount(inv, c, doc) == inv.client = c /\ inv.doc = doc

\* Mutant: the edited lines are not held against the returns.
KeepsHistory_MoneyOnly(inv, lines) == TotalOf(lines) >= inv.paid + inv.returnedMinor

\* The two refusals of applyPostedInvoiceEdit that look at the invoice's history.
KeepsHistory(inv, lines) ==
  /\ \A p \in Products : lines[p].qty >= inv.returned[p]
  /\ TotalOf(lines) >= inv.paid + inv.returnedMinor

(***************************************************************************)
(* saveInvoice on a posted invoice, with applyPostedInvoiceEdit: stock     *)
(* moves by the changed quantities, the account by the changed total.      *)
(***************************************************************************)
EditPosted(i, version, c, doc, lines) ==
  LET inv == invoice[i]
  IN  /\ CanInvoice(c, lines, OnInvoice(inv))
      /\ inv.status = "posted"
      /\ Current(i, version)
      /\ SameAccount(inv, c, doc)
      /\ KeepsHistory(inv, lines)
      /\ MoveStock(i, [p \in Products |->
                         StockOf(doc, lines[p].qty - inv.items[p].qty)])
      /\ Book(i, DebtOf(doc, TotalOf(lines) - inv.total))
      /\ invoice' = [invoice EXCEPT ![i] = Rewritten(invoice[i], c, doc, lines)]
      /\ UNCHANGED <<tenantActive, client, nextNumber, receipt>>

(***************************************************************************)
(* transitionInvoice.  A request whose target is already the status is     *)
(* answered 200 and changes nothing.                                       *)
(***************************************************************************)
Stamped(inv, status) == [inv EXCEPT !.status = status, !.version = @ + 1]

Transition(i, version, from) ==
  /\ CommerceTx
  /\ invoice[i].status = from
  /\ Current(i, version)

\* Stock and debt of the whole invoice, out of a draft or back out of a void.
BookInvoice(i) ==
  LET inv == invoice[i]
  IN  /\ ActiveClient(inv.client)
      /\ \A p \in OnInvoice(inv) :
            product[p].active /\ product[p].pieces = inv.items[p].pieces
      /\ MoveStock(i, [p \in Products |-> StockOf(inv.doc, inv.items[p].qty)])
      /\ Book(i, DebtOf(inv.doc, inv.total))

\* Mutant: the counter is read but not advanced.
PostInvoice_SameCounter(i, version) ==
  /\ Transition(i, version, "draft")
  /\ BookInvoice(i)
  /\ invoice' = [invoice EXCEPT ![i] =
        [Stamped(invoice[i], "posted") EXCEPT !.number = nextNumber]]
  /\ UNCHANGED <<tenantActive, client, nextNumber, receipt>>

PostInvoice(i, version) ==
  /\ Transition(i, version, "draft")
  /\ BookInvoice(i)
  /\ invoice' = [invoice EXCEPT ![i] =
        [Stamped(invoice[i], "posted") EXCEPT !.number = nextNumber]]
  /\ nextNumber' = nextNumber + 1
  /\ UNCHANGED <<tenantActive, client, receipt>>

\* Mutant: a reactivated invoice is numbered again.
ReactivateVoid_Renumbers(i, version) ==
  /\ Transition(i, version, "void")
  /\ BookInvoice(i)
  /\ invoice' = [invoice EXCEPT ![i] =
        [Stamped(invoice[i], "posted") EXCEPT !.number = nextNumber]]
  /\ nextNumber' = nextNumber + 1
  /\ UNCHANGED <<tenantActive, client, receipt>>

\* reactivateInvoice of a void invoice: its number stays.
ReactivateVoid(i, version) ==
  /\ Transition(i, version, "void")
  /\ BookInvoice(i)
  /\ invoice' = [invoice EXCEPT ![i] = Stamped(invoice[i], "posted")]
  /\ UNCHANGED <<tenantActive, client, nextNumber, receipt>>

VoidInvoice(i, version) ==
  LET inv == invoice[i]
  IN  /\ Transition(i, version, "posted")
      /\ MoveStock(i, [p \in Products |-> -StockOf(inv.doc, inv.items[p].qty)])
      /\ Book(i, -DebtOf(inv.doc, inv.total))
      /\ invoice' = [invoice EXCEPT ![i] = Stamped(invoice[i], "void")]
      /\ UNCHANGED <<tenantActive, client, nextNumber, receipt>>

CancelInvoice(i, version) ==
  /\ Transition(i, version, "draft")
  /\ invoice' = [invoice EXCEPT ![i] = Stamped(invoice[i], "cancelled")]
  /\ UNCHANGED <<tenantActive, stockVars, client, bookVars, receipt>>

\* reactivateInvoice of a cancelled draft: one conditional UPDATE, without the
\* tenant row.
ReactivateCancelled(i, version) ==
  /\ invoice[i].status = "cancelled"
  /\ Current(i, version)
  /\ invoice' = [invoice EXCEPT ![i] = Stamped(invoice[i], "draft")]
  /\ UNCHANGED <<tenantActive, stockVars, client, bookVars, receipt>>

DeleteCancelled(i) ==
  /\ CommerceTx
  /\ invoice[i].status = "cancelled"
  /\ invoice' = [invoice EXCEPT ![i] = [NoInvoice EXCEPT !.status = "deleted"]]
  /\ UNCHANGED <<tenantActive, stockVars, client, bookVars, receipt>>

(***************************************************************************)
(* Returns and payments; neither writes the invoice's version.             *)
(***************************************************************************)
CreditOf(inv, cartons) ==
  SumFunction([p \in Products |-> cartons[p] * inv.items[p].price])

\* Mutant: a second return replaces the first.
Credited_LastOnly(inv, cartons, credit) ==
  [inv EXCEPT !.returned = cartons, !.returnedMinor = @ + credit,
              !.returnsClient = inv.client]

Credited(inv, cartons, credit) ==
  [inv EXCEPT !.returned = [p \in Products |-> inv.returned[p] + cartons[p]],
              !.returnedMinor = @ + credit,
              !.returnsClient = inv.client]

\* No more of a product comes back than is still out.
Returnable(inv, cartons) ==
  \A p \in Products : cartons[p] > 0 =>
    cartons[p] <= inv.items[p].qty - inv.returned[p]

CreateReturn(i, cartons) ==
  LET inv == invoice[i]
      credit == CreditOf(inv, cartons)
  IN  /\ CommerceTx
      /\ inv.status = "posted" /\ inv.doc = "sale"
      /\ Returnable(inv, cartons)
      /\ credit \in 1..MaxTotal          \* ck_return_amount
      /\ MoveStock(i, cartons)
      /\ Book(i, -credit)
      /\ invoice' = [invoice EXCEPT ![i] = Credited(inv, cartons, credit)]
      /\ UNCHANGED <<tenantActive, client, nextNumber, receipt>>

\* createPayment's due: what the returns leave of the total, 0 at least.
Due(inv) == IF inv.total > inv.returnedMinor THEN inv.total - inv.returnedMinor ELSE 0

CreatePayment(i, amount) ==
  LET inv == invoice[i]
  IN  /\ CommerceTx
      /\ inv.status = "posted"
      /\ inv.client # NoClient           \* fk_payment_client
      /\ amount <= MaxPrice
      /\ inv.paid + amount <= Due(inv)
      /\ invoice' = [invoice EXCEPT ![i] = [inv EXCEPT !.paid = @ + amount]]
      /\ UNCHANGED <<tenantActive, stockVars, client, bookVars, receipt>>

InvoiceNext ==
  \E i \in InvoiceIds :
    \/ \E c \in Clients, doc \in DocumentTypes, lines \in LineForms :
          \/ CreateInvoice(i, c, doc, lines)
          \/ UpdateDraft(i, invoice[i].version, c, doc, lines)
          \/ EditPosted(i, invoice[i].version, c, doc, lines)
    \/ PostInvoice(i, invoice[i].version)
    \/ VoidInvoice(i, invoice[i].version)
    \/ ReactivateVoid(i, invoice[i].version)
    \/ CancelInvoice(i, invoice[i].version)
    \/ ReactivateCancelled(i, invoice[i].version)
    \/ DeleteCancelled(i)
    \/ \E cartons \in [Products -> ReturnInputs \cup {0}] : CreateReturn(i, cartons)
    \/ \E amount \in PaymentInputs : CreatePayment(i, amount)
=============================================================================
