------------------------------ MODULE Commerce ------------------------------
(***************************************************************************)
(* The commerce tables of one tenant and the operations every commerce     *)
(* handler is built from.                                                  *)
(*                                                                         *)
(* A row that AUTO_INCREMENT has not handed out yet is "unused", a row     *)
(* that was deleted stays "deleted": MySQL never hands an id out again.    *)
(* The two append-only tables are kept as the sums the code takes of them: *)
(* movement[i][p] is the sum of the stock_movements rows of invoice i and  *)
(* product p, correction[p] the sum of p's rows without an invoice         *)
(* (opening, adjustment), ledger[i] the sum of the client_ledger rows of   *)
(* invoice i.  The returns and payments of an invoice are its sums too     *)
(* (returned, returnedMinor, paid).                                        *)
(*                                                                         *)
(* A handler that goes through commerceTx holds the tenant row from its    *)
(* first statement to its commit, so it is one action, enabled when it     *)
(* commits; a refused request (4xx) and a rolled back one change nothing.  *)
(***************************************************************************)
EXTENDS Integers, FiniteSets, Functions

CONSTANTS
  Products, Clients, InvoiceIds, ReceiptIds,  \* ids the database may hand out
  MaxQuantity,     \* maxQuantity, products.go:11
  MaxPieces,       \* the pack-size limit of saveProduct
  MaxTotal,        \* maxTotal, products.go:12
  MaxPrice,        \* maxPrice, invoices.go:16
  TenantInputs,    \* the "active" values PATCH /tenants/:id sends
  ProductInputs,   \* the bodies of POST and PATCH /products
  ClientInputs,    \* the bodies of POST and PATCH /clients
  DocumentTypes,   \* the document types of the invoices sent
  LineInputs,      \* the invoice lines sent: cartons and price of one carton
  ReturnInputs,    \* the package counts POST /invoices/:id/returns sends
  PaymentInputs,   \* the amounts POST /invoices/:id/payments sends
  ReceiptInputs,   \* the bodies of POST and PATCH /clients/:id/receipts
  Absent,          \* a field the JSON body leaves out
  NoClient,        \* client_id NULL
  MaxVersion       \* bound of the model: no row is written more often

ASSUME LimitsAssumption ==
  /\ MaxQuantity \in Nat /\ MaxPieces \in Nat /\ MaxTotal \in Nat
  /\ MaxPrice \in Nat /\ MaxVersion \in Nat

ASSUME IdsAssumption ==
  /\ IsFiniteSet(Products) /\ IsFiniteSet(InvoiceIds) /\ IsFiniteSet(ReceiptIds)
  /\ NoClient \notin Clients

ASSUME InputsAssumption ==
  /\ TenantInputs \subseteq BOOLEAN
  /\ ProductInputs \subseteq [quantity : Int \cup {Absent},
                              pieces : Int \cup {Absent},
                              active : BOOLEAN \cup {Absent}]
  /\ ClientInputs \subseteq [active : BOOLEAN \cup {Absent},
                             minor : Int \cup {Absent},
                             type : {"receivable", "payable", Absent}]
  /\ Absent \notin Int /\ Absent \notin BOOLEAN
  /\ Absent \notin {"receivable", "payable"}
  /\ DocumentTypes \subseteq {"sale", "purchase"}
  /\ LineInputs \subseteq [qty : Nat \ {0}, price : Nat]
  /\ ReturnInputs \subseteq Nat \ {0}
  /\ PaymentInputs \subseteq Nat \ {0}
  /\ ReceiptInputs \subseteq [direction : {"in", "out"}, amount : Nat \ {0}]

VARIABLES
  tenantActive,  \* tenants.active
  product,       \* products
  correction,    \* stock_movements without an invoice, summed per product
  movement,      \* stock_movements of an invoice, summed per product
  client,        \* clients
  invoice,       \* invoices, invoice_items, invoice_payments, invoice_returns
  nextNumber,    \* invoice_counters.next_number
  ledger,        \* client_ledger, summed per invoice
  receipt        \* client_receipts

stockVars == <<product, correction, movement>>
bookVars  == <<nextNumber, ledger>>
vars      == <<tenantActive, stockVars, client, invoice, bookVars, receipt>>

(***************************************************************************)
(* Rows.                                                                   *)
(***************************************************************************)
Rows == {"unused", "live", "deleted"}

Product == [row : Rows, active : BOOLEAN, quantity : 0..MaxQuantity,
            pieces : 0..MaxPieces, version : Nat]

Client == [row : Rows, active : BOOLEAN, minor : Nat,
           type : {"receivable", "payable"}]

Item == [qty : Nat, price : Nat, pieces : 0..MaxPieces]

Statuses == {"unused", "draft", "posted", "void", "cancelled", "deleted"}

Invoice == [status : Statuses,
            doc : {"sale", "purchase"},
            client : Clients \cup {NoClient},
            returnsClient : Clients \cup {NoClient},
            items : [Products -> Item],
            total : 0..MaxTotal,
            number : Nat,
            version : Nat,
            returned : [Products -> Nat],
            returnedMinor : Nat,
            paid : Nat]

Receipt == [row : Rows, client : Clients \cup {NoClient},
            direction : {"in", "out"}, amount : Nat]

NoItem    == [qty |-> 0, price |-> 0, pieces |-> 0]
NoProduct == [row |-> "unused", active |-> FALSE, quantity |-> 0, pieces |-> 0,
              version |-> 0]
NoAccount == [row |-> "unused", active |-> FALSE, minor |-> 0, type |-> "receivable"]
NoInvoice == [status |-> "unused", doc |-> "sale", client |-> NoClient,
              returnsClient |-> NoClient, items |-> [p \in Products |-> NoItem],
              total |-> 0, number |-> 0, version |-> 0,
              returned |-> [p \in Products |-> 0], returnedMinor |-> 0, paid |-> 0]
NoReceipt == [row |-> "unused", client |-> NoClient, direction |-> "in", amount |-> 0]

TypeOK ==
  /\ tenantActive \in BOOLEAN
  /\ product \in [Products -> Product]
  /\ correction \in [Products -> Int]
  /\ movement \in [InvoiceIds -> [Products -> Int]]
  /\ client \in [Clients -> Client]
  /\ invoice \in [InvoiceIds -> Invoice]
  /\ nextNumber \in Nat \ {0}
  /\ ledger \in [InvoiceIds -> Int]
  /\ receipt \in [ReceiptIds -> Receipt]

Init ==
  /\ tenantActive = TRUE
  /\ product = [p \in Products |-> NoProduct]
  /\ correction = [p \in Products |-> 0]
  /\ movement = [i \in InvoiceIds |-> [p \in Products |-> 0]]
  /\ client = [c \in Clients |-> NoAccount]
  /\ invoice = [i \in InvoiceIds |-> NoInvoice]
  /\ nextNumber = 1
  /\ ledger = [i \in InvoiceIds |-> 0]
  /\ receipt = [r \in ReceiptIds |-> NoReceipt]

(***************************************************************************)
(* What the handlers share.                                                *)
(***************************************************************************)
\* Mutant: commerceTx without the check of the locked row.
CommerceTx_Unchecked == TRUE

\* commerceTx refuses (403) when the locked tenant row is not active.
CommerceTx == tenantActive

\* A field of a JSON body, or the stored value when the body leaves it out.
Given(field, stored) == IF field = Absent THEN stored ELSE field

OnInvoice(inv) == {p \in Products : inv.items[p].qty > 0}

TotalOf(items) == SumFunction([p \in Products |-> items[p].qty * items[p].price])

\* A sale takes its cartons out of stock, a purchase brings them in.
StockOf(doc, qty) == IF doc = "sale" THEN -qty ELSE qty

\* A sale is a debt of the client, a purchase a debt to the client.
DebtOf(doc, minor) == IF doc = "sale" THEN minor ELSE -minor

Restocked(row, delta) ==
  [row EXCEPT !.quantity = @ + delta, !.version = @ + 1]

\* Mutant: a stock update without the check of the stock left.
CanMove_Oversells(row, delta) == row.row = "live" /\ row.version < MaxVersion

\* The handler's check of a product, and CHECK ck_product_numbers behind it.
CanMove(row, delta) ==
  /\ row.row = "live"
  /\ row.quantity + delta \in 0..MaxQuantity
  /\ row.version < MaxVersion

(***************************************************************************)
(* One handler's stock updates for invoice i: quantity and version of each *)
(* product whose delta is not 0, and the stock_movements row beside it.    *)
(* One product out of range refuses the whole request.                     *)
(***************************************************************************)
MoveStock(i, delta) ==
  /\ \A p \in Products : delta[p] # 0 => CanMove(product[p], delta[p])
  /\ product' = [p \in Products |->
        IF delta[p] = 0 THEN product[p] ELSE Restocked(product[p], delta[p])]
  /\ movement' = [movement EXCEPT ![i] = [p \in Products |-> movement[i][p] + delta[p]]]
  /\ UNCHANGED correction

\* Mutant: the ledger row of an invoice is replaced, not added to.
Book_Replaces(i, minor) ==
  /\ invoice[i].client # NoClient
  /\ ledger' = [ledger EXCEPT ![i] = minor]

\* A client_ledger row; its foreign key refuses one without a client.
Book(i, minor) ==
  /\ invoice[i].client # NoClient
  /\ ledger' = [ledger EXCEPT ![i] = @ + minor]

(***************************************************************************)
(* updateTenant: the super admin (de)activates the tenant under the same   *)
(* row lock.                                                               *)
(***************************************************************************)
UpdateTenant(active) ==
  /\ tenantActive' = active
  /\ UNCHANGED <<stockVars, client, invoice, bookVars, receipt>>
=============================================================================
