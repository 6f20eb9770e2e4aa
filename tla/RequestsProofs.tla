---------------------------- MODULE RequestsProofs ----------------------------
(***************************************************************************)
(* Stale, repeated and delayed requests, for every number of apps:  they   *)
(* do nothing that Backend's requests could not do, and each of them takes *)
(* effect once at most.                                                    *)
(***************************************************************************)
EXTENDS Requests, TypesProofs

TransitionRequests == [kind : Transitions, id : InvoiceIds, seen : Invoice]
SaveRequests == [kind : {"save"}, id : InvoiceIds, seen : Invoice,
                 client : Clients, doc : DocumentTypes, lines : LineForms]
ProductRequests == [kind : {"product"}, id : Products, seen : Product, in : ProductInputs]

RequestsType ==
  /\ request \in [Apps -> TransitionRequests \cup SaveRequests \cup ProductRequests
                          \cup {NoRequest}]
  /\ effects \in [Apps -> Nat]
  /\ DOMAIN path = Apps

\* A row that is there gets a new version, or says what it said, or is deleted for
\* good.
LaterInvoice(old, new) ==
  old.status # "unused" =>
    /\ new.status # "unused"
    /\ \/ new.status = "deleted"
       \/ old.status # "deleted" /\ new.version > old.version
       \/ /\ old.status # "deleted" /\ new.version = old.version
          /\ Document(new) = Document(old)

LaterProduct(old, new) ==
  old.row # "unused" =>
    /\ new.row # "unused"
    /\ \/ new.row = "deleted"
       \/ old.row # "deleted" /\ new.version > old.version
       \/ old.row # "deleted" /\ new = old

\* What was deleted stays so, and versions never go back.
NoWayBack ==
  /\ \A i \in InvoiceIds : LaterInvoice(invoice[i], invoice'[i])
  /\ \A p \in Products : LaterProduct(product[p], product'[p])

\* The row of a request is newer than what its app saw, or gone.
ProductIsNewer(r) ==
  product[r.id].row = "deleted" \/ product[r.id].version > r.seen.version

InvoiceIsNewer(r) ==
  invoice[r.id].status = "deleted" \/ invoice[r.id].version > r.seen.version

\* Until then it says what the app saw; it is newer once the request has taken effect.
Spent(a) ==
  LET r == request[a]
  IN  /\ r.kind = "product" =>
           /\ product[r.id].row # "unused"
           /\ effects[a] > 0 => ProductIsNewer(r)
           /\ ProductIsNewer(r) \/ product[r.id] = r.seen
      /\ r.kind \in Transitions \cup {"save"} =>
           /\ invoice[r.id].status # "unused"
           /\ effects[a] > 0 => InvoiceIsNewer(r)
           /\ \/ InvoiceIsNewer(r)
              \/ /\ invoice[r.id].version = r.seen.version
                 /\ Document(invoice[r.id]) = Document(r.seen)
      /\ r.kind = "none" => effects[a] = 0
      /\ effects[a] <= 1

EffectsAreSpent == RequestsType /\ \A a \in Apps : Spent(a)

-----------------------------------------------------------------------------
(***************************************************************************)
(* Rows only get newer.                                                    *)
(***************************************************************************)
LEMMA OneLaterInvoice ==
  ASSUME TypeOK, NEW i \in InvoiceIds, NEW row, invoice' = [invoice EXCEPT ![i] = row],
         LaterInvoice(invoice[i], row)
  PROVE  \A j \in InvoiceIds : LaterInvoice(invoice[j], invoice'[j])
<1>1. ASSUME NEW j \in InvoiceIds, j # i
      PROVE  LaterInvoice(invoice[j], invoice'[j])
  <2>1. invoice'[j] = invoice[j] /\ invoice[j].version \in Nat
    BY <1>1 DEF TypeOK, Invoice
  <2> QED BY <2>1 DEF LaterInvoice
<1>2. invoice'[i] = row
  BY DEF TypeOK
<1> QED BY <1>1, <1>2

LEMMA SameInvoicesLater ==
  ASSUME TypeOK, UNCHANGED invoice
  PROVE  \A j \in InvoiceIds : LaterInvoice(invoice[j], invoice'[j])
<1> SUFFICES ASSUME NEW j \in InvoiceIds
             PROVE  LaterInvoice(invoice[j], invoice'[j])
  OBVIOUS
<1>1. invoice'[j] = invoice[j] /\ invoice[j].version \in Nat
  BY DEF TypeOK, Invoice
<1> QED BY <1>1 DEF LaterInvoice

LEMMA StampedLater ==
  ASSUME TypeOK, NEW i \in InvoiceIds, NEW s \in Statuses \ {"unused", "deleted"},
         invoice[i].status \notin {"unused", "deleted"}
  PROVE  /\ Stamped(invoice[i], s).status = s
         /\ Stamped(invoice[i], s).version = invoice[i].version + 1
         /\ LaterInvoice(invoice[i], Stamped(invoice[i], s))
<1>1. invoice[i] \in Invoice /\ invoice[i].version \in Nat
  BY DEF TypeOK, Invoice
<1>2. Stamped(invoice[i], s).status = s
      /\ Stamped(invoice[i], s).version = invoice[i].version + 1
  BY <1>1 DEF Stamped, Invoice
<1> QED BY <1>1, <1>2 DEF LaterInvoice

LEMMA RewrittenLater ==
  ASSUME TypeOK, NEW i \in InvoiceIds, NEW c, NEW doc, NEW lines,
         invoice[i].status \notin {"unused", "deleted"},
         NEW row, row = Rewritten(invoice[i], c, doc, lines)
  PROVE  /\ row.status = invoice[i].status
         /\ row.version = invoice[i].version + 1
         /\ LaterInvoice(invoice[i], row)
<1> DEFINE items == ItemsOf(lines)  total == TotalOf(lines)
<1>1. invoice[i] \in Invoice /\ invoice[i].version \in Nat
  BY DEF TypeOK, Invoice
<1>2. row = [invoice[i] EXCEPT !.client = c, !.doc = doc, !.items = items,
                               !.total = total, !.version = @ + 1]
  BY DEF Rewritten
<1> HIDE DEF items, total
<1>3. row.status = invoice[i].status /\ row.version = invoice[i].version + 1
  BY <1>1, <1>2 DEF Invoice
<1> QED BY <1>1, <1>3 DEF LaterInvoice

LEMMA SameProductsLater ==
  ASSUME TypeOK, UNCHANGED product
  PROVE  \A p \in Products : LaterProduct(product[p], product'[p])
<1> SUFFICES ASSUME NEW p \in Products
             PROVE  LaterProduct(product[p], product'[p])
  OBVIOUS
<1>1. product'[p] = product[p] /\ product[p].version \in Nat
  BY DEF TypeOK, Product
<1> QED BY <1>1 DEF LaterProduct

LEMMA MoveStockLater ==
  ASSUME TypeOK, NEW i, NEW delta, MoveStock(i, delta)
  PROVE  \A p \in Products : LaterProduct(product[p], product'[p])
<1> SUFFICES ASSUME NEW p \in Products
             PROVE  LaterProduct(product[p], product'[p])
  OBVIOUS
<1>1. product[p] \in Product /\ product[p].version \in Nat
  BY DEF TypeOK, Product
<1>2. product'[p] = IF delta[p] = 0 THEN product[p] ELSE Restocked(product[p], delta[p])
  BY DEF MoveStock
<1>3. CASE delta[p] = 0
  BY <1>1, <1>2, <1>3 DEF LaterProduct
<1>4. CASE delta[p] # 0
  <2>1. product[p].row = "live"
    BY <1>4 DEF MoveStock, CanMove
  <2> DEFINE q == product[p].quantity + delta[p]
  <2>2. product'[p] = [product[p] EXCEPT !.quantity = q, !.version = @ + 1]
    BY <1>2, <1>4 DEF Restocked
  <2> HIDE DEF q
  <2>3. product'[p].row = "live" /\ product'[p].version = product[p].version + 1
    BY <1>1, <2>1, <2>2 DEF Product
  <2> QED BY <1>1, <2>1, <2>3 DEF LaterProduct
<1> QED BY <1>3, <1>4

LEMMA OneLaterProduct ==
  ASSUME TypeOK, NEW p \in Products, NEW row, product' = [product EXCEPT ![p] = row],
         LaterProduct(product[p], row)
  PROVE  \A q \in Products : LaterProduct(product[q], product'[q])
<1>1. ASSUME NEW q \in Products, q # p
      PROVE  LaterProduct(product[q], product'[q])
  <2>1. product'[q] = product[q] /\ product[q].version \in Nat
    BY <1>1 DEF TypeOK, Product
  <2> QED BY <2>1 DEF LaterProduct
<1>2. product'[p] = row
  BY DEF TypeOK
<1> QED BY <1>1, <1>2
-----------------------------------------------------------------------------
(***************************************************************************)
(* The handlers that compare a version write the row they compared.        *)
(***************************************************************************)
Known(row) == row.status \notin {"unused", "deleted"}

\* Row i was there and still is, one version newer.
Advanced(i) ==
  /\ Known(invoice[i]) /\ Known(invoice'[i])
  /\ invoice'[i].version = invoice[i].version + 1

LEMMA StampedWrite ==
  ASSUME TypeOK, NEW i \in InvoiceIds, NEW s \in Statuses \ {"unused", "deleted"},
         Known(invoice[i]), invoice' = [invoice EXCEPT ![i] = Stamped(invoice[i], s)]
  PROVE  Advanced(i) /\ \A j \in InvoiceIds : LaterInvoice(invoice[j], invoice'[j])
<1> DEFINE row == Stamped(invoice[i], s)
<1>1. row.status = s /\ row.version = invoice[i].version + 1
      /\ LaterInvoice(invoice[i], row)
  BY StampedLater DEF Known
<1>2. invoice' = [invoice EXCEPT ![i] = row]
  OBVIOUS
<1> HIDE DEF row
<1>3. invoice'[i] = row
  BY <1>2 DEF TypeOK
<1>4. \A j \in InvoiceIds : LaterInvoice(invoice[j], invoice'[j])
  BY <1>1, <1>2, OneLaterInvoice
<1> QED BY <1>1, <1>3, <1>4 DEF Advanced, Known

LEMMA NumberedWrite ==
  ASSUME TypeOK, NEW i \in InvoiceIds, Known(invoice[i]),
         invoice' = [invoice EXCEPT ![i] =
                       [Stamped(invoice[i], "posted") EXCEPT !.number = nextNumber]]
  PROVE  Advanced(i) /\ \A j \in InvoiceIds : LaterInvoice(invoice[j], invoice'[j])
<1> DEFINE stamped == Stamped(invoice[i], "posted")
           row     == [stamped EXCEPT !.number = nextNumber]
<1>1. invoice[i] \in Invoice /\ invoice[i].version \in Nat
  BY DEF TypeOK, Invoice
<1>2. stamped \in Invoice /\ stamped.status = "posted"
  BY <1>1, StampedRow DEF Statuses
<1>3. stamped.version = invoice[i].version + 1
  BY <1>1, StampedLater DEF Known, Statuses
<1> HIDE DEF stamped
<1>4. row.status = "posted" /\ row.version = invoice[i].version + 1
  BY <1>2, <1>3 DEF Invoice
<1>5. invoice' = [invoice EXCEPT ![i] = row]
  BY DEF stamped
<1> HIDE DEF row
<1>6. LaterInvoice(invoice[i], row)
  BY <1>1, <1>4 DEF LaterInvoice, Known
<1>7. invoice'[i] = row
  BY <1>5 DEF TypeOK
<1>8. \A j \in InvoiceIds : LaterInvoice(invoice[j], invoice'[j])
  BY <1>5, <1>6, OneLaterInvoice
<1> QED BY <1>4, <1>7, <1>8 DEF Advanced, Known

LEMMA RewrittenWrite ==
  ASSUME TypeOK, NEW i \in InvoiceIds, NEW c, NEW doc, NEW lines, Known(invoice[i]),
         invoice' = [invoice EXCEPT ![i] = Rewritten(invoice[i], c, doc, lines)]
  PROVE  Advanced(i) /\ \A j \in InvoiceIds : LaterInvoice(invoice[j], invoice'[j])
<1> DEFINE row == Rewritten(invoice[i], c, doc, lines)
<1>1. row = Rewritten(invoice[i], c, doc, lines) /\ invoice' = [invoice EXCEPT ![i] = row]
  OBVIOUS
<1> HIDE DEF row
<1>2. row.status = invoice[i].status /\ row.version = invoice[i].version + 1
      /\ LaterInvoice(invoice[i], row)
  BY <1>1, RewrittenLater DEF Known
<1>3. invoice'[i] = row
  BY <1>1 DEF TypeOK
<1>4. \A j \in InvoiceIds : LaterInvoice(invoice[j], invoice'[j])
  BY <1>1, <1>2, OneLaterInvoice
<1> QED BY <1>2, <1>3, <1>4 DEF Advanced, Known

LEMMA BookInvoiceLater ==
  ASSUME TypeOK, NEW i, BookInvoice(i)
  PROVE  \A p \in Products : LaterProduct(product[p], product'[p])
<1> DEFINE delta == [p \in Products |-> StockOf(invoice[i].doc, invoice[i].items[p].qty)]
<1>1. MoveStock(i, delta)
  BY Zenon DEF BookInvoice
<1> HIDE DEF delta
<1> QED BY <1>1, MoveStockLater

LEMMA SaveAdvances ==
  ASSUME TypeOK, NEW i \in InvoiceIds, NEW v, NEW c, NEW doc, NEW lines,
         UpdateDraft(i, v, c, doc, lines) \/ EditPosted(i, v, c, doc, lines)
  PROVE  invoice[i].version = v /\ Advanced(i) /\ NoWayBack
<1>1. CASE UpdateDraft(i, v, c, doc, lines)
  <2>1. /\ invoice[i].version = v /\ invoice[i].status = "draft"
        /\ invoice' = [invoice EXCEPT ![i] = Rewritten(invoice[i], c, doc, lines)]
        /\ UNCHANGED product
    BY <1>1, Zenon DEF UpdateDraft, Current, stockVars
  <2>2. Known(invoice[i])
    BY <2>1 DEF Known
  <2> QED BY <2>1, <2>2, RewrittenWrite, SameProductsLater DEF NoWayBack
<1>2. CASE EditPosted(i, v, c, doc, lines)
  <2> DEFINE delta == [p \in Products |->
                         StockOf(doc, lines[p].qty - invoice[i].items[p].qty)]
  <2>1. /\ invoice[i].version = v /\ invoice[i].status = "posted"
        /\ invoice' = [invoice EXCEPT ![i] = Rewritten(invoice[i], c, doc, lines)]
        /\ MoveStock(i, delta)
    BY <1>2, Zenon DEF EditPosted, Current
  <2> HIDE DEF delta
  <2>2. Known(invoice[i])
    BY <2>1 DEF Known
  <2> QED BY <2>1, <2>2, RewrittenWrite, MoveStockLater DEF NoWayBack
<1> QED BY <1>1, <1>2

LEMMA TransitionAdvances ==
  ASSUME TypeOK, NEW i \in InvoiceIds, NEW v,
         \/ PostInvoice(i, v)
         \/ VoidInvoice(i, v)
         \/ CancelInvoice(i, v)
         \/ ReactivateVoid(i, v)
         \/ ReactivateCancelled(i, v)
  PROVE  invoice[i].version = v /\ Advanced(i) /\ NoWayBack
<1>0. {"draft", "posted", "void", "cancelled"} \subseteq Statuses \ {"unused", "deleted"}
  BY DEF Statuses
<1>1. CASE PostInvoice(i, v)
  <2>1. /\ invoice[i].version = v /\ invoice[i].status = "draft" /\ BookInvoice(i)
        /\ invoice' = [invoice EXCEPT ![i] =
                         [Stamped(invoice[i], "posted") EXCEPT !.number = nextNumber]]
    BY <1>1, Zenon DEF PostInvoice, Transition, Current
  <2>2. Known(invoice[i])
    BY <2>1 DEF Known
  <2> QED BY <2>1, <2>2, NumberedWrite, BookInvoiceLater, Zenon DEF NoWayBack
<1>2. CASE VoidInvoice(i, v)
  <2> DEFINE delta == [p \in Products |-> -StockOf(invoice[i].doc, invoice[i].items[p].qty)]
  <2>1. /\ invoice[i].version = v /\ invoice[i].status = "posted"
        /\ invoice' = [invoice EXCEPT ![i] = Stamped(invoice[i], "void")]
        /\ MoveStock(i, delta)
    BY <1>2, Zenon DEF VoidInvoice, Transition, Current
  <2> HIDE DEF delta
  <2>2. Known(invoice[i])
    BY <2>1 DEF Known
  <2> QED BY <1>0, <2>1, <2>2, StampedWrite, MoveStockLater DEF NoWayBack
<1>3. CASE CancelInvoice(i, v)
  <2>1. /\ invoice[i].version = v /\ invoice[i].status = "draft" /\ UNCHANGED product
        /\ invoice' = [invoice EXCEPT ![i] = Stamped(invoice[i], "cancelled")]
    BY <1>3, Zenon DEF CancelInvoice, Transition, Current, stockVars
  <2>2. Known(invoice[i])
    BY <2>1 DEF Known
  <2> QED BY <1>0, <2>1, <2>2, StampedWrite, SameProductsLater DEF NoWayBack
<1>4. CASE ReactivateVoid(i, v)
  <2>1. /\ invoice[i].version = v /\ invoice[i].status = "void" /\ BookInvoice(i)
        /\ invoice' = [invoice EXCEPT ![i] = Stamped(invoice[i], "posted")]
    BY <1>4, Zenon DEF ReactivateVoid, Transition, Current
  <2>2. Known(invoice[i])
    BY <2>1 DEF Known
  <2> QED BY <1>0, <2>1, <2>2, StampedWrite, BookInvoiceLater DEF NoWayBack
<1>5. CASE ReactivateCancelled(i, v)
  <2>1. /\ invoice[i].version = v /\ invoice[i].status = "cancelled" /\ UNCHANGED product
        /\ invoice' = [invoice EXCEPT ![i] = Stamped(invoice[i], "draft")]
    BY <1>5, Zenon DEF ReactivateCancelled, Current, stockVars
  <2>2. Known(invoice[i])
    BY <2>1 DEF Known
  <2> QED BY <1>0, <2>1, <2>2, StampedWrite, SameProductsLater DEF NoWayBack
<1> QED BY <1>1, <1>2, <1>3, <1>4, <1>5

LEMMA ProductAdvances ==
  ASSUME TypeOK, NEW p \in Products, NEW v, NEW in, UpdateProduct(p, v, in)
  PROVE  /\ product[p].version = v
         /\ product[p].row = "live" /\ product'[p].row = "live"
         /\ product'[p].version = product[p].version + 1
         /\ NoWayBack
<1> DEFINE a == Given(in.active, product[p].active)
           q == Given(in.quantity, product[p].quantity)
           b == Given(in.pieces, product[p].pieces)
           row == [product[p] EXCEPT !.active = a, !.quantity = q, !.pieces = b,
                                     !.version = @ + 1]
<1>1. /\ product[p].version = v /\ product[p].row = "live" /\ UNCHANGED invoice
      /\ product' = [product EXCEPT ![p] = row]
  BY Zenon DEF UpdateProduct
<1>2. product[p] \in Product /\ product[p].version \in Nat
  BY DEF TypeOK, Product
<1> HIDE DEF a, q, b
<1>3. row.row = "live" /\ row.version = product[p].version + 1
  BY <1>1, <1>2 DEF Product
<1> HIDE DEF row
<1>4. LaterProduct(product[p], row)
  BY <1>1, <1>2, <1>3 DEF LaterProduct
<1>5. product'[p] = row
  BY <1>1 DEF TypeOK
<1> QED BY <1>1, <1>3, <1>4, <1>5, OneLaterProduct, SameInvoicesLater DEF NoWayBack
-----------------------------------------------------------------------------
(***************************************************************************)
(* No handler takes a row back.                                            *)
(***************************************************************************)
LEMMA InvoiceNoWayBack ==
  ASSUME TypeOK, InvoiceNext
  PROVE  NoWayBack
<1> SUFFICES ASSUME NEW i \in InvoiceIds,
      \/ \E c \in Clients, doc \in DocumentTypes, lines \in LineForms :
            \/ CreateInvoice(i, c, doc, lines)
            \/ UpdateDraft(i, invoice[i].version, c, doc, lines)
            \/ EditPosted(i, invoice[i].version, c, doc, lines)
      \/ PostInvoice(i, invoice[i].version)
      \/ VoidInvoice(i, invoice[i].version)
      \/ ReactivateVoid(i, invoice[i].version)
      \/ CancelInvoice(i, invoice[i].version)
      \/ ReactivateCancelled(i, invoice[i].version)
      \/ DeleteCancelled(i)
      \/ \E cartons \in [Products -> ReturnInputs \cup {0}] : CreateReturn(i, cartons)
      \/ \E amount \in PaymentInputs : CreatePayment(i, amount)
             PROVE  NoWayBack
  BY Zenon DEF InvoiceNext
<1>0. invoice[i] \in Invoice /\ invoice[i].version \in Nat
  BY DEF TypeOK, Invoice
<1>1. ASSUME NEW c \in Clients, NEW doc \in DocumentTypes, NEW lines \in LineForms,
             CreateInvoice(i, c, doc, lines)
      PROVE  NoWayBack
  <2> DEFINE row == [NoInvoice EXCEPT !.status = "draft", !.doc = doc, !.client = c,
                                      !.items = ItemsOf(lines),
                                      !.total = TotalOf(lines), !.version = 1]
  <2>1. /\ invoice[i].status = "unused" /\ UNCHANGED product
        /\ invoice' = [invoice EXCEPT ![i] = row]
    BY <1>1, Zenon DEF CreateInvoice, stockVars
  <2> HIDE DEF row
  <2>2. LaterInvoice(invoice[i], row)
    BY <2>1 DEF LaterInvoice
  <2> QED BY <2>1, <2>2, OneLaterInvoice, SameProductsLater DEF NoWayBack
<1>2. ASSUME NEW c \in Clients, NEW doc \in DocumentTypes, NEW lines \in LineForms,
             \/ UpdateDraft(i, invoice[i].version, c, doc, lines)
             \/ EditPosted(i, invoice[i].version, c, doc, lines)
      PROVE  NoWayBack
  BY <1>2, SaveAdvances, Zenon
<1>3. CASE \/ PostInvoice(i, invoice[i].version)
           \/ VoidInvoice(i, invoice[i].version)
           \/ ReactivateVoid(i, invoice[i].version)
           \/ CancelInvoice(i, invoice[i].version)
           \/ ReactivateCancelled(i, invoice[i].version)
  BY <1>3, TransitionAdvances, Zenon
<1>4. CASE DeleteCancelled(i)
  <2> DEFINE row == [NoInvoice EXCEPT !.status = "deleted"]
  <2>1. UNCHANGED product /\ invoice' = [invoice EXCEPT ![i] = row]
    BY <1>4, Zenon DEF DeleteCancelled, stockVars
  <2>2. row.status = "deleted"
    BY DEF NoInvoice
  <2> HIDE DEF row
  <2>3. LaterInvoice(invoice[i], row)
    BY <2>2 DEF LaterInvoice
  <2> QED BY <2>1, <2>3, OneLaterInvoice, SameProductsLater DEF NoWayBack
<1>5. ASSUME NEW cartons \in [Products -> ReturnInputs \cup {0}], CreateReturn(i, cartons)
      PROVE  NoWayBack
  <2> DEFINE credit == CreditOf(invoice[i], cartons)
             row    == Credited(invoice[i], cartons, credit)
  <2>1. MoveStock(i, cartons) /\ invoice' = [invoice EXCEPT ![i] = row]
    BY <1>5, Zenon DEF CreateReturn
  <2> HIDE DEF credit
  <2>2. row.status = invoice[i].status /\ row.version = invoice[i].version
        /\ Document(row) = Document(invoice[i])
    BY <1>0 DEF Credited, Invoice, Document
  <2> HIDE DEF row
  <2>3. LaterInvoice(invoice[i], row)
    BY <1>0, <2>2 DEF LaterInvoice
  <2> QED BY <2>1, <2>3, OneLaterInvoice, MoveStockLater DEF NoWayBack
<1>6. ASSUME NEW amount \in PaymentInputs, CreatePayment(i, amount)
      PROVE  NoWayBack
  <2> DEFINE row == [invoice[i] EXCEPT !.paid = @ + amount]
  <2>1. UNCHANGED product /\ invoice' = [invoice EXCEPT ![i] = row]
    BY <1>6, Zenon DEF CreatePayment, stockVars
  <2>2. row.status = invoice[i].status /\ row.version = invoice[i].version
        /\ Document(row) = Document(invoice[i])
    BY <1>0 DEF Invoice, Document
  <2> HIDE DEF row
  <2>3. LaterInvoice(invoice[i], row)
    BY <1>0, <2>2 DEF LaterInvoice
  <2> QED BY <2>1, <2>3, OneLaterInvoice, SameProductsLater DEF NoWayBack
<1> QED BY <1>1, <1>2, <1>3, <1>4, <1>5, <1>6, Zenon

LEMMA ProductNoWayBack ==
  ASSUME TypeOK, ProductNext
  PROVE  NoWayBack
<1>1. ASSUME NEW p \in Products, NEW in \in ProductInputs, CreateProduct(p, in)
      PROVE  NoWayBack
  <2> DEFINE row == [row |-> "live", active |-> Given(in.active, TRUE),
                     quantity |-> in.quantity, pieces |-> in.pieces, version |-> 1]
  <2>1. product[p].row = "unused" /\ UNCHANGED invoice
        /\ product' = [product EXCEPT ![p] = row]
    BY <1>1, Zenon DEF CreateProduct
  <2> HIDE DEF row
  <2>2. LaterProduct(product[p], row)
    BY <2>1 DEF LaterProduct
  <2> QED BY <2>1, <2>2, OneLaterProduct, SameInvoicesLater DEF NoWayBack
<1>2. ASSUME NEW p \in Products, NEW in \in ProductInputs,
             UpdateProduct(p, product[p].version, in)
      PROVE  NoWayBack
  BY <1>2, ProductAdvances
<1>3. ASSUME NEW p \in Products, DeleteProduct(p)
      PROVE  NoWayBack
  <2> DEFINE row == [NoProduct EXCEPT !.row = "deleted"]
  <2>1. UNCHANGED invoice /\ product' = [product EXCEPT ![p] = row]
    BY <1>3, Zenon DEF DeleteProduct
  <2>2. row.row = "deleted"
    BY DEF NoProduct
  <2> HIDE DEF row
  <2>3. LaterProduct(product[p], row)
    BY <2>2 DEF LaterProduct
  <2> QED BY <2>1, <2>3, OneLaterProduct, SameInvoicesLater DEF NoWayBack
<1> QED BY <1>1, <1>2, <1>3, Zenon DEF ProductNext

LEMMA SameRowsNoWayBack ==
  ASSUME TypeOK, UNCHANGED <<product, invoice>>
  PROVE  NoWayBack
BY SameInvoicesLater, SameProductsLater DEF NoWayBack

LEMMA ClientNoWayBack ==
  ASSUME TypeOK, ClientNext
  PROVE  NoWayBack
<1>1. ASSUME NEW c \in Clients, DeleteClientAssociations(c) PROVE NoWayBack
  <2> DEFINE owned  == {i \in InvoiceIds : invoice[i].client = c}
             row(i) == [invoice[i] EXCEPT !.client = NoClient, !.paid = 0]
  <2>1. /\ invoice' = [i \in InvoiceIds |-> IF i \in owned THEN row(i) ELSE invoice[i]]
        /\ UNCHANGED product
    BY <1>1, Zenon DEF DeleteClientAssociations, InvoicesOf, stockVars
  <2>2. ASSUME NEW i \in InvoiceIds
        PROVE  /\ row(i).status = invoice[i].status /\ row(i).version = invoice[i].version
               /\ Document(row(i)) = Document(invoice[i]) /\ invoice[i].version \in Nat
    <3>1. invoice[i] \in Invoice
      BY DEF TypeOK
    <3> QED BY <3>1 DEF Invoice, Document
  <2> HIDE DEF owned, row
  <2>3. ASSUME NEW i \in InvoiceIds
        PROVE  LaterInvoice(invoice[i], invoice'[i])
    BY <2>1, <2>2 DEF LaterInvoice
  <2> QED BY <2>1, <2>3, SameProductsLater DEF NoWayBack
<1>2. ASSUME NEW c \in Clients, NEW in \in ClientInputs,
             CreateClient(c, in) \/ UpdateClient(c, in)
      PROVE  NoWayBack
  BY <1>2, SameRowsNoWayBack DEF CreateClient, UpdateClient, stockVars
<1>3. ASSUME NEW c \in Clients, DeleteClient(c) PROVE NoWayBack
  BY <1>3, SameRowsNoWayBack DEF DeleteClient, stockVars
<1>4. ASSUME NEW r \in ReceiptIds, NEW c \in Clients, NEW in \in ReceiptInputs,
             CreateReceipt(r, c, in)
      PROVE  NoWayBack
  BY <1>4, SameRowsNoWayBack DEF CreateReceipt, stockVars
<1>5. ASSUME NEW r \in ReceiptIds, NEW in \in ReceiptInputs, UpdateReceipt(r, in)
      PROVE  NoWayBack
  BY <1>5, SameRowsNoWayBack DEF UpdateReceipt, stockVars
<1>6. ASSUME NEW r \in ReceiptIds, DeleteReceipt(r) PROVE NoWayBack
  BY <1>6, SameRowsNoWayBack DEF DeleteReceipt, stockVars
<1> QED BY <1>1, <1>2, <1>3, <1>4, <1>5, <1>6, Zenon DEF ClientNext

LEMMA StepNoWayBack ==
  ASSUME TypeOK, [Next]_vars
  PROVE  NoWayBack
<1>1. CASE TenantNext
  BY <1>1, SameRowsNoWayBack DEF TenantNext, UpdateTenant, stockVars
<1>2. CASE UNCHANGED vars
  BY <1>2, SameRowsNoWayBack DEF vars, stockVars
<1> QED BY <1>1, <1>2, ProductNoWayBack, InvoiceNoWayBack, ClientNoWayBack DEF Next

-----------------------------------------------------------------------------
(***************************************************************************)
(* Refinement.                                                             *)
(***************************************************************************)

\* The request that takes effect: its version is the row's, and the row is
\* newer afterwards.
Effective(r) ==
  \/ /\ r.kind = "product"
     /\ product[r.id].version = r.seen.version
     /\ product[r.id].row = "live" /\ product'[r.id].row = "live"
     /\ product'[r.id].version = product[r.id].version + 1
  \/ /\ r.kind \in Transitions \cup {"save"}
     /\ invoice[r.id].version = r.seen.version
     /\ Advanced(r.id)

LEMMA DeliverIsEffective ==
  ASSUME TypeOK, RequestsType, NEW a \in Apps, Deliver(a)
  PROVE  Next /\ Effective(request[a])
<1> DEFINE r == request[a]
           status == path[a]
<1> SUFFICES Next /\ Effective(r)
  OBVIOUS
<1>1. HandleSave(r) \/ HandleProduct(r) \/ HandleTransition(r) \/ HandleReactivation(r, status)
  BY Zenon DEF Deliver
<1>2. r \in TransitionRequests \cup SaveRequests \cup ProductRequests \cup {NoRequest}
  BY DEF RequestsType
<1> HIDE DEF r, status
<1>3. CASE HandleSave(r)
  <2>1. r \in SaveRequests
    BY <1>2, <1>3 DEF HandleSave, TransitionRequests, Transitions, ProductRequests, NoRequest
  <2>2. /\ r.kind = "save" /\ r.id \in InvoiceIds
        /\ r.client \in Clients /\ r.doc \in DocumentTypes /\ r.lines \in LineForms
    BY <2>1 DEF SaveRequests
  <2>3. \/ UpdateDraft(r.id, r.seen.version, r.client, r.doc, r.lines)
        \/ EditPosted(r.id, r.seen.version, r.client, r.doc, r.lines)
    BY <1>3 DEF HandleSave
  <2>4. invoice[r.id].version = r.seen.version /\ Advanced(r.id)
    BY <2>2, <2>3, SaveAdvances
  <2>5. InvoiceNext
    BY <2>2, <2>3, <2>4, Zenon DEF InvoiceNext
  <2> QED BY <2>2, <2>4, <2>5 DEF Effective, Next
<1>4. CASE HandleProduct(r)
  <2>1. r \in ProductRequests
    BY <1>2, <1>4 DEF HandleProduct, TransitionRequests, Transitions, SaveRequests, NoRequest
  <2>2. r.kind = "product" /\ r.id \in Products /\ r.in \in ProductInputs
    BY <2>1 DEF ProductRequests
  <2>3. UpdateProduct(r.id, r.seen.version, r.in)
    BY <1>4 DEF HandleProduct
  <2>4. /\ product[r.id].version = r.seen.version
        /\ product[r.id].row = "live" /\ product'[r.id].row = "live"
        /\ product'[r.id].version = product[r.id].version + 1
    BY <2>2, <2>3, ProductAdvances
  <2>5. ProductNext
    BY <2>2, <2>3, <2>4, Zenon DEF ProductNext
  <2> QED BY <2>2, <2>4, <2>5 DEF Effective, Next
<1>5. CASE HandleTransition(r) \/ HandleReactivation(r, status)
  <2>1. /\ r.kind \in Transitions
        /\ \/ PostInvoice(r.id, r.seen.version)
           \/ VoidInvoice(r.id, r.seen.version)
           \/ CancelInvoice(r.id, r.seen.version)
           \/ ReactivateVoid(r.id, r.seen.version)
           \/ ReactivateCancelled(r.id, r.seen.version)
    BY <1>5, Zenon DEF HandleTransition, HandleReactivation, Transitions
  <2>2. r.id \in InvoiceIds
    BY <1>2, <2>1 DEF TransitionRequests, Transitions, SaveRequests, ProductRequests, NoRequest
  <2>3. invoice[r.id].version = r.seen.version /\ Advanced(r.id)
    BY <2>1, <2>2, TransitionAdvances
  <2>4. InvoiceNext
    BY <2>1, <2>2, <2>3, Zenon DEF InvoiceNext
  <2> QED BY <2>1, <2>3, <2>4 DEF Effective, Next
<1> QED BY <1>1, <1>3, <1>4, <1>5

LEMMA UnversionedIsNext ==
  ASSUME UnversionedNext
  PROVE  Next
BY Zenon DEF UnversionedNext, Next, TenantNext, ClientNext, ProductNext, InvoiceNext
LEMMA RequestsStep ==
  ASSUME TypeOK, RequestsType, [RequestsNext]_allVars
  PROVE  [Next]_vars
<1>1. CASE UnversionedNext /\ UNCHANGED requestVars
  BY <1>1, UnversionedIsNext
<1>2. CASE AppNext
  <2>1. ASSUME NEW a \in Apps, Deliver(a) PROVE Next
    BY <2>1, DeliverIsEffective
  <2>2. ASSUME NEW a \in Apps, NEW r, Send(a, r) PROVE UNCHANGED vars
    BY <2>2, Zenon DEF Send
  <2>3. ASSUME NEW a \in Apps, ReadStatus(a) PROVE UNCHANGED vars
    BY <2>3 DEF ReadStatus
  <2> QED BY <1>2, <2>1, <2>2, <2>3, Zenon DEF AppNext, SendTransition, SendSave, SendProduct
<1>3. CASE UNCHANGED allVars
  BY <1>3 DEF allVars
<1> QED BY <1>1, <1>2, <1>3 DEF RequestsNext

\* A request is what an app has seen.
LEMMA RequestsTypeStep ==
  ASSUME TypeOK, RequestsType, [RequestsNext]_allVars
  PROVE  RequestsType'
<1> DEFINE R == TransitionRequests \cup SaveRequests \cup ProductRequests \cup {NoRequest}
<1>1. ASSUME NEW a \in Apps, NEW r \in R, Send(a, r) PROVE RequestsType'
  <2> HIDE DEF R
  <2>1. /\ request' = [request EXCEPT ![a] = r] /\ path' = [path EXCEPT ![a] = "unread"]
        /\ effects' = [effects EXCEPT ![a] = 0]
    BY <1>1, Zenon DEF Send
  <2>2. request \in [Apps -> R] /\ effects \in [Apps -> Nat] /\ DOMAIN path = Apps
    BY Zenon DEF RequestsType, R
  <2>3. request' \in [Apps -> R] /\ effects' \in [Apps -> Nat] /\ DOMAIN path' = Apps
    BY <2>1, <2>2
  <2> QED BY <2>3, Zenon DEF RequestsType, R
<1>2. ASSUME NEW a \in Apps, NEW i \in InvoiceIds, NEW kind \in Transitions,
             SendTransition(a, i, kind)
      PROVE  RequestsType'
  <2> DEFINE r == [kind |-> kind, id |-> i, seen |-> invoice[i]]
  <2>1. r \in TransitionRequests
    BY DEF TransitionRequests, TypeOK
  <2>2. Send(a, r)
    BY <1>2, Zenon DEF SendTransition
  <2> HIDE DEF r
  <2> QED BY <1>1, <2>1, <2>2
<1>3. ASSUME NEW a \in Apps, NEW i \in InvoiceIds, NEW c \in Clients,
             NEW doc \in DocumentTypes, NEW lines \in LineForms,
             SendSave(a, i, c, doc, lines)
      PROVE  RequestsType'
  <2> DEFINE r == [kind |-> "save", id |-> i, seen |-> invoice[i],
                   client |-> c, doc |-> doc, lines |-> lines]
  <2>1. invoice[i] \in Invoice
    BY DEF TypeOK
  <2>2. r \in SaveRequests
    BY <2>1 DEF SaveRequests
  <2>3. Send(a, r)
    BY <1>3, Zenon DEF SendSave
  <2> HIDE DEF r
  <2> QED BY <1>1, <2>2, <2>3
<1>4. ASSUME NEW a \in Apps, NEW p \in Products, NEW in \in ProductInputs,
             SendProduct(a, p, in)
      PROVE  RequestsType'
  <2> DEFINE r == [kind |-> "product", id |-> p, seen |-> product[p], in |-> in]
  <2>1. r \in ProductRequests
    BY DEF ProductRequests, TypeOK
  <2>2. Send(a, r)
    BY <1>4, Zenon DEF SendProduct
  <2> HIDE DEF r
  <2> QED BY <1>1, <2>1, <2>2
<1>5. ASSUME NEW a \in Apps, ReadStatus(a) PROVE RequestsType'
  BY <1>5 DEF ReadStatus, RequestsType
<1>6. ASSUME NEW a \in Apps, Deliver(a) PROVE RequestsType'
  <2>1. /\ effects' = [effects EXCEPT ![a] = @ + 1]
        /\ path' = [path EXCEPT ![a] = "unread"]
        /\ UNCHANGED request
    BY <1>6, Zenon DEF Deliver
  <2> QED BY <2>1 DEF RequestsType
<1>7. CASE AppNext
  BY <1>7, <1>2, <1>3, <1>4, <1>5, <1>6, Zenon DEF AppNext
<1>8. CASE UNCHANGED requestVars
  BY <1>8 DEF requestVars, RequestsType
<1> QED BY <1>7, <1>8 DEF RequestsNext, allVars

\* Stale, racing, delayed and repeated requests change the tables only as
\* Backend's requests with current versions do, one at a time (saveProduct,
\* saveInvoice, transitionInvoice, reactivateInvoice).
THEOREM RequestsRefineBackend == RequestsSpec => RefinesBackend
<1>1. RequestsInit => Init /\ TypeOK /\ RequestsType
  BY InitTypeOK DEF RequestsInit, RequestsType
<1>2. TypeOK /\ RequestsType /\ [RequestsNext]_allVars
        => [Next]_vars /\ TypeOK' /\ RequestsType'
  BY RequestsStep, RequestsTypeStep, TypeStep
<1> QED BY <1>1, <1>2, PTL DEF RequestsSpec, RefinesBackend, Spec

-----------------------------------------------------------------------------
(***************************************************************************)
(* At most once.                                                           *)
(***************************************************************************)
LEMMA StillSpent ==
  ASSUME TypeOK, TypeOK', RequestsType, NoWayBack, NEW a \in Apps, Spent(a),
         request'[a] = request[a], effects'[a] = effects[a]
  PROVE  Spent(a)'
<1> DEFINE r == request[a]
<1>1. r \in TransitionRequests \cup SaveRequests \cup ProductRequests \cup {NoRequest}
  BY DEF RequestsType
<1>2. ASSUME r.kind = "product"
      PROVE  /\ product'[r.id].row # "unused"
             /\ effects[a] > 0 => ProductIsNewer(r)'
             /\ ProductIsNewer(r)' \/ product'[r.id] = r.seen
  <2>1. r \in ProductRequests
    BY <1>1, <1>2 DEF TransitionRequests, Transitions, SaveRequests, NoRequest
  <2>2. r.id \in Products /\ r.seen.version \in Nat
    BY <2>1 DEF ProductRequests, Product
  <2>3. product[r.id].version \in Nat /\ product'[r.id].version \in Nat
    BY <2>2 DEF TypeOK, Product
  <2>4. LaterProduct(product[r.id], product'[r.id])
    BY <2>2 DEF NoWayBack
  <2>5. r' = r
    OBVIOUS
  <2>6. Spent(a)
    OBVIOUS
  <2>7. /\ product[r.id].row # "unused"
        /\ effects[a] > 0 => ProductIsNewer(r)
        /\ ProductIsNewer(r) \/ product[r.id] = r.seen
    BY <1>2, <2>6 DEF Spent
  <2> HIDE DEF r
  <2> QED BY <2>2, <2>3, <2>4, <2>5, <2>7 DEF LaterProduct, ProductIsNewer
<1>3. ASSUME r.kind \in Transitions \cup {"save"}
      PROVE  /\ invoice'[r.id].status # "unused"
             /\ effects[a] > 0 => InvoiceIsNewer(r)'
             /\ \/ InvoiceIsNewer(r)'
                \/ /\ invoice'[r.id].version = r.seen.version
                   /\ Document(invoice'[r.id]) = Document(r.seen)
  <2>1. r \in TransitionRequests \cup SaveRequests
    BY <1>1, <1>3 DEF ProductRequests, Transitions, NoRequest
  <2>2. r.id \in InvoiceIds /\ r.seen.version \in Nat
    BY <2>1 DEF TransitionRequests, SaveRequests, Invoice
  <2>3. invoice[r.id].version \in Nat /\ invoice'[r.id].version \in Nat
    BY <2>2 DEF TypeOK, Invoice
  <2>4. LaterInvoice(invoice[r.id], invoice'[r.id])
    BY <2>2 DEF NoWayBack
  <2>5. r' = r
    OBVIOUS
  <2>6. Spent(a)
    OBVIOUS
  <2>7. /\ invoice[r.id].status # "unused"
        /\ effects[a] > 0 => InvoiceIsNewer(r)
        /\ \/ InvoiceIsNewer(r)
           \/ /\ invoice[r.id].version = r.seen.version
              /\ Document(invoice[r.id]) = Document(r.seen)
    BY <1>3, <2>6 DEF Spent
  <2> HIDE DEF r
  <2> QED BY <2>2, <2>3, <2>4, <2>5, <2>7 DEF LaterInvoice, InvoiceIsNewer
<1> QED BY <1>2, <1>3 DEF Spent

LEMMA DeliveredSpent ==
  ASSUME TypeOK, TypeOK', RequestsType, NEW a \in Apps, Spent(a), Deliver(a)
  PROVE  Spent(a)'
<1> DEFINE r == request[a]
<1>1. Effective(r)
  BY DeliverIsEffective
<1>2. effects'[a] = effects[a] + 1 /\ request'[a] = r
  <2>1. effects' = [effects EXCEPT ![a] = @ + 1] /\ UNCHANGED request
    BY Zenon DEF Deliver
  <2> QED BY <2>1 DEF RequestsType
<1>3. effects[a] \in Nat
  BY DEF RequestsType
<1>4. r \in TransitionRequests \cup SaveRequests \cup ProductRequests \cup {NoRequest}
  BY DEF RequestsType
<1>5. CASE r.kind = "product"
  <2>1. r \in ProductRequests
    BY <1>4, <1>5 DEF TransitionRequests, Transitions, SaveRequests, NoRequest
  <2>2. r.id \in Products /\ r.seen.version \in Nat
    BY <2>1 DEF ProductRequests, Product
  <2>3. /\ product[r.id].version = r.seen.version
        /\ product[r.id].row = "live" /\ product'[r.id].row = "live"
        /\ product'[r.id].version = product[r.id].version + 1
    BY <1>1, <1>5 DEF Effective, Transitions
  <2>4. effects[a] = 0
    BY <1>3, <1>5, <2>2, <2>3 DEF Spent, ProductIsNewer
  <2> QED BY <1>2, <1>5, <2>2, <2>3, <2>4 DEF Spent, Transitions, ProductIsNewer
<1>6. CASE r.kind \in Transitions \cup {"save"}
  <2>1. r \in TransitionRequests \cup SaveRequests
    BY <1>4, <1>6 DEF ProductRequests, Transitions, NoRequest
  <2>2. r.id \in InvoiceIds /\ r.seen.version \in Nat
    BY <2>1 DEF TransitionRequests, SaveRequests, Invoice
  <2>3. invoice[r.id].version = r.seen.version /\ Advanced(r.id)
    BY <1>1, <1>6 DEF Effective, Transitions
  <2>4. effects[a] = 0
    BY <1>3, <1>6, <2>2, <2>3 DEF Spent, Advanced, Known, InvoiceIsNewer
  <2> QED BY <1>2, <1>6, <2>2, <2>3, <2>4 DEF Spent, Transitions, Advanced, Known, InvoiceIsNewer
<1> QED BY <1>1, <1>5, <1>6 DEF Effective

\* What an app has just sent is about a row it has just seen.
LEMMA SentSpent ==
  ASSUME TypeOK, RequestsType, NEW a \in Apps, NEW r, Send(a, r),
         \/ /\ r.kind \in Transitions \cup {"save"} /\ r.id \in InvoiceIds
            /\ Known(invoice[r.id]) /\ r.seen = invoice[r.id]
         \/ /\ r.kind = "product" /\ r.id \in Products
            /\ product[r.id].row = "live" /\ r.seen = product[r.id]
  PROVE  \A b \in Apps : Spent(b) => Spent(b)'
<1>1. /\ request' = [request EXCEPT ![a] = r] /\ effects' = [effects EXCEPT ![a] = 0]
      /\ UNCHANGED <<invoice, product>>
  BY Zenon DEF Send, vars, stockVars
<1>2. ASSUME NEW b \in Apps, b # a, Spent(b) PROVE Spent(b)'
  <2>1. request'[b] = request[b] /\ effects'[b] = effects[b]
    BY <1>1, <1>2 DEF RequestsType
  <2> QED BY <1>1, <1>2, <2>1 DEF Spent, ProductIsNewer, InvoiceIsNewer
<1>3. Spent(a)'
  <2>1. request'[a] = r /\ effects'[a] = 0
    BY <1>1 DEF RequestsType
  <2> QED BY <1>1, <2>1 DEF Spent, Known, Transitions
<1> QED BY <1>2, <1>3

LEMMA SpentStep ==
  ASSUME TypeOK, TypeOK', EffectsAreSpent, [RequestsNext]_allVars
  PROVE  EffectsAreSpent'
<1>1. RequestsType /\ \A a \in Apps : Spent(a)
  BY DEF EffectsAreSpent
<1>2. RequestsType'
  BY <1>1, RequestsTypeStep
<1>3. NoWayBack
  BY <1>1, RequestsStep, StepNoWayBack
<1> SUFFICES \A b \in Apps : Spent(b)'
  BY <1>2 DEF EffectsAreSpent
<1>4. ASSUME NEW a \in Apps, NEW i \in InvoiceIds, NEW kind \in Transitions,
             SendTransition(a, i, kind)
      PROVE  \A b \in Apps : Spent(b)'
  <2> DEFINE r == [kind |-> kind, id |-> i, seen |-> invoice[i]]
  <2>1. Send(a, r) /\ Known(invoice[i])
    BY <1>4, Zenon DEF SendTransition, Known
  <2>2. r.kind \in Transitions \cup {"save"} /\ r.id = i /\ r.seen = invoice[i]
    OBVIOUS
  <2> HIDE DEF r
  <2> QED BY <1>1, <2>1, <2>2, SentSpent
<1>5. ASSUME NEW a \in Apps, NEW i \in InvoiceIds, NEW c \in Clients,
             NEW doc \in DocumentTypes, NEW lines \in LineForms,
             SendSave(a, i, c, doc, lines)
      PROVE  \A b \in Apps : Spent(b)'
  <2> DEFINE r == [kind |-> "save", id |-> i, seen |-> invoice[i],
                   client |-> c, doc |-> doc, lines |-> lines]
  <2>1. Send(a, r) /\ invoice[i].status \in {"draft", "posted"}
    BY <1>5, Zenon DEF SendSave
  <2>2. r.kind \in Transitions \cup {"save"} /\ r.id = i /\ Known(invoice[i])
        /\ r.seen = invoice[i]
    BY <2>1 DEF Known
  <2> HIDE DEF r
  <2> QED BY <1>1, <2>1, <2>2, SentSpent
<1>6. ASSUME NEW a \in Apps, NEW p \in Products, NEW in \in ProductInputs,
             SendProduct(a, p, in)
      PROVE  \A b \in Apps : Spent(b)'
  <2> DEFINE r == [kind |-> "product", id |-> p, seen |-> product[p], in |-> in]
  <2>1. Send(a, r) /\ product[p].row = "live"
    BY <1>6, Zenon DEF SendProduct
  <2>2. r.kind = "product" /\ r.id = p /\ r.seen = product[p]
    OBVIOUS
  <2> HIDE DEF r
  <2> QED BY <1>1, <2>1, <2>2, SentSpent
<1>7. ASSUME NEW a \in Apps, Deliver(a) PROVE \A b \in Apps : Spent(b)'
  <2>1. effects' = [effects EXCEPT ![a] = @ + 1] /\ UNCHANGED request
    BY <1>7, Zenon DEF Deliver
  <2>2. Spent(a)'
    BY <1>1, <1>7, DeliveredSpent
  <2>3. ASSUME NEW b \in Apps, b # a PROVE Spent(b)'
    <3>1. request'[b] = request[b] /\ effects'[b] = effects[b]
      BY <1>1, <2>1, <2>3 DEF RequestsType
    <3> QED BY <1>1, <1>3, <3>1, StillSpent
  <2> QED BY <2>2, <2>3
<1>8. ASSUME UNCHANGED <<request, effects>> PROVE \A b \in Apps : Spent(b)'
  BY <1>1, <1>3, <1>8, StillSpent
<1>9. CASE AppNext
  BY <1>9, <1>4, <1>5, <1>6, <1>7, <1>8, Zenon DEF AppNext, ReadStatus
<1>10. CASE UNCHANGED requestVars
  BY <1>8, <1>10 DEF requestVars
<1> QED BY <1>9, <1>10 DEF RequestsNext, allVars

LEMMA EffectsAreAlwaysSpent == RequestsSpec => [](TypeOK /\ EffectsAreSpent)
<1>1. RequestsInit => EffectsAreSpent
  BY DEF RequestsInit, RequestsType, EffectsAreSpent, Spent, NoRequest, Transitions
<1>2. RequestsSpec => []TypeOK
  BY RequestsRefineBackend, TypeCorrect, PTL DEF RefinesBackend
<1>3. TypeOK /\ TypeOK' /\ EffectsAreSpent /\ [RequestsNext]_allVars => EffectsAreSpent'
  BY SpentStep
<1> QED BY <1>1, <1>2, <1>3, PTL DEF RequestsSpec

\* A request with a version takes effect once at most, however often and however
\* late it is delivered: the row it names is newer than what its app saw from
\* then on (the version checks of products.go and invoices.go).
THEOREM EffectsAreAtMostOne == RequestsSpec => []AtMostOnce
<1>1. EffectsAreSpent => AtMostOnce
  BY DEF EffectsAreSpent, Spent, AtMostOnce
<1> QED BY <1>1, EffectsAreAlwaysSpent, PTL

\* The request whose version is the row's finds what its app saw.
LEMMA EffectiveSaw ==
  ASSUME EffectsAreSpent, NEW a \in Apps, Effective(request[a])
  PROVE  LET r == request[a]
         IN  IF r.kind = "product" THEN product[r.id] = r.seen
             ELSE Document(invoice[r.id]) = Document(r.seen)
<1> DEFINE r == request[a]
<1>1. Spent(a) /\ r \in TransitionRequests \cup SaveRequests \cup ProductRequests \cup {NoRequest}
  BY DEF EffectsAreSpent, RequestsType
<1>2. CASE r.kind = "product"
  <2>1. r \in ProductRequests
    BY <1>1, <1>2 DEF TransitionRequests, Transitions, SaveRequests, NoRequest
  <2>2. r.seen.version \in Nat
    BY <2>1 DEF ProductRequests, Product
  <2>3. product[r.id].version = r.seen.version /\ product[r.id].row = "live"
    BY <1>2 DEF Effective, Transitions
  <2>4. ~ProductIsNewer(r)
    BY <2>2, <2>3 DEF ProductIsNewer
  <2> QED BY <1>1, <1>2, <2>4 DEF Spent
<1>3. CASE r.kind # "product"
  <2>1. r.kind \in Transitions \cup {"save"} /\ invoice[r.id].version = r.seen.version
        /\ invoice[r.id].status # "deleted"
    BY <1>3 DEF Effective, Advanced, Known
  <2>2. r \in TransitionRequests \cup SaveRequests
    BY <1>1, <2>1 DEF ProductRequests, Transitions, NoRequest
  <2>3. r.seen.version \in Nat
    BY <2>2 DEF TransitionRequests, SaveRequests, Invoice
  <2>4. ~InvoiceIsNewer(r)
    BY <2>1, <2>3 DEF InvoiceIsNewer
  <2> QED BY <1>1, <1>3, <2>1, <2>4 DEF Spent
<1> QED BY <1>2, <1>3

LEMMA OnlyDeliveryCounts ==
  ASSUME RequestsType, [RequestsNext]_allVars, NEW a \in Apps, effects'[a] > effects[a]
  PROVE  Deliver(a)
<1>0. effects \in [Apps -> Nat]
  BY DEF RequestsType
<1>1. effects' # effects
  BY <1>0
<1>2. AppNext
  BY <1>1, Zenon DEF RequestsNext, allVars, requestVars
<1>3. ASSUME NEW b \in Apps, NEW r PROVE ~Send(b, r)
  <2> SUFFICES ASSUME Send(b, r) PROVE FALSE
    OBVIOUS
  <2>1. effects' = [effects EXCEPT ![b] = 0]
    BY Zenon DEF Send
  <2> QED BY <1>0, <2>1
<1>4. ASSUME NEW b \in Apps PROVE ~ReadStatus(b)
  BY <1>1 DEF ReadStatus
<1>5. PICK b \in Apps : Deliver(b)
  BY <1>2, <1>3, <1>4, Zenon DEF AppNext, SendTransition, SendSave, SendProduct
<1>6. effects' = [effects EXCEPT ![b] = @ + 1]
  BY <1>5, Zenon DEF Deliver
<1>7. a = b
  BY <1>0, <1>6
<1> QED BY <1>5, <1>7

\* A request that takes effect finds the document, or the product with its stock, its
\* user was looking at, whatever happened in between (the version checks of products.go
\* and invoices.go).
THEOREM NothingUnseenIsLost == RequestsSpec => NothingUnseenIsOverwritten
<1>1. ASSUME TypeOK, EffectsAreSpent, [RequestsNext]_allVars
      PROVE  [\A a \in Apps : effects'[a] > effects[a] =>
                LET r == request[a]
                IN  IF r.kind = "product" THEN product[r.id] = r.seen
                    ELSE Document(invoice[r.id]) = Document(r.seen)]_allVars
  <2>1. ASSUME NEW a \in Apps, effects'[a] > effects[a] PROVE Effective(request[a])
    BY <1>1, <2>1, OnlyDeliveryCounts, DeliverIsEffective DEF EffectsAreSpent
  <2> QED BY <1>1, <2>1, EffectiveSaw
<1> QED BY <1>1, EffectsAreAlwaysSpent, PTL DEF RequestsSpec, NothingUnseenIsOverwritten
=============================================================================
