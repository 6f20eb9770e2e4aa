----------------------------- MODULE TypesProofs ----------------------------
(***************************************************************************)
(* Backend's tables for every value of the constants, row by row: they     *)
(* keep their types, no handler pulls a row from under another, and the    *)
(* stock of every product is what its movements and corrections add up to. *)
(***************************************************************************)
EXTENDS Backend, SumProofs

-----------------------------------------------------------------------------
(***************************************************************************)
(* Row updates: what each leaves and what it changes, so that the rest     *)
(* never looks inside an EXCEPT.                                           *)
(***************************************************************************)

LEMMA ItemsType ==
  ASSUME TypeOK, NEW lines \in LineForms
  PROVE  ItemsOf(lines) \in [Products -> Item]
  BY InputsAssumption, LimitsAssumption DEF LineForms, NoLine, ItemsOf, Item, TypeOK, Product

LEMMA StampedRow ==
  ASSUME NEW inv \in Invoice, NEW s \in Statuses
  PROVE  /\ Stamped(inv, s) \in Invoice
         /\ Stamped(inv, s).status = s
         /\ Stamped(inv, s).doc = inv.doc
         /\ Stamped(inv, s).client = inv.client
         /\ Stamped(inv, s).returnsClient = inv.returnsClient
         /\ Stamped(inv, s).items = inv.items
         /\ Stamped(inv, s).total = inv.total
         /\ Stamped(inv, s).number = inv.number
         /\ Stamped(inv, s).returned = inv.returned
         /\ Stamped(inv, s).returnedMinor = inv.returnedMinor
         /\ Stamped(inv, s).paid = inv.paid
  <1> DEFINE v == inv.version + 1
  <1>1. v \in Nat BY DEF Invoice
  <1>2. Stamped(inv, s) = [inv EXCEPT !.status = s, !.version = v] BY DEF Stamped
  <1> HIDE DEF v
  <1> QED BY <1>1, <1>2 DEF Invoice, Statuses

LEMMA NumberedRow ==
  ASSUME NEW inv \in Invoice, NEW n \in Nat, NEW row, row = [inv EXCEPT !.number = n]
  PROVE  /\ row \in Invoice
         /\ row.number = n
         /\ row.status = inv.status /\ row.doc = inv.doc /\ row.client = inv.client
         /\ row.returnsClient = inv.returnsClient /\ row.items = inv.items
         /\ row.total = inv.total /\ row.returned = inv.returned
         /\ row.returnedMinor = inv.returnedMinor /\ row.paid = inv.paid
  BY DEF Invoice

LEMMA PaidRow ==
  ASSUME NEW inv \in Invoice, NEW n \in Nat, NEW row, row = [inv EXCEPT !.paid = inv.paid + n]
  PROVE  /\ row \in Invoice
         /\ row.paid = inv.paid + n
         /\ row.status = inv.status /\ row.doc = inv.doc /\ row.client = inv.client
         /\ row.returnsClient = inv.returnsClient /\ row.items = inv.items
         /\ row.total = inv.total /\ row.returned = inv.returned
         /\ row.returnedMinor = inv.returnedMinor /\ row.number = inv.number
  <1> DEFINE v == inv.paid + n
  <1>1. v \in Nat BY DEF Invoice
  <1>2. row = [inv EXCEPT !.paid = v] OBVIOUS
  <1> HIDE DEF v
  <1>3. row \in Invoice /\ row.paid = v BY <1>1, <1>2 DEF Invoice
  <1> QED BY <1>2, <1>3 DEF v, Invoice

LEMMA RewrittenRow ==
  ASSUME TypeOK, NEW inv \in Invoice, NEW c \in Clients, NEW doc \in DocumentTypes,
         NEW lines \in LineForms, TotalOf(lines) \in 0..MaxTotal,
         NEW row, row = Rewritten(inv, c, doc, lines)
  PROVE  /\ row \in Invoice
         /\ row.status = inv.status /\ row.doc = doc /\ row.client = c
         /\ row.returnsClient = inv.returnsClient /\ row.items = ItemsOf(lines)
         /\ row.total = TotalOf(lines) /\ row.number = inv.number
         /\ row.returned = inv.returned
         /\ row.returnedMinor = inv.returnedMinor /\ row.paid = inv.paid
  <1> DEFINE v == inv.version + 1
             t == TotalOf(lines)
             items == ItemsOf(lines)
  <1>1. v \in Nat BY DEF Invoice
  <1>2. row = [inv EXCEPT !.client = c, !.doc = doc, !.items = items, !.total = t,
                          !.version = v]
    BY DEF Rewritten
  <1>3. items \in [Products -> Item] BY ItemsType
  <1>4. t \in 0..MaxTotal OBVIOUS
  <1>5. doc \in {"sale", "purchase"} BY InputsAssumption
  <1> HIDE DEF v, t, items
  <1>6. row \in Invoice BY <1>1, <1>2, <1>3, <1>4, <1>5 DEF Invoice
  <1>7. row.items = items /\ row.total = t BY <1>2 DEF Invoice
  <1> QED BY <1>2, <1>6, <1>7 DEF items, t, Invoice

LEMMA CreditedRow ==
  ASSUME NEW inv \in Invoice, NEW cartons \in [Products -> Nat], NEW credit \in Nat,
         NEW row, row = Credited(inv, cartons, credit)
  PROVE  /\ row \in Invoice
         /\ row.status = inv.status /\ row.doc = inv.doc /\ row.client = inv.client
         /\ row.returnsClient = inv.client /\ row.items = inv.items
         /\ row.total = inv.total /\ row.number = inv.number
         /\ row.returned = [p \in Products |-> inv.returned[p] + cartons[p]]
         /\ row.returnedMinor = inv.returnedMinor + credit /\ row.paid = inv.paid
  <1> DEFINE m == inv.returnedMinor + credit
             back == [p \in Products |-> inv.returned[p] + cartons[p]]
             c == inv.client
  <1>1. m \in Nat BY DEF Invoice
  <1>2. back \in [Products -> Nat] BY DEF Invoice
  <1>3. c \in Clients \cup {NoClient} BY DEF Invoice
  <1>4. row = [inv EXCEPT !.returned = back, !.returnedMinor = m, !.returnsClient = c] BY DEF Credited
  <1> HIDE DEF m, back, c
  <1>5. row \in Invoice BY <1>1, <1>2, <1>3, <1>4 DEF Invoice
  <1>6. row.returned = back /\ row.returnedMinor = m /\ row.returnsClient = c BY <1>4 DEF Invoice
  <1> QED BY <1>4, <1>5, <1>6 DEF back, m, c, Invoice

LEMMA EmptyRow ==
  /\ NoInvoice \in Invoice
  /\ [NoInvoice EXCEPT !.status = "deleted"] \in Invoice
  <1>1. NoItem \in Item
    BY LimitsAssumption DEF NoItem, Item
  <1> QED BY <1>1, LimitsAssumption DEF NoInvoice, Invoice, Statuses

LEMMA RestockedRow ==
  ASSUME NEW row \in Product, NEW delta \in Int, row.quantity + delta \in 0..MaxQuantity
  PROVE  Restocked(row, delta) \in Product
  <1> DEFINE q == row.quantity + delta
             v == row.version + 1
  <1>1. q \in 0..MaxQuantity /\ v \in Nat
    BY DEF Product
  <1>2. Restocked(row, delta) = [row EXCEPT !.quantity = q, !.version = v]
    BY DEF Restocked
  <1> HIDE DEF q, v
  <1> QED BY <1>1, <1>2 DEF Product

LEMMA MoveStockType ==
  ASSUME TypeOK, NEW i \in InvoiceIds, NEW delta \in [Products -> Int],
         MoveStock(i, delta)
  PROVE  /\ product' \in [Products -> Product]
         /\ correction' \in [Products -> Int]
         /\ movement' \in [InvoiceIds -> [Products -> Int]]
         /\ movement' = [movement EXCEPT ![i] =
                           [p \in Products |-> movement[i][p] + delta[p]]]
  <1> DEFINE row(p) == IF delta[p] = 0 THEN product[p] ELSE Restocked(product[p], delta[p])
             sums   == [p \in Products |-> movement[i][p] + delta[p]]
  <1>1. ASSUME NEW p \in Products PROVE row(p) \in Product
    <2>1. product[p] \in Product
      BY DEF TypeOK
    <2>2. delta[p] # 0 => product[p].quantity + delta[p] \in 0..MaxQuantity
      BY Zenon DEF MoveStock, CanMove
    <2> QED BY <2>1, <2>2, RestockedRow
  <1>2. product' = [p \in Products |-> row(p)]
    BY Zenon DEF MoveStock
  <1>3. sums \in [Products -> Int]
    BY DEF TypeOK
  <1>4. movement' = [movement EXCEPT ![i] = sums]
    BY Zenon DEF MoveStock
  <1> HIDE DEF row, sums
  <1>5. product' \in [Products -> Product]
    BY <1>1, <1>2
  <1>6. movement' \in [InvoiceIds -> [Products -> Int]]
    BY <1>3, <1>4 DEF TypeOK
  <1>7. correction' \in [Products -> Int]
    BY DEF TypeOK, MoveStock
  <1> QED BY <1>4, <1>5, <1>6, <1>7 DEF sums

LEMMA BookType ==
  ASSUME TypeOK, NEW i \in InvoiceIds, NEW minor \in Int, Book(i, minor)
  PROVE  /\ ledger' \in [InvoiceIds -> Int]
         /\ ledger'[i] = ledger[i] + minor
         /\ \A j \in InvoiceIds \ {i} : ledger'[j] = ledger[j]
         /\ invoice[i].client # NoClient
  BY DEF Book, TypeOK

LEMMA AppliedRow ==
  ASSUME NEW in \in ClientInputs, NEW account \in Client
  PROVE  Applied(in, account) \in Client
  <1> DEFINE given == Given(in.minor, account.minor)
             minor == IF given < 0 THEN -given ELSE given
             type  == Given(in.type, IF given < 0 THEN "payable" ELSE account.type)
             active == Given(in.active, account.active)
  <1>1. given \in Int
    BY InputsAssumption DEF Given, Client
  <1>2. minor \in Nat
    BY <1>1
  <1>3. type \in {"receivable", "payable"}
    BY InputsAssumption DEF Given, Client
  <1>4. active \in BOOLEAN
    BY InputsAssumption DEF Given, Client
  <1>5. Applied(in, account) = [account EXCEPT !.active = active, !.minor = minor, !.type = type]
    BY DEF Applied
  <1> HIDE DEF given, minor, type, active
  <1> QED BY <1>2, <1>3, <1>4, <1>5 DEF Client

-----------------------------------------------------------------------------
(***************************************************************************)
(* TypeOK.                                                                 *)
(***************************************************************************)

LEMMA InitTypeOK == Init => TypeOK
  <1>1. NoProduct \in Product
    BY LimitsAssumption DEF NoProduct, Product, Rows
  <1>2. NoInvoice \in Invoice
    BY EmptyRow
  <1>3. NoAccount \in Client
    BY DEF NoAccount, Client, Rows
  <1>4. NoReceipt \in Receipt
    BY DEF NoReceipt, Receipt, Rows
  <1> QED BY <1>1, <1>2, <1>3, <1>4 DEF Init, TypeOK

LEMMA ProductTypeOK == TypeOK /\ ProductNext => TypeOK'
  <1> SUFFICES ASSUME TypeOK, NEW p \in Products,
                      \/ \E in \in ProductInputs : CreateProduct(p, in)
                      \/ \E in \in ProductInputs : UpdateProduct(p, product[p].version, in)
                      \/ DeleteProduct(p)
               PROVE  TypeOK'
    BY DEF ProductNext
  <1>1. ASSUME NEW in \in ProductInputs, CreateProduct(p, in) PROVE TypeOK'
    <2> DEFINE a   == Given(in.active, TRUE)
               q   == in.quantity
               n   == in.pieces
               row == [row |-> "live", active |-> a, quantity |-> q, pieces |-> n,
                       version |-> 1]
    <2>1. product' = [product EXCEPT ![p] = row] /\ ValidProduct(row) /\ Correct(p, row.quantity)
      BY <1>1, Zenon DEF CreateProduct
    <2>2. a \in BOOLEAN
      BY InputsAssumption DEF Given
    <2>3. q \in 0..MaxQuantity /\ n \in 1..MaxPieces
      BY <2>1 DEF ValidProduct
    <2>4. n \in 0..MaxPieces
      BY <2>3, LimitsAssumption
    <2>5. row \in Product /\ row.quantity \in Int
      <3> HIDE DEF a, q, n
      <3> QED BY <2>2, <2>3, <2>4 DEF Product, Rows
    <2> HIDE DEF row
    <2>6. product' \in [Products -> Product]
      BY <2>1, <2>5 DEF TypeOK
    <2>7. correction' \in [Products -> Int]
      BY <2>1, <2>5 DEF TypeOK, Correct
    <2> QED BY <1>1, <2>6, <2>7 DEF CreateProduct, TypeOK, bookVars
  <1>2. ASSUME NEW in \in ProductInputs, UpdateProduct(p, product[p].version, in)
        PROVE  TypeOK'
    <2> DEFINE q   == Given(in.quantity, product[p].quantity)
               n   == Given(in.pieces, product[p].pieces)
               a   == Given(in.active, product[p].active)
               v   == product[p].version + 1
               row == [product[p] EXCEPT !.active = a, !.quantity = q, !.pieces = n,
                                         !.version = v]
    <2>1. /\ product' = [product EXCEPT ![p] = row]
          /\ ValidProduct(row)
          /\ Correct(p, row.quantity - product[p].quantity)
      BY <1>2, Zenon DEF UpdateProduct
    <2>2. product[p] \in Product
      BY DEF TypeOK
    <2>3. row.quantity = q /\ row.pieces = n
      BY <2>2 DEF Product
    <2>4. q \in 0..MaxQuantity /\ n \in 0..MaxPieces
      BY <2>1, <2>3, LimitsAssumption DEF ValidProduct
    <2>5. a \in BOOLEAN /\ v \in Nat
      BY <2>2, InputsAssumption DEF Given, Product
    <2>6. row \in Product
      <3> HIDE DEF q, n, a, v
      <3> QED BY <2>2, <2>4, <2>5 DEF Product
    <2>7. row.quantity - product[p].quantity \in Int
      BY <2>2, <2>3, <2>4 DEF Product
    <2> HIDE DEF row
    <2>8. product' \in [Products -> Product]
      BY <2>1, <2>6 DEF TypeOK
    <2>9. correction' \in [Products -> Int]
      BY <2>1, <2>7 DEF TypeOK, Correct
    <2> QED BY <1>2, <2>8, <2>9 DEF UpdateProduct, TypeOK, bookVars
  <1>3. CASE DeleteProduct(p)
    <2>1. 0 \in 0..MaxQuantity /\ 0 \in 0..MaxPieces
      BY LimitsAssumption
    <2>2. [NoProduct EXCEPT !.row = "deleted"] \in Product
      BY <2>1 DEF NoProduct, Product, Rows
    <2>3. product' \in [Products -> Product]
      BY <1>3, <2>2 DEF DeleteProduct, TypeOK
    <2>4. correction' \in [Products -> Int]
      BY <1>3 DEF DeleteProduct, TypeOK
    <2>5. movement' \in [InvoiceIds -> [Products -> Int]]
      BY <1>3 DEF DeleteProduct, TypeOK
    <2> QED BY <1>3, <2>3, <2>4, <2>5 DEF DeleteProduct, TypeOK, bookVars
  <1> QED BY <1>1, <1>2, <1>3

\* Of a handler that writes one invoice, the row it writes.
LEMMA OneRowType ==
  ASSUME TypeOK, NEW i \in InvoiceIds, NEW row \in Invoice,
         invoice' = [invoice EXCEPT ![i] = row]
  PROVE  invoice' \in [InvoiceIds -> Invoice]
  BY DEF TypeOK

LEMMA StockOfInt ==
  ASSUME NEW doc, NEW n \in Int
  PROVE  StockOf(doc, n) \in Int /\ DebtOf(doc, n) \in Int
  BY DEF StockOf, DebtOf

LEMMA CartonsType ==
  ASSUME NEW cartons \in [Products -> ReturnInputs \cup {0}]
  PROVE  cartons \in [Products -> Nat] /\ cartons \in [Products -> Int]
  <1>1. ReturnInputs \cup {0} \subseteq Nat
    BY InputsAssumption
  <1>2. \A p \in Products : cartons[p] \in Nat
    BY <1>1
  <1> QED BY <1>2

LEMMA NewRow ==
  ASSUME NEW c \in Clients, NEW doc \in {"sale", "purchase"},
         NEW items \in [Products -> Item], NEW t \in 0..MaxTotal,
         NEW row, row = [NoInvoice EXCEPT !.status = "draft", !.doc = doc, !.client = c,
                                          !.items = items, !.total = t, !.version = 1]
  PROVE  row \in Invoice
  BY EmptyRow DEF Invoice, Statuses

LEMMA FirstRow ==
  ASSUME TypeOK, NEW c \in Clients, NEW doc \in DocumentTypes, NEW lines \in LineForms,
         TotalOf(lines) \in 0..MaxTotal
  PROVE  [NoInvoice EXCEPT !.status = "draft", !.doc = doc, !.client = c,
            !.items = ItemsOf(lines), !.total = TotalOf(lines), !.version = 1] \in Invoice
  <1> DEFINE items == ItemsOf(lines)
             t     == TotalOf(lines)
             row   == [NoInvoice EXCEPT !.status = "draft", !.doc = doc, !.client = c,
                                        !.items = items, !.total = t, !.version = 1]
  <1>1. doc \in {"sale", "purchase"}
    BY InputsAssumption
  <1>2. items \in [Products -> Item]
    BY ItemsType
  <1>3. t \in 0..MaxTotal
    OBVIOUS
  <1>4. row \in Invoice
    <2> HIDE DEF items, t
    <2> QED BY <1>1, <1>2, <1>3, NewRow
  <1> QED BY <1>4

\* The deltas the handlers hand to MoveStock and Book are integers.
LEMMA InvoiceTypeOK == TypeOK /\ InvoiceNext => TypeOK'
  <1> SUFFICES ASSUME TypeOK, NEW i \in InvoiceIds,
        \/ \E c \in Clients, doc \in DocumentTypes, lines \in LineForms :
              \/ CreateInvoice(i, c, doc, lines)
              \/ UpdateDraft(i, invoice[i].version, c, doc, lines)
              \/ EditPosted(i, invoice[i].version, c, doc, lines)
        \/ PostInvoice(i, invoice[i].version)
        \/ VoidInvoice(i, invoice[i].version)
        \/ ReactivateVoid(i, invoice[i].version)
        \/ CancelInvoice(i, invoice[i].version)
        \/ ReactivateCancelled(i, invoice[i].version)
        \/ DeleteCancelled(i)
        \/ \E cartons \in [Products -> ReturnInputs \cup {0}] : CreateReturn(i, cartons)
        \/ \E amount \in PaymentInputs : CreatePayment(i, amount)
               PROVE  TypeOK'
    BY Zenon DEF InvoiceNext
  <1> DEFINE inv == invoice[i]
  <1>0. /\ inv \in Invoice
        /\ inv.total \in 0..MaxTotal /\ inv.total \in Int
        /\ \A p \in Products : inv.items[p].qty \in Int
    BY LimitsAssumption DEF TypeOK, Invoice, Item
  <1>1. ASSUME NEW c \in Clients, NEW doc \in DocumentTypes, NEW lines \in LineForms,
               CreateInvoice(i, c, doc, lines)
        PROVE  TypeOK'
    <2> DEFINE row == [NoInvoice EXCEPT !.status = "draft", !.doc = doc, !.client = c,
                         !.items = ItemsOf(lines), !.total = TotalOf(lines), !.version = 1]
    <2>1. TotalOf(lines) \in 0..MaxTotal /\ invoice' = [invoice EXCEPT ![i] = row]
      BY <1>1, Zenon DEF CreateInvoice, CanInvoice
    <2>2. row \in Invoice
      BY <2>1, FirstRow, Zenon
    <2> HIDE DEF row
    <2>3. invoice' \in [InvoiceIds -> Invoice]
      BY <2>1, <2>2, OneRowType
    <2> QED BY <1>1, <2>3 DEF CreateInvoice, TypeOK, stockVars, bookVars
  <1>2. ASSUME NEW c \in Clients, NEW doc \in DocumentTypes, NEW lines \in LineForms,
               UpdateDraft(i, inv.version, c, doc, lines)
        PROVE  TypeOK'
    <2>1. /\ TotalOf(lines) \in 0..MaxTotal
          /\ invoice' = [invoice EXCEPT ![i] = Rewritten(inv, c, doc, lines)]
      BY <1>2, Zenon DEF UpdateDraft, CanInvoice
    <2>2. Rewritten(inv, c, doc, lines) \in Invoice
      BY <1>0, <2>1, RewrittenRow, Zenon
    <2>3. invoice' \in [InvoiceIds -> Invoice]
      BY <2>1, <2>2, OneRowType
    <2> QED BY <1>2, <2>3 DEF UpdateDraft, TypeOK, stockVars, bookVars
  <1>3. ASSUME NEW c \in Clients, NEW doc \in DocumentTypes, NEW lines \in LineForms,
               EditPosted(i, inv.version, c, doc, lines)
        PROVE  TypeOK'
    <2> DEFINE delta == [p \in Products |-> StockOf(doc, lines[p].qty - inv.items[p].qty)]
               minor == DebtOf(doc, TotalOf(lines) - inv.total)
    <2>1. /\ TotalOf(lines) \in 0..MaxTotal
          /\ invoice' = [invoice EXCEPT ![i] = Rewritten(inv, c, doc, lines)]
          /\ MoveStock(i, delta) /\ Book(i, minor)
      BY <1>3, Zenon DEF EditPosted, CanInvoice
    <2>2. Rewritten(inv, c, doc, lines) \in Invoice
      BY <1>0, <2>1, RewrittenRow, Zenon
    <2>3. invoice' \in [InvoiceIds -> Invoice]
      BY <2>1, <2>2, OneRowType
    <2>4. \A p \in Products : lines[p].qty - inv.items[p].qty \in Int
      BY <1>0, InputsAssumption DEF LineForms, NoLine
    <2>5. delta \in [Products -> Int]
      BY <2>4, StockOfInt
    <2>6. minor \in Int
      <3>1. TotalOf(lines) - inv.total \in Int
        BY <1>0, <2>1
      <3> QED BY <3>1, StockOfInt
    <2> HIDE DEF delta, minor
    <2>7. /\ product' \in [Products -> Product]
          /\ correction' \in [Products -> Int]
          /\ movement' \in [InvoiceIds -> [Products -> Int]]
      BY <2>1, <2>5, MoveStockType
    <2>8. ledger' \in [InvoiceIds -> Int]
      BY <2>1, <2>6, BookType
    <2> QED BY <1>3, <2>3, <2>7, <2>8 DEF EditPosted, TypeOK
  <1>4. ASSUME BookInvoice(i)
        PROVE  /\ product' \in [Products -> Product]
               /\ correction' \in [Products -> Int]
               /\ movement' \in [InvoiceIds -> [Products -> Int]]
               /\ ledger' \in [InvoiceIds -> Int]
    <2> DEFINE delta == [p \in Products |-> StockOf(inv.doc, inv.items[p].qty)]
               minor == DebtOf(inv.doc, inv.total)
    <2>1. MoveStock(i, delta) /\ Book(i, minor)
      BY <1>4, Zenon DEF BookInvoice
    <2>2. delta \in [Products -> Int] /\ minor \in Int
      BY <1>0, StockOfInt
    <2> HIDE DEF delta, minor
    <2> QED BY <2>1, <2>2, MoveStockType, BookType
  <1>5. CASE PostInvoice(i, inv.version)
    <2> DEFINE row == [Stamped(inv, "posted") EXCEPT !.number = nextNumber]
    <2>1. invoice' = [invoice EXCEPT ![i] = row] /\ BookInvoice(i)
      BY <1>5, Zenon DEF PostInvoice
    <2>2. Stamped(inv, "posted") \in Invoice /\ nextNumber \in Nat
      BY <1>0, StampedRow DEF TypeOK, Statuses
    <2>3. row \in Invoice
      BY <2>2, NumberedRow, Zenon
    <2> HIDE DEF row
    <2>4. invoice' \in [InvoiceIds -> Invoice]
      BY <2>1, <2>3, OneRowType
    <2>5. nextNumber' \in Nat \ {0}
      BY <1>5 DEF PostInvoice, TypeOK
    <2> QED BY <1>4, <1>5, <2>1, <2>4, <2>5 DEF PostInvoice, TypeOK
  <1>6. CASE VoidInvoice(i, inv.version)
    <2> DEFINE delta == [p \in Products |-> -StockOf(inv.doc, inv.items[p].qty)]
               minor == -DebtOf(inv.doc, inv.total)
    <2>1. /\ invoice' = [invoice EXCEPT ![i] = Stamped(inv, "void")]
          /\ MoveStock(i, delta) /\ Book(i, minor)
      BY <1>6, Zenon DEF VoidInvoice
    <2>2. delta \in [Products -> Int] /\ minor \in Int
      BY <1>0, StockOfInt
    <2>3. invoice' \in [InvoiceIds -> Invoice]
      BY <1>0, <2>1, StampedRow, OneRowType DEF Statuses
    <2> HIDE DEF delta, minor
    <2>4. /\ product' \in [Products -> Product]
          /\ correction' \in [Products -> Int]
          /\ movement' \in [InvoiceIds -> [Products -> Int]]
          /\ ledger' \in [InvoiceIds -> Int]
      BY <2>1, <2>2, MoveStockType, BookType
    <2> QED BY <1>6, <2>3, <2>4 DEF VoidInvoice, TypeOK
  <1>7. CASE ReactivateVoid(i, inv.version)
    <2>1. invoice' = [invoice EXCEPT ![i] = Stamped(inv, "posted")] /\ BookInvoice(i)
      BY <1>7, Zenon DEF ReactivateVoid
    <2>2. invoice' \in [InvoiceIds -> Invoice]
      BY <1>0, <2>1, StampedRow, OneRowType DEF Statuses
    <2> QED BY <1>4, <1>7, <2>1, <2>2 DEF ReactivateVoid, TypeOK
  <1>8. CASE CancelInvoice(i, inv.version)
    <2>1. invoice' \in [InvoiceIds -> Invoice]
      BY <1>0, <1>8, StampedRow, OneRowType DEF CancelInvoice, Statuses
    <2> QED BY <1>8, <2>1 DEF CancelInvoice, TypeOK, stockVars, bookVars
  <1>9. CASE ReactivateCancelled(i, inv.version)
    <2>1. invoice' \in [InvoiceIds -> Invoice]
      BY <1>0, <1>9, StampedRow, OneRowType DEF ReactivateCancelled, Statuses
    <2> QED BY <1>9, <2>1 DEF ReactivateCancelled, TypeOK, stockVars, bookVars
  <1>10. CASE DeleteCancelled(i)
    <2>1. invoice' \in [InvoiceIds -> Invoice]
      BY <1>10, EmptyRow, OneRowType DEF DeleteCancelled
    <2> QED BY <1>10, <2>1 DEF DeleteCancelled, TypeOK, stockVars, bookVars
  <1>11. ASSUME NEW cartons \in [Products -> ReturnInputs \cup {0}], CreateReturn(i, cartons)
         PROVE  TypeOK'
    <2> DEFINE credit == CreditOf(inv, cartons)
    <2>1. /\ credit \in 1..MaxTotal /\ MoveStock(i, cartons) /\ Book(i, -credit)
          /\ invoice' = [invoice EXCEPT ![i] = Credited(inv, cartons, credit)]
      BY <1>11, Zenon DEF CreateReturn
    <2>2. cartons \in [Products -> Nat] /\ cartons \in [Products -> Int]
      BY CartonsType
    <2> HIDE DEF credit
    <2>3. credit \in Nat /\ -credit \in Int
      BY <2>1
    <2>4. Credited(inv, cartons, credit) \in Invoice
      BY <1>0, <2>2, <2>3, CreditedRow, Zenon
    <2>5. invoice' \in [InvoiceIds -> Invoice]
      BY <2>1, <2>4, OneRowType
    <2>6. /\ product' \in [Products -> Product]
          /\ correction' \in [Products -> Int]
          /\ movement' \in [InvoiceIds -> [Products -> Int]]
          /\ ledger' \in [InvoiceIds -> Int]
      BY <2>1, <2>2, <2>3, MoveStockType, BookType
    <2> QED BY <1>11, <2>5, <2>6 DEF CreateReturn, TypeOK
  <1>12. ASSUME NEW amount \in PaymentInputs, CreatePayment(i, amount) PROVE TypeOK'
    <2> DEFINE row == [inv EXCEPT !.paid = @ + amount]
    <2>1. invoice' = [invoice EXCEPT ![i] = row]
      BY <1>12, Zenon DEF CreatePayment
    <2>2. amount \in Nat
      BY InputsAssumption
    <2>3. row \in Invoice
      BY <1>0, <2>2, PaidRow, Zenon
    <2> HIDE DEF row
    <2>4. invoice' \in [InvoiceIds -> Invoice]
      BY <2>1, <2>3, OneRowType
    <2> QED BY <1>12, <2>4 DEF CreatePayment, TypeOK, stockVars, bookVars
  <1> QED BY <1>1, <1>2, <1>3, <1>5, <1>6, <1>7, <1>8, <1>9, <1>10, <1>11, <1>12

LEMMA DetachedRow ==
  ASSUME NEW inv \in Invoice,
         NEW row, row = [inv EXCEPT !.client = NoClient, !.paid = 0]
  PROVE  /\ row \in Invoice
         /\ row.client = NoClient /\ row.paid = 0
         /\ row.status = inv.status /\ row.doc = inv.doc /\ row.number = inv.number
         /\ row.items = inv.items /\ row.total = inv.total
         /\ row.returned = inv.returned /\ row.returnedMinor = inv.returnedMinor
  BY DEF Invoice

LEMMA ClientTypeOK == TypeOK /\ ClientNext => TypeOK'
  <1> SUFFICES ASSUME TypeOK, ClientNext PROVE TypeOK'
    OBVIOUS
  <1>1. ASSUME NEW c \in Clients, NEW in \in ClientInputs, CreateClient(c, in)
        PROVE  TypeOK'
    <2> DEFINE account == [NoAccount EXCEPT !.row = "live", !.active = TRUE]
    <2>1. client' = [client EXCEPT ![c] = Applied(in, account)]
      BY <1>1, Zenon DEF CreateClient
    <2>2. account \in Client
      BY DEF NoAccount, Client, Rows
    <2>3. Applied(in, account) \in Client
      BY <2>2, AppliedRow
    <2> HIDE DEF account
    <2>4. client' \in [Clients -> Client]
      BY <2>1, <2>3 DEF TypeOK
    <2> QED BY <1>1, <2>4 DEF CreateClient, TypeOK, stockVars, bookVars
  <1>2. ASSUME NEW c \in Clients, NEW in \in ClientInputs, UpdateClient(c, in)
        PROVE  TypeOK'
    <2>1. Applied(in, client[c]) \in Client
      BY AppliedRow DEF TypeOK
    <2>2. client' \in [Clients -> Client]
      BY <1>2, <2>1 DEF UpdateClient, TypeOK
    <2> QED BY <1>2, <2>2 DEF UpdateClient, TypeOK, stockVars, bookVars
  <1>3. ASSUME NEW c \in Clients, DeleteClientAssociations(c) PROVE TypeOK'
    <2> DEFINE owned == {i \in InvoiceIds : invoice[i].client = c}
               row(i) == [invoice[i] EXCEPT !.client = NoClient, !.paid = 0]
               gone == [NoReceipt EXCEPT !.row = "deleted"]
    <2>1. /\ invoice' = [i \in InvoiceIds |-> IF i \in owned THEN row(i) ELSE invoice[i]]
          /\ ledger' = [i \in InvoiceIds |-> IF i \in owned THEN 0 ELSE ledger[i]]
          /\ receipt' = [r \in ReceiptIds |->
                           IF receipt[r].client = c THEN gone ELSE receipt[r]]
      BY <1>3, Zenon DEF DeleteClientAssociations, InvoicesOf
    <2>2. \A i \in InvoiceIds : row(i) \in Invoice
      BY DetachedRow DEF TypeOK
    <2>3. gone \in Receipt
      BY DEF NoReceipt, Receipt, Rows
    <2> HIDE DEF owned, row, gone
    <2>4. invoice' \in [InvoiceIds -> Invoice]
      BY <2>1, <2>2 DEF TypeOK
    <2>5. ledger' \in [InvoiceIds -> Int]
      BY <2>1 DEF TypeOK
    <2>6. receipt' \in [ReceiptIds -> Receipt]
      BY <2>1, <2>3 DEF TypeOK
    <2> QED BY <1>3, <2>4, <2>5, <2>6 DEF DeleteClientAssociations, TypeOK, stockVars
  <1>4. ASSUME NEW c \in Clients, DeleteClient(c) PROVE TypeOK'
    <2>1. [NoAccount EXCEPT !.row = "deleted"] \in Client
      BY DEF NoAccount, Client, Rows
    <2>2. client' \in [Clients -> Client]
      BY <1>4, <2>1 DEF DeleteClient, TypeOK
    <2> QED BY <1>4, <2>2 DEF DeleteClient, TypeOK, stockVars, bookVars
  <1>5. ASSUME NEW r \in ReceiptIds, NEW c \in Clients, NEW in \in ReceiptInputs,
               CreateReceipt(r, c, in)
        PROVE  TypeOK'
    <2> DEFINE row == [row |-> "live", client |-> c, direction |-> in.direction,
                       amount |-> in.amount]
    <2>1. receipt' = [receipt EXCEPT ![r] = row]
      BY <1>5, Zenon DEF CreateReceipt
    <2>2. row \in Receipt
      BY InputsAssumption DEF Receipt, Rows
    <2> HIDE DEF row
    <2>3. receipt' \in [ReceiptIds -> Receipt]
      BY <2>1, <2>2 DEF TypeOK
    <2> QED BY <1>5, <2>3 DEF CreateReceipt, TypeOK, stockVars, bookVars
  <1>6. ASSUME NEW r \in ReceiptIds, NEW in \in ReceiptInputs, UpdateReceipt(r, in)
        PROVE  TypeOK'
    <2> DEFINE row == [receipt[r] EXCEPT !.direction = in.direction, !.amount = in.amount]
    <2>1. receipt' = [receipt EXCEPT ![r] = row]
      BY <1>6, Zenon DEF UpdateReceipt
    <2>2. row \in Receipt
      <3>1. in.direction \in {"in", "out"} /\ in.amount \in Nat
        BY InputsAssumption
      <3>2. receipt[r] \in Receipt
        BY DEF TypeOK
      <3> QED BY <3>1, <3>2 DEF Receipt
    <2> HIDE DEF row
    <2>3. receipt' \in [ReceiptIds -> Receipt]
      BY <2>1, <2>2 DEF TypeOK
    <2> QED BY <1>6, <2>3 DEF UpdateReceipt, TypeOK, stockVars, bookVars
  <1>7. ASSUME NEW r \in ReceiptIds, DeleteReceipt(r) PROVE TypeOK'
    <2>1. [NoReceipt EXCEPT !.row = "deleted"] \in Receipt
      BY DEF NoReceipt, Receipt, Rows
    <2>2. receipt' \in [ReceiptIds -> Receipt]
      BY <1>7, <2>1 DEF DeleteReceipt, TypeOK
    <2> QED BY <1>7, <2>2 DEF DeleteReceipt, TypeOK, stockVars, bookVars
  <1> QED BY <1>1, <1>2, <1>3, <1>4, <1>5, <1>6, <1>7, Zenon DEF ClientNext

LEMMA TenantTypeOK == TypeOK /\ TenantNext => TypeOK'
  <1>1. TenantInputs \subseteq BOOLEAN
    BY InputsAssumption
  <1> QED BY <1>1 DEF TenantNext, UpdateTenant, TypeOK, stockVars, bookVars

LEMMA TypeStep == TypeOK /\ [Next]_vars => TypeOK'
  <1> SUFFICES ASSUME TypeOK, [Next]_vars PROVE TypeOK'
    OBVIOUS
  <1>1. CASE Next
    BY <1>1, TenantTypeOK, ProductTypeOK, InvoiceTypeOK, ClientTypeOK DEF Next
  <1>2. CASE UNCHANGED vars
    BY <1>2 DEF TypeOK, vars, stockVars, bookVars
  <1> QED BY <1>1, <1>2

\* Every reachable state of the back end has the types of TypeOK, whatever the
\* requests: in particular stock and invoice totals stay within the limits that
\* MySQL's CHECK constraints state (ck_product_numbers, ck_invoice_money).
THEOREM TypeCorrect == Spec => []TypeOK
  BY InitTypeOK, TypeStep, PTL DEF Spec

-----------------------------------------------------------------------------
(***************************************************************************)
(* References.  With TypeOK, NoDanglingRows is inductive.  An invoice is   *)
(* Grounded when the rows it refers to are live, a receipt is Held when    *)
(* its client is.  A handler that writes one invoice has to ground that    *)
(* row and to leave products and clients live; a handler that deletes a    *)
(* product or a client has to look at every invoice.                       *)
(***************************************************************************)

Refers(inv, liveProducts, liveClients) ==
  /\ \A p \in Products :
       inv.items[p].qty > 0 \/ inv.returned[p] > 0 => p \in liveProducts
  /\ inv.client # NoClient => inv.client \in liveClients
  /\ inv.returnsClient # NoClient => inv.returnsClient \in liveClients

LiveProducts == {p \in Products : product[p].row = "live"}
LiveClients  == {c \in Clients : client[c].row = "live"}

Grounded == \A i \in InvoiceIds : Refers(invoice[i], LiveProducts, LiveClients)

Held == \A r \in ReceiptIds : receipt[r].row = "live" => receipt[r].client \in LiveClients

References == TypeOK /\ Grounded /\ Held

LEMMA ReferencesSuffice == References => NoDanglingRows
  <1> SUFFICES ASSUME References PROVE NoDanglingRows
    OBVIOUS
  <1>1. ASSUME NEW i \in InvoiceIds
        PROVE  /\ \A p \in Products :
                    invoice[i].items[p].qty > 0 \/ invoice[i].returned[p] > 0
                      => product[p].row = "live"
               /\ \A c \in {invoice[i].client, invoice[i].returnsClient} \ {NoClient} :
                    client[c].row = "live"
    BY DEF References, Grounded, Refers, LiveProducts, LiveClients
  <1>2. ASSUME NEW r \in ReceiptIds, receipt[r].row = "live"
        PROVE  receipt[r].client # NoClient /\ client[receipt[r].client].row = "live"
    BY <1>2, IdsAssumption DEF References, Held, LiveClients
  <1> QED BY <1>1, <1>2 DEF NoDanglingRows

-----------------------------------------------------------------------------
(***************************************************************************)
(* Handlers that write one invoice.                                        *)
(***************************************************************************)

LEMMA OneRowReferences ==
  ASSUME References, NEW i \in InvoiceIds, NEW row,
         invoice' = [invoice EXCEPT ![i] = row],
         Refers(row, LiveProducts, LiveClients),
         LiveProducts' = LiveProducts, LiveClients' = LiveClients, receipt' = receipt
  PROVE  Grounded' /\ Held'
  <1>1. invoice'[i] = row /\ \A j \in InvoiceIds \ {i} : invoice'[j] = invoice[j]
    BY DEF References, TypeOK
  <1>2. Grounded'
    BY <1>1 DEF References, Grounded
  <1>3. Held'
    BY DEF References, Held
  <1> QED BY <1>2, <1>3

\* A stock movement neither deletes nor creates a product, and touches only
\* live ones.
LEMMA MoveStockRows ==
  ASSUME TypeOK, NEW i \in InvoiceIds, NEW delta, MoveStock(i, delta)
  PROVE  /\ LiveProducts' = LiveProducts
         /\ \A p \in Products : delta[p] # 0 => p \in LiveProducts
  <1>1. \A p \in Products : delta[p] # 0 => p \in LiveProducts
    BY DEF MoveStock, CanMove, LiveProducts
  <1>2. ASSUME NEW p \in Products PROVE product'[p].row = product[p].row
    <2>1. product[p] \in Product
      BY DEF TypeOK
    <2>2. product'[p] = IF delta[p] = 0 THEN product[p] ELSE Restocked(product[p], delta[p])
      BY DEF MoveStock
    <2>3. Restocked(product[p], delta[p]).row = product[p].row
      BY <2>1 DEF Restocked, Product
    <2> QED BY <2>2, <2>3
  <1>3. LiveProducts' = LiveProducts
    BY <1>2 DEF LiveProducts
  <1> QED BY <1>1, <1>3

\* The lines and the client of a body that saveInvoice takes.
LEMMA SentReferences ==
  ASSUME TypeOK, NEW c \in Clients, NEW lines \in LineForms, NEW kept,
         CanInvoice(c, lines, kept)
  PROVE  /\ c \in LiveClients
         /\ \A p \in Products : ItemsOf(lines)[p].qty > 0 => p \in LiveProducts
  BY DEF CanInvoice, ActiveClient, LiveClients, LiveProducts, ItemsOf

LEMMA RewrittenReferences ==
  ASSUME TypeOK, NEW inv \in Invoice, Refers(inv, LiveProducts, LiveClients),
         NEW c \in Clients, NEW doc \in DocumentTypes, NEW lines \in LineForms,
         NEW kept, CanInvoice(c, lines, kept)
  PROVE  Refers(Rewritten(inv, c, doc, lines), LiveProducts, LiveClients)
  <1> DEFINE row == Rewritten(inv, c, doc, lines)
  <1>1. TotalOf(lines) \in 0..MaxTotal
    BY Zenon DEF CanInvoice
  <1>2. row = Rewritten(inv, c, doc, lines)
    OBVIOUS
  <1> HIDE DEF row
  <1>3. /\ row.client = c /\ row.returnsClient = inv.returnsClient
        /\ row.items = ItemsOf(lines) /\ row.returned = inv.returned
    BY <1>1, <1>2, RewrittenRow
  <1>4. Refers(row, LiveProducts, LiveClients)
    BY <1>3, SentReferences DEF Refers
  <1> QED BY <1>4 DEF row

LEMMA StampedReferences ==
  ASSUME NEW inv \in Invoice, NEW s \in Statuses, NEW ps, NEW cs, Refers(inv, ps, cs)
  PROVE  Refers(Stamped(inv, s), ps, cs)
  <1> DEFINE row == Stamped(inv, s)
  <1>1. /\ row.client = inv.client /\ row.returnsClient = inv.returnsClient
        /\ row.items = inv.items /\ row.returned = inv.returned
    BY StampedRow, Zenon
  <1> HIDE DEF row
  <1>2. Refers(row, ps, cs)
    BY <1>1 DEF Refers
  <1> QED BY <1>2 DEF row

LEMMA InvoiceReferences ==
  ASSUME References, InvoiceNext
  PROVE  Grounded' /\ Held'
  <1> SUFFICES ASSUME NEW i \in InvoiceIds,
        \/ \E c \in Clients, doc \in DocumentTypes, lines \in LineForms :
              \/ CreateInvoice(i, c, doc, lines)
              \/ UpdateDraft(i, invoice[i].version, c, doc, lines)
              \/ EditPosted(i, invoice[i].version, c, doc, lines)
        \/ PostInvoice(i, invoice[i].version)
        \/ VoidInvoice(i, invoice[i].version)
        \/ ReactivateVoid(i, invoice[i].version)
        \/ CancelInvoice(i, invoice[i].version)
        \/ ReactivateCancelled(i, invoice[i].version)
        \/ DeleteCancelled(i)
        \/ \E cartons \in [Products -> ReturnInputs \cup {0}] : CreateReturn(i, cartons)
        \/ \E amount \in PaymentInputs : CreatePayment(i, amount)
               PROVE  Grounded' /\ Held'
    BY Zenon DEF InvoiceNext
  <1> DEFINE inv == invoice[i]
  <1>0. TypeOK /\ inv \in Invoice /\ Refers(inv, LiveProducts, LiveClients)
    BY DEF References, TypeOK, Grounded
  <1>1. ASSUME NEW c \in Clients, NEW doc \in DocumentTypes, NEW lines \in LineForms,
               CreateInvoice(i, c, doc, lines)
        PROVE  Grounded' /\ Held'
    <2> DEFINE row == [NoInvoice EXCEPT !.status = "draft", !.doc = doc, !.client = c,
                         !.items = ItemsOf(lines), !.total = TotalOf(lines), !.version = 1]
    <2>1. CanInvoice(c, lines, {}) /\ invoice' = [invoice EXCEPT ![i] = row]
      BY <1>1, Zenon DEF CreateInvoice
    <2>2. /\ row.client = c /\ row.returnsClient = NoClient /\ row.items = ItemsOf(lines)
          /\ \A p \in Products : row.returned[p] = 0
      BY DEF NoInvoice
    <2> HIDE DEF row
    <2>3. Refers(row, LiveProducts, LiveClients)
      BY <1>0, <2>1, <2>2, SentReferences DEF Refers
    <2>4. LiveProducts' = LiveProducts /\ LiveClients' = LiveClients /\ receipt' = receipt
      BY <1>1 DEF CreateInvoice, stockVars, LiveProducts, LiveClients
    <2> QED BY <2>1, <2>3, <2>4, OneRowReferences
  <1>2. ASSUME NEW c \in Clients, NEW doc \in DocumentTypes, NEW lines \in LineForms,
               UpdateDraft(i, inv.version, c, doc, lines)
        PROVE  Grounded' /\ Held'
    <2> DEFINE row == Rewritten(inv, c, doc, lines)
    <2>1. CanInvoice(c, lines, {}) /\ invoice' = [invoice EXCEPT ![i] = row]
      BY <1>2, Zenon DEF UpdateDraft
    <2>2. Refers(row, LiveProducts, LiveClients)
      BY <1>0, <2>1, RewrittenReferences
    <2>3. LiveProducts' = LiveProducts /\ LiveClients' = LiveClients /\ receipt' = receipt
      BY <1>2 DEF UpdateDraft, stockVars, LiveProducts, LiveClients
    <2> HIDE DEF row
    <2> QED BY <2>1, <2>2, <2>3, OneRowReferences
  <1>3. ASSUME NEW c \in Clients, NEW doc \in DocumentTypes, NEW lines \in LineForms,
               EditPosted(i, inv.version, c, doc, lines)
        PROVE  Grounded' /\ Held'
    <2> DEFINE row   == Rewritten(inv, c, doc, lines)
               delta == [p \in Products |-> StockOf(doc, lines[p].qty - inv.items[p].qty)]
    <2>1. /\ CanInvoice(c, lines, OnInvoice(inv)) /\ invoice' = [invoice EXCEPT ![i] = row]
          /\ MoveStock(i, delta) /\ client' = client /\ receipt' = receipt
      BY <1>3, Zenon DEF EditPosted
    <2>2. Refers(row, LiveProducts, LiveClients)
      BY <1>0, <2>1, RewrittenReferences
    <2> HIDE DEF row, delta
    <2>3. LiveProducts' = LiveProducts /\ LiveClients' = LiveClients
      BY <1>0, <2>1, MoveStockRows DEF LiveClients
    <2> QED BY <2>1, <2>2, <2>3, OneRowReferences
  <1>4. ASSUME BookInvoice(i), client' = client
        PROVE  LiveProducts' = LiveProducts /\ LiveClients' = LiveClients
    <2> DEFINE delta == [p \in Products |-> StockOf(inv.doc, inv.items[p].qty)]
    <2>1. MoveStock(i, delta)
      BY <1>4, Zenon DEF BookInvoice
    <2> HIDE DEF delta
    <2> QED BY <1>0, <1>4, <2>1, MoveStockRows DEF LiveClients
  <1>5. ASSUME NEW s \in Statuses, invoice' = [invoice EXCEPT ![i] = Stamped(inv, s)],
               LiveProducts' = LiveProducts, LiveClients' = LiveClients, receipt' = receipt
        PROVE  Grounded' /\ Held'
    <2> DEFINE row == Stamped(inv, s)
    <2>1. Refers(row, LiveProducts, LiveClients)
      BY <1>0, StampedReferences
    <2>2. invoice' = [invoice EXCEPT ![i] = row]
      BY <1>5
    <2> HIDE DEF row
    <2> QED BY <1>5, <2>1, <2>2, OneRowReferences
  <1>6. CASE PostInvoice(i, inv.version)
    <2> DEFINE mid == Stamped(inv, "posted")
               row == [mid EXCEPT !.number = nextNumber]
    <2>1. /\ invoice' = [invoice EXCEPT ![i] = row] /\ BookInvoice(i)
          /\ client' = client /\ receipt' = receipt
      BY <1>6, Zenon DEF PostInvoice
    <2>2. mid \in Invoice /\ Refers(mid, LiveProducts, LiveClients) /\ nextNumber \in Nat
      BY <1>0, StampedRow, StampedReferences DEF Statuses, TypeOK
    <2> HIDE DEF mid
    <2>3. /\ row.client = mid.client /\ row.returnsClient = mid.returnsClient
          /\ row.items = mid.items /\ row.returned = mid.returned
      BY <2>2, NumberedRow
    <2> HIDE DEF row
    <2>4. Refers(row, LiveProducts, LiveClients)
      BY <2>2, <2>3 DEF Refers
    <2> QED BY <1>4, <2>1, <2>4, OneRowReferences
  <1>7. CASE VoidInvoice(i, inv.version)
    <2> DEFINE delta == [p \in Products |-> -StockOf(inv.doc, inv.items[p].qty)]
    <2>1. /\ invoice' = [invoice EXCEPT ![i] = Stamped(inv, "void")]
          /\ MoveStock(i, delta) /\ client' = client /\ receipt' = receipt
      BY <1>7, Zenon DEF VoidInvoice
    <2> HIDE DEF delta
    <2>2. LiveProducts' = LiveProducts /\ LiveClients' = LiveClients
      BY <1>0, <2>1, MoveStockRows DEF LiveClients
    <2> QED BY <1>5, <2>1, <2>2 DEF Statuses
  <1>8. CASE ReactivateVoid(i, inv.version)
    <2>1. /\ invoice' = [invoice EXCEPT ![i] = Stamped(inv, "posted")]
          /\ BookInvoice(i) /\ client' = client /\ receipt' = receipt
      BY <1>8, Zenon DEF ReactivateVoid
    <2> QED BY <1>4, <1>5, <2>1 DEF Statuses
  <1>9. CASE CancelInvoice(i, inv.version)
    <2>1. /\ invoice' = [invoice EXCEPT ![i] = Stamped(inv, "cancelled")]
          /\ LiveProducts' = LiveProducts /\ LiveClients' = LiveClients /\ receipt' = receipt
      BY <1>9 DEF CancelInvoice, stockVars, LiveProducts, LiveClients
    <2> QED BY <1>5, <2>1 DEF Statuses
  <1>10. CASE ReactivateCancelled(i, inv.version)
    <2>1. /\ invoice' = [invoice EXCEPT ![i] = Stamped(inv, "draft")]
          /\ LiveProducts' = LiveProducts /\ LiveClients' = LiveClients /\ receipt' = receipt
      BY <1>10 DEF ReactivateCancelled, stockVars, LiveProducts, LiveClients
    <2> QED BY <1>5, <2>1 DEF Statuses
  <1>11. CASE DeleteCancelled(i)
    <2> DEFINE row == [NoInvoice EXCEPT !.status = "deleted"]
    <2>1. /\ invoice' = [invoice EXCEPT ![i] = row]
          /\ LiveProducts' = LiveProducts /\ LiveClients' = LiveClients /\ receipt' = receipt
      BY <1>11 DEF DeleteCancelled, stockVars, LiveProducts, LiveClients
    <2>2. Refers(row, LiveProducts, LiveClients)
      BY DEF NoInvoice, NoItem, Refers
    <2> HIDE DEF row
    <2> QED BY <2>1, <2>2, OneRowReferences
  <1>12. ASSUME NEW cartons \in [Products -> ReturnInputs \cup {0}], CreateReturn(i, cartons)
         PROVE  Grounded' /\ Held'
    <2> DEFINE credit == CreditOf(inv, cartons)
               row    == Credited(inv, cartons, credit)
    <2>1. /\ invoice' = [invoice EXCEPT ![i] = row] /\ credit \in 1..MaxTotal
          /\ MoveStock(i, cartons) /\ client' = client /\ receipt' = receipt
      BY <1>12, Zenon DEF CreateReturn
    <2>2. cartons \in [Products -> Nat]
      BY CartonsType
    <2>3. row = Credited(inv, cartons, credit)
      OBVIOUS
    <2> HIDE DEF credit, row
    <2>4. credit \in Nat
      BY <2>1
    <2>5. /\ row.client = inv.client /\ row.returnsClient = inv.client
          /\ row.items = inv.items
          /\ row.returned = [p \in Products |-> inv.returned[p] + cartons[p]]
      BY <1>0, <2>2, <2>3, <2>4, CreditedRow
    <2>6. /\ LiveProducts' = LiveProducts /\ LiveClients' = LiveClients
          /\ \A p \in Products : cartons[p] # 0 => p \in LiveProducts
      BY <1>0, <2>1, MoveStockRows DEF LiveClients
    <2>7. \A p \in Products : row.returned[p] > 0 => inv.returned[p] > 0 \/ cartons[p] # 0
      <3>1. \A p \in Products : inv.returned[p] \in Nat
        BY <1>0 DEF Invoice
      <3> QED BY <2>2, <2>5, <3>1
    <2>8. Refers(row, LiveProducts, LiveClients)
      BY <1>0, <2>5, <2>6, <2>7 DEF Refers
    <2> QED BY <2>1, <2>6, <2>8, OneRowReferences
  <1>13. ASSUME NEW amount \in PaymentInputs, CreatePayment(i, amount)
         PROVE  Grounded' /\ Held'
    <2> DEFINE row == [inv EXCEPT !.paid = @ + amount]
    <2>1. invoice' = [invoice EXCEPT ![i] = row]
      BY <1>13, Zenon DEF CreatePayment
    <2>2. /\ row.client = inv.client /\ row.returnsClient = inv.returnsClient
          /\ row.items = inv.items /\ row.returned = inv.returned
      BY <1>0 DEF Invoice
    <2> HIDE DEF row
    <2>3. Refers(row, LiveProducts, LiveClients)
      BY <1>0, <2>2 DEF Refers
    <2>4. LiveProducts' = LiveProducts /\ LiveClients' = LiveClients /\ receipt' = receipt
      BY <1>13 DEF CreatePayment, stockVars, LiveProducts, LiveClients
    <2> QED BY <2>1, <2>3, <2>4, OneRowReferences
  <1> QED BY <1>1, <1>2, <1>3, <1>6, <1>7, <1>8, <1>9, <1>10, <1>11, <1>12, <1>13

-----------------------------------------------------------------------------
(***************************************************************************)
(* Handlers that leave the invoices alone, and the two that delete what an *)
(* invoice may refer to.                                                   *)
(***************************************************************************)

\* No invoice changes and no row that was live goes, but for rows nobody
\* refers to.
LEMMA SameReferences ==
  ASSUME References, invoice' = invoice, receipt' = receipt,
         \A p \in LiveProducts : Referenced(p) => p \in LiveProducts',
         \A c \in LiveClients : HasRows(c) => c \in LiveClients'
  PROVE  Grounded' /\ Held'
  <1>1. ASSUME NEW i \in InvoiceIds PROVE Refers(invoice[i], LiveProducts', LiveClients')
    <2>1. Refers(invoice[i], LiveProducts, LiveClients)
      BY DEF References, Grounded
    <2>2. \A p \in Products :
            invoice[i].items[p].qty > 0 \/ invoice[i].returned[p] > 0 => Referenced(p)
      BY DEF Referenced
    <2>3. \A c \in {invoice[i].client, invoice[i].returnsClient} : HasRows(c)
      BY DEF HasRows
    <2> QED BY <2>1, <2>2, <2>3 DEF Refers
  <1>2. ASSUME NEW r \in ReceiptIds, receipt[r].row = "live"
        PROVE  receipt[r].client \in LiveClients'
    <2>1. receipt[r].client \in LiveClients /\ HasRows(receipt[r].client)
      BY <1>2 DEF References, Held, HasRows
    <2> QED BY <2>1
  <1> QED BY <1>1, <1>2 DEF Grounded, Held

LEMMA ProductReferences ==
  ASSUME References, ProductNext
  PROVE  Grounded' /\ Held'
  <1> SUFFICES ASSUME NEW p \in Products,
                      \/ \E in \in ProductInputs : CreateProduct(p, in)
                      \/ \E in \in ProductInputs : UpdateProduct(p, product[p].version, in)
                      \/ DeleteProduct(p)
               PROVE  Grounded' /\ Held'
    BY DEF ProductNext
  <1>0. product[p] \in Product /\ product \in [Products -> Product]
    BY DEF References, TypeOK
  <1>1. ASSUME NEW in \in ProductInputs, CreateProduct(p, in) PROVE Grounded' /\ Held'
    <2>1. LiveProducts \subseteq LiveProducts'
      BY <1>0, <1>1 DEF CreateProduct, LiveProducts
    <2>2. LiveClients' = LiveClients /\ invoice' = invoice /\ receipt' = receipt
      BY <1>1 DEF CreateProduct, LiveClients
    <2> QED BY <2>1, <2>2, SameReferences
  <1>2. ASSUME NEW in \in ProductInputs, UpdateProduct(p, product[p].version, in)
        PROVE  Grounded' /\ Held'
    <2> DEFINE row == [product[p] EXCEPT !.active = Given(in.active, @),
                         !.quantity = Given(in.quantity, @),
                         !.pieces = Given(in.pieces, @), !.version = @ + 1]
    <2>1. product' = [product EXCEPT ![p] = row]
      BY <1>2, Zenon DEF UpdateProduct
    <2>2. row.row = product[p].row
      BY <1>0 DEF Product
    <2> HIDE DEF row
    <2>3. LiveProducts \subseteq LiveProducts'
      BY <1>0, <2>1, <2>2 DEF LiveProducts
    <2>4. LiveClients' = LiveClients /\ invoice' = invoice /\ receipt' = receipt
      BY <1>2 DEF UpdateProduct, LiveClients
    <2> QED BY <2>3, <2>4, SameReferences
  <1>3. CASE DeleteProduct(p)
    <2>1. /\ product' = [product EXCEPT ![p] = [NoProduct EXCEPT !.row = "deleted"]]
          /\ ~Referenced(p) /\ client' = client /\ invoice' = invoice /\ receipt' = receipt
      BY <1>3 DEF DeleteProduct
    <2>2. \A q \in LiveProducts \ {p} : q \in LiveProducts'
      BY <1>0, <2>1 DEF LiveProducts
    <2>3. LiveClients' = LiveClients
      BY <2>1 DEF LiveClients
    <2> QED BY <2>1, <2>2, <2>3, SameReferences
  <1> QED BY <1>1, <1>2, <1>3

LEMMA ClientReferences ==
  ASSUME References, ClientNext
  PROVE  Grounded' /\ Held'
  <1>0. TypeOK /\ client \in [Clients -> Client]
    BY DEF References, TypeOK
  <1>1. ASSUME NEW c \in Clients, NEW in \in ClientInputs,
               CreateClient(c, in) \/ UpdateClient(c, in)
        PROVE  Grounded' /\ Held'
    <2>1. PICK account \in Client :
            client' = [client EXCEPT ![c] = Applied(in, account)] /\ account.row = "live"
      <3>1. CASE CreateClient(c, in)
        <4> DEFINE account == [NoAccount EXCEPT !.row = "live", !.active = TRUE]
        <4>1. account \in Client /\ account.row = "live"
          BY DEF NoAccount, Client, Rows
        <4>2. client' = [client EXCEPT ![c] = Applied(in, account)]
          BY <3>1, Zenon DEF CreateClient
        <4> HIDE DEF account
        <4> QED BY <4>1, <4>2
      <3>2. CASE UpdateClient(c, in)
        BY <1>0, <3>2 DEF UpdateClient
      <3> QED BY <1>1, <3>1, <3>2
    <2>2. Applied(in, account).row = "live"
      BY <2>1 DEF Applied, Client
    <2>3. LiveClients \subseteq LiveClients'
      BY <1>0, <2>1, <2>2 DEF LiveClients
    <2>4. LiveProducts' = LiveProducts /\ invoice' = invoice /\ receipt' = receipt
      BY <1>1 DEF CreateClient, UpdateClient, stockVars, LiveProducts
    <2> QED BY <2>3, <2>4, SameReferences
  <1>2. ASSUME NEW c \in Clients, DeleteClientAssociations(c) PROVE Grounded' /\ Held'
    <2> DEFINE owned  == {i \in InvoiceIds : invoice[i].client = c}
               row(i) == [invoice[i] EXCEPT !.client = NoClient, !.paid = 0]
               gone   == [NoReceipt EXCEPT !.row = "deleted"]
    <2>1. /\ invoice' = [i \in InvoiceIds |-> IF i \in owned THEN row(i) ELSE invoice[i]]
          /\ receipt' = [r \in ReceiptIds |->
                           IF receipt[r].client = c THEN gone ELSE receipt[r]]
      BY <1>2, Zenon DEF DeleteClientAssociations, InvoicesOf
    <2>2. ASSUME NEW i \in InvoiceIds
          PROVE  /\ row(i).client = NoClient
                 /\ row(i).returnsClient = invoice[i].returnsClient
                 /\ row(i).items = invoice[i].items /\ row(i).returned = invoice[i].returned
      BY <1>0 DEF TypeOK, Invoice
    <2>3. gone.row # "live"
      BY DEF NoReceipt
    <2>4. LiveProducts' = LiveProducts /\ LiveClients' = LiveClients
      BY <1>2 DEF DeleteClientAssociations, stockVars, LiveProducts, LiveClients
    <2> HIDE DEF owned, row, gone
    <2>5. ASSUME NEW i \in InvoiceIds
          PROVE  Refers(invoice'[i], LiveProducts, LiveClients)
      <3>1. Refers(invoice[i], LiveProducts, LiveClients)
        BY DEF References, Grounded
      <3>2. Refers(row(i), LiveProducts, LiveClients)
        BY <2>2, <3>1 DEF Refers
      <3> QED BY <2>1, <3>1, <3>2
    <2>6. Held'
      BY <2>1, <2>3, <2>4 DEF References, Held
    <2> QED BY <2>4, <2>5, <2>6 DEF Grounded
  <1>3. ASSUME NEW c \in Clients, DeleteClient(c) PROVE Grounded' /\ Held'
    <2>1. /\ client' = [client EXCEPT ![c] = [NoAccount EXCEPT !.row = "deleted"]]
          /\ ~HasRows(c) /\ product' = product /\ invoice' = invoice /\ receipt' = receipt
      BY <1>3, Zenon DEF DeleteClient, stockVars
    <2>2. \A d \in LiveClients \ {c} : d \in LiveClients'
      BY <1>0, <2>1 DEF LiveClients
    <2>3. LiveProducts' = LiveProducts
      BY <2>1 DEF LiveProducts
    <2> QED BY <2>1, <2>2, <2>3, SameReferences
  <1>4. ASSUME NEW r \in ReceiptIds, NEW c \in Clients, NEW in \in ReceiptInputs,
               CreateReceipt(r, c, in)
        PROVE  Grounded' /\ Held'
    <2>1. /\ client[c].row = "live"
          /\ receipt' = [receipt EXCEPT ![r] = [row |-> "live", client |-> c,
                           direction |-> in.direction, amount |-> in.amount]]
          /\ product' = product /\ client' = client /\ invoice' = invoice
      BY <1>4, Zenon DEF CreateReceipt, stockVars
    <2>2. receipt'[r].client = c /\ \A q \in ReceiptIds \ {r} : receipt'[q] = receipt[q]
      BY <1>0, <2>1 DEF TypeOK
    <2>3. LiveClients' = LiveClients /\ LiveProducts' = LiveProducts /\ c \in LiveClients
      BY <2>1 DEF LiveClients, LiveProducts
    <2> QED BY <2>1, <2>2, <2>3 DEF References, Grounded, Held
  <1>5. ASSUME NEW r \in ReceiptIds, NEW in \in ReceiptInputs, UpdateReceipt(r, in)
        PROVE  Grounded' /\ Held'
    <2> DEFINE row == [receipt[r] EXCEPT !.direction = in.direction, !.amount = in.amount]
    <2>1. /\ receipt' = [receipt EXCEPT ![r] = row] /\ receipt[r].row = "live"
          /\ product' = product /\ client' = client /\ invoice' = invoice
      BY <1>5, Zenon DEF UpdateReceipt, stockVars
    <2>2. row.client = receipt[r].client
      BY <1>0 DEF TypeOK, Receipt
    <2> HIDE DEF row
    <2>3. /\ receipt'[r].client = receipt[r].client
          /\ \A q \in ReceiptIds \ {r} : receipt'[q] = receipt[q]
      BY <1>0, <2>1, <2>2 DEF TypeOK
    <2>4. LiveClients' = LiveClients /\ LiveProducts' = LiveProducts
      BY <2>1 DEF LiveClients, LiveProducts
    <2> QED BY <2>1, <2>3, <2>4 DEF References, Grounded, Held
  <1>6. ASSUME NEW r \in ReceiptIds, DeleteReceipt(r) PROVE Grounded' /\ Held'
    <2>1. /\ receipt' = [receipt EXCEPT ![r] = [NoReceipt EXCEPT !.row = "deleted"]]
          /\ product' = product /\ client' = client /\ invoice' = invoice
      BY <1>6, Zenon DEF DeleteReceipt, stockVars
    <2>2. receipt'[r].row # "live" /\ \A q \in ReceiptIds \ {r} : receipt'[q] = receipt[q]
      BY <1>0, <2>1 DEF TypeOK, NoReceipt
    <2>3. LiveClients' = LiveClients /\ LiveProducts' = LiveProducts
      BY <2>1 DEF LiveClients, LiveProducts
    <2> QED BY <2>1, <2>2, <2>3 DEF References, Grounded, Held
  <1> QED BY <1>1, <1>2, <1>3, <1>4, <1>5, <1>6, Zenon DEF ClientNext

\* Deleting never pulls a row from under another: the products of invoice and
\* return lines and the clients of invoices, returns and receipts are there,
\* whatever is deleted, detached or posted (deleteProduct, deleteClient,
\* deleteClientAssociations and the foreign keys they meet).
THEOREM NoRowDangles == Spec => []NoDanglingRows
  <1>1. Init => References
    <2> SUFFICES ASSUME Init PROVE References
      OBVIOUS
    <2>1. ASSUME NEW i \in InvoiceIds
          PROVE  Refers(invoice[i], LiveProducts, LiveClients)
      BY DEF Init, NoInvoice, NoItem, Refers
    <2>2. Held
      BY DEF Init, NoReceipt, Held
    <2> QED BY <2>1, <2>2, InitTypeOK DEF References, Grounded
  <1>2. References /\ [Next]_vars => References'
    <2> SUFFICES ASSUME References, [Next]_vars PROVE Grounded' /\ Held'
      BY TypeStep DEF References
    <2>1. CASE TenantNext
      BY <2>1 DEF TenantNext, UpdateTenant, stockVars, References, Grounded, Held,
                  LiveProducts, LiveClients
    <2>2. CASE UNCHANGED vars
      BY <2>2 DEF vars, stockVars, References, Grounded, Held, LiveProducts, LiveClients
    <2> QED BY <2>1, <2>2, ProductReferences, InvoiceReferences, ClientReferences DEF Next
  <1> QED BY <1>1, <1>2, ReferencesSuffice, PTL DEF Spec

-----------------------------------------------------------------------------
(***************************************************************************)
(* Stock.  A handler that moves stock writes one movement of each product  *)
(* and changes its quantity by the same pieces: one summand of the history *)
(* changes, and by that much.  The other handlers change neither.          *)
(***************************************************************************)

\* The stock_movements rows of a product, by invoice.
Moved(p) == [i \in InvoiceIds |-> movement[i][p]]

History(p) == correction[p] + SumFunction(Moved(p))

\* The inductive form: of every product row, also of one not handed out yet and
\* of a deleted one; without a live row there is no stock.
EveryRowIsItsHistory ==
  \A p \in Products : /\ product[p].quantity = History(p)
                      /\ product[p].row # "live" => product[p].quantity = 0

StockLedger == TypeOK /\ EveryRowIsItsHistory

LEMMA MovedSum ==
  ASSUME TypeOK, NEW p \in Products
  PROVE  /\ SumFunction(Moved(p)) = SumFunctionOnSet(Moved(p), InvoiceIds)
         /\ SumFunction(Moved(p)) \in Int
         /\ \A i \in InvoiceIds : Moved(p)[i] = movement[i][p] /\ movement[i][p] \in Int
         /\ product[p].quantity \in Int /\ correction[p] \in Int
  <1>1. \A i \in InvoiceIds : Moved(p)[i] = movement[i][p] /\ movement[i][p] \in Int
    BY DEF Moved, TypeOK
  <1>2. SumFunction(Moved(p)) = SumFunctionOnSet(Moved(p), InvoiceIds)
    BY DEF SumFunction, Moved
  <1>3. SumFunctionOnSet(Moved(p), InvoiceIds) \in Int
    BY <1>1, IdsAssumption, SumIsInt
  <1>4. product[p].quantity \in Int /\ correction[p] \in Int
    BY LimitsAssumption DEF TypeOK, Product
  <1> QED BY <1>1, <1>2, <1>3, <1>4

\* A handler that writes an invoice moves the sum and the row together.
LEMMA MoveStockKeeps ==
  ASSUME StockLedger, NEW i \in InvoiceIds, NEW delta \in [Products -> Int],
         MoveStock(i, delta)
  PROVE  EveryRowIsItsHistory'
  <1>0. TypeOK /\ EveryRowIsItsHistory
    BY DEF StockLedger
  <1>1. /\ \A p \in Products : delta[p] # 0 => CanMove(product[p], delta[p])
        /\ product' = [p \in Products |->
              IF delta[p] = 0 THEN product[p] ELSE Restocked(product[p], delta[p])]
        /\ correction' = correction
    BY Zenon DEF MoveStock
  <1>2. /\ movement' \in [InvoiceIds -> [Products -> Int]]
        /\ movement' = [movement EXCEPT ![i] = [p \in Products |-> movement[i][p] + delta[p]]]
    BY <1>0, MoveStockType
  <1> SUFFICES ASSUME NEW p \in Products
               PROVE  /\ product'[p].quantity = History(p)'
                      /\ product'[p].row # "live" => product'[p].quantity = 0
    BY DEF EveryRowIsItsHistory
  <1>3. /\ product'[p].quantity = product[p].quantity + delta[p]
        /\ product'[p].row = product[p].row
        /\ delta[p] # 0 => product[p].row = "live"
    <2>1. product[p] \in Product /\ delta[p] \in Int
      BY <1>0 DEF TypeOK
    <2>2. CASE delta[p] = 0
      BY <1>1, <2>1, <2>2, LimitsAssumption DEF Product
    <2>3. CASE delta[p] # 0
      <3>1. product'[p] = Restocked(product[p], delta[p])
        BY <1>1, <2>3
      <3>2. product[p].row = "live"
        BY <1>1, <2>3 DEF CanMove
      <3> QED BY <2>1, <3>1, <3>2 DEF Restocked, Product
    <2> QED BY <2>2, <2>3
  <1>4. SumFunction(Moved(p))' = SumFunction(Moved(p)) + delta[p]
    <2> DEFINE f == Moved(p)
               g == Moved(p)'
    <2>1. /\ \A j \in InvoiceIds : f[j] \in Int /\ g[j] \in Int
          /\ \A j \in InvoiceIds \ {i} : g[j] = f[j]
          /\ g[i] = f[i] + delta[p] /\ f[i] \in Int /\ delta[p] \in Int
      BY <1>0, <1>2 DEF Moved, TypeOK
    <2>2. /\ SumFunction(f) = SumFunctionOnSet(f, InvoiceIds)
          /\ SumFunction(g) = SumFunctionOnSet(g, InvoiceIds)
      BY DEF SumFunction, Moved
    <2> HIDE DEF f, g
    <2>3. SumFunctionOnSet(g, InvoiceIds) = SumFunctionOnSet(f, InvoiceIds) + g[i] - f[i]
      BY <2>1, IdsAssumption, SumChangedOnce
    <2>4. SumFunctionOnSet(f, InvoiceIds) \in Int
      BY <2>1, IdsAssumption, SumIsInt
    <2>5. SumFunctionOnSet(g, InvoiceIds) = SumFunctionOnSet(f, InvoiceIds) + delta[p]
      BY <2>1, <2>3, <2>4
    <2> QED BY <2>2, <2>5 DEF f, g
  <1>5. product[p].quantity = correction[p] + SumFunction(Moved(p))
    BY <1>0 DEF EveryRowIsItsHistory, History
  <1>6. product'[p].quantity = correction'[p] + SumFunction(Moved(p))'
    BY <1>0, <1>1, <1>3, <1>4, <1>5, MovedSum
  <1>7. product[p].row # "live" => product[p].quantity = 0
    BY <1>0 DEF EveryRowIsItsHistory
  <1>8. product'[p].row # "live" => product'[p].quantity = 0
    BY <1>0, <1>3, <1>7, MovedSum
  <1> QED BY <1>6, <1>8 DEF History

LEMMA UnmovedKeeps ==
  ASSUME StockLedger, UNCHANGED stockVars
  PROVE  EveryRowIsItsHistory'
  BY DEF StockLedger, EveryRowIsItsHistory, History, Moved, stockVars

\* A manual change moves the row and its correction together.
LEMMA CorrectKeeps ==
  ASSUME StockLedger, NEW p \in Products, NEW row, row.quantity \in Int,
         row.row = "live", product' = [product EXCEPT ![p] = row],
         Correct(p, row.quantity - product[p].quantity), movement' = movement
  PROVE  EveryRowIsItsHistory'
  <1>0. TypeOK /\ EveryRowIsItsHistory
    BY DEF StockLedger
  <1> SUFFICES ASSUME NEW q \in Products
               PROVE  /\ product'[q].quantity = History(q)'
                      /\ product'[q].row # "live" => product'[q].quantity = 0
    BY DEF EveryRowIsItsHistory
  <1>1. SumFunction(Moved(q))' = SumFunction(Moved(q))
    BY DEF Moved
  <1>2. /\ product[q].quantity = correction[q] + SumFunction(Moved(q))
        /\ product[q].row # "live" => product[q].quantity = 0
    BY <1>0 DEF EveryRowIsItsHistory, History
  <1>3. CASE q = p
    <2>1. product'[q] = row /\ correction'[q] = correction[q] + (row.quantity - product[q].quantity)
      BY <1>0, <1>3 DEF Correct, TypeOK
    <2>2. row.quantity = correction'[q] + SumFunction(Moved(q))'
      BY <1>0, <1>1, <1>2, <2>1, MovedSum
    <2> QED BY <2>1, <2>2 DEF History
  <1>4. CASE q # p
    <2>1. product'[q] = product[q] /\ correction'[q] = correction[q]
      BY <1>0, <1>4 DEF Correct, TypeOK
    <2> QED BY <1>1, <1>2, <2>1 DEF History
  <1> QED BY <1>3, <1>4

LEMMA ProductKeeps == StockLedger /\ ProductNext => EveryRowIsItsHistory'
  <1> SUFFICES ASSUME StockLedger, NEW p \in Products,
                      \/ \E in \in ProductInputs : CreateProduct(p, in)
                      \/ \E in \in ProductInputs : UpdateProduct(p, product[p].version, in)
                      \/ DeleteProduct(p)
               PROVE  EveryRowIsItsHistory'
    BY DEF ProductNext
  <1>0. TypeOK /\ EveryRowIsItsHistory
    BY DEF StockLedger
  <1>1. ASSUME NEW in \in ProductInputs, CreateProduct(p, in) PROVE EveryRowIsItsHistory'
    <2> DEFINE row == [row |-> "live", active |-> Given(in.active, TRUE),
                       quantity |-> in.quantity, pieces |-> in.pieces, version |-> 1]
    <2>1. /\ product' = [product EXCEPT ![p] = row] /\ ValidProduct(row)
          /\ Correct(p, row.quantity) /\ movement' = movement /\ product[p].row = "unused"
      BY <1>1, Zenon DEF CreateProduct
    <2>2. row.row = "live"
      OBVIOUS
    <2> HIDE DEF row
    <2>3. row.quantity \in Int
      BY <2>1, LimitsAssumption DEF ValidProduct
    <2>4. product[p].quantity = 0
      BY <1>0, <2>1 DEF EveryRowIsItsHistory
    <2>5. row.quantity = row.quantity - product[p].quantity
      BY <2>3, <2>4
    <2>6. Correct(p, row.quantity - product[p].quantity)
      BY <2>1, <2>5
    <2> QED BY <2>1, <2>2, <2>3, <2>6, CorrectKeeps
  <1>2. ASSUME NEW in \in ProductInputs, UpdateProduct(p, product[p].version, in)
        PROVE  EveryRowIsItsHistory'
    <2> DEFINE old == product[p]
               row == [old EXCEPT !.active = Given(in.active, @),
                                  !.quantity = Given(in.quantity, @),
                                  !.pieces = Given(in.pieces, @),
                                  !.version = @ + 1]
    <2>1. /\ product' = [product EXCEPT ![p] = row] /\ ValidProduct(row)
          /\ Correct(p, row.quantity - old.quantity) /\ movement' = movement
          /\ old.row = "live"
      BY <1>2, Zenon DEF UpdateProduct
    <2>2. row.row = "live"
      BY <1>0, <2>1 DEF TypeOK, Product
    <2> HIDE DEF row
    <2>3. row.quantity \in Int
      BY <2>1, LimitsAssumption DEF ValidProduct
    <2> QED BY <2>1, <2>2, <2>3, CorrectKeeps
  <1>3. CASE DeleteProduct(p)
    <2>1. /\ product' = [product EXCEPT ![p] = [NoProduct EXCEPT !.row = "deleted"]]
          /\ correction' = [correction EXCEPT ![p] = 0]
          /\ movement' = [i \in InvoiceIds |-> [movement[i] EXCEPT ![p] = 0]]
      BY <1>3, Zenon DEF DeleteProduct
    <2> SUFFICES ASSUME NEW q \in Products
                 PROVE  /\ product'[q].quantity = History(q)'
                        /\ product'[q].row # "live" => product'[q].quantity = 0
      BY DEF EveryRowIsItsHistory
    <2>2. CASE q = p
      <3>1. product'[q].quantity = 0 /\ correction'[q] = 0
        BY <1>0, <2>1, <2>2 DEF TypeOK, NoProduct
      <3> DEFINE g == Moved(q)'
      <3>2. /\ \A i \in InvoiceIds : g[i] = 0
            /\ SumFunction(g) = SumFunctionOnSet(g, InvoiceIds)
        BY <1>0, <2>1, <2>2 DEF Moved, TypeOK, SumFunction
      <3> HIDE DEF g
      <3>3. SumFunction(g) = 0
        BY <3>2, IdsAssumption, SumOfZeros
      <3>4. SumFunction(Moved(q))' = 0
        BY <3>3 DEF g
      <3> QED BY <3>1, <3>4 DEF History
    <2>3. CASE q # p
      <3>1. product'[q] = product[q] /\ correction'[q] = correction[q]
        BY <1>0, <2>1, <2>3 DEF TypeOK
      <3>2. Moved(q)' = Moved(q)
        BY <1>0, <2>1, <2>3 DEF Moved, TypeOK
      <3>3. SumFunction(Moved(q))' = SumFunction(Moved(q))
        BY <3>2, Zenon
      <3> QED BY <1>0, <3>1, <3>3 DEF EveryRowIsItsHistory, History
    <2> QED BY <2>2, <2>3
  <1> QED BY <1>1, <1>2, <1>3

LEMMA InvoiceKeepsHistory == StockLedger /\ InvoiceNext => EveryRowIsItsHistory'
  <1> SUFFICES ASSUME StockLedger, NEW i \in InvoiceIds,
        \/ \E c \in Clients, doc \in DocumentTypes, lines \in LineForms :
              \/ CreateInvoice(i, c, doc, lines)
              \/ UpdateDraft(i, invoice[i].version, c, doc, lines)
              \/ EditPosted(i, invoice[i].version, c, doc, lines)
        \/ PostInvoice(i, invoice[i].version)
        \/ VoidInvoice(i, invoice[i].version)
        \/ ReactivateVoid(i, invoice[i].version)
        \/ CancelInvoice(i, invoice[i].version)
        \/ ReactivateCancelled(i, invoice[i].version)
        \/ DeleteCancelled(i)
        \/ \E cartons \in [Products -> ReturnInputs \cup {0}] : CreateReturn(i, cartons)
        \/ \E amount \in PaymentInputs : CreatePayment(i, amount)
               PROVE  EveryRowIsItsHistory'
    BY Zenon DEF InvoiceNext
  <1> DEFINE inv == invoice[i]
  <1>0. /\ TypeOK
        /\ \A p \in Products : inv.items[p].qty \in Int
    BY DEF StockLedger, TypeOK, Invoice, Item
  <1>1. ASSUME NEW c \in Clients, NEW doc \in DocumentTypes, NEW lines \in LineForms,
               EditPosted(i, inv.version, c, doc, lines)
        PROVE  EveryRowIsItsHistory'
    <2> DEFINE delta == [p \in Products |-> StockOf(doc, lines[p].qty - inv.items[p].qty)]
    <2>1. MoveStock(i, delta)
      BY <1>1, Zenon DEF EditPosted
    <2>2. \A p \in Products : lines[p].qty - inv.items[p].qty \in Int
      BY <1>0, InputsAssumption DEF LineForms, NoLine
    <2>3. delta \in [Products -> Int]
      BY <2>2, StockOfInt
    <2> QED BY <2>1, <2>3, MoveStockKeeps, Zenon
  <1>2. ASSUME BookInvoice(i) PROVE EveryRowIsItsHistory'
    <2> DEFINE delta == [p \in Products |-> StockOf(inv.doc, inv.items[p].qty)]
    <2>1. MoveStock(i, delta)
      BY <1>2, Zenon DEF BookInvoice
    <2>2. delta \in [Products -> Int]
      BY <1>0, StockOfInt
    <2> QED BY <2>1, <2>2, MoveStockKeeps, Zenon
  <1>3. CASE VoidInvoice(i, inv.version)
    <2> DEFINE delta == [p \in Products |-> -StockOf(inv.doc, inv.items[p].qty)]
    <2>1. MoveStock(i, delta)
      BY <1>3, Zenon DEF VoidInvoice
    <2>2. delta \in [Products -> Int]
      BY <1>0, StockOfInt
    <2> QED BY <2>1, <2>2, MoveStockKeeps, Zenon
  <1>4. ASSUME NEW cartons \in [Products -> ReturnInputs \cup {0}], CreateReturn(i, cartons)
        PROVE  EveryRowIsItsHistory'
    BY <1>4, CartonsType, MoveStockKeeps, Zenon DEF CreateReturn
  <1>5. CASE PostInvoice(i, inv.version) \/ ReactivateVoid(i, inv.version)
    BY <1>2, <1>5, Zenon DEF PostInvoice, ReactivateVoid
  <1>6. ASSUME NEW c \in Clients, NEW doc \in DocumentTypes, NEW lines \in LineForms,
               CreateInvoice(i, c, doc, lines) \/ UpdateDraft(i, inv.version, c, doc, lines)
        PROVE  EveryRowIsItsHistory'
    BY <1>6, UnmovedKeeps, Zenon DEF CreateInvoice, UpdateDraft
  <1>7. CASE CancelInvoice(i, inv.version) \/ ReactivateCancelled(i, inv.version) \/ DeleteCancelled(i)
    BY <1>7, UnmovedKeeps, Zenon DEF CancelInvoice, ReactivateCancelled, DeleteCancelled
  <1>8. ASSUME NEW amount \in PaymentInputs, CreatePayment(i, amount) PROVE EveryRowIsItsHistory'
    BY <1>8, UnmovedKeeps, Zenon DEF CreatePayment
  <1> QED BY <1>1, <1>3, <1>4, <1>5, <1>6, <1>7, <1>8

LEMMA ClientKeepsHistory == StockLedger /\ ClientNext => EveryRowIsItsHistory'
  BY UnmovedKeeps, Zenon DEF ClientNext, CreateClient, UpdateClient, DeleteClientAssociations,
     DeleteClient, CreateReceipt, UpdateReceipt, DeleteReceipt

LEMMA InitHistory == Init => EveryRowIsItsHistory
  <1> SUFFICES ASSUME Init, NEW p \in Products
               PROVE  product[p].quantity = 0 /\ History(p) = 0
    BY DEF EveryRowIsItsHistory
  <1>1. product[p].quantity = 0 /\ correction[p] = 0
    BY DEF Init, NoProduct
  <1>2. /\ \A i \in InvoiceIds : Moved(p)[i] = 0
        /\ SumFunction(Moved(p)) = SumFunctionOnSet(Moved(p), InvoiceIds)
    BY DEF Moved, SumFunction, Init
  <1>3. SumFunction(Moved(p)) = 0
    BY <1>2, IdsAssumption, SumOfZeros
  <1> QED BY <1>1, <1>3 DEF History

\* The quantity of a product is the sum of its stock_movements rows, through
\* openings, manual changes, postings, edits, voids, returns and the deletion of
\* other products (saveProduct, MoveStock's callers, deleteProduct).
THEOREM StockAlwaysItsHistory == Spec => []StockIsItsHistory
  <1>1. Init => StockLedger
    BY InitTypeOK, InitHistory DEF StockLedger
  <1>2. StockLedger /\ [Next]_vars => StockLedger'
    <2> SUFFICES ASSUME StockLedger, [Next]_vars PROVE EveryRowIsItsHistory'
      <3>1. TypeOK /\ [Next]_vars => TypeOK'
        BY TypeStep
      <3> QED BY <3>1 DEF StockLedger
    <2>1. CASE TenantNext
      BY <2>1, UnmovedKeeps DEF TenantNext, UpdateTenant
    <2>2. CASE UNCHANGED vars
      BY <2>2, UnmovedKeeps DEF vars
    <2> QED BY <2>1, <2>2, ProductKeeps, InvoiceKeepsHistory, ClientKeepsHistory DEF Next
  <1>3. StockLedger => StockIsItsHistory
    BY DEF StockLedger, EveryRowIsItsHistory, StockIsItsHistory, History, Moved
  <1> QED BY <1>1, <1>2, <1>3, PTL DEF Spec
=============================================================================
