----------------------------- MODULE BooksProofs ----------------------------
(***************************************************************************)
(* Stock, accounts and numbers agree with the invoices for every value of  *)
(* the constants: BooksAgree is inductive.  A handler writes one invoice,  *)
(* so each step comes down to the row it writes: what the row owes to the  *)
(* stock (NetStock) and to the account (NetDebt), and whether it still     *)
(* fits its history (Fits).  From it follows what a step may never do:     *)
(* take an assigned number back, move the books of an inactive tenant, let *)
(* receipts overshoot a balance or move two balances at once.  Last comes  *)
(* the statement, which is made of the single rows of the account.         *)
(***************************************************************************)
EXTENDS TypesProofs, Statements

Live(inv) == inv.status \in {"posted", "void"}

-----------------------------------------------------------------------------
(***************************************************************************)
(* The three functions of a row, case by case.                             *)
(***************************************************************************)

LEMMA NetStockOf ==
  ASSUME NEW inv, NEW p
  PROVE  /\ inv.status = "posted"
              => NetStock(inv, p) = StockOf(inv.doc, inv.items[p].qty) + inv.returned[p]
         /\ inv.status = "void" => NetStock(inv, p) = inv.returned[p]
         /\ ~Live(inv) => NetStock(inv, p) = 0
  BY DEF NetStock, Live

LEMMA NetDebtOf ==
  ASSUME NEW inv
  PROVE  /\ inv.client = NoClient => NetDebt(inv) = 0
         /\ inv.client # NoClient /\ inv.status = "posted"
              => NetDebt(inv) = DebtOf(inv.doc, inv.total) - inv.returnedMinor
         /\ inv.client # NoClient /\ inv.status = "void" => NetDebt(inv) = -inv.returnedMinor
         /\ ~Live(inv) => NetDebt(inv) = 0
  BY DEF NetDebt, Live

\* What was never posted has neither returns nor payments.
LEMMA UnnumberedFits ==
  ASSUME NEW inv \in Invoice, inv.number = 0,
         \A p \in Products : inv.returned[p] = 0, inv.returnedMinor = 0, inv.paid = 0
  PROVE  Fits(inv)
  <1>1. \A p \in Products : inv.items[p].qty \in Nat
    BY DEF Invoice, Item
  <1>2. inv.total \in Nat
    BY LimitsAssumption DEF Invoice
  <1> QED BY <1>1, <1>2 DEF Fits

LEMMA NumberedIffLive ==
  ASSUME NumbersAreGapless, NEW i \in InvoiceIds
  PROVE  Live(invoice[i]) <=> invoice[i].number # 0
  BY DEF NumbersAreGapless, Numbered, Live

-----------------------------------------------------------------------------
(***************************************************************************)
(* From the row to the tables.                                             *)
(***************************************************************************)

LEMMA OneInvoice ==
  ASSUME TypeOK, StockMatchesInvoices, LedgerMatchesInvoices, HistoryFits,
         NEW i \in InvoiceIds, NEW row, invoice' = [invoice EXCEPT ![i] = row],
         \A j \in InvoiceIds \ {i} : movement'[j] = movement[j] /\ ledger'[j] = ledger[j],
         \A p \in Products : movement'[i][p] = NetStock(row, p),
         ledger'[i] = NetDebt(row),
         Fits(row)
  PROVE  StockMatchesInvoices' /\ LedgerMatchesInvoices' /\ HistoryFits'
  <1>1. invoice'[i] = row /\ \A j \in InvoiceIds \ {i} : invoice'[j] = invoice[j]
    BY DEF TypeOK
  <1>2. StockMatchesInvoices'
    BY <1>1 DEF StockMatchesInvoices
  <1>3. LedgerMatchesInvoices'
    BY <1>1 DEF LedgerMatchesInvoices
  <1>4. HistoryFits'
    BY <1>1 DEF HistoryFits
  <1> QED BY <1>2, <1>3, <1>4

LEMMA SameNumbers ==
  ASSUME NumbersAreGapless, nextNumber' = nextNumber,
         \A j \in InvoiceIds : /\ invoice'[j].number = invoice[j].number
                               /\ Live(invoice'[j]) <=> Live(invoice[j])
  PROVE  NumbersAreGapless'
  <1>1. Numbered' = Numbered
    BY DEF Numbered
  <1>2. {invoice'[j].number : j \in Numbered} = {invoice[j].number : j \in Numbered}
    BY DEF Numbered
  <1>3. {j \in InvoiceIds : invoice'[j].status \in {"posted", "void"}}
          = {j \in InvoiceIds : invoice[j].status \in {"posted", "void"}}
    BY DEF Live
  <1> QED BY <1>1, <1>2, <1>3 DEF NumbersAreGapless, Numbered

LEMMA OneSameNumber ==
  ASSUME TypeOK, NumbersAreGapless, nextNumber' = nextNumber,
         NEW i \in InvoiceIds, NEW row, invoice' = [invoice EXCEPT ![i] = row],
         row.number = invoice[i].number, Live(row) <=> Live(invoice[i])
  PROVE  NumbersAreGapless'
  <1>1. \A j \in InvoiceIds : /\ invoice'[j].number = invoice[j].number
                              /\ Live(invoice'[j]) <=> Live(invoice[j])
    BY DEF TypeOK
  <1> QED BY <1>1, SameNumbers

\* The next number is above every number given out.
LEMMA NextNumber ==
  ASSUME TypeOK, NumbersAreGapless, nextNumber' = nextNumber + 1,
         NEW i \in InvoiceIds, ~Live(invoice[i]),
         NEW row, invoice' = [invoice EXCEPT ![i] = row],
         row.number = nextNumber, Live(row)
  PROVE  NumbersAreGapless'
  <1>1. nextNumber \in Nat \ {0}
    BY DEF TypeOK
  <1>2. invoice'[i] = row /\ \A j \in InvoiceIds \ {i} : invoice'[j] = invoice[j]
    BY DEF TypeOK
  <1>3. i \notin Numbered /\ Numbered \subseteq InvoiceIds
    BY NumberedIffLive DEF Numbered
  <1>4. Numbered' = Numbered \cup {i}
    BY <1>1, <1>2, <1>3 DEF Numbered
  <1>5. \A j \in Numbered : invoice[j].number \in 1..(nextNumber - 1)
    BY DEF NumbersAreGapless
  <1>6. \A j \in Numbered : invoice'[j] = invoice[j]
    BY <1>2, <1>3
  <1>7. {invoice'[j].number : j \in Numbered'} = 1..(nextNumber' - 1)
    <2>1. {invoice'[j].number : j \in Numbered'}
            = {invoice[j].number : j \in Numbered} \cup {nextNumber}
      BY <1>2, <1>4, <1>6
    <2>2. 1..(nextNumber' - 1) = (1..(nextNumber - 1)) \cup {nextNumber}
      BY <1>1
    <2> QED BY <2>1, <2>2 DEF NumbersAreGapless
  <1>8. ASSUME NEW j \in Numbered', NEW k \in Numbered',
               invoice'[j].number = invoice'[k].number
        PROVE  j = k
    <2>1. CASE j = i
      BY <1>1, <1>2, <1>4, <1>5, <1>6, <1>8, <2>1
    <2>2. CASE k = i
      BY <1>1, <1>2, <1>4, <1>5, <1>6, <1>8, <2>2
    <2>3. CASE j # i /\ k # i
      BY <1>4, <1>6, <1>8, <2>3 DEF NumbersAreGapless
    <2> QED BY <2>1, <2>2, <2>3
  <1>9. Numbered' = {j \in InvoiceIds : invoice'[j].status \in {"posted", "void"}}
    BY <1>2, <1>4 DEF NumbersAreGapless, Live
  <1> QED BY <1>7, <1>8, <1>9 DEF NumbersAreGapless

-----------------------------------------------------------------------------
(***************************************************************************)
(* The handlers.                                                           *)
(***************************************************************************)

LEMMA Booked ==
  ASSUME TypeOK, NEW i \in InvoiceIds, NEW delta \in [Products -> Int], NEW minor \in Int,
         MoveStock(i, delta), Book(i, minor)
  PROVE  /\ \A p \in Products : movement'[i][p] = movement[i][p] + delta[p]
         /\ ledger'[i] = ledger[i] + minor
         /\ \A j \in InvoiceIds \ {i} : movement'[j] = movement[j] /\ ledger'[j] = ledger[j]
         /\ invoice[i].client # NoClient
  <1>1. movement' = [movement EXCEPT ![i] = [p \in Products |-> movement[i][p] + delta[p]]]
    BY MoveStockType
  <1> QED BY <1>1, BookType DEF TypeOK

Books == StockMatchesInvoices /\ LedgerMatchesInvoices /\ HistoryFits /\ NumbersAreGapless

LEMMA BooksOf ==
  ASSUME BooksAgree, NEW i \in InvoiceIds
  PROVE  /\ invoice[i] \in Invoice
         /\ \A p \in Products : /\ movement[i][p] = NetStock(invoice[i], p)
                                /\ invoice[i].items[p].qty \in Nat
                                /\ invoice[i].returned[p] \in Nat
         /\ invoice[i].total \in Nat /\ invoice[i].paid \in Nat
         /\ invoice[i].returnedMinor \in Nat /\ invoice[i].version \in Nat
         /\ ledger[i] = NetDebt(invoice[i])
         /\ Fits(invoice[i])
         /\ Live(invoice[i]) <=> invoice[i].number # 0
  <1>1. invoice[i] \in Invoice
    BY DEF BooksAgree, TypeOK
  <1>2. \A p \in Products : /\ invoice[i].items[p].qty \in Nat
                            /\ invoice[i].returned[p] \in Nat
    BY <1>1 DEF Invoice, Item
  <1>3. /\ invoice[i].total \in Nat /\ invoice[i].paid \in Nat
        /\ invoice[i].returnedMinor \in Nat /\ invoice[i].version \in Nat
    BY <1>1, LimitsAssumption DEF Invoice
  <1>4. Live(invoice[i]) <=> invoice[i].number # 0
    BY NumberedIffLive DEF BooksAgree
  <1> QED BY <1>1, <1>2, <1>3, <1>4 DEF BooksAgree, StockMatchesInvoices,
             LedgerMatchesInvoices, HistoryFits

\* A row that was never posted and still is not leaves stock and account alone.
LEMMA UnpostedStep ==
  ASSUME BooksAgree, NEW i \in InvoiceIds, ~Live(invoice[i]),
         NEW row \in Invoice, ~Live(row), invoice' = [invoice EXCEPT ![i] = row],
         row.number = 0, \A p \in Products : row.returned[p] = 0,
         row.returnedMinor = 0, row.paid = 0,
         UNCHANGED <<movement, ledger, nextNumber>>
  PROVE  Books'
  <1>1. movement[i] \in [Products -> Int]
    BY DEF BooksAgree, TypeOK
  <1>2. Fits(row)
    BY UnnumberedFits
  <1>3. \A p \in Products : movement'[i][p] = NetStock(row, p)
    BY BooksOf, NetStockOf
  <1>4. ledger'[i] = NetDebt(row)
    BY BooksOf, NetDebtOf
  <1>5. StockMatchesInvoices' /\ LedgerMatchesInvoices' /\ HistoryFits'
    BY <1>2, <1>3, <1>4, OneInvoice DEF BooksAgree
  <1>6. NumbersAreGapless'
    BY BooksOf, OneSameNumber DEF BooksAgree
  <1> QED BY <1>5, <1>6 DEF Books

LEMMA UnpostedRow ==
  ASSUME BooksAgree, NEW i \in InvoiceIds, ~Live(invoice[i])
  PROVE  /\ invoice[i].number = 0 /\ invoice[i].returnedMinor = 0 /\ invoice[i].paid = 0
         /\ \A p \in Products : invoice[i].returned[p] = 0
  BY BooksOf DEF Fits

LEMMA CreateInvoiceBooks ==
  ASSUME BooksAgree, NEW i \in InvoiceIds, NEW c \in Clients, NEW doc \in DocumentTypes,
         NEW lines \in LineForms, CreateInvoice(i, c, doc, lines)
  PROVE  Books'
  <1> DEFINE row == [NoInvoice EXCEPT !.status = "draft", !.doc = doc, !.client = c,
                       !.items = ItemsOf(lines), !.total = TotalOf(lines), !.version = 1]
  <1>1. /\ TotalOf(lines) \in 0..MaxTotal /\ invoice' = [invoice EXCEPT ![i] = row]
        /\ invoice[i].status = "unused" /\ UNCHANGED <<movement, ledger, nextNumber>>
    BY Zenon DEF CreateInvoice, CanInvoice, stockVars, bookVars
  <1>2. row \in Invoice
    BY <1>1, FirstRow, Zenon DEF BooksAgree
  <1>3. /\ row.status = "draft" /\ row.number = 0 /\ row.returnedMinor = 0 /\ row.paid = 0
        /\ \A p \in Products : row.returned[p] = 0
    BY DEF NoInvoice
  <1> HIDE DEF row
  <1>4. ~Live(invoice[i]) /\ ~Live(row)
    BY <1>1, <1>3 DEF Live
  <1> QED BY <1>1, <1>2, <1>3, <1>4, UnpostedStep

LEMMA UpdateDraftBooks ==
  ASSUME BooksAgree, NEW i \in InvoiceIds, NEW version, NEW c \in Clients,
         NEW doc \in DocumentTypes, NEW lines \in LineForms,
         UpdateDraft(i, version, c, doc, lines)
  PROVE  Books'
  <1> DEFINE row == Rewritten(invoice[i], c, doc, lines)
  <1>1. /\ TotalOf(lines) \in 0..MaxTotal /\ invoice' = [invoice EXCEPT ![i] = row]
        /\ invoice[i].status = "draft" /\ UNCHANGED <<movement, ledger, nextNumber>>
    BY Zenon DEF UpdateDraft, CanInvoice, stockVars, bookVars
  <1>2. row = Rewritten(invoice[i], c, doc, lines)
    OBVIOUS
  <1> HIDE DEF row
  <1>3. ~Live(invoice[i]) /\ invoice[i] \in Invoice /\ TypeOK
    BY <1>1, BooksOf DEF Live, BooksAgree
  <1>4. /\ row \in Invoice /\ row.status = invoice[i].status /\ row.number = invoice[i].number
        /\ row.returned = invoice[i].returned /\ row.paid = invoice[i].paid
        /\ row.returnedMinor = invoice[i].returnedMinor
    BY <1>1, <1>2, <1>3, RewrittenRow
  <1>5. ~Live(row)
    BY <1>3, <1>4 DEF Live
  <1>6. /\ row.number = 0 /\ row.returnedMinor = 0 /\ row.paid = 0
        /\ \A p \in Products : row.returned[p] = 0
    BY <1>3, <1>4, UnpostedRow
  <1> QED BY <1>1, <1>3, <1>4, <1>5, <1>6, UnpostedStep

LEMMA CancelledBooks ==
  ASSUME BooksAgree, NEW i \in InvoiceIds, ~Live(invoice[i]),
         NEW s \in Statuses, s \notin {"posted", "void"},
         NEW row, row = Stamped(invoice[i], s), invoice' = [invoice EXCEPT ![i] = row],
         UNCHANGED <<movement, ledger, nextNumber>>
  PROVE  Books'
  <1>1. /\ row \in Invoice /\ row.status = s /\ row.number = invoice[i].number
        /\ row.returned = invoice[i].returned /\ row.paid = invoice[i].paid
        /\ row.returnedMinor = invoice[i].returnedMinor
    BY BooksOf, StampedRow, Zenon
  <1>2. ~Live(row)
    BY <1>1 DEF Live
  <1>3. /\ row.number = 0 /\ row.returnedMinor = 0 /\ row.paid = 0
        /\ \A p \in Products : row.returned[p] = 0
    BY <1>1, UnpostedRow
  <1> QED BY <1>1, <1>2, <1>3, UnpostedStep

LEMMA DeleteCancelledBooks ==
  ASSUME BooksAgree, NEW i \in InvoiceIds, DeleteCancelled(i)
  PROVE  Books'
  <1> DEFINE row == [NoInvoice EXCEPT !.status = "deleted"]
  <1>1. /\ invoice' = [invoice EXCEPT ![i] = row]
        /\ invoice[i].status = "cancelled" /\ UNCHANGED <<movement, ledger, nextNumber>>
    BY Zenon DEF DeleteCancelled, stockVars, bookVars
  <1>2. /\ row \in Invoice /\ row.status = "deleted" /\ row.number = 0
        /\ row.returnedMinor = 0 /\ row.paid = 0
        /\ \A p \in Products : row.returned[p] = 0
    BY EmptyRow DEF NoInvoice
  <1> HIDE DEF row
  <1>3. ~Live(invoice[i]) /\ ~Live(row)
    BY <1>1, <1>2 DEF Live
  <1> QED BY <1>1, <1>2, <1>3, UnpostedStep

\* A row written with the stock and the debt it now stands for.
LEMMA BookedStep ==
  ASSUME BooksAgree, NEW i \in InvoiceIds,
         NEW row, invoice' = [invoice EXCEPT ![i] = row],
         NEW delta \in [Products -> Int], NEW minor \in Int,
         MoveStock(i, delta), Book(i, minor), nextNumber' = nextNumber,
         \A p \in Products : NetStock(row, p) = NetStock(invoice[i], p) + delta[p],
         NetDebt(row) = NetDebt(invoice[i]) + minor,
         Fits(row), row.number = invoice[i].number, Live(row) <=> Live(invoice[i])
  PROVE  Books'
  <1>1. TypeOK
    BY DEF BooksAgree
  <1>2. /\ \A p \in Products : movement'[i][p] = NetStock(row, p)
        /\ ledger'[i] = NetDebt(row)
        /\ \A j \in InvoiceIds \ {i} : movement'[j] = movement[j] /\ ledger'[j] = ledger[j]
    BY <1>1, Booked, BooksOf
  <1>3. StockMatchesInvoices' /\ LedgerMatchesInvoices' /\ HistoryFits'
    BY <1>2, OneInvoice DEF BooksAgree
  <1>4. NumbersAreGapless'
    BY OneSameNumber DEF BooksAgree
  <1> QED BY <1>3, <1>4 DEF Books

LEMMA StampedFits ==
  ASSUME NEW inv \in Invoice, NEW s \in Statuses, Fits(inv)
  PROVE  Fits(Stamped(inv, s))
  <1> DEFINE row == Stamped(inv, s)
  <1>1. /\ row.number = inv.number /\ row.doc = inv.doc /\ row.items = inv.items
        /\ row.total = inv.total /\ row.returned = inv.returned
        /\ row.returnedMinor = inv.returnedMinor /\ row.paid = inv.paid
    BY StampedRow, Zenon
  <1> HIDE DEF row
  <1>2. Fits(row)
    BY <1>1 DEF Fits
  <1> QED BY <1>2 DEF row

LEMMA VoidBooks ==
  ASSUME BooksAgree, NEW i \in InvoiceIds, NEW version, VoidInvoice(i, version)
  PROVE  Books'
  <1> DEFINE inv   == invoice[i]
             row   == Stamped(inv, "void")
             delta == [p \in Products |-> -StockOf(inv.doc, inv.items[p].qty)]
             minor == -DebtOf(inv.doc, inv.total)
  <1>1. /\ invoice' = [invoice EXCEPT ![i] = row] /\ MoveStock(i, delta) /\ Book(i, minor)
        /\ inv.status = "posted" /\ nextNumber' = nextNumber
    BY Zenon DEF VoidInvoice, Transition
  <1>2. /\ row.status = "void" /\ row.doc = inv.doc /\ row.client = inv.client
        /\ row.items = inv.items /\ row.total = inv.total /\ row.number = inv.number
        /\ row.returned = inv.returned /\ row.returnedMinor = inv.returnedMinor
    BY BooksOf, StampedRow, Zenon DEF Statuses
  <1>3. Fits(row)
    BY BooksOf, StampedFits DEF Statuses
  <1>4. /\ \A p \in Products : StockOf(inv.doc, inv.items[p].qty) \in Int
        /\ DebtOf(inv.doc, inv.total) \in Int
    BY BooksOf, StockOfInt
  <1>5. delta \in [Products -> Int] /\ minor \in Int
    BY <1>4
  <1>6. inv.client # NoClient
    BY <1>1 DEF Book
  <1> HIDE DEF row
  <1>7. Live(row) /\ Live(inv)
    BY <1>1, <1>2 DEF Live
  <1>8. \A p \in Products : NetStock(row, p) = NetStock(inv, p) + delta[p]
    BY <1>1, <1>2, <1>4, NetStockOf, BooksOf
  <1>9. NetDebt(row) = NetDebt(inv) + minor
    BY <1>1, <1>2, <1>4, <1>6, NetDebtOf, BooksOf
  <1> HIDE DEF delta, minor
  <1> QED BY <1>1, <1>2, <1>3, <1>5, <1>7, <1>8, <1>9, BookedStep

LEMMA ReactivateVoidBooks ==
  ASSUME BooksAgree, NEW i \in InvoiceIds, NEW version, ReactivateVoid(i, version)
  PROVE  Books'
  <1> DEFINE inv   == invoice[i]
             row   == Stamped(inv, "posted")
             delta == [p \in Products |-> StockOf(inv.doc, inv.items[p].qty)]
             minor == DebtOf(inv.doc, inv.total)
  <1>1. /\ invoice' = [invoice EXCEPT ![i] = row] /\ MoveStock(i, delta) /\ Book(i, minor)
        /\ inv.status = "void" /\ nextNumber' = nextNumber
    BY Zenon DEF ReactivateVoid, BookInvoice, Transition
  <1>2. /\ row.status = "posted" /\ row.doc = inv.doc /\ row.client = inv.client
        /\ row.items = inv.items /\ row.total = inv.total /\ row.number = inv.number
        /\ row.returned = inv.returned /\ row.returnedMinor = inv.returnedMinor
    BY BooksOf, StampedRow, Zenon DEF Statuses
  <1>3. Fits(row)
    BY BooksOf, StampedFits DEF Statuses
  <1>4. /\ \A p \in Products : StockOf(inv.doc, inv.items[p].qty) \in Int
        /\ DebtOf(inv.doc, inv.total) \in Int
    BY BooksOf, StockOfInt
  <1>5. delta \in [Products -> Int] /\ minor \in Int
    BY <1>4
  <1>6. inv.client # NoClient
    BY <1>1 DEF Book
  <1> HIDE DEF row
  <1>7. Live(row) /\ Live(inv)
    BY <1>1, <1>2 DEF Live
  <1>8. \A p \in Products : NetStock(row, p) = NetStock(inv, p) + delta[p]
    BY <1>1, <1>2, <1>4, NetStockOf, BooksOf
  <1>9. NetDebt(row) = NetDebt(inv) + minor
    BY <1>1, <1>2, <1>4, <1>6, NetDebtOf, BooksOf
  <1> HIDE DEF delta, minor
  <1> QED BY <1>1, <1>2, <1>3, <1>5, <1>7, <1>8, <1>9, BookedStep

LEMMA PostBooks ==
  ASSUME BooksAgree, NEW i \in InvoiceIds, NEW version, PostInvoice(i, version)
  PROVE  Books'
  <1> DEFINE inv   == invoice[i]
             mid   == Stamped(inv, "posted")
             row   == [mid EXCEPT !.number = nextNumber]
             delta == [p \in Products |-> StockOf(inv.doc, inv.items[p].qty)]
             minor == DebtOf(inv.doc, inv.total)
  <1>1. /\ invoice' = [invoice EXCEPT ![i] = row] /\ MoveStock(i, delta) /\ Book(i, minor)
        /\ inv.status = "draft" /\ nextNumber' = nextNumber + 1
    BY Zenon DEF PostInvoice, BookInvoice, Transition
  <1>2. /\ mid \in Invoice
        /\ mid.status = "posted" /\ mid.doc = inv.doc /\ mid.client = inv.client
        /\ mid.items = inv.items /\ mid.total = inv.total /\ mid.paid = inv.paid
        /\ mid.returned = inv.returned /\ mid.returnedMinor = inv.returnedMinor
    BY BooksOf, StampedRow, Zenon DEF Statuses
  <1> HIDE DEF mid
  <1>3. nextNumber \in Nat /\ nextNumber # 0 /\ TypeOK
    BY DEF BooksAgree, TypeOK
  <1>4. /\ row.number = nextNumber
        /\ row.status = "posted" /\ row.doc = inv.doc /\ row.client = inv.client
        /\ row.items = inv.items /\ row.total = inv.total /\ row.paid = inv.paid
        /\ row.returned = inv.returned /\ row.returnedMinor = inv.returnedMinor
    BY <1>2, <1>3, NumberedRow
  <1> HIDE DEF row
  <1>5. /\ \A p \in Products : StockOf(inv.doc, inv.items[p].qty) \in Int
        /\ DebtOf(inv.doc, inv.total) \in Int
    BY BooksOf, StockOfInt
  <1>6. delta \in [Products -> Int] /\ minor \in Int
    BY <1>5
  <1>7. Live(row) /\ ~Live(inv)
    BY <1>1, <1>4 DEF Live
  <1>8. /\ \A p \in Products : inv.returned[p] = 0
        /\ inv.returnedMinor = 0 /\ inv.paid = 0
    BY <1>7, UnpostedRow
  <1>9. Fits(row)
    BY <1>4, <1>8, BooksOf DEF Fits
  <1>10. /\ \A p \in Products : movement'[i][p] = movement[i][p] + delta[p]
         /\ ledger'[i] = ledger[i] + minor
         /\ \A j \in InvoiceIds \ {i} : movement'[j] = movement[j] /\ ledger'[j] = ledger[j]
         /\ inv.client # NoClient
    <2> HIDE DEF delta, minor
    <2> QED BY <1>1, <1>3, <1>6, Booked
  <1>11. \A p \in Products : movement'[i][p] = NetStock(row, p)
    BY <1>4, <1>5, <1>7, <1>8, <1>10, NetStockOf, BooksOf
  <1>12. ledger'[i] = NetDebt(row)
    BY <1>4, <1>5, <1>7, <1>8, <1>10, NetDebtOf, BooksOf
  <1>13. StockMatchesInvoices' /\ LedgerMatchesInvoices' /\ HistoryFits'
    BY <1>1, <1>9, <1>10, <1>11, <1>12, OneInvoice DEF BooksAgree
  <1>14. NumbersAreGapless'
    BY <1>1, <1>4, <1>7, NextNumber DEF BooksAgree
  <1> QED BY <1>13, <1>14 DEF Books

LEMMA EditPostedBooks ==
  ASSUME BooksAgree, NEW i \in InvoiceIds, NEW version, NEW c \in Clients,
         NEW doc \in DocumentTypes, NEW lines \in LineForms,
         EditPosted(i, version, c, doc, lines)
  PROVE  Books'
  <1> DEFINE inv   == invoice[i]
             row   == Rewritten(inv, c, doc, lines)
             t     == TotalOf(lines)
             delta == [p \in Products |-> StockOf(doc, lines[p].qty - inv.items[p].qty)]
             minor == DebtOf(doc, t - inv.total)
  <1>1. /\ t \in 0..MaxTotal /\ invoice' = [invoice EXCEPT ![i] = row]
        /\ MoveStock(i, delta) /\ Book(i, minor)
        /\ inv.status = "posted" /\ inv.client = c /\ inv.doc = doc
        /\ KeepsHistory(inv, lines) /\ nextNumber' = nextNumber
    BY Zenon DEF EditPosted, CanInvoice, SameAccount
  <1>2. row = Rewritten(inv, c, doc, lines)
    OBVIOUS
  <1> HIDE DEF row
  <1>3. inv \in Invoice /\ TypeOK
    BY BooksOf DEF BooksAgree
  <1>4. /\ row.status = inv.status /\ row.doc = doc /\ row.client = c
        /\ row.items = ItemsOf(lines) /\ row.total = t /\ row.number = inv.number
        /\ row.returned = inv.returned /\ row.returnedMinor = inv.returnedMinor
        /\ row.paid = inv.paid
    BY <1>1, <1>2, <1>3, RewrittenRow
  <1>5. \A p \in Products : row.items[p].qty = lines[p].qty /\ lines[p].qty \in Nat
    BY <1>4, InputsAssumption DEF ItemsOf, LineForms, NoLine
  <1>6. t \in Int
    BY <1>1
  <1>7. /\ \A p \in Products : lines[p].qty >= inv.returned[p]
        /\ t >= inv.paid + inv.returnedMinor
    BY <1>1 DEF KeepsHistory
  <1> HIDE DEF t
  <1>8. Fits(row)
    BY <1>1, <1>4, <1>5, <1>6, <1>7, BooksOf DEF Fits
  <1>9. Live(row) /\ Live(inv)
    BY <1>1, <1>4 DEF Live
  <1>10. \A p \in Products :
           /\ StockOf(doc, lines[p].qty - inv.items[p].qty) \in Int
           /\ StockOf(doc, inv.items[p].qty) \in Int
           /\ StockOf(doc, lines[p].qty)
                = StockOf(doc, inv.items[p].qty) + StockOf(doc, lines[p].qty - inv.items[p].qty)
    <2> TAKE p \in Products
    <2>1. lines[p].qty \in Int /\ inv.items[p].qty \in Int
      BY <1>5, BooksOf
    <2> QED BY <2>1 DEF StockOf
  <1>11. /\ minor \in Int /\ DebtOf(doc, inv.total) \in Int
         /\ DebtOf(doc, t) = DebtOf(doc, inv.total) + minor
    <2>1. inv.total \in Int
      BY BooksOf
    <2> QED BY <1>6, <2>1 DEF DebtOf
  <1>12. delta \in [Products -> Int]
    BY <1>10
  <1>13. \A p \in Products : NetStock(row, p) = NetStock(inv, p) + delta[p]
    BY <1>1, <1>4, <1>5, <1>10, NetStockOf, BooksOf
  <1>14. inv.client # NoClient
    BY <1>1 DEF Book
  <1> HIDE DEF minor
  <1>15. NetDebt(row) = NetDebt(inv) + minor
    BY <1>1, <1>4, <1>11, <1>14, NetDebtOf, BooksOf
  <1> HIDE DEF delta
  <1> QED BY <1>1, <1>4, <1>8, <1>9, <1>11, <1>12, <1>13, <1>15, BookedStep

LEMMA CreateReturnBooks ==
  ASSUME BooksAgree, NEW i \in InvoiceIds, NEW cartons \in [Products -> ReturnInputs \cup {0}],
         CreateReturn(i, cartons)
  PROVE  Books'
  <1> DEFINE inv    == invoice[i]
             credit == CreditOf(inv, cartons)
             minor  == -credit
             row    == Credited(inv, cartons, credit)
  <1>1. /\ invoice' = [invoice EXCEPT ![i] = row] /\ MoveStock(i, cartons) /\ Book(i, minor)
        /\ credit \in 1..MaxTotal /\ Returnable(inv, cartons)
        /\ inv.status = "posted" /\ inv.doc = "sale" /\ nextNumber' = nextNumber
    BY Zenon DEF CreateReturn
  <1>2. row = Credited(inv, cartons, credit)
    OBVIOUS
  <1> HIDE DEF row, credit
  <1>3. credit \in Nat /\ minor \in Int
    BY <1>1
  <1>4. cartons \in [Products -> Nat] /\ cartons \in [Products -> Int]
    BY CartonsType
  <1>5. inv \in Invoice
    BY BooksOf
  <1>6. /\ row.status = inv.status /\ row.doc = inv.doc /\ row.client = inv.client
        /\ row.items = inv.items /\ row.total = inv.total /\ row.number = inv.number
        /\ row.returned = [p \in Products |-> inv.returned[p] + cartons[p]]
        /\ row.returnedMinor = inv.returnedMinor + credit /\ row.paid = inv.paid
    BY <1>2, <1>3, <1>4, <1>5, CreditedRow
  <1>7. \A p \in Products :
          /\ row.returned[p] = inv.returned[p] + cartons[p]
          /\ cartons[p] \in Nat /\ inv.returned[p] + cartons[p] <= inv.items[p].qty
    <2>1. \A p \in Products : cartons[p] \in Nat /\ row.returned[p] = inv.returned[p] + cartons[p]
      BY <1>4, <1>6
    <2>2. \A p \in Products : inv.returned[p] <= inv.items[p].qty
      BY BooksOf DEF Fits
    <2> QED BY <1>1, <2>1, <2>2, BooksOf DEF Returnable
  <1>8. Live(row) /\ Live(inv)
    BY <1>1, <1>6 DEF Live
  <1>9. inv.number # 0
    BY <1>8, BooksOf
  <1>10. Fits(row)
    BY <1>1, <1>6, <1>7, <1>9, BooksOf DEF Fits
  <1>11. \A p \in Products : StockOf(inv.doc, inv.items[p].qty) \in Int
    BY BooksOf, StockOfInt
  <1>12. \A p \in Products : NetStock(row, p) = NetStock(inv, p) + cartons[p]
    BY <1>1, <1>6, <1>7, <1>11, NetStockOf, BooksOf
  <1>13. inv.client # NoClient
    BY <1>1 DEF Book
  <1>14. DebtOf(inv.doc, inv.total) \in Int
    BY BooksOf, StockOfInt
  <1>15. NetDebt(row) = NetDebt(inv) + minor
    <2>1. NetDebt(inv) = DebtOf(inv.doc, inv.total) - inv.returnedMinor
      BY <1>1, <1>13, NetDebtOf
    <2>2. NetDebt(row) = DebtOf(inv.doc, inv.total) - (inv.returnedMinor + credit)
      BY <1>1, <1>6, <1>13, NetDebtOf
    <2>3. inv.returnedMinor \in Int
      BY BooksOf
    <2> QED BY <1>3, <1>14, <2>1, <2>2, <2>3
  <1> HIDE DEF minor
  <1> QED BY <1>1, <1>3, <1>4, <1>6, <1>8, <1>10, <1>12, <1>15, BookedStep

LEMMA CreatePaymentBooks ==
  ASSUME BooksAgree, NEW i \in InvoiceIds, NEW amount \in PaymentInputs,
         CreatePayment(i, amount)
  PROVE  Books'
  <1> DEFINE inv == invoice[i]
             row == [inv EXCEPT !.paid = inv.paid + amount]
  <1>1. /\ invoice' = [invoice EXCEPT ![i] = row] /\ inv.paid + amount <= Due(inv)
        /\ inv.status = "posted" /\ UNCHANGED <<movement, ledger, nextNumber>>
    BY Zenon DEF CreatePayment, stockVars, bookVars
  <1>2. amount \in Nat
    BY InputsAssumption
  <1>3. /\ row.status = inv.status /\ row.doc = inv.doc /\ row.client = inv.client
        /\ row.items = inv.items /\ row.total = inv.total /\ row.number = inv.number
        /\ row.returned = inv.returned /\ row.returnedMinor = inv.returnedMinor
        /\ row.paid = inv.paid + amount
    BY <1>2, BooksOf, PaidRow
  <1> HIDE DEF row
  <1>4. Live(row) /\ Live(inv)
    BY <1>1, <1>3 DEF Live
  <1>5. inv.number # 0
    BY <1>4, BooksOf
  <1>6. Due(inv) <= inv.total
    BY BooksOf DEF Due
  <1>7. Due(inv) \in Int
    BY BooksOf DEF Due
  <1>8. Fits(row)
    BY <1>1, <1>2, <1>3, <1>5, <1>6, <1>7, BooksOf DEF Fits
  <1>9. \A p \in Products : NetStock(row, p) = NetStock(inv, p)
    BY <1>1, <1>3, NetStockOf
  <1>10. NetDebt(row) = NetDebt(inv)
    BY <1>1, <1>3, NetDebtOf
  <1>11. /\ \A p \in Products : movement'[i][p] = NetStock(row, p)
         /\ ledger'[i] = NetDebt(row)
    BY <1>1, <1>9, <1>10, BooksOf
  <1>12. StockMatchesInvoices' /\ LedgerMatchesInvoices' /\ HistoryFits'
    BY <1>1, <1>8, <1>11, OneInvoice DEF BooksAgree
  <1>13. NumbersAreGapless'
    BY <1>1, <1>3, <1>4, OneSameNumber DEF BooksAgree
  <1> QED BY <1>12, <1>13 DEF Books

LEMMA UntouchedBooks ==
  ASSUME BooksAgree, UNCHANGED <<invoice, movement, ledger, nextNumber>>
  PROVE  Books'
  BY DEF BooksAgree, Books, StockMatchesInvoices, LedgerMatchesInvoices, HistoryFits,
         NumbersAreGapless, Numbered

\* A deleted product is on no invoice line and on no return, so what goes with
\* it is zero.
LEMMA DeleteProductBooks ==
  ASSUME BooksAgree, NEW p \in Products, DeleteProduct(p)
  PROVE  Books'
  <1>1. /\ movement' = [i \in InvoiceIds |-> [movement[i] EXCEPT ![p] = 0]]
        /\ ~Referenced(p) /\ UNCHANGED <<invoice, ledger, nextNumber>>
    BY Zenon DEF DeleteProduct, bookVars
  <1>2. \A i \in InvoiceIds : NetStock(invoice[i], p) = 0
    <2> TAKE i \in InvoiceIds
    <2>1. invoice[i].items[p].qty = 0 /\ invoice[i].returned[p] = 0
      <3>1. invoice[i].items[p].qty \in Nat /\ invoice[i].returned[p] \in Nat
        BY BooksOf
      <3>2. ~(invoice[i].items[p].qty > 0) /\ ~(invoice[i].returned[p] > 0)
        BY <1>1 DEF Referenced
      <3> QED BY <3>1, <3>2
    <2>2. StockOf(invoice[i].doc, invoice[i].items[p].qty) = 0
      <3> DEFINE n == invoice[i].items[p].qty
      <3>1. n \in Int /\ n >= 0 /\ n <= 0
        BY <2>1
      <3> HIDE DEF n
      <3>2. n = 0 /\ -n = 0
        BY <3>1
      <3>3. StockOf(invoice[i].doc, n) = 0
        BY <3>2, Zenon DEF StockOf
      <3> QED BY <3>3 DEF n
    <2>3. CASE invoice[i].status = "posted"
      BY <2>1, <2>2, <2>3, NetStockOf
    <2>4. CASE invoice[i].status = "void"
      BY <2>1, <2>4, NetStockOf
    <2>5. CASE ~Live(invoice[i])
      BY <2>5, NetStockOf
    <2> QED BY <2>3, <2>4, <2>5 DEF Live
  <1>3. \A i \in InvoiceIds, q \in Products : movement'[i][q] = NetStock(invoice[i], q)
    BY <1>1, <1>2, BooksOf DEF BooksAgree, TypeOK
  <1>4. StockMatchesInvoices'
    BY <1>1, <1>3 DEF StockMatchesInvoices
  <1> QED BY <1>1, <1>4 DEF BooksAgree, Books, LedgerMatchesInvoices, HistoryFits,
            NumbersAreGapless, Numbered

\* Detaching a client's invoices empties their account and leaves their stock.
LEMMA DeleteClientAssociationsBooks ==
  ASSUME BooksAgree, NEW c \in Clients, DeleteClientAssociations(c)
  PROVE  Books'
  <1> DEFINE owned  == {i \in InvoiceIds : invoice[i].client = c}
             row(i) == [invoice[i] EXCEPT !.client = NoClient, !.paid = 0]
  <1>1. /\ invoice' = [i \in InvoiceIds |-> IF i \in owned THEN row(i) ELSE invoice[i]]
        /\ ledger' = [i \in InvoiceIds |-> IF i \in owned THEN 0 ELSE ledger[i]]
        /\ movement' = movement /\ nextNumber' = nextNumber
    BY Zenon DEF DeleteClientAssociations, InvoicesOf, stockVars
  <1>2. ASSUME NEW i \in InvoiceIds
        PROVE  /\ row(i).client = NoClient /\ row(i).paid = 0
               /\ row(i).status = invoice[i].status /\ row(i).doc = invoice[i].doc
               /\ row(i).number = invoice[i].number
               /\ row(i).items = invoice[i].items /\ row(i).total = invoice[i].total
               /\ row(i).returned = invoice[i].returned
               /\ row(i).returnedMinor = invoice[i].returnedMinor
    <2>1. invoice[i] \in Invoice
      BY BooksOf
    <2> QED BY <2>1 DEF Invoice
  <1> HIDE DEF owned, row
  <1>3. ASSUME NEW i \in InvoiceIds
        PROVE  /\ Fits(invoice'[i]) /\ ledger'[i] = NetDebt(invoice'[i])
               /\ \A p \in Products : movement'[i][p] = NetStock(invoice'[i], p)
               /\ invoice'[i].number = invoice[i].number
               /\ invoice'[i].status = invoice[i].status
    <2>1. CASE i \in owned
      <3>1. invoice'[i] = row(i) /\ ledger'[i] = 0
        BY <1>1, <2>1
      <3>2. Fits(row(i))
        BY <1>2, BooksOf DEF Fits
      <3>3. \A p \in Products : NetStock(row(i), p) = NetStock(invoice[i], p)
        BY <1>2 DEF NetStock
      <3>4. NetDebt(row(i)) = 0
        BY <1>2, NetDebtOf
      <3> QED BY <1>1, <1>2, <3>1, <3>2, <3>3, <3>4, BooksOf
    <2>2. CASE i \notin owned
      <3>1. invoice'[i] = invoice[i] /\ ledger'[i] = ledger[i]
        BY <1>1, <2>2
      <3> QED BY <1>1, <3>1, BooksOf
    <2> QED BY <2>1, <2>2
  <1>4. StockMatchesInvoices' /\ LedgerMatchesInvoices' /\ HistoryFits'
    BY <1>3 DEF StockMatchesInvoices, LedgerMatchesInvoices, HistoryFits
  <1>5. \A i \in InvoiceIds : /\ invoice'[i].number = invoice[i].number
                              /\ Live(invoice'[i]) <=> Live(invoice[i])
    BY <1>3 DEF Live
  <1>6. NumbersAreGapless'
    BY <1>1, <1>5, SameNumbers DEF BooksAgree
  <1> QED BY <1>4, <1>6 DEF Books

-----------------------------------------------------------------------------
(***************************************************************************)
(* The invariant and what follows from it.                                 *)
(***************************************************************************)

LEMMA InitBooks == Init => BooksAgree
  <1> SUFFICES ASSUME Init PROVE Books
    BY InitTypeOK DEF BooksAgree, Books
  <1>1. ASSUME NEW i \in InvoiceIds
        PROVE  /\ ~Live(invoice[i]) /\ Fits(invoice[i])
               /\ invoice[i].number = 0 /\ ledger[i] = 0
               /\ \A p \in Products : movement[i][p] = 0
    <2>1. invoice[i] = NoInvoice /\ ledger[i] = 0 /\ \A p \in Products : movement[i][p] = 0
      BY DEF Init
    <2>2. /\ NoInvoice.status = "unused" /\ NoInvoice.number = 0 /\ NoInvoice.paid = 0
          /\ NoInvoice.returnedMinor = 0 /\ \A p \in Products : NoInvoice.returned[p] = 0
      BY DEF NoInvoice
    <2>3. Fits(NoInvoice)
      BY <2>2, EmptyRow, UnnumberedFits
    <2> QED BY <2>1, <2>2, <2>3 DEF Live
  <1>2. StockMatchesInvoices /\ LedgerMatchesInvoices /\ HistoryFits
    BY <1>1, NetStockOf, NetDebtOf DEF StockMatchesInvoices, LedgerMatchesInvoices, HistoryFits
  <1>3. Numbered = {} /\ nextNumber = 1
    BY <1>1 DEF Numbered, Init
  <1>4. {i \in InvoiceIds : invoice[i].status \in {"posted", "void"}} = {}
    BY <1>1 DEF Live
  <1>5. 1..(nextNumber - 1) = {}
    BY <1>3
  <1> QED BY <1>2, <1>3, <1>4, <1>5 DEF Books, NumbersAreGapless

LEMMA InvoiceBooks == BooksAgree /\ InvoiceNext => Books'
  <1> SUFFICES ASSUME BooksAgree, NEW i \in InvoiceIds,
        \/ \E c \in Clients, doc \in DocumentTypes, lines \in LineForms :
              \/ CreateInvoice(i, c, doc, lines)
              \/ UpdateDraft(i, invoice[i].version, c, doc, lines)
              \/ EditPosted(i, invoice[i].version, c, doc, lines)
        \/ PostInvoice(i, invoice[i].version)
        \/ VoidInvoice(i, invoice[i].version)
        \/ ReactivateVoid(i, invoice[i].version)
        \/ CancelInvoice(i, invoice[i].version)
        \/ ReactivateCancelled(i, invoice[i].version)
        \/ DeleteCancelled(i)
        \/ \E cartons \in [Products -> ReturnInputs \cup {0}] : CreateReturn(i, cartons)
        \/ \E amount \in PaymentInputs : CreatePayment(i, amount)
               PROVE  Books'
    BY Zenon DEF InvoiceNext
  <1>1. ASSUME NEW c \in Clients, NEW doc \in DocumentTypes, NEW lines \in LineForms,
               \/ CreateInvoice(i, c, doc, lines)
               \/ UpdateDraft(i, invoice[i].version, c, doc, lines)
               \/ EditPosted(i, invoice[i].version, c, doc, lines)
        PROVE  Books'
    BY <1>1, CreateInvoiceBooks, UpdateDraftBooks, EditPostedBooks
  <1>2. CASE PostInvoice(i, invoice[i].version)
    BY <1>2, PostBooks
  <1>3. CASE VoidInvoice(i, invoice[i].version)
    BY <1>3, VoidBooks
  <1>4. CASE ReactivateVoid(i, invoice[i].version)
    BY <1>4, ReactivateVoidBooks
  <1>5. CASE CancelInvoice(i, invoice[i].version)
    <2>1. /\ invoice' = [invoice EXCEPT ![i] = Stamped(invoice[i], "cancelled")]
          /\ invoice[i].status = "draft" /\ UNCHANGED <<movement, ledger, nextNumber>>
      BY <1>5 DEF CancelInvoice, Transition, stockVars, bookVars
    <2>2. "cancelled" \in Statuses /\ ~Live(invoice[i])
      BY <2>1 DEF Statuses, Live
    <2> QED BY <2>1, <2>2, CancelledBooks
  <1>6. CASE ReactivateCancelled(i, invoice[i].version)
    <2>1. /\ invoice' = [invoice EXCEPT ![i] = Stamped(invoice[i], "draft")]
          /\ invoice[i].status = "cancelled" /\ UNCHANGED <<movement, ledger, nextNumber>>
      BY <1>6 DEF ReactivateCancelled, stockVars, bookVars
    <2>2. "draft" \in Statuses /\ ~Live(invoice[i])
      BY <2>1 DEF Statuses, Live
    <2> QED BY <2>1, <2>2, CancelledBooks
  <1>7. CASE DeleteCancelled(i)
    BY <1>7, DeleteCancelledBooks
  <1>8. ASSUME NEW cartons \in [Products -> ReturnInputs \cup {0}], CreateReturn(i, cartons)
        PROVE  Books'
    BY <1>8, CreateReturnBooks
  <1>9. ASSUME NEW amount \in PaymentInputs, CreatePayment(i, amount) PROVE Books'
    BY <1>9, CreatePaymentBooks
  <1> QED BY <1>1, <1>2, <1>3, <1>4, <1>5, <1>6, <1>7, <1>8, <1>9

LEMMA ProductBooks == BooksAgree /\ ProductNext => Books'
  <1> SUFFICES ASSUME BooksAgree, NEW p \in Products,
                      \/ \E in \in ProductInputs : CreateProduct(p, in)
                      \/ \E in \in ProductInputs : UpdateProduct(p, product[p].version, in)
                      \/ DeleteProduct(p)
               PROVE  Books'
    BY DEF ProductNext
  <1>1. ASSUME NEW in \in ProductInputs, CreateProduct(p, in) PROVE Books'
    BY <1>1, UntouchedBooks DEF CreateProduct, bookVars
  <1>2. ASSUME NEW in \in ProductInputs, UpdateProduct(p, product[p].version, in)
        PROVE  Books'
    BY <1>2, UntouchedBooks DEF UpdateProduct, bookVars
  <1>3. CASE DeleteProduct(p)
    BY <1>3, DeleteProductBooks
  <1> QED BY <1>1, <1>2, <1>3

LEMMA ClientBooks == BooksAgree /\ ClientNext => Books'
  <1> SUFFICES ASSUME BooksAgree, ClientNext PROVE Books'
    OBVIOUS
  <1>1. ASSUME NEW c \in Clients, DeleteClientAssociations(c) PROVE Books'
    BY <1>1, DeleteClientAssociationsBooks
  <1>2. ASSUME NEW c \in Clients, NEW in \in ClientInputs,
               CreateClient(c, in) \/ UpdateClient(c, in)
        PROVE  Books'
    BY <1>2, UntouchedBooks DEF CreateClient, UpdateClient, stockVars, bookVars
  <1>3. ASSUME NEW c \in Clients, DeleteClient(c) PROVE Books'
    BY <1>3, UntouchedBooks DEF DeleteClient, stockVars, bookVars
  <1>4. ASSUME NEW r \in ReceiptIds, NEW c \in Clients, NEW in \in ReceiptInputs,
               CreateReceipt(r, c, in)
        PROVE  Books'
    BY <1>4, UntouchedBooks DEF CreateReceipt, stockVars, bookVars
  <1>5. ASSUME NEW r \in ReceiptIds, NEW in \in ReceiptInputs, UpdateReceipt(r, in)
        PROVE  Books'
    BY <1>5, UntouchedBooks DEF UpdateReceipt, stockVars, bookVars
  <1>6. ASSUME NEW r \in ReceiptIds, DeleteReceipt(r) PROVE Books'
    BY <1>6, UntouchedBooks DEF DeleteReceipt, stockVars, bookVars
  <1> QED BY <1>1, <1>2, <1>3, <1>4, <1>5, <1>6, Zenon DEF ClientNext

\* BooksAgree is inductive: the whole of what postings, edits, voids,
\* reactivations, returns, payments and detachments must keep between the
\* invoices and the stock, account and number tables.
THEOREM BooksAlwaysAgree == Spec => []BooksAgree
  <1>1. BooksAgree /\ [Next]_vars => BooksAgree'
    <2> SUFFICES ASSUME BooksAgree, [Next]_vars PROVE Books'
      <3>1. TypeOK /\ [Next]_vars => TypeOK'
        BY TypeStep
      <3> QED BY <3>1 DEF BooksAgree, Books
    <2>1. CASE TenantNext
      BY <2>1, UntouchedBooks DEF TenantNext, UpdateTenant, stockVars, bookVars
    <2>2. CASE UNCHANGED vars
      BY <2>2, UntouchedBooks DEF vars, stockVars, bookVars
    <2> QED BY <2>1, <2>2, ProductBooks, InvoiceBooks, ClientBooks DEF Next
  <1> QED BY InitBooks, <1>1, PTL DEF Spec

\* Posting, editing, voiding, reactivating and returning in any order leave
\* exactly the stock movements of the present invoices (transitionInvoice,
\* applyPostedInvoiceEdit, createInvoiceReturn).
THEOREM StockAlwaysMatches == Spec => []StockMatchesInvoices
  BY BooksAlwaysAgree, PTL DEF BooksAgree

\* The client_ledger rows of every invoice add up to what the invoice says.
THEOREM LedgerAlwaysMatches == Spec => []LedgerMatchesInvoices
  BY BooksAlwaysAgree, PTL DEF BooksAgree

\* No edit, return or payment contradicts an earlier one (KeepsHistory,
\* Returnable, Due).
THEOREM HistoryAlwaysFits == Spec => []HistoryFits
  BY BooksAlwaysAgree, PTL DEF BooksAgree

\* Invoice numbers are 1, 2, 3, ... without gap or repetition (invoice_counters).
THEOREM NumbersStayGapless == Spec => []NumbersAreGapless
  BY BooksAlwaysAgree, PTL DEF BooksAgree

-----------------------------------------------------------------------------
(***************************************************************************)
(* What a step may never do: numbers and inactive tenants.  Both go        *)
(* handler by handler; the first needs BooksAgree, which says that an      *)
(* invoice with a number is posted or void and so out of the reach of the  *)
(* handlers that write a number or empty a row.                            *)
(***************************************************************************)

KeepsNumbers == \A i \in Numbered : invoice'[i].number = invoice[i].number

Frozen == UNCHANGED <<stockVars, bookVars, receipt>>

-----------------------------------------------------------------------------
(***************************************************************************)
(* Numbers.                                                                *)
(***************************************************************************)

\* A handler that writes one row keeps every number if it keeps that row's.
LEMMA OneRowKeeps ==
  ASSUME TypeOK, NEW i \in InvoiceIds, NEW row, invoice' = [invoice EXCEPT ![i] = row],
         invoice[i].number # 0 => row.number = invoice[i].number
  PROVE  KeepsNumbers
  <1>1. invoice'[i] = row /\ \A j \in InvoiceIds \ {i} : invoice'[j] = invoice[j]
    BY DEF TypeOK
  <1> QED BY <1>1 DEF KeepsNumbers, Numbered

LEMMA StampKeeps ==
  ASSUME BooksAgree, NEW i \in InvoiceIds, NEW s \in Statuses,
         invoice' = [invoice EXCEPT ![i] = Stamped(invoice[i], s)]
  PROVE  KeepsNumbers
  <1> DEFINE row == Stamped(invoice[i], s)
  <1>1. TypeOK /\ invoice[i] \in Invoice
    BY BooksOf DEF BooksAgree
  <1>2. row.number = invoice[i].number
    BY <1>1, StampedRow, Zenon
  <1> HIDE DEF row
  <1>3. invoice' = [invoice EXCEPT ![i] = row]
    BY DEF row
  <1> QED BY <1>1, <1>2, <1>3, OneRowKeeps

\* A handler that starts from an invoice that is not posted or void may write
\* any number: there is none to keep.
LEMMA UnpostedKeeps ==
  ASSUME BooksAgree, NEW i \in InvoiceIds, ~Live(invoice[i]),
         NEW row, invoice' = [invoice EXCEPT ![i] = row]
  PROVE  KeepsNumbers
  <1>1. TypeOK /\ invoice[i].number = 0
    BY BooksOf DEF BooksAgree
  <1> QED BY <1>1, OneRowKeeps

LEMMA InvoiceKeeps ==
  ASSUME BooksAgree, InvoiceNext
  PROVE  KeepsNumbers
  <1> SUFFICES ASSUME NEW i \in InvoiceIds,
        \/ \E c \in Clients, doc \in DocumentTypes, lines \in LineForms :
              \/ CreateInvoice(i, c, doc, lines)
              \/ UpdateDraft(i, invoice[i].version, c, doc, lines)
              \/ EditPosted(i, invoice[i].version, c, doc, lines)
        \/ PostInvoice(i, invoice[i].version)
        \/ VoidInvoice(i, invoice[i].version)
        \/ ReactivateVoid(i, invoice[i].version)
        \/ CancelInvoice(i, invoice[i].version)
        \/ ReactivateCancelled(i, invoice[i].version)
        \/ DeleteCancelled(i)
        \/ \E cartons \in [Products -> ReturnInputs \cup {0}] : CreateReturn(i, cartons)
        \/ \E amount \in PaymentInputs : CreatePayment(i, amount)
               PROVE  KeepsNumbers
    BY Zenon DEF InvoiceNext
  <1>0. /\ TypeOK /\ invoice[i] \in Invoice
        /\ invoice[i].status \in {"unused", "draft", "cancelled"} => ~Live(invoice[i])
    BY BooksOf DEF BooksAgree, Live
  <1>1. ASSUME NEW c \in Clients, NEW doc \in DocumentTypes, NEW lines \in LineForms,
               CreateInvoice(i, c, doc, lines)
        PROVE  KeepsNumbers
    BY <1>0, <1>1, UnpostedKeeps, Zenon DEF CreateInvoice
  <1>2. ASSUME NEW c \in Clients, NEW doc \in DocumentTypes, NEW lines \in LineForms,
               UpdateDraft(i, invoice[i].version, c, doc, lines)
        PROVE  KeepsNumbers
    BY <1>0, <1>2, UnpostedKeeps, Zenon DEF UpdateDraft
  <1>3. ASSUME NEW c \in Clients, NEW doc \in DocumentTypes, NEW lines \in LineForms,
               EditPosted(i, invoice[i].version, c, doc, lines)
        PROVE  KeepsNumbers
    <2> DEFINE row == Rewritten(invoice[i], c, doc, lines)
    <2>1. invoice' = [invoice EXCEPT ![i] = row] /\ TotalOf(lines) \in 0..MaxTotal
      BY <1>3, Zenon DEF EditPosted, CanInvoice
    <2>2. row = Rewritten(invoice[i], c, doc, lines)
      OBVIOUS
    <2> HIDE DEF row
    <2>3. row.number = invoice[i].number
      BY <1>0, <2>1, <2>2, RewrittenRow
    <2> QED BY <1>0, <2>1, <2>3, OneRowKeeps
  <1>4. CASE PostInvoice(i, invoice[i].version)
    BY <1>0, <1>4, UnpostedKeeps, Zenon DEF PostInvoice, Transition
  <1>5. CASE VoidInvoice(i, invoice[i].version)
    BY <1>5, StampKeeps, Zenon DEF VoidInvoice, Statuses
  <1>6. CASE ReactivateVoid(i, invoice[i].version)
    BY <1>6, StampKeeps, Zenon DEF ReactivateVoid, Statuses
  <1>7. CASE CancelInvoice(i, invoice[i].version)
    BY <1>7, StampKeeps, Zenon DEF CancelInvoice, Statuses
  <1>8. CASE ReactivateCancelled(i, invoice[i].version)
    BY <1>8, StampKeeps, Zenon DEF ReactivateCancelled, Statuses
  <1>9. CASE DeleteCancelled(i)
    BY <1>0, <1>9, UnpostedKeeps, Zenon DEF DeleteCancelled
  <1>10. ASSUME NEW cartons \in [Products -> ReturnInputs \cup {0}], CreateReturn(i, cartons)
         PROVE  KeepsNumbers
    <2> DEFINE credit == CreditOf(invoice[i], cartons)
               row    == Credited(invoice[i], cartons, credit)
    <2>1. invoice' = [invoice EXCEPT ![i] = row]
      BY <1>10, Zenon DEF CreateReturn
    <2>2. row.number = invoice[i].number
      BY <1>0 DEF Credited, Invoice
    <2> HIDE DEF row
    <2> QED BY <1>0, <2>1, <2>2, OneRowKeeps
  <1>11. ASSUME NEW amount \in PaymentInputs, CreatePayment(i, amount) PROVE KeepsNumbers
    <2> DEFINE row == [invoice[i] EXCEPT !.paid = @ + amount]
    <2>1. invoice' = [invoice EXCEPT ![i] = row]
      BY <1>11, Zenon DEF CreatePayment
    <2>2. row.number = invoice[i].number
      BY <1>0 DEF Invoice
    <2> HIDE DEF row
    <2> QED BY <1>0, <2>1, <2>2, OneRowKeeps
  <1> QED BY <1>1, <1>2, <1>3, <1>4, <1>5, <1>6, <1>7, <1>8, <1>9, <1>10, <1>11

LEMMA SameInvoicesKeep ==
  ASSUME UNCHANGED invoice PROVE KeepsNumbers
  BY DEF KeepsNumbers

LEMMA ClientKeeps ==
  ASSUME BooksAgree, ClientNext
  PROVE  KeepsNumbers
  <1>1. ASSUME NEW c \in Clients, DeleteClientAssociations(c) PROVE KeepsNumbers
    <2> DEFINE owned  == {i \in InvoiceIds : invoice[i].client = c}
               row(i) == [invoice[i] EXCEPT !.client = NoClient, !.paid = 0]
    <2>1. invoice' = [i \in InvoiceIds |-> IF i \in owned THEN row(i) ELSE invoice[i]]
      BY <1>1, Zenon DEF DeleteClientAssociations, InvoicesOf
    <2>2. ASSUME NEW i \in InvoiceIds PROVE row(i).number = invoice[i].number
      <3>1. invoice[i] \in Invoice
        BY BooksOf
      <3> QED BY <3>1 DEF Invoice
    <2> HIDE DEF owned, row
    <2> QED BY <2>1, <2>2 DEF KeepsNumbers, Numbered
  <1>2. ASSUME NEW c \in Clients, NEW in \in ClientInputs,
               CreateClient(c, in) \/ UpdateClient(c, in)
        PROVE  KeepsNumbers
    BY <1>2, SameInvoicesKeep DEF CreateClient, UpdateClient
  <1>3. ASSUME NEW c \in Clients, DeleteClient(c) PROVE KeepsNumbers
    BY <1>3, SameInvoicesKeep DEF DeleteClient
  <1>4. ASSUME NEW r \in ReceiptIds, NEW c \in Clients, NEW in \in ReceiptInputs,
               CreateReceipt(r, c, in)
        PROVE  KeepsNumbers
    BY <1>4, SameInvoicesKeep DEF CreateReceipt
  <1>5. ASSUME NEW r \in ReceiptIds, NEW in \in ReceiptInputs, UpdateReceipt(r, in)
        PROVE  KeepsNumbers
    BY <1>5, SameInvoicesKeep DEF UpdateReceipt
  <1>6. ASSUME NEW r \in ReceiptIds, DeleteReceipt(r) PROVE KeepsNumbers
    BY <1>6, SameInvoicesKeep DEF DeleteReceipt
  <1> QED BY <1>1, <1>2, <1>3, <1>4, <1>5, <1>6, Zenon DEF ClientNext

\* A number, once assigned, is never changed or taken away, whatever is done to
\* the invoice, its products, its client or its tenant (transitionInvoice,
\* reactivateInvoice, deleteCancelledInvoice, deleteClientAssociations).
THEOREM NumbersStayForever == Spec => NumbersAreForever
  <1>1. ASSUME BooksAgree, [Next]_vars
        PROVE  KeepsNumbers
    <2>1. CASE TenantNext
      BY <2>1, SameInvoicesKeep DEF TenantNext, UpdateTenant
    <2>2. CASE ProductNext
      BY <2>2, SameInvoicesKeep DEF ProductNext, CreateProduct, UpdateProduct, DeleteProduct
    <2>3. CASE InvoiceNext
      BY <1>1, <2>3, InvoiceKeeps
    <2>4. CASE ClientNext
      BY <1>1, <2>4, ClientKeeps
    <2>5. CASE UNCHANGED vars
      BY <2>5, SameInvoicesKeep DEF vars
    <2> QED BY <1>1, <2>1, <2>2, <2>3, <2>4, <2>5 DEF Next
  <1>2. BooksAgree /\ [Next]_vars
          => [\A i \in Numbered : invoice'[i].number = invoice[i].number]_vars
    BY <1>1 DEF KeepsNumbers
  <1> QED BY <1>2, BooksAlwaysAgree, PTL DEF Spec, NumbersAreForever

-----------------------------------------------------------------------------
(***************************************************************************)
(* The inactive tenant.                                                    *)
(***************************************************************************)

\* Each handler either goes through commerceTx or writes no stock, no account,
\* no number and no receipt.
LEMMA ClosedStep ==
  ASSUME ~tenantActive, Next
  PROVE  Frozen
  <1>1. CASE TenantNext
    BY <1>1 DEF TenantNext, UpdateTenant, Frozen
  <1>2. CASE ProductNext
    BY <1>2, Zenon DEF ProductNext, CreateProduct, UpdateProduct, DeleteProduct, CommerceTx
  <1>3. CASE InvoiceNext
    <2>1. ASSUME NEW i \in InvoiceIds, NEW c \in Clients, NEW doc \in DocumentTypes,
                 NEW lines \in LineForms
          PROVE  /\ ~CreateInvoice(i, c, doc, lines)
                 /\ ~UpdateDraft(i, invoice[i].version, c, doc, lines)
                 /\ ~EditPosted(i, invoice[i].version, c, doc, lines)
      BY Zenon DEF CreateInvoice, UpdateDraft, EditPosted, CanInvoice, CommerceTx
    <2>2. ASSUME NEW i \in InvoiceIds
          PROVE  /\ ~PostInvoice(i, invoice[i].version)
                 /\ ~VoidInvoice(i, invoice[i].version)
                 /\ ~ReactivateVoid(i, invoice[i].version)
                 /\ ~CancelInvoice(i, invoice[i].version)
                 /\ ~DeleteCancelled(i)
      BY Zenon DEF PostInvoice, VoidInvoice, ReactivateVoid, CancelInvoice,
                   DeleteCancelled, Transition, CommerceTx
    <2>3. ASSUME NEW i \in InvoiceIds
          PROVE  /\ \A cartons \in [Products -> ReturnInputs \cup {0}] :
                      ~CreateReturn(i, cartons)
                 /\ \A amount \in PaymentInputs : ~CreatePayment(i, amount)
      BY Zenon DEF CreateReturn, CreatePayment, CommerceTx
    <2>4. PICK i \in InvoiceIds : ReactivateCancelled(i, invoice[i].version)
      BY <1>3, <2>1, <2>2, <2>3, Zenon DEF InvoiceNext
    <2> QED BY <2>4 DEF ReactivateCancelled, Frozen
  <1>4. CASE ClientNext
    <2>1. PICK c \in Clients : DeleteClient(c)
      BY <1>4, Zenon DEF ClientNext, CreateClient, UpdateClient, DeleteClientAssociations,
                         CreateReceipt, UpdateReceipt, DeleteReceipt, CommerceTx
    <2> QED BY <2>1 DEF DeleteClient, Frozen
  <1> QED BY <1>1, <1>2, <1>3, <1>4 DEF Next

\* While the tenant is inactive nothing moves stock, the ledger, a number or a
\* receipt; the two writes that skip commerceTx (reactivating a cancelled draft,
\* deleting a client) are seen to touch none of them.
THEOREM BooksStayClosed == Spec => BooksCloseWithTenant
  <1>1. [Next]_vars
          => [~tenantActive => UNCHANGED <<stockVars, bookVars, receipt>>]_vars
    BY ClosedStep DEF Frozen
  <1> QED BY <1>1, PTL DEF Spec, BooksCloseWithTenant

-----------------------------------------------------------------------------
(***************************************************************************)
(* What a step may never do: balances.  A balance is the sum of what the   *)
(* invoices of a client owe less the sum of what its receipts gave, and a  *)
(* handler changes one summand of one of the two.                          *)
(***************************************************************************)

\* What invoice i, and what receipt r, put on the account of client c.
Owes(c, i) == IF invoice[i].client = c THEN InvoiceDebt(i) ELSE 0

Gave(c, r) ==
  IF receipt[r].row = "live" /\ receipt[r].client = c THEN Received(r) ELSE 0

\* A sum over the chosen rows, as one over all rows.
LEMMA OwnedSum ==
  ASSUME NEW S, IsFiniteSet(S), NEW own \in SUBSET S,
         NEW f, \A x \in S : f[x] \in Int
  PROVE  /\ SumFunction([x \in own |-> f[x]])
              = SumFunctionOnSet([x \in S |-> IF x \in own THEN f[x] ELSE 0], S)
         /\ SumFunctionOnSet([x \in S |-> IF x \in own THEN f[x] ELSE 0], S) \in Int
  <1> DEFINE part  == [x \in own |-> f[x]]
             whole == [x \in S |-> IF x \in own THEN f[x] ELSE 0]
  <1>1. /\ \A x \in S : whole[x] \in Int /\ (x \notin own => whole[x] = 0)
        /\ \A x \in own : part[x] = whole[x]
        /\ SumFunction(part) = SumFunctionOnSet(part, own)
    BY DEF SumFunction
  <1> HIDE DEF part, whole
  <1>2. IsFiniteSet(own)
    BY FS_Subset
  <1>3. SumFunctionOnSet(whole, S) = SumFunctionOnSet(whole, own)
    BY <1>1, SumOnSupport
  <1>4. SumFunctionOnSet(part, own) = SumFunctionOnSet(whole, own)
    BY <1>1, <1>2, SumOfEqual
  <1>5. SumFunctionOnSet(whole, S) \in Int
    BY <1>1, SumIsInt
  <1>6. SumFunction(part) = SumFunctionOnSet(whole, S) /\ SumFunctionOnSet(whole, S) \in Int
    BY <1>1, <1>3, <1>4, <1>5
  <1> QED BY <1>6 DEF part, whole

Debts(c)  == SumFunctionOnSet([i \in InvoiceIds |-> Owes(c, i)], InvoiceIds)
Takings(c) == SumFunctionOnSet([r \in ReceiptIds |-> Gave(c, r)], ReceiptIds)

\* The balance of a client, as sums over all invoices and all receipts.
BalanceIsSums ==
  \A c \in Clients :
    /\ Balance(c) = Opening(client[c]) + Debts(c) + Takings(c)
    /\ Opening(client[c]) \in Int /\ Debts(c) \in Int /\ Takings(c) \in Int

EffectsAreInt ==
  /\ \A i \in InvoiceIds : InvoiceDebt(i) \in Int
  /\ \A r \in ReceiptIds : Received(r) \in Int

LEMMA EffectsInt == TypeOK => EffectsAreInt
  <1> SUFFICES ASSUME TypeOK PROVE EffectsAreInt
    OBVIOUS
  <1>1. ASSUME NEW i \in InvoiceIds PROVE InvoiceDebt(i) \in Int
    <2>1. ledger[i] \in Int /\ invoice[i].paid \in Int
      BY DEF TypeOK, Invoice
    <2>2. DebtOf(invoice[i].doc, invoice[i].paid) \in Int
      BY <2>1, StockOfInt
    <2> QED BY <2>1, <2>2 DEF InvoiceDebt
  <1>2. ASSUME NEW r \in ReceiptIds PROVE Received(r) \in Int
    <2>1. receipt[r].amount \in Int
      BY DEF TypeOK, Receipt
    <2> QED BY <2>1 DEF Received, ReceiptEffect
  <1> QED BY <1>1, <1>2 DEF EffectsAreInt

LEMMA BalanceSums == TypeOK => BalanceIsSums
  <1> SUFFICES ASSUME TypeOK, NEW c \in Clients
               PROVE  /\ Balance(c) = Opening(client[c]) + Debts(c) + Takings(c)
                      /\ Opening(client[c]) \in Int /\ Debts(c) \in Int /\ Takings(c) \in Int
    BY DEF BalanceIsSums
  <1>0. EffectsAreInt
    BY EffectsInt
  <1>1. Opening(client[c]) \in Int
    BY DEF TypeOK, Client, Opening
  <1>2. /\ Debts(c) = SumFunction([i \in InvoicesOf(c) |-> InvoiceDebt(i)])
        /\ Debts(c) \in Int
    <2> DEFINE f == [i \in InvoiceIds |-> InvoiceDebt(i)]
               own == InvoicesOf(c)
    <2>1. own \in SUBSET InvoiceIds /\ \A i \in InvoiceIds : f[i] \in Int
      BY <1>0 DEF InvoicesOf, EffectsAreInt
    <2>2. /\ [i \in own |-> f[i]] = [i \in InvoicesOf(c) |-> InvoiceDebt(i)]
          /\ [i \in InvoiceIds |-> IF i \in own THEN f[i] ELSE 0]
               = [i \in InvoiceIds |-> Owes(c, i)]
      BY DEF Owes, InvoicesOf
    <2> HIDE DEF f, own
    <2>3. /\ SumFunction([i \in own |-> f[i]])
               = SumFunctionOnSet([i \in InvoiceIds |-> IF i \in own THEN f[i] ELSE 0], InvoiceIds)
          /\ SumFunctionOnSet([i \in InvoiceIds |-> IF i \in own THEN f[i] ELSE 0], InvoiceIds) \in Int
      BY <2>1, IdsAssumption, OwnedSum
    <2> QED BY <2>2, <2>3 DEF Debts
  <1>3. /\ Takings(c) = SumFunction([r \in ReceiptsOf(c) |-> Received(r)])
        /\ Takings(c) \in Int
    <2> DEFINE f == [r \in ReceiptIds |-> Received(r)]
               own == ReceiptsOf(c)
    <2>1. own \in SUBSET ReceiptIds /\ \A r \in ReceiptIds : f[r] \in Int
      BY <1>0 DEF ReceiptsOf, EffectsAreInt
    <2>2. /\ [r \in own |-> f[r]] = [r \in ReceiptsOf(c) |-> Received(r)]
          /\ [r \in ReceiptIds |-> IF r \in own THEN f[r] ELSE 0]
               = [r \in ReceiptIds |-> Gave(c, r)]
      BY DEF Gave, ReceiptsOf
    <2> HIDE DEF f, own
    <2>3. /\ SumFunction([r \in own |-> f[r]])
               = SumFunctionOnSet([r \in ReceiptIds |-> IF r \in own THEN f[r] ELSE 0], ReceiptIds)
          /\ SumFunctionOnSet([r \in ReceiptIds |-> IF r \in own THEN f[r] ELSE 0], ReceiptIds) \in Int
      BY <2>1, IdsAssumption, OwnedSum
    <2> QED BY <2>2, <2>3 DEF Takings
  <1> QED BY <1>1, <1>2, <1>3 DEF Balance

\* The state before and the state after a step.
LEMMA BothBalances ==
  ASSUME TypeOK, [Next]_vars
  PROVE  TypeOK' /\ BalanceIsSums /\ BalanceIsSums' /\ EffectsAreInt /\ EffectsAreInt'
  <1>1. TypeOK'
    BY TypeStep
  <1>2. (TypeOK => BalanceIsSums)' /\ (TypeOK => EffectsAreInt)'
    BY BalanceSums, EffectsInt, PTL
  <1> QED BY <1>1, <1>2, BalanceSums, EffectsInt

-----------------------------------------------------------------------------
(***************************************************************************)
(* What a step does to a balance.                                          *)
(***************************************************************************)

SameDebts(c)   == \A i \in InvoiceIds : Owes(c, i)' = Owes(c, i)
SameTakings(c) == \A r \in ReceiptIds : Gave(c, r)' = Gave(c, r)

LEMMA SameBalance ==
  ASSUME TypeOK, [Next]_vars, NEW c \in Clients,
         client'[c] = client[c], SameDebts(c), SameTakings(c)
  PROVE  Balance(c)' = Balance(c)
  <1>1. Debts(c)' = Debts(c)
    BY Zenon DEF Debts, SameDebts
  <1>2. Takings(c)' = Takings(c)
    BY Zenon DEF Takings, SameTakings
  <1>3. Opening(client[c])' = Opening(client[c])
    BY DEF Opening
  <1> QED BY <1>1, <1>2, <1>3, BothBalances DEF BalanceIsSums

LEMMA NoDebtsTouched ==
  ASSUME UNCHANGED <<invoice, ledger>>, NEW c PROVE SameDebts(c)
  BY DEF SameDebts, Owes, InvoiceDebt

LEMMA NoTakingsTouched ==
  ASSUME UNCHANGED receipt, NEW c PROVE SameTakings(c)
  BY DEF SameTakings, Gave, Received

\* One receipt is written: the balance moves by what it gave and gives.
LEMMA OneReceipt ==
  ASSUME TypeOK, [Next]_vars, NEW c \in Clients, NEW r \in ReceiptIds,
         UNCHANGED <<client, invoice, ledger>>,
         \A s \in ReceiptIds \ {r} : receipt'[s] = receipt[s]
  PROVE  /\ Balance(c)' = Balance(c) + Gave(c, r)' - Gave(c, r)
         /\ Balance(c) \in Int /\ Gave(c, r)' \in Int /\ Gave(c, r) \in Int
  <1> DEFINE f == [s \in ReceiptIds |-> Gave(c, s)]
             g == [s \in ReceiptIds |-> Gave(c, s)']
  <1>1. BalanceIsSums /\ BalanceIsSums' /\ EffectsAreInt /\ EffectsAreInt'
    BY BothBalances
  <1>2. \A s \in ReceiptIds : Gave(c, s) \in Int /\ Gave(c, s)' \in Int
    BY <1>1 DEF Gave, EffectsAreInt
  <1>3. \A s \in ReceiptIds \ {r} : Gave(c, s)' = Gave(c, s)
    BY DEF Gave, Received
  <1>4. /\ \A s \in ReceiptIds : f[s] \in Int /\ g[s] \in Int
        /\ \A s \in ReceiptIds \ {r} : g[s] = f[s]
        /\ f[r] = Gave(c, r) /\ g[r] = Gave(c, r)'
    BY <1>2, <1>3
  <1>5. Takings(c) = SumFunctionOnSet(f, ReceiptIds) /\ Takings(c)' = SumFunctionOnSet(g, ReceiptIds)
    BY DEF Takings
  <1> HIDE DEF f, g
  <1>6. SumFunctionOnSet(g, ReceiptIds) = SumFunctionOnSet(f, ReceiptIds) + g[r] - f[r]
    BY <1>4, IdsAssumption, SumChangedOnce
  <1>7. Takings(c)' = Takings(c) + Gave(c, r)' - Gave(c, r)
    BY <1>4, <1>5, <1>6
  <1>8. Debts(c)' = Debts(c)
    BY NoDebtsTouched, Zenon DEF Debts, SameDebts
  <1>9. Opening(client[c])' = Opening(client[c])
    BY DEF Opening
  <1>10. /\ Balance(c) = Opening(client[c]) + Debts(c) + Takings(c)
         /\ Balance(c)' = Opening(client[c])' + Debts(c)' + Takings(c)'
         /\ Opening(client[c]) \in Int /\ Debts(c) \in Int /\ Takings(c) \in Int
    BY <1>1 DEF BalanceIsSums
  <1>11. Gave(c, r) \in Int /\ Gave(c, r)' \in Int
    BY <1>2
  <1> QED BY <1>7, <1>8, <1>9, <1>10, <1>11

\* A handler of invoices writes no client and no receipt.
LEMMA InvoicesLeaveClients == InvoiceNext => UNCHANGED <<client, receipt>>
  <1>1. ASSUME NEW i \in InvoiceIds, NEW c \in Clients, NEW doc \in DocumentTypes,
               NEW lines \in LineForms,
               \/ CreateInvoice(i, c, doc, lines)
               \/ UpdateDraft(i, invoice[i].version, c, doc, lines)
               \/ EditPosted(i, invoice[i].version, c, doc, lines)
        PROVE  UNCHANGED <<client, receipt>>
    BY <1>1, Zenon DEF CreateInvoice, UpdateDraft, EditPosted
  <1>2. ASSUME NEW i \in InvoiceIds,
               \/ PostInvoice(i, invoice[i].version)
               \/ VoidInvoice(i, invoice[i].version)
               \/ ReactivateVoid(i, invoice[i].version)
        PROVE  UNCHANGED <<client, receipt>>
    BY <1>2, Zenon DEF PostInvoice, VoidInvoice, ReactivateVoid
  <1>3. ASSUME NEW i \in InvoiceIds,
               \/ CancelInvoice(i, invoice[i].version)
               \/ ReactivateCancelled(i, invoice[i].version)
               \/ DeleteCancelled(i)
        PROVE  UNCHANGED <<client, receipt>>
    BY <1>3, Zenon DEF CancelInvoice, ReactivateCancelled, DeleteCancelled
  <1>4. ASSUME NEW i \in InvoiceIds,
               NEW cartons \in [Products -> ReturnInputs \cup {0}], CreateReturn(i, cartons)
        PROVE  UNCHANGED <<client, receipt>>
    BY <1>4, Zenon DEF CreateReturn
  <1>5. ASSUME NEW i \in InvoiceIds, NEW amount \in PaymentInputs, CreatePayment(i, amount)
        PROVE  UNCHANGED <<client, receipt>>
    BY <1>5, Zenon DEF CreatePayment
  <1> QED BY <1>1, <1>2, <1>3, <1>4, <1>5, Zenon DEF InvoiceNext

-----------------------------------------------------------------------------
(***************************************************************************)
(* Receipts.                                                               *)
(***************************************************************************)

NoOvershoot ==
  \A r \in ReceiptIds, c \in Clients :
    receipt'[r] # receipt[r] /\ receipt'[r].row = "live" /\ receipt'[r].client = c
      => IF receipt'[r].direction = "in" THEN Balance(c)' >= 0
                                         ELSE Balance(c)' <= 0

LEMMA CreateReceiptFits ==
  ASSUME TypeOK, [Next]_vars, NEW r \in ReceiptIds, NEW c \in Clients, NEW in \in ReceiptInputs,
         CreateReceipt(r, c, in)
  PROVE  NoOvershoot
  <1> DEFINE row == [row |-> "live", client |-> c, direction |-> in.direction,
                     amount |-> in.amount]
             effect == ReceiptEffect(in.direction, in.amount)
  <1>1. /\ receipt[r].row = "unused" /\ WithinBalance(Balance(c), in)
        /\ receipt' = [receipt EXCEPT ![r] = row]
        /\ UNCHANGED <<client, invoice, ledger>>
    BY Zenon DEF CreateReceipt, bookVars
  <1>2. /\ receipt'[r] = row
        /\ \A s \in ReceiptIds \ {r} : receipt'[s] = receipt[s]
    BY <1>1 DEF TypeOK
  <1>3. in.direction \in {"in", "out"} /\ in.amount \in Nat
    BY InputsAssumption
  <1>4. Gave(c, r)' = effect /\ Gave(c, r) = 0
    BY <1>1, <1>2 DEF Gave, Received
  <1>5. Balance(c)' = Balance(c) + Gave(c, r)' - Gave(c, r) /\ Balance(c) \in Int
    BY <1>1, <1>2, OneReceipt
  <1>6. effect \in Int
    BY <1>3 DEF ReceiptEffect
  <1> DEFINE before == Balance(c)
             after  == Balance(c)'
  <1>7. before \in Int /\ after = before + effect
    BY <1>4, <1>5, <1>6
  <1>8. IF in.direction = "in" THEN after >= 0 ELSE after <= 0
    <2> HIDE DEF before, after
    <2> QED BY <1>1, <1>3, <1>7 DEF WithinBalance, ReceiptEffect, before
  <1> QED BY <1>2, <1>8 DEF NoOvershoot

LEMMA UpdateReceiptFits ==
  ASSUME TypeOK, [Next]_vars, NEW r \in ReceiptIds, NEW in \in ReceiptInputs,
         UpdateReceipt(r, in)
  PROVE  NoOvershoot
  <1> DEFINE row == [receipt[r] EXCEPT !.direction = in.direction, !.amount = in.amount]
             effect == ReceiptEffect(in.direction, in.amount)
  <1>1. /\ receipt[r].row = "live"
        /\ Resulting(r, in) < 0 => in.direction = "out"
        /\ Resulting(r, in) > 0 => in.direction = "in"
        /\ receipt' = [receipt EXCEPT ![r] = row]
        /\ UNCHANGED <<client, invoice, ledger>>
    BY Zenon DEF UpdateReceipt, bookVars
  <1>2. /\ receipt'[r] = row
        /\ \A s \in ReceiptIds \ {r} : receipt'[s] = receipt[s]
    BY <1>1 DEF TypeOK
  <1>3. in.direction \in {"in", "out"} /\ in.amount \in Nat
    BY InputsAssumption
  <1>4. row.row = "live" /\ row.client = receipt[r].client /\ row.direction = in.direction /\ row.amount = in.amount
    BY <1>1 DEF TypeOK, Receipt
  <1> HIDE DEF row
  <1>5. ASSUME NEW c \in Clients, c = receipt[r].client
        PROVE  IF in.direction = "in" THEN Balance(c)' >= 0 ELSE Balance(c)' <= 0
    <2>1. Gave(c, r)' = effect /\ Gave(c, r) = Received(r)
      BY <1>1, <1>2, <1>4, <1>5 DEF Gave, Received
    <2>2. /\ Balance(c)' = Balance(c) + Gave(c, r)' - Gave(c, r) /\ Balance(c) \in Int
          /\ Gave(c, r)' \in Int /\ Gave(c, r) \in Int
      BY <1>1, <1>2, OneReceipt
    <2>3. Resulting(r, in) = Balance(c) - Received(r) + effect
      BY <1>5, Zenon DEF Resulting
    <2> DEFINE after == Balance(c)'
    <2>4. after = Resulting(r, in) /\ after \in Int
      <3> HIDE DEF effect
      <3> QED BY <2>1, <2>2, <2>3
    <2> HIDE DEF after
    <2>5. IF in.direction = "in" THEN after >= 0 ELSE after <= 0
      BY <1>1, <1>3, <2>4
    <2> QED BY <2>5 DEF after
  <1> QED BY <1>2, <1>4, <1>5 DEF NoOvershoot

\* A receipt, new or corrected, never pushes the balance past zero
\* (createClientReceipt, updateClientReceipt), by the balance that all
\* invoices, payments and receipts of the client add up to after the write.
THEOREM ReceiptsStayWithin == Spec => ReceiptsNeverOvershoot
  <1>1. ASSUME TypeOK, [Next]_vars PROVE NoOvershoot
    <2>1. CASE UNCHANGED receipt
      BY <2>1 DEF NoOvershoot
    <2>2. CASE ClientNext
      <3>1. ASSUME NEW c \in Clients, DeleteClientAssociations(c) PROVE NoOvershoot
        <4>1. receipt' = [r \in ReceiptIds |->
                 IF receipt[r].client = c THEN [NoReceipt EXCEPT !.row = "deleted"]
                 ELSE receipt[r]]
          BY <3>1, Zenon DEF DeleteClientAssociations
        <4> QED BY <4>1 DEF NoOvershoot, NoReceipt
      <3>2. ASSUME NEW r \in ReceiptIds, DeleteReceipt(r) PROVE NoOvershoot
        <4>1. receipt' = [receipt EXCEPT ![r] = [NoReceipt EXCEPT !.row = "deleted"]]
          BY <3>2, Zenon DEF DeleteReceipt
        <4> QED BY <1>1, <4>1 DEF NoOvershoot, NoReceipt, TypeOK
      <3>3. ASSUME NEW c \in Clients, NEW in \in ClientInputs,
                   CreateClient(c, in) \/ UpdateClient(c, in)
            PROVE  NoOvershoot
        BY <2>1, <3>3, Zenon DEF CreateClient, UpdateClient
      <3>4. ASSUME NEW c \in Clients, DeleteClient(c) PROVE NoOvershoot
        BY <2>1, <3>4, Zenon DEF DeleteClient
      <3>5. ASSUME NEW r \in ReceiptIds, NEW c \in Clients, NEW in \in ReceiptInputs,
                   CreateReceipt(r, c, in)
            PROVE  NoOvershoot
        BY <1>1, <3>5, CreateReceiptFits
      <3>6. ASSUME NEW r \in ReceiptIds, NEW in \in ReceiptInputs, UpdateReceipt(r, in)
            PROVE  NoOvershoot
        BY <1>1, <3>6, UpdateReceiptFits
      <3> QED BY <2>2, <3>1, <3>2, <3>3, <3>4, <3>5, <3>6, Zenon DEF ClientNext
    <2>3. CASE InvoiceNext
      BY <2>1, <2>3, InvoicesLeaveClients
    <2>4. CASE TenantNext \/ ProductNext \/ UNCHANGED vars
      BY <2>1, <2>4, Zenon DEF TenantNext, UpdateTenant, ProductNext, CreateProduct,
         UpdateProduct, DeleteProduct, vars
    <2> QED BY <1>1, <2>2, <2>3, <2>4 DEF Next
  <1>2. TypeOK /\ [Next]_vars
          => [\A r \in ReceiptIds, c \in Clients :
                receipt'[r] # receipt[r] /\ receipt'[r].row = "live" /\ receipt'[r].client = c
                  => IF receipt'[r].direction = "in" THEN Balance(c)' >= 0
                                                     ELSE Balance(c)' <= 0]_vars
    BY <1>1 DEF NoOvershoot
  <1> QED BY <1>2, TypeCorrect, PTL DEF Spec, ReceiptsNeverOvershoot

-----------------------------------------------------------------------------
(***************************************************************************)
(* A step moves the balance of one client.                                 *)
(***************************************************************************)

OnlyMoves(d) == \A c \in Clients \ {d} : Balance(c)' = Balance(c)

\* A handler that writes one invoice leaves the clients it owes the same.
LEMMA OneInvoiceMoves ==
  ASSUME TypeOK, [Next]_vars, NEW i \in InvoiceIds, NEW row,
         invoice' = [invoice EXCEPT ![i] = row],
         \A j \in InvoiceIds \ {i} : ledger'[j] = ledger[j],
         UNCHANGED <<client, receipt>>,
         NEW c \in Clients, Owes(c, i)' = Owes(c, i)
  PROVE  Balance(c)' = Balance(c)
  <1>1. \A j \in InvoiceIds \ {i} : invoice'[j] = invoice[j]
    BY DEF TypeOK
  <1>2. SameDebts(c)
    BY <1>1 DEF SameDebts, Owes, InvoiceDebt
  <1> QED BY <1>2, NoTakingsTouched, SameBalance

LEMMA SameClientMoves ==
  ASSUME TypeOK, [Next]_vars, NEW i \in InvoiceIds, NEW row,
         invoice' = [invoice EXCEPT ![i] = row], row.client = invoice[i].client,
         \A j \in InvoiceIds \ {i} : ledger'[j] = ledger[j],
         UNCHANGED <<client, receipt>>
  PROVE  OnlyMoves(invoice[i].client)
  <1> SUFFICES ASSUME NEW c \in Clients, c # invoice[i].client PROVE Balance(c)' = Balance(c)
    BY DEF OnlyMoves
  <1>1. invoice'[i] = row
    BY DEF TypeOK
  <1>2. Owes(c, i)' = Owes(c, i)
    BY <1>1 DEF Owes
  <1> QED BY <1>2, OneInvoiceMoves

LEMMA NothingOwed ==
  ASSUME NEW doc, NEW n \in Int, n >= 0, n <= 0
  PROVE  DebtOf(doc, n) = 0
  <1>1. n = 0 /\ -n = 0
    OBVIOUS
  <1> QED BY <1>1, Zenon DEF DebtOf

\* What was never posted is on nobody's account, whoever its client is.
LEMMA UnbookedMoves ==
  ASSUME BooksAgree, [Next]_vars, NEW i \in InvoiceIds, NEW row,
         invoice' = [invoice EXCEPT ![i] = row], ~Live(invoice[i]),
         row.paid = 0 \/ row.paid = invoice[i].paid,
         UNCHANGED <<ledger, client, receipt>>, NEW d
  PROVE  OnlyMoves(d)
  <1> SUFFICES ASSUME NEW c \in Clients PROVE Balance(c)' = Balance(c)
    BY DEF OnlyMoves
  <1>1. TypeOK /\ invoice'[i] = row
    BY DEF BooksAgree, TypeOK
  <1>2. ledger[i] = 0 /\ invoice[i].paid = 0
    <2>1. invoice[i].number = 0
      BY BooksOf
    <2>2. invoice[i].paid = 0
      BY <2>1, BooksOf DEF Fits
    <2>3. NetDebt(invoice[i]) = 0
      BY NetDebtOf
    <2> QED BY <2>2, <2>3, BooksOf
  <1>3. InvoiceDebt(i) = 0 /\ InvoiceDebt(i)' = 0
    <2>2. row.paid = 0 /\ ledger'[i] = 0
      BY <1>2
    <2>3. DebtOf(invoice[i].doc, invoice[i].paid) = 0 /\ DebtOf(row.doc, row.paid) = 0
      BY <1>2, <2>2, NothingOwed
    <2>4. InvoiceDebt(i)' = ledger'[i] - DebtOf(row.doc, row.paid)
      BY <1>1 DEF InvoiceDebt
    <2> QED BY <1>2, <2>2, <2>3, <2>4 DEF InvoiceDebt
  <1>4. Owes(c, i)' = Owes(c, i)
    BY <1>3 DEF Owes
  <1> QED BY <1>1, <1>4, OneInvoiceMoves

LEMMA StampMoves ==
  ASSUME TypeOK, [Next]_vars, NEW i \in InvoiceIds, NEW s \in Statuses,
         invoice' = [invoice EXCEPT ![i] = Stamped(invoice[i], s)],
         \A j \in InvoiceIds \ {i} : ledger'[j] = ledger[j],
         UNCHANGED <<client, receipt>>
  PROVE  OnlyMoves(invoice[i].client)
  <1> DEFINE row == Stamped(invoice[i], s)
  <1>1. invoice[i] \in Invoice
    BY DEF TypeOK
  <1>2. row.client = invoice[i].client
    BY <1>1, StampedRow, Zenon
  <1>3. invoice' = [invoice EXCEPT ![i] = row]
    OBVIOUS
  <1> HIDE DEF row
  <1> QED BY <1>2, <1>3, SameClientMoves

\* The ledger rows a handler writes are its invoice's.
LEMMA BooksOneInvoice ==
  ASSUME TypeOK, NEW i \in InvoiceIds, NEW minor, Book(i, minor)
  PROVE  \A j \in InvoiceIds \ {i} : ledger'[j] = ledger[j]
  BY DEF Book, TypeOK

LEMMA InvoiceMoves ==
  ASSUME BooksAgree, InvoiceNext
  PROVE  \E d : OnlyMoves(d)
  <1> SUFFICES ASSUME NEW i \in InvoiceIds,
        \/ \E c \in Clients, doc \in DocumentTypes, lines \in LineForms :
              \/ CreateInvoice(i, c, doc, lines)
              \/ UpdateDraft(i, invoice[i].version, c, doc, lines)
              \/ EditPosted(i, invoice[i].version, c, doc, lines)
        \/ PostInvoice(i, invoice[i].version)
        \/ VoidInvoice(i, invoice[i].version)
        \/ ReactivateVoid(i, invoice[i].version)
        \/ CancelInvoice(i, invoice[i].version)
        \/ ReactivateCancelled(i, invoice[i].version)
        \/ DeleteCancelled(i)
        \/ \E cartons \in [Products -> ReturnInputs \cup {0}] : CreateReturn(i, cartons)
        \/ \E amount \in PaymentInputs : CreatePayment(i, amount)
               PROVE  OnlyMoves(invoice[i].client)
    BY Zenon DEF InvoiceNext
  <1>0. /\ TypeOK /\ invoice[i] \in Invoice /\ [Next]_vars
        /\ invoice[i].status \in {"unused", "draft", "cancelled"} => ~Live(invoice[i])
        /\ UNCHANGED <<client, receipt>>
    BY BooksOf, InvoicesLeaveClients DEF BooksAgree, Live, Next
  <1>1. ASSUME NEW c \in Clients, NEW doc \in DocumentTypes, NEW lines \in LineForms,
               CreateInvoice(i, c, doc, lines)
        PROVE  OnlyMoves(invoice[i].client)
    <2> DEFINE row == [NoInvoice EXCEPT !.status = "draft", !.doc = doc, !.client = c,
                         !.items = ItemsOf(lines), !.total = TotalOf(lines), !.version = 1]
    <2>1. /\ invoice' = [invoice EXCEPT ![i] = row] /\ invoice[i].status = "unused"
          /\ UNCHANGED ledger
      BY <1>1, Zenon DEF CreateInvoice, bookVars
    <2>2. row.paid = 0
      BY DEF NoInvoice
    <2> HIDE DEF row
    <2> QED BY <1>0, <2>1, <2>2, UnbookedMoves
  <1>2. ASSUME NEW c \in Clients, NEW doc \in DocumentTypes, NEW lines \in LineForms,
               UpdateDraft(i, invoice[i].version, c, doc, lines)
        PROVE  OnlyMoves(invoice[i].client)
    <2> DEFINE row == Rewritten(invoice[i], c, doc, lines)
    <2>1. /\ invoice' = [invoice EXCEPT ![i] = row] /\ invoice[i].status = "draft"
          /\ UNCHANGED ledger
      BY <1>2, Zenon DEF UpdateDraft, bookVars
    <2>2. row.paid = invoice[i].paid
      BY <1>0 DEF Rewritten, Invoice
    <2> HIDE DEF row
    <2> QED BY <1>0, <2>1, <2>2, UnbookedMoves
  <1>3. ASSUME NEW c \in Clients, NEW doc \in DocumentTypes, NEW lines \in LineForms,
               EditPosted(i, invoice[i].version, c, doc, lines)
        PROVE  OnlyMoves(invoice[i].client)
    <2> DEFINE row == Rewritten(invoice[i], c, doc, lines)
               minor == DebtOf(doc, TotalOf(lines) - invoice[i].total)
    <2>1. /\ invoice' = [invoice EXCEPT ![i] = row] /\ SameAccount(invoice[i], c, doc)
          /\ Book(i, minor)
      BY <1>3, Zenon DEF EditPosted
    <2>2. row.client = c /\ c = invoice[i].client
      BY <1>0, <2>1 DEF Rewritten, SameAccount, Invoice
    <2> HIDE DEF row, minor
    <2> QED BY <1>0, <2>1, <2>2, SameClientMoves, BooksOneInvoice
  <1>4. ASSUME BookInvoice(i) PROVE \A j \in InvoiceIds \ {i} : ledger'[j] = ledger[j]
    <2> DEFINE minor == DebtOf(invoice[i].doc, invoice[i].total)
    <2>1. Book(i, minor)
      BY <1>4, Zenon DEF BookInvoice
    <2> QED BY <1>0, <2>1, BooksOneInvoice
  <1>5. CASE PostInvoice(i, invoice[i].version)
    <2> DEFINE row == [Stamped(invoice[i], "posted") EXCEPT !.number = nextNumber]
    <2>1. invoice' = [invoice EXCEPT ![i] = row] /\ BookInvoice(i)
      BY <1>5, Zenon DEF PostInvoice
    <2>2. row.client = invoice[i].client
      BY <1>0 DEF Stamped, Invoice
    <2> HIDE DEF row
    <2> QED BY <1>0, <1>4, <2>1, <2>2, SameClientMoves
  <1>6. CASE VoidInvoice(i, invoice[i].version)
    <2> DEFINE minor == -DebtOf(invoice[i].doc, invoice[i].total)
    <2>1. /\ invoice' = [invoice EXCEPT ![i] = Stamped(invoice[i], "void")]
          /\ Book(i, minor) /\ "void" \in Statuses
      BY <1>6, Zenon DEF VoidInvoice, Statuses
    <2> HIDE DEF minor
    <2> QED BY <1>0, <2>1, StampMoves, BooksOneInvoice
  <1>7. CASE ReactivateVoid(i, invoice[i].version)
    <2>1. /\ invoice' = [invoice EXCEPT ![i] = Stamped(invoice[i], "posted")]
          /\ BookInvoice(i) /\ "posted" \in Statuses
      BY <1>7, Zenon DEF ReactivateVoid, Statuses
    <2> QED BY <1>0, <1>4, <2>1, StampMoves
  <1>8. CASE CancelInvoice(i, invoice[i].version) \/ ReactivateCancelled(i, invoice[i].version)
    <2>1. /\ \E s \in Statuses : invoice' = [invoice EXCEPT ![i] = Stamped(invoice[i], s)]
          /\ UNCHANGED ledger
      BY <1>8, Zenon DEF CancelInvoice, ReactivateCancelled, Statuses, bookVars
    <2> QED BY <1>0, <2>1, StampMoves
  <1>9. CASE DeleteCancelled(i)
    <2> DEFINE row == [NoInvoice EXCEPT !.status = "deleted"]
    <2>1. /\ invoice' = [invoice EXCEPT ![i] = row] /\ invoice[i].status = "cancelled"
          /\ UNCHANGED ledger
      BY <1>9, Zenon DEF DeleteCancelled, bookVars
    <2>2. row.paid = 0
      BY DEF NoInvoice
    <2> HIDE DEF row
    <2> QED BY <1>0, <2>1, <2>2, UnbookedMoves
  <1>10. ASSUME NEW cartons \in [Products -> ReturnInputs \cup {0}], CreateReturn(i, cartons)
         PROVE  OnlyMoves(invoice[i].client)
    <2> DEFINE credit == CreditOf(invoice[i], cartons)
               row    == Credited(invoice[i], cartons, credit)
    <2>1. invoice' = [invoice EXCEPT ![i] = row] /\ Book(i, -credit)
      BY <1>10, Zenon DEF CreateReturn
    <2>2. row.client = invoice[i].client
      BY <1>0 DEF Credited, Invoice
    <2> HIDE DEF row, credit
    <2> QED BY <1>0, <2>1, <2>2, SameClientMoves, BooksOneInvoice
  <1>11. ASSUME NEW amount \in PaymentInputs, CreatePayment(i, amount)
         PROVE  OnlyMoves(invoice[i].client)
    <2> DEFINE row == [invoice[i] EXCEPT !.paid = @ + amount]
    <2>1. invoice' = [invoice EXCEPT ![i] = row] /\ UNCHANGED ledger
      BY <1>11, Zenon DEF CreatePayment, bookVars
    <2>2. row.client = invoice[i].client
      BY <1>0 DEF Invoice
    <2> HIDE DEF row
    <2> QED BY <1>0, <2>1, <2>2, SameClientMoves
  <1> QED BY <1>1, <1>2, <1>3, <1>5, <1>6, <1>7, <1>8, <1>9, <1>10, <1>11

LEMMA ClientMoves ==
  ASSUME TypeOK, ClientNext
  PROVE  \E d : OnlyMoves(d)
  <1>0. [Next]_vars
    BY DEF Next
  <1>1. ASSUME NEW d \in Clients, NEW in \in ClientInputs,
               CreateClient(d, in) \/ UpdateClient(d, in) \/ DeleteClient(d)
        PROVE  OnlyMoves(d)
    <2>1. /\ UNCHANGED <<invoice, ledger, receipt>>
          /\ \E account : client' = [client EXCEPT ![d] = account]
      BY <1>1, Zenon DEF CreateClient, UpdateClient, DeleteClient, bookVars
    <2>2. \A c \in Clients \ {d} : client'[c] = client[c]
      BY <2>1 DEF TypeOK
    <2> QED BY <1>0, <2>1, <2>2, SameBalance, NoDebtsTouched, NoTakingsTouched DEF OnlyMoves
  <1>2. ASSUME NEW d \in Clients, DeleteClient(d) PROVE OnlyMoves(d)
    <2>1. /\ UNCHANGED <<invoice, ledger, receipt>>
          /\ \E account : client' = [client EXCEPT ![d] = account]
      BY <1>2, Zenon DEF DeleteClient, bookVars
    <2>2. \A c \in Clients \ {d} : client'[c] = client[c]
      BY <2>1 DEF TypeOK
    <2> QED BY <1>0, <2>1, <2>2, SameBalance, NoDebtsTouched, NoTakingsTouched DEF OnlyMoves
  <1>3. ASSUME NEW d \in Clients, DeleteClientAssociations(d) PROVE OnlyMoves(d)
    <2> DEFINE row(i) == [invoice[i] EXCEPT !.client = NoClient, !.paid = 0]
    <2>1. /\ invoice' = [i \in InvoiceIds |->
                 IF invoice[i].client = d THEN row(i) ELSE invoice[i]]
          /\ ledger' = [i \in InvoiceIds |-> IF invoice[i].client = d THEN 0 ELSE ledger[i]]
          /\ receipt' = [r \in ReceiptIds |->
                 IF receipt[r].client = d THEN [NoReceipt EXCEPT !.row = "deleted"]
                 ELSE receipt[r]]
          /\ client' = client
      <3> DEFINE owned == {i \in InvoiceIds : invoice[i].client = d}
      <3>1. /\ invoice' = [i \in InvoiceIds |-> IF i \in owned THEN row(i) ELSE invoice[i]]
            /\ ledger' = [i \in InvoiceIds |-> IF i \in owned THEN 0 ELSE ledger[i]]
            /\ receipt' = [r \in ReceiptIds |->
                 IF receipt[r].client = d THEN [NoReceipt EXCEPT !.row = "deleted"]
                 ELSE receipt[r]]
            /\ client' = client
        BY <1>3, Zenon DEF DeleteClientAssociations, InvoicesOf
      <3> HIDE DEF row
      <3> QED BY <3>1
    <2>2. ASSUME NEW i \in InvoiceIds PROVE row(i).client = NoClient
      <3>1. invoice[i] \in Invoice
        BY DEF TypeOK
      <3> QED BY <3>1 DEF Invoice
    <2> HIDE DEF row
    <2> SUFFICES ASSUME NEW c \in Clients, c # d PROVE Balance(c)' = Balance(c)
      BY DEF OnlyMoves
    <2>3. c # NoClient
      BY IdsAssumption
    <2>4. SameDebts(c)
      BY <2>1, <2>2, <2>3 DEF SameDebts, Owes, InvoiceDebt
    <2>5. SameTakings(c)
      BY <2>1, <2>3 DEF SameTakings, Gave, Received, NoReceipt
    <2> QED BY <1>0, <2>1, <2>4, <2>5, SameBalance
  <1>4. ASSUME NEW r \in ReceiptIds, NEW d, NEW row, receipt' = [receipt EXCEPT ![r] = row],
               UNCHANGED <<client, invoice, ledger>>, row.row = "live" => row.client = d,
               receipt[r].row = "live" => receipt[r].client = d
        PROVE  OnlyMoves(d)
    <2> SUFFICES ASSUME NEW c \in Clients, c # d PROVE Balance(c)' = Balance(c)
      BY DEF OnlyMoves
    <2>1. receipt'[r] = row /\ \A s \in ReceiptIds \ {r} : receipt'[s] = receipt[s]
      BY <1>4 DEF TypeOK
    <2>2. SameTakings(c)
      BY <1>4, <2>1 DEF SameTakings, Gave, Received
    <2> QED BY <1>0, <1>4, <2>2, NoDebtsTouched, SameBalance
  <1>5. ASSUME NEW r \in ReceiptIds, NEW d \in Clients, NEW in \in ReceiptInputs,
               CreateReceipt(r, d, in)
        PROVE  OnlyMoves(d)
    <2>1. /\ receipt[r].row = "unused" /\ UNCHANGED <<client, invoice, ledger>>
          /\ receipt' = [receipt EXCEPT ![r] = [row |-> "live", client |-> d,
                                                direction |-> in.direction,
                                                amount |-> in.amount]]
      BY <1>5, Zenon DEF CreateReceipt, bookVars
    <2> QED BY <1>4, <2>1
  <1>6. ASSUME NEW r \in ReceiptIds, NEW in \in ReceiptInputs, UpdateReceipt(r, in)
        PROVE  OnlyMoves(receipt[r].client)
    <2> DEFINE row == [receipt[r] EXCEPT !.direction = in.direction, !.amount = in.amount]
    <2>1. UNCHANGED <<client, invoice, ledger>> /\ receipt' = [receipt EXCEPT ![r] = row]
      BY <1>6, Zenon DEF UpdateReceipt, bookVars
    <2>2. row.client = receipt[r].client
      BY DEF TypeOK, Receipt
    <2> HIDE DEF row
    <2> QED BY <1>4, <2>1, <2>2
  <1>7. ASSUME NEW r \in ReceiptIds, DeleteReceipt(r) PROVE OnlyMoves(receipt[r].client)
    <2> DEFINE row == [NoReceipt EXCEPT !.row = "deleted"]
    <2>1. UNCHANGED <<client, invoice, ledger>> /\ receipt' = [receipt EXCEPT ![r] = row]
      BY <1>7, Zenon DEF DeleteReceipt, bookVars
    <2>2. row.row # "live"
      BY DEF NoReceipt
    <2> HIDE DEF row
    <2> QED BY <1>4, <2>1, <2>2
  <1>8. ASSUME NEW d \in Clients, NEW in \in ClientInputs, CreateClient(d, in) \/ UpdateClient(d, in)
        PROVE  OnlyMoves(d)
    BY <1>1, <1>8
  <1> QED BY <1>2, <1>3, <1>5, <1>6, <1>7, <1>8, Zenon DEF ClientNext

\* No request moves what two clients owe: a posting, edit, return, payment,
\* receipt, detachment or deletion changes the balance of one client at most,
\* and a draft moves nobody's.
THEOREM BalancesStayApart == Spec => BalancesMoveAlone
  <1>1. ASSUME BooksAgree, [Next]_vars
        PROVE  \A c, d \in Clients :
                 Balance(c)' # Balance(c) /\ Balance(d)' # Balance(d) => c = d
    <2>1. \E d : OnlyMoves(d)
      <3>1. TypeOK
        BY <1>1 DEF BooksAgree
      <3>2. CASE UNCHANGED <<client, invoice, ledger, receipt>>
        <4>1. \A c \in Clients : Balance(c)' = Balance(c)
          BY <1>1, <3>1, <3>2, NoDebtsTouched, NoTakingsTouched, SameBalance
        <4> QED BY <4>1 DEF OnlyMoves
      <3>3. CASE TenantNext \/ ProductNext \/ UNCHANGED vars
        <4>1. UNCHANGED <<client, invoice, ledger, receipt>>
          BY <3>3, Zenon DEF TenantNext, UpdateTenant, ProductNext, CreateProduct,
             UpdateProduct, DeleteProduct, vars, bookVars
        <4> QED BY <3>2, <4>1
      <3> QED BY <1>1, <3>1, <3>3, InvoiceMoves, ClientMoves DEF Next
    <2> QED BY <2>1 DEF OnlyMoves
  <1>2. BooksAgree /\ [Next]_vars
          => [\A c, d \in Clients :
                Balance(c)' # Balance(c) /\ Balance(d)' # Balance(d) => c = d]_vars
    BY <1>1
  <1> QED BY <1>2, BooksAlwaysAgree, PTL DEF Spec, BalancesMoveAlone
-----------------------------------------------------------------------------
(***************************************************************************)
(* The rows of client_ledger (Statements).  Besides adding up to what      *)
(* Commerce keeps of them, the rows of a posted or void invoice hold a     *)
(* posting, and every posting, with the edits after it alone, is the       *)
(* present total: an edit books the change of the total, a posting the     *)
(* total it finds, and no other row changes it.                            *)
(***************************************************************************)

EntryKinds == {"invoice", "void", "reactivate", "return", "adjust"}
Entry == [kind : EntryKinds, minor : Int]

PostingKinds == {"invoice", "reactivate"}

Minors(rows) == [k \in 1 .. Len(rows) |-> rows[k].minor]
EditsAfter(rows, l) == {k \in 1 .. Len(rows) : k > l /\ rows[k].kind = "adjust"}

\* The sum Commerce keeps is that of the rows.
RowsAddUp(minor, rows) == minor = SumFunctionOnSet(Minors(rows), 1 .. Len(rows))

\* Posting l, with the edits since, is the present total.
IsTotal(inv, rows, l) ==
  rows[l].minor + SumFunctionOnSet(Minors(rows), EditsAfter(rows, l)) = DebtOf(inv.doc, inv.total)

PostsTotal(inv, rows) ==
  /\ \E l \in 1 .. Len(rows) : rows[l].kind \in PostingKinds
  /\ \A l \in 1 .. Len(rows) : rows[l].kind \in PostingKinds => IsTotal(inv, rows, l)

OnAccount(inv) == Live(inv) /\ inv.client # NoClient

\* An invoice, the sum of its rows and the rows.
Accounted(inv, minor, rows) ==
  /\ rows \in Seq(Entry)
  /\ RowsAddUp(minor, rows)
  /\ ~OnAccount(inv) => rows = <<>>
  /\ OnAccount(inv) => PostsTotal(inv, rows)

EntriesFit ==
  /\ entries = [i \in InvoiceIds |-> entries[i]]
  /\ \A i \in InvoiceIds : Accounted(invoice[i], ledger[i], entries[i])

LEMMA MinorsType ==
  ASSUME NEW rows \in Seq(Entry)
  PROVE  /\ Len(rows) \in Nat
         /\ IsFiniteSet(1 .. Len(rows))
         /\ \A k \in 1 .. Len(rows) : /\ rows[k] \in Entry
                                      /\ Minors(rows)[k] = rows[k].minor
                                      /\ Minors(rows)[k] \in Int
<1>1. Len(rows) \in Nat
  OBVIOUS
<1>2. IsFiniteSet(1 .. Len(rows))
  BY <1>1, FS_Interval
<1>3. ASSUME NEW k \in 1 .. Len(rows)
      PROVE  rows[k] \in Entry /\ Minors(rows)[k] = rows[k].minor /\ Minors(rows)[k] \in Int
  <2>1. rows[k] \in Entry
    BY <1>3
  <2>2. rows[k].minor \in Int
    BY <2>1 DEF Entry
  <2>3. Minors(rows)[k] = rows[k].minor
    BY <1>3 DEF Minors
  <2> QED BY <2>1, <2>2, <2>3
<1> QED BY <1>1, <1>2, <1>3

\* An invoice without rows.
LEMMA NoRows == RowsAddUp(0, <<>>) /\ <<>> \in Seq(Entry)
<1>1. Len(<<>>) = 0 /\ 1 .. 0 = {}
  OBVIOUS
<1>2. SumFunctionOnSet(Minors(<<>>), 1 .. Len(<<>>)) = SumFunctionOnSet(Minors(<<>>), {})
  BY <1>1
<1> QED BY <1>2, SumOfNothing DEF RowsAddUp

\* One row more.
LEMMA OneMore ==
  ASSUME NEW rows \in Seq(Entry), NEW kind \in EntryKinds, NEW minor \in Int
  PROVE  LET more == Append(rows, [kind |-> kind, minor |-> minor])
         IN  /\ more \in Seq(Entry)
             /\ Len(more) = Len(rows) + 1
             /\ more[Len(more)].kind = kind /\ more[Len(more)].minor = minor
             /\ \A k \in 1 .. Len(rows) : more[k] = rows[k]
<1> DEFINE row == [kind |-> kind, minor |-> minor]
<1>1. row \in Entry /\ row.kind = kind /\ row.minor = minor
  BY DEF Entry
<1> HIDE DEF row
<1>2. LET more == Append(rows, row)
      IN  /\ more \in Seq(Entry)
          /\ Len(more) = Len(rows) + 1
          /\ more[Len(more)] = row
          /\ \A k \in 1 .. Len(rows) : more[k] = rows[k]
  BY <1>1
<1> QED BY <1>1, <1>2 DEF row

\* What holds of a list of rows and the list with one more.
Longer(rows, more, kind, minor) ==
  /\ rows \in Seq(Entry) /\ more \in Seq(Entry)
  /\ kind \in EntryKinds /\ minor \in Int
  /\ Len(more) = Len(rows) + 1
  /\ more[Len(more)].kind = kind /\ more[Len(more)].minor = minor
  /\ \A k \in 1 .. Len(rows) : more[k] = rows[k]

LEMMA AppendedRow ==
  ASSUME NEW rows \in Seq(Entry), NEW kind \in EntryKinds, NEW minor \in Int
  PROVE  Longer(rows, Append(rows, [kind |-> kind, minor |-> minor]), kind, minor)
  BY OneMore DEF Longer

LEMMA LongerMinors ==
  ASSUME NEW rows, NEW more, NEW kind, NEW minor, Longer(rows, more, kind, minor)
  PROVE  /\ \A k \in 1 .. Len(rows) : Minors(more)[k] = Minors(rows)[k]
         /\ Minors(more)[Len(more)] = minor
<1>1. Len(rows) \in Nat /\ Len(more) = Len(rows) + 1 /\ Len(more) \in 1 .. Len(more)
  BY DEF Longer
<1>2. Minors(more)[Len(more)] = minor
  BY <1>1, MinorsType DEF Longer
<1>3. ASSUME NEW k \in 1 .. Len(rows) PROVE Minors(more)[k] = Minors(rows)[k]
  <2>1. k \in 1 .. Len(more) /\ more[k] = rows[k]
    BY <1>1, <1>3 DEF Longer
  <2> QED BY <1>3, <2>1 DEF Minors
<1> QED BY <1>2, <1>3

LEMMA LongerAddsUp ==
  ASSUME NEW rows, NEW more, NEW kind, NEW minor, Longer(rows, more, kind, minor),
         NEW sum, RowsAddUp(sum, rows)
  PROVE  RowsAddUp(sum + minor, more)
<1> DEFINE n == Len(rows)
           m == Minors(more)
           S == 1 .. n
           x == n + 1
           T == 1 .. x
<1>1. /\ rows \in Seq(Entry) /\ more \in Seq(Entry) /\ minor \in Int
      /\ n \in Nat /\ Len(more) = n + 1
  BY DEF Longer
<1>2. T \ {x} = S /\ x \in T
  BY <1>1
<1>3. IsFiniteSet(T) /\ IsFiniteSet(S) /\ \A k \in T : m[k] \in Int
  <2>1. IsFiniteSet(1 .. Len(more)) /\ \A k \in 1 .. Len(more) : m[k] \in Int
    BY <1>1, MinorsType
  <2>2. IsFiniteSet(1 .. Len(rows))
    BY <1>1, MinorsType
  <2> QED BY <1>1, <2>1, <2>2
<1>4. m[x] = minor /\ \A k \in S : m[k] = Minors(rows)[k]
  BY <1>1, LongerMinors
<1> HIDE DEF m, S, T
<1>5. SumFunctionOnSet(m, T) = m[x] + SumFunctionOnSet(m, S)
  <2>1. SumFunctionOnSet(m, T) = m[x] + SumFunctionOnSet(m, T \ {x})
    BY <1>2, <1>3, SumWithout
  <2> QED BY <1>2, <2>1, Zenon
<1>6. SumFunctionOnSet(m, S) = SumFunctionOnSet(Minors(rows), S)
  BY <1>3, <1>4, SumOfEqual
<1>7. sum = SumFunctionOnSet(m, S)
  BY <1>6 DEF RowsAddUp, S, n
<1>8. \A k \in S : m[k] \in Int
  BY <1>2, <1>3
<1>9. SumFunctionOnSet(m, S) \in Int
  BY <1>3, <1>8, SumIsInt
<1>10. SumFunctionOnSet(m, T) = sum + minor
  BY <1>1, <1>4, <1>5, <1>7, <1>9
<1> QED BY <1>1, <1>10 DEF RowsAddUp, m, n, x, T

\* A posting added is the present total by itself.
LEMMA PostingAdded ==
  ASSUME NEW rows, NEW more, NEW kind, NEW minor, Longer(rows, more, kind, minor),
         NEW inv, minor = DebtOf(inv.doc, inv.total)
  PROVE  IsTotal(inv, more, Len(more))
<1> DEFINE l == Len(more)
<1>1. l \in 1 .. Len(more) /\ more[l].minor = minor
      /\ Len(more) \in Nat /\ minor \in Int
  <2>1. /\ rows \in Seq(Entry) /\ Len(more) = Len(rows) + 1
        /\ more[Len(more)].minor = minor /\ minor \in Int
    BY DEF Longer
  <2>2. Len(rows) \in Nat
    BY <2>1, MinorsType
  <2> QED BY <2>1, <2>2
<1>2. \A k \in 1 .. Len(more) : ~(k > l)
  BY <1>1
<1>3. EditsAfter(more, l) = {}
  BY <1>2 DEF EditsAfter
<1>4. SumFunctionOnSet(Minors(more), EditsAfter(more, l)) = 0
  BY <1>3, SumOfNothing, Zenon
<1> HIDE DEF l
<1>5. more[l].minor + SumFunctionOnSet(Minors(more), EditsAfter(more, l)) = minor
  BY <1>1, <1>4
<1> QED BY <1>5, Zenon DEF IsTotal, l

\* To a posting before, edits are added and other rows make no difference.
LEMMA PostingKept ==
  ASSUME NEW rows, NEW more, NEW kind, NEW minor, Longer(rows, more, kind, minor),
         NEW inv, NEW new, NEW l \in 1 .. Len(rows), IsTotal(inv, rows, l),
         DebtOf(new.doc, new.total)
           = DebtOf(inv.doc, inv.total) + IF kind = "adjust" THEN minor ELSE 0
  PROVE  IsTotal(new, more, l)
<1>1. rows[l].minor + SumFunctionOnSet(Minors(rows), EditsAfter(rows, l))
        = DebtOf(inv.doc, inv.total)
  BY Zenon DEF IsTotal
<1> DEFINE n == Len(more)
           before == EditsAfter(rows, l)
           after == EditsAfter(more, l)
           m == Minors(more)
<1>2. /\ rows \in Seq(Entry) /\ more \in Seq(Entry) /\ minor \in Int
      /\ Len(rows) \in Nat /\ n = Len(rows) + 1
      /\ more[n].kind = kind /\ \A k \in 1 .. Len(rows) : more[k] = rows[k]
      /\ \A k \in 1 .. n : k \in 1 .. Len(rows) \/ k = n
  <2>1. /\ rows \in Seq(Entry) /\ more \in Seq(Entry) /\ minor \in Int
        /\ n = Len(rows) + 1
        /\ more[n].kind = kind /\ \A k \in 1 .. Len(rows) : more[k] = rows[k]
    BY DEF Longer
  <2>2. Len(rows) \in Nat
    BY <2>1, MinorsType
  <2> QED BY <2>1, <2>2
<1>3. l \in 1 .. n /\ more[l] = rows[l] /\ n > l /\ n \in 1 .. n
  BY <1>2
<1>4. /\ IsFiniteSet(before) /\ IsFiniteSet(after)
      /\ before \subseteq 1 .. Len(rows) /\ after \subseteq 1 .. n
      /\ \A k \in 1 .. n : m[k] \in Int
  <2>1. before \subseteq 1 .. Len(rows) /\ after \subseteq 1 .. n
    BY DEF EditsAfter
  <2>2. IsFiniteSet(1 .. Len(rows)) /\ IsFiniteSet(1 .. n) /\ \A k \in 1 .. n : m[k] \in Int
    BY <1>2, MinorsType
  <2> QED BY <2>1, <2>2, FS_Subset
<1>5. m[n] = minor /\ \A k \in before : m[k] = Minors(rows)[k]
  BY <1>4, LongerMinors
<1>6. SumFunctionOnSet(Minors(rows), before) = SumFunctionOnSet(m, before)
  <2> HIDE DEF m, before
  <2> QED BY <1>4, <1>5, SumOfEqual
<1>7. SumFunctionOnSet(m, before) \in Int /\ rows[l].minor \in Int
  <2>1. \A k \in before : m[k] \in Int
    BY <1>2, <1>4
  <2>2. rows[l].minor \in Int
    BY <1>2, MinorsType DEF Entry
  <2> HIDE DEF m, before
  <2> QED BY <1>4, <2>1, <2>2, SumIsInt
<1>8. SumFunctionOnSet(m, after)
        = SumFunctionOnSet(m, before) + IF kind = "adjust" THEN minor ELSE 0
  <2>1. CASE kind = "adjust"
    <3>1. after \ {n} = before /\ n \in after
      BY <1>2, <1>3, <2>1 DEF EditsAfter
    <3>2. SumFunctionOnSet(m, after) = m[n] + SumFunctionOnSet(m, after \ {n})
      <4> HIDE DEF m, before, after, n
      <4> QED BY <1>4, <3>1, SumWithout
    <3>3. SumFunctionOnSet(m, after) = m[n] + SumFunctionOnSet(m, before)
      BY <3>1, <3>2, Zenon
    <3> HIDE DEF m, before, after, n
    <3> QED BY <1>2, <1>5, <1>7, <2>1, <3>3
  <2>2. CASE kind # "adjust"
    <3>1. after = before
      BY <1>2, <1>3, <2>2 DEF EditsAfter
    <3>2. SumFunctionOnSet(m, after) = SumFunctionOnSet(m, before)
      BY <3>1, Zenon
    <3> HIDE DEF m, before, after, n
    <3> QED BY <1>7, <2>2, <3>2
  <2> QED BY <2>1, <2>2
<1>9. more[l].minor + SumFunctionOnSet(m, after) = DebtOf(new.doc, new.total)
  <2>1. /\ more[l].minor = rows[l].minor
        /\ rows[l].minor + SumFunctionOnSet(m, before) = DebtOf(inv.doc, inv.total)
    BY <1>1, <1>3, <1>6
  <2> HIDE DEF m, before, after, n
  <2> QED BY <1>2, <1>7, <1>8, <2>1
<1> QED BY <1>9, Zenon DEF IsTotal

\* The first posting, or a row more.
LEMMA RowAdded ==
  ASSUME NEW rows, NEW more, NEW kind, NEW minor, Longer(rows, more, kind, minor),
         NEW inv, NEW new,
         \/ rows = <<>> /\ kind \in PostingKinds
         \/ PostsTotal(inv, rows),
         kind \in PostingKinds => minor = DebtOf(new.doc, new.total),
         DebtOf(new.doc, new.total)
           = DebtOf(inv.doc, inv.total) + IF kind = "adjust" THEN minor ELSE 0
  PROVE  PostsTotal(new, more)
<1> DEFINE n == Len(more)
<1>1. /\ rows \in Seq(Entry) /\ Len(rows) \in Nat /\ n = Len(rows) + 1
      /\ more[n].kind = kind /\ \A k \in 1 .. Len(rows) : more[k] = rows[k]
  <2>1. /\ rows \in Seq(Entry) /\ n = Len(rows) + 1
        /\ more[n].kind = kind /\ \A k \in 1 .. Len(rows) : more[k] = rows[k]
    BY DEF Longer
  <2> QED BY <2>1, MinorsType
<1>2. n \in 1 .. n /\ \A k \in 1 .. n : k \in 1 .. Len(rows) \/ k = n
  BY <1>1
<1>3. \E l \in 1 .. n : more[l].kind \in PostingKinds
  <2>1. CASE rows = <<>> /\ kind \in PostingKinds
    BY <1>1, <1>2, <2>1
  <2>2. CASE PostsTotal(inv, rows)
    <3>1. PICK l \in 1 .. Len(rows) : rows[l].kind \in PostingKinds
      BY <2>2 DEF PostsTotal
    <3>2. l \in 1 .. n /\ more[l] = rows[l]
      BY <1>1, <3>1
    <3> QED BY <3>1, <3>2
  <2> QED BY <2>1, <2>2
<1>4. ASSUME NEW l \in 1 .. n, more[l].kind \in PostingKinds PROVE IsTotal(new, more, l)
  <2>1. CASE l = n
    <3>1. kind \in PostingKinds
      BY <1>1, <1>4, <2>1
    <3>2. IsTotal(new, more, Len(more))
      BY <3>1, PostingAdded
    <3> QED BY <2>1, <3>2
  <2>2. CASE l \in 1 .. Len(rows)
    <3>1. Len(rows) # 0 /\ rows[l].kind \in PostingKinds
      BY <1>1, <1>4, <2>2
    <3>2. Len(<<>>) = 0
      OBVIOUS
    <3>3. PostsTotal(inv, rows)
      BY <3>1, <3>2
    <3>4. IsTotal(inv, rows, l)
      BY <2>2, <3>1, <3>3 DEF PostsTotal
    <3> HIDE DEF n
    <3> QED BY <2>2, <3>4, PostingKept
  <2> QED BY <1>2, <1>4, <2>1, <2>2
<1> QED BY <1>3, <1>4, Zenon DEF PostsTotal

-----------------------------------------------------------------------------
(***************************************************************************)
(* What each write of a row does to an invoice that is accounted.          *)
(***************************************************************************)

LEMMA StaysAccounted ==
  ASSUME NEW inv, NEW new, NEW sum, NEW rows, Accounted(inv, sum, rows),
         new.status = inv.status, new.client = inv.client,
         new.doc = inv.doc, new.total = inv.total
  PROVE  Accounted(new, sum, rows)
<1>1. OnAccount(new) <=> OnAccount(inv)
  BY DEF OnAccount, Live
<1>2. PostsTotal(inv, rows) <=> PostsTotal(new, rows)
  BY Zenon DEF PostsTotal, IsTotal
<1> QED BY <1>1, <1>2 DEF Accounted

LEMMA OffAccount ==
  ASSUME NEW inv, NEW new, NEW sum, NEW rows, Accounted(inv, sum, rows),
         ~OnAccount(inv), ~OnAccount(new)
  PROVE  Accounted(new, sum, rows)
  BY DEF Accounted

LEMMA NothingAccounted ==
  ASSUME NEW new, ~OnAccount(new)
  PROVE  Accounted(new, 0, <<>>)
  BY NoRows DEF Accounted

LEMMA RowAccounted ==
  ASSUME NEW inv, NEW new, NEW sum, NEW rows, Accounted(inv, sum, rows),
         NEW kind \in EntryKinds, NEW minor \in Int, OnAccount(new),
         kind \in PostingKinds \/ OnAccount(inv),
         kind \in PostingKinds => minor = DebtOf(new.doc, new.total),
         DebtOf(new.doc, new.total)
           = DebtOf(inv.doc, inv.total) + IF kind = "adjust" THEN minor ELSE 0
  PROVE  Accounted(new, sum + minor, Append(rows, [kind |-> kind, minor |-> minor]))
<1> DEFINE more == Append(rows, [kind |-> kind, minor |-> minor])
<1>1. rows \in Seq(Entry) /\ RowsAddUp(sum, rows)
  BY DEF Accounted
<1>2. Longer(rows, more, kind, minor)
  BY <1>1, AppendedRow
<1>3. more \in Seq(Entry)
  BY <1>2 DEF Longer
<1> HIDE DEF more
<1>4. RowsAddUp(sum + minor, more)
  BY <1>1, <1>2, LongerAddsUp
<1>5. \/ rows = <<>> /\ kind \in PostingKinds
      \/ PostsTotal(inv, rows)
  BY Zenon DEF Accounted
<1>6. PostsTotal(new, more)
  BY <1>2, <1>5, RowAdded
<1> QED BY <1>3, <1>4, <1>6 DEF Accounted, more

-----------------------------------------------------------------------------
(***************************************************************************)
(* The handlers, each of which writes the rows of one invoice, or takes    *)
(* those of a client away.                                                 *)
(***************************************************************************)

StatementBooks == TypeOK /\ EntriesFit

\* Only the invoice written need be looked at.
LEMMA OneAccounted ==
  ASSUME EntriesFit, NEW i \in InvoiceIds,
         entries' = [j \in InvoiceIds |-> entries'[j]],
         \A j \in InvoiceIds \ {i} :
            invoice'[j] = invoice[j] /\ ledger'[j] = ledger[j] /\ entries'[j] = entries[j],
         Accounted(invoice'[i], ledger'[i], entries'[i])
  PROVE  EntriesFit'
<1>1. ASSUME NEW j \in InvoiceIds PROVE Accounted(invoice'[j], ledger'[j], entries'[j])
  <2>1. CASE j = i
    BY <2>1
  <2>2. CASE j # i
    <3>1. Accounted(invoice[j], ledger[j], entries[j])
      BY DEF EntriesFit
    <3>2. invoice'[j] = invoice[j] /\ ledger'[j] = ledger[j] /\ entries'[j] = entries[j]
      BY <2>2
    <3> QED BY <3>1, <3>2, Zenon
  <2> QED BY <2>1, <2>2
<1> QED BY <1>1, Zenon DEF EntriesFit

\* A handler that books on the account and writes a row.
LEMMA RecordedStep ==
  ASSUME StatementBooks, NEW i \in InvoiceIds, NEW new, NEW kind \in EntryKinds, NEW minor \in Int,
         invoice' = [invoice EXCEPT ![i] = new], Book(i, minor), Recorded(i, kind),
         OnAccount(new), kind \in PostingKinds \/ OnAccount(invoice[i]),
         kind \in PostingKinds => minor = DebtOf(new.doc, new.total),
         DebtOf(new.doc, new.total)
           = DebtOf(invoice[i].doc, invoice[i].total) + IF kind = "adjust" THEN minor ELSE 0
  PROVE  EntriesFit'
<1>1. /\ invoice \in [InvoiceIds -> Invoice] /\ ledger \in [InvoiceIds -> Int]
      /\ entries = [j \in InvoiceIds |-> entries[j]]
  BY DEF StatementBooks, TypeOK, EntriesFit
<1>2. /\ invoice'[i] = new
      /\ \A j \in InvoiceIds \ {i} : invoice'[j] = invoice[j]
  BY <1>1
<1>3. /\ ledger'[i] = ledger[i] + minor
      /\ \A j \in InvoiceIds \ {i} : ledger'[j] = ledger[j]
  BY <1>1 DEF Book
<1>4. ledger'[i] - ledger[i] = minor
  BY <1>1, <1>3
<1>5. entries' = [entries EXCEPT ![i] = Append(@, [kind |-> kind, minor |-> minor])]
  BY <1>4, Zenon DEF Recorded
<1>6. /\ entries'[i] = Append(entries[i], [kind |-> kind, minor |-> minor])
      /\ \A j \in InvoiceIds \ {i} : entries'[j] = entries[j]
      /\ entries' = [j \in InvoiceIds |-> entries'[j]]
  BY <1>1, <1>5, Zenon
<1>7. Accounted(invoice[i], ledger[i], entries[i])
  BY DEF StatementBooks, EntriesFit
<1>8. Accounted(new, ledger[i] + minor, Append(entries[i], [kind |-> kind, minor |-> minor]))
  BY <1>7, RowAccounted
<1>9. Accounted(invoice'[i], ledger'[i], entries'[i])
  BY <1>2, <1>3, <1>6, <1>8, Zenon
<1> QED BY <1>2, <1>3, <1>6, <1>9, OneAccounted DEF StatementBooks

\* One that does neither.
LEMMA UnrecordedStep ==
  ASSUME StatementBooks, NEW i \in InvoiceIds, NEW new,
         invoice' = [invoice EXCEPT ![i] = new], UNCHANGED <<ledger, entries>>,
         Accounted(new, ledger[i], entries[i])
  PROVE  EntriesFit'
<1>1. invoice \in [InvoiceIds -> Invoice] /\ entries = [j \in InvoiceIds |-> entries[j]]
  BY DEF StatementBooks, TypeOK, EntriesFit
<1>2. /\ invoice'[i] = new
      /\ \A j \in InvoiceIds \ {i} : invoice'[j] = invoice[j]
  BY <1>1
<1>3. Accounted(invoice'[i], ledger'[i], entries'[i])
  BY <1>2, Zenon
<1>4. entries' = [j \in InvoiceIds |-> entries'[j]]
  BY <1>1
<1> QED BY <1>2, <1>3, <1>4, OneAccounted DEF StatementBooks

LEMMA DebtIsInt ==
  ASSUME NEW doc, NEW minor \in Int PROVE DebtOf(doc, minor) \in Int /\ -DebtOf(doc, minor) \in Int
  BY DEF DebtOf

LEMMA StatementRow ==
  ASSUME StatementBooks, NEW i \in InvoiceIds
  PROVE  /\ invoice[i] \in Invoice
         /\ invoice[i].total \in Int /\ invoice[i].total \in 0 .. MaxTotal
         /\ Accounted(invoice[i], ledger[i], entries[i])
<1>1. invoice[i] \in Invoice
  BY DEF StatementBooks, TypeOK
<1>2. invoice[i].total \in 0 .. MaxTotal
  BY <1>1 DEF Invoice
<1> QED BY <1>1, <1>2 DEF StatementBooks, EntriesFit

\* What Stamped leaves of a row.
LEMMA StampedOf ==
  ASSUME NEW inv \in Invoice, NEW status
  PROVE  LET new == Stamped(inv, status)
         IN  /\ new.status = status /\ new.client = inv.client
             /\ new.doc = inv.doc /\ new.total = inv.total
             /\ \A number : LET numbered == [new EXCEPT !.number = number]
                            IN  /\ numbered.status = status /\ numbered.client = inv.client
                                /\ numbered.doc = inv.doc /\ numbered.total = inv.total
  BY DEF Stamped, Invoice

\* A posting, first or repeated, books the total.
LEMMA BookInvoiceAccounts ==
  ASSUME StatementBooks, NEW i \in InvoiceIds, BookInvoice(i), NEW new,
         new.status = "posted", new.client = invoice[i].client,
         new.doc = invoice[i].doc, new.total = invoice[i].total,
         invoice' = [invoice EXCEPT ![i] = new],
         NEW kind \in PostingKinds, Recorded(i, kind)
  PROVE  EntriesFit'
<1> DEFINE minor == DebtOf(invoice[i].doc, invoice[i].total)
<1>1. Book(i, minor)
  BY Zenon DEF BookInvoice
<1>2. minor \in Int /\ kind \in EntryKinds
  BY StatementRow, DebtIsInt DEF EntryKinds, PostingKinds
<1>3. minor = DebtOf(new.doc, new.total)
  BY Zenon
<1>4. OnAccount(new)
  BY <1>1 DEF Book, OnAccount, Live
<1>5. kind # "adjust"
  BY DEF PostingKinds
<1>6. DebtOf(new.doc, new.total)
        = DebtOf(invoice[i].doc, invoice[i].total) + IF kind = "adjust" THEN minor ELSE 0
  <2>1. minor = minor + IF kind = "adjust" THEN minor ELSE 0
    <3> HIDE DEF minor
    <3> QED BY <1>2, <1>5
  <2> QED BY <1>3, <2>1
<1> HIDE DEF minor
<1> QED BY <1>1, <1>2, <1>3, <1>4, <1>6, RecordedStep

LEMMA PostAccounts ==
  ASSUME StatementBooks, NEW i \in InvoiceIds, NEW version, PostInvoice(i, version),
         Recorded(i, "invoice")
  PROVE  EntriesFit'
<1> DEFINE new == [Stamped(invoice[i], "posted") EXCEPT !.number = nextNumber]
<1>1. BookInvoice(i) /\ invoice' = [invoice EXCEPT ![i] = new]
  BY Zenon DEF PostInvoice
<1>2. /\ new.status = "posted" /\ new.client = invoice[i].client
      /\ new.doc = invoice[i].doc /\ new.total = invoice[i].total
  BY StatementRow, StampedOf
<1>3. "invoice" \in PostingKinds
  BY DEF PostingKinds
<1> HIDE DEF new
<1> QED BY <1>1, <1>2, <1>3, BookInvoiceAccounts

LEMMA ReactivateAccounts ==
  ASSUME StatementBooks, NEW i \in InvoiceIds, NEW version, ReactivateVoid(i, version),
         Recorded(i, "reactivate")
  PROVE  EntriesFit'
<1> DEFINE new == Stamped(invoice[i], "posted")
<1>1. BookInvoice(i) /\ invoice' = [invoice EXCEPT ![i] = new]
  BY Zenon DEF ReactivateVoid
<1>2. /\ new.status = "posted" /\ new.client = invoice[i].client
      /\ new.doc = invoice[i].doc /\ new.total = invoice[i].total
  BY StatementRow, StampedOf
<1>3. "reactivate" \in PostingKinds
  BY DEF PostingKinds
<1> HIDE DEF new
<1> QED BY <1>1, <1>2, <1>3, BookInvoiceAccounts

LEMMA VoidAccounts ==
  ASSUME StatementBooks, NEW i \in InvoiceIds, NEW version, VoidInvoice(i, version),
         Recorded(i, "void")
  PROVE  EntriesFit'
<1> DEFINE new == Stamped(invoice[i], "void")
           minor == -DebtOf(invoice[i].doc, invoice[i].total)
<1>1. Book(i, minor) /\ invoice' = [invoice EXCEPT ![i] = new]
  BY Zenon DEF VoidInvoice
<1>2. /\ new.status = "void" /\ new.client = invoice[i].client
      /\ new.doc = invoice[i].doc /\ new.total = invoice[i].total
  BY StatementRow, StampedOf
<1>3. minor \in Int /\ "void" \in EntryKinds /\ "void" \notin PostingKinds /\ "void" # "adjust"
  BY StatementRow, DebtIsInt DEF EntryKinds, PostingKinds
<1>4. OnAccount(new) /\ OnAccount(invoice[i])
  <2>1. invoice[i].status = "posted"
    BY Zenon DEF VoidInvoice, Transition
  <2> HIDE DEF new
  <2> QED BY <1>1, <1>2, <2>1 DEF Book, OnAccount, Live
<1>5. DebtOf(new.doc, new.total)
        = DebtOf(invoice[i].doc, invoice[i].total) + IF "void" = "adjust" THEN minor ELSE 0
  <2>1. DebtOf(invoice[i].doc, invoice[i].total) \in Int
    BY StatementRow, DebtIsInt
  <2>2. DebtOf(new.doc, new.total) = DebtOf(invoice[i].doc, invoice[i].total)
    BY <1>2, Zenon
  <2> HIDE DEF new, minor
  <2> QED BY <1>3, <2>1, <2>2
<1> HIDE DEF new, minor
<1> QED BY <1>1, <1>3, <1>4, <1>5, RecordedStep

LEMMA ReturnAccounts ==
  ASSUME StatementBooks, NEW i \in InvoiceIds, NEW cartons, CreateReturn(i, cartons),
         Recorded(i, "return")
  PROVE  EntriesFit'
<1> DEFINE inv == invoice[i]
           credit == CreditOf(inv, cartons)
           new == Credited(inv, cartons, credit)
<1>1. /\ Book(i, -credit) /\ invoice' = [invoice EXCEPT ![i] = new]
      /\ inv.status = "posted" /\ credit \in 1 .. MaxTotal
  BY Zenon DEF CreateReturn
<1>2. /\ new.status = inv.status /\ new.client = inv.client
      /\ new.doc = inv.doc /\ new.total = inv.total
  <2> HIDE DEF credit
  <2> QED BY StatementRow DEF Credited, Invoice
<1>3. inv.client # NoClient /\ OnAccount(inv) /\ OnAccount(new)
  <2>1. inv.client # NoClient
    BY <1>1, Zenon DEF Book
  <2> HIDE DEF new, inv
  <2> QED BY <1>1, <1>2, <2>1 DEF OnAccount, Live
<1>4. -credit \in Int
  <2> HIDE DEF credit
  <2> QED BY <1>1, LimitsAssumption
<1>5. DebtOf(inv.doc, inv.total) \in Int
  BY StatementRow, DebtIsInt
<1>6. DebtOf(new.doc, new.total) = DebtOf(inv.doc, inv.total)
  BY <1>2, Zenon
<1>7. "return" \in EntryKinds /\ "return" \notin PostingKinds /\ "return" # "adjust"
  BY DEF EntryKinds, PostingKinds
<1>8. DebtOf(new.doc, new.total)
        = DebtOf(inv.doc, inv.total) + IF "return" = "adjust" THEN -credit ELSE 0
  <2> HIDE DEF credit, new, inv
  <2> QED BY <1>5, <1>6, <1>7
<1> HIDE DEF credit, new
<1> QED BY <1>1, <1>3, <1>4, <1>7, <1>8, RecordedStep

\* An edit books the change of the total, and writes no row when there is none.
LEMMA EditAccounts ==
  ASSUME StatementBooks, NEW i \in InvoiceIds, NEW version, NEW c, NEW doc, NEW lines,
         EditPosted(i, version, c, doc, lines), Adjusted(i)
  PROVE  EntriesFit'
<1> DEFINE inv == invoice[i]
           new == Rewritten(inv, c, doc, lines)
           minor == DebtOf(doc, TotalOf(lines) - inv.total)
<1>1. /\ Book(i, minor) /\ invoice' = [invoice EXCEPT ![i] = new]
      /\ inv.status = "posted" /\ inv.client = c /\ inv.doc = doc
      /\ TotalOf(lines) \in 0 .. MaxTotal
  BY Zenon DEF EditPosted, SameAccount, CanInvoice
<1>2. /\ new.status = "posted" /\ new.client = inv.client
      /\ new.doc = inv.doc /\ new.total = TotalOf(lines)
  BY <1>1, StatementRow DEF Rewritten, Invoice
<1>3. inv.client # NoClient /\ OnAccount(inv) /\ OnAccount(new)
  <2>1. inv.client # NoClient
    BY <1>1, Zenon DEF Book
  <2> HIDE DEF new, inv
  <2> QED BY <1>1, <1>2, <2>1 DEF OnAccount, Live
<1>4. TotalOf(lines) \in Int /\ inv.total \in Int
  BY <1>1, StatementRow, LimitsAssumption
<1>5. minor \in Int /\ DebtOf(new.doc, new.total) = DebtOf(inv.doc, inv.total) + minor
  <2>1. minor = DebtOf(inv.doc, new.total - inv.total)
    BY <1>1, <1>2, Zenon
  <2>2. new.total \in Int
    BY <1>2, <1>4
  <2> HIDE DEF new, inv, minor
  <2> QED BY <1>2, <1>4, <2>1, <2>2 DEF DebtOf
<1>6. invoice'[i] = new
  <2> HIDE DEF new
  <2> QED BY <1>1 DEF StatementBooks, TypeOK
<1>7. CASE new.total = inv.total
  <2>1. entries' = entries
    BY <1>6, <1>7, Zenon DEF Adjusted
  <2>2. minor = 0
    <3>1. minor = DebtOf(inv.doc, new.total - inv.total)
      BY <1>1, <1>2, Zenon
    <3> HIDE DEF new, inv, minor
    <3> QED BY <1>4, <1>7, <3>1 DEF DebtOf
  <2>3. ledger' = ledger
    <3> HIDE DEF new, inv, minor
    <3> QED BY <1>1, <2>2 DEF Book, StatementBooks, TypeOK
  <2>4. Accounted(new, ledger[i], entries[i])
    <3>1. Accounted(inv, ledger[i], entries[i])
      BY StatementRow
    <3> HIDE DEF new
    <3> QED BY <1>1, <1>2, <1>7, <3>1, StaysAccounted
  <2> HIDE DEF new
  <2> QED BY <1>1, <2>1, <2>3, <2>4, UnrecordedStep
<1>8. CASE new.total # inv.total
  <2>1. Recorded(i, "adjust")
    BY <1>6, <1>8, Zenon DEF Adjusted
  <2>2. "adjust" \in EntryKinds /\ "adjust" \notin PostingKinds
    BY DEF EntryKinds, PostingKinds
  <2>3. DebtOf(new.doc, new.total)
          = DebtOf(inv.doc, inv.total) + IF "adjust" = "adjust" THEN minor ELSE 0
    <3> HIDE DEF new, inv, minor
    <3> QED BY <1>5
  <2> HIDE DEF new, minor
  <2> QED BY <1>1, <1>3, <1>5, <2>1, <2>2, <2>3, RecordedStep
<1> QED BY <1>7, <1>8

\* Drafts and cancelled invoices have no rows.
LEMMA OffAccountStep ==
  ASSUME StatementBooks, NEW i \in InvoiceIds, NEW new,
         ~Live(invoice[i]), ~Live(new),
         invoice' = [invoice EXCEPT ![i] = new], UNCHANGED <<ledger, entries>>
  PROVE  EntriesFit'
<1>1. Accounted(new, ledger[i], entries[i])
  <2>1. ~OnAccount(invoice[i]) /\ ~OnAccount(new)
    BY DEF OnAccount
  <2> QED BY <2>1, StatementRow, OffAccount
<1> QED BY <1>1, UnrecordedStep

LEMMA UnrecordedAccounts ==
  ASSUME StatementBooks, NEW i \in InvoiceIds, NEW version, UNCHANGED entries,
         \/ \E c \in Clients, doc \in DocumentTypes, lines \in LineForms :
               CreateInvoice(i, c, doc, lines) \/ UpdateDraft(i, version, c, doc, lines)
         \/ CancelInvoice(i, version)
         \/ ReactivateCancelled(i, version)
         \/ DeleteCancelled(i)
         \/ \E amount \in PaymentInputs : CreatePayment(i, amount)
  PROVE  EntriesFit'
<1> DEFINE inv == invoice[i]
<1>0. inv \in Invoice
  BY StatementRow
<1>1. ASSUME NEW c \in Clients, NEW doc \in DocumentTypes, NEW lines \in LineForms,
             CreateInvoice(i, c, doc, lines)
      PROVE  EntriesFit'
  <2> DEFINE new == [NoInvoice EXCEPT !.status = "draft", !.doc = doc, !.client = c,
                                      !.items = ItemsOf(lines), !.total = TotalOf(lines),
                                      !.version = 1]
  <2>1. /\ inv.status = "unused" /\ invoice' = [invoice EXCEPT ![i] = new]
        /\ UNCHANGED bookVars
    BY <1>1, Zenon DEF CreateInvoice
  <2>2. new.status = "draft"
    BY DEF NoInvoice
  <2> HIDE DEF new
  <2>3. ~Live(inv) /\ ~Live(new)
    BY <2>1, <2>2 DEF Live
  <2> QED BY <2>1, <2>3, OffAccountStep DEF bookVars
<1>2. ASSUME NEW c \in Clients, NEW doc \in DocumentTypes, NEW lines \in LineForms,
             UpdateDraft(i, version, c, doc, lines)
      PROVE  EntriesFit'
  <2> DEFINE new == Rewritten(inv, c, doc, lines)
  <2>1. /\ inv.status = "draft" /\ invoice' = [invoice EXCEPT ![i] = new]
        /\ UNCHANGED bookVars
    BY <1>2, Zenon DEF UpdateDraft
  <2>2. new.status = "draft"
    BY <1>0, <2>1 DEF Rewritten, Invoice
  <2> HIDE DEF new
  <2>3. ~Live(inv) /\ ~Live(new)
    BY <2>1, <2>2 DEF Live
  <2> QED BY <2>1, <2>3, OffAccountStep DEF bookVars
<1>3. CASE CancelInvoice(i, version)
  <2> DEFINE new == Stamped(inv, "cancelled")
  <2>1. /\ inv.status = "draft" /\ invoice' = [invoice EXCEPT ![i] = new]
        /\ UNCHANGED bookVars
    BY <1>3, Zenon DEF CancelInvoice, Transition
  <2>2. new.status = "cancelled"
    BY <1>0, StampedOf
  <2> HIDE DEF new
  <2>3. ~Live(inv) /\ ~Live(new)
    BY <2>1, <2>2 DEF Live
  <2> QED BY <2>1, <2>3, OffAccountStep DEF bookVars
<1>4. CASE ReactivateCancelled(i, version)
  <2> DEFINE new == Stamped(inv, "draft")
  <2>1. /\ inv.status = "cancelled" /\ invoice' = [invoice EXCEPT ![i] = new]
        /\ UNCHANGED bookVars
    BY <1>4, Zenon DEF ReactivateCancelled
  <2>2. new.status = "draft"
    BY <1>0, StampedOf
  <2> HIDE DEF new
  <2>3. ~Live(inv) /\ ~Live(new)
    BY <2>1, <2>2 DEF Live
  <2> QED BY <2>1, <2>3, OffAccountStep DEF bookVars
<1>5. CASE DeleteCancelled(i)
  <2> DEFINE new == [NoInvoice EXCEPT !.status = "deleted"]
  <2>1. /\ inv.status = "cancelled" /\ invoice' = [invoice EXCEPT ![i] = new]
        /\ UNCHANGED bookVars
    BY <1>5, Zenon DEF DeleteCancelled
  <2>2. new.status = "deleted"
    BY DEF NoInvoice
  <2> HIDE DEF new
  <2>3. ~Live(inv) /\ ~Live(new)
    BY <2>1, <2>2 DEF Live
  <2> QED BY <2>1, <2>3, OffAccountStep DEF bookVars
<1>6. ASSUME NEW amount \in PaymentInputs, CreatePayment(i, amount)
      PROVE  EntriesFit'
  <2> DEFINE new == [inv EXCEPT !.paid = @ + amount]
  <2>1. invoice' = [invoice EXCEPT ![i] = new] /\ UNCHANGED bookVars
    BY <1>6, Zenon DEF CreatePayment
  <2>2. /\ new.status = inv.status /\ new.client = inv.client
        /\ new.doc = inv.doc /\ new.total = inv.total
    BY <1>0 DEF Invoice
  <2>3. Accounted(new, ledger[i], entries[i])
    <3> HIDE DEF new
    <3> QED BY <2>2, StatementRow, StaysAccounted
  <2> HIDE DEF new
  <2> QED BY <2>1, <2>3, UnrecordedStep DEF bookVars
<1> QED BY <1>1, <1>2, <1>3, <1>4, <1>5, <1>6

LEMMA InvoiceAccounts ==
  ASSUME StatementBooks, NEW i \in InvoiceIds, InvoiceSteps(i)
  PROVE  EntriesFit'
<1> DEFINE version == invoice[i].version
<1>1. CASE PostInvoice(i, version) /\ Recorded(i, "invoice")
  BY <1>1, PostAccounts
<1>2. CASE VoidInvoice(i, version) /\ Recorded(i, "void")
  BY <1>2, VoidAccounts
<1>3. CASE ReactivateVoid(i, version) /\ Recorded(i, "reactivate")
  BY <1>3, ReactivateAccounts
<1>4. CASE \E cartons \in [Products -> ReturnInputs \cup {0}] :
             CreateReturn(i, cartons) /\ Recorded(i, "return")
  BY <1>4, ReturnAccounts
<1>5. ASSUME NEW c \in Clients, NEW doc \in DocumentTypes, NEW lines \in LineForms,
             EditPosted(i, version, c, doc, lines) /\ Adjusted(i)
      PROVE  EntriesFit'
  BY <1>5, EditAccounts
<1>6. CASE /\ UNCHANGED entries
           /\ \/ \E c \in Clients, doc \in DocumentTypes, lines \in LineForms :
                    \/ CreateInvoice(i, c, doc, lines)
                    \/ UpdateDraft(i, version, c, doc, lines)
              \/ CancelInvoice(i, version)
              \/ ReactivateCancelled(i, version)
              \/ DeleteCancelled(i)
              \/ \E amount \in PaymentInputs : CreatePayment(i, amount)
  BY <1>6, UnrecordedAccounts
<1> QED BY <1>1, <1>2, <1>3, <1>4, <1>5, <1>6, Zenon DEF InvoiceSteps

\* A row is off everybody's account, or what it was.
LEMMA ClientAccounts == StatementBooks /\ ClientSteps => EntriesFit'
<1> SUFFICES ASSUME StatementBooks, ClientSteps PROVE EntriesFit'
  OBVIOUS
<1>0. /\ ClientNext
      /\ entries' = [i \in InvoiceIds |-> IF invoice'[i].client = NoClient THEN <<>> ELSE entries[i]]
  BY Zenon DEF ClientSteps
<1>1. \A i \in InvoiceIds : Accounted(invoice[i], ledger[i], entries[i])
  BY DEF StatementBooks, EntriesFit
<1>2. /\ \A i \in InvoiceIds : entries'[i] = IF invoice'[i].client = NoClient THEN <<>> ELSE entries[i]
      /\ entries' = [i \in InvoiceIds |-> entries'[i]]
  BY <1>0
<1>3. ASSUME NEW i \in InvoiceIds, invoice'[i] = invoice[i], ledger'[i] = ledger[i]
      PROVE  Accounted(invoice'[i], ledger'[i], entries'[i])
  <2>1. invoice[i].client = NoClient => entries[i] = <<>>
    BY <1>1 DEF Accounted, OnAccount
  <2>2. entries'[i] = entries[i]
    BY <1>2, <1>3, <2>1
  <2> QED BY <1>1, <1>3, <2>2, Zenon
<1>4. ASSUME NEW c \in Clients, DeleteClientAssociations(c), NEW i \in InvoiceIds
      PROVE  Accounted(invoice'[i], ledger'[i], entries'[i])
  <2> DEFINE new == [invoice[i] EXCEPT !.client = NoClient, !.paid = 0]
  <2>1. /\ invoice' = [j \in InvoiceIds |->
               IF j \in InvoicesOf(c) THEN [invoice[j] EXCEPT !.client = NoClient, !.paid = 0]
               ELSE invoice[j]]
        /\ ledger' = [j \in InvoiceIds |-> IF j \in InvoicesOf(c) THEN 0 ELSE ledger[j]]
    BY <1>4, Zenon DEF DeleteClientAssociations
  <2>2. CASE i \in InvoicesOf(c)
    <3>1. invoice'[i] = new /\ ledger'[i] = 0
      BY <2>1, <2>2
    <3>2. new.client = NoClient
      BY StatementRow DEF Invoice
    <3>3. entries'[i] = <<>>
      BY <1>2, <3>1, <3>2
    <3> HIDE DEF new
    <3>4. Accounted(new, 0, <<>>)
      BY <3>2, NothingAccounted DEF OnAccount
    <3> QED BY <3>1, <3>3, <3>4, Zenon
  <2>3. CASE i \notin InvoicesOf(c)
    <3>1. invoice'[i] = invoice[i] /\ ledger'[i] = ledger[i]
      BY <2>1, <2>3
    <3> QED BY <1>3, <3>1
  <2> QED BY <2>2, <2>3
<1>5. \/ \E c \in Clients : DeleteClientAssociations(c)
      \/ UNCHANGED <<invoice, ledger>>
  BY <1>0, Zenon DEF ClientNext, CreateClient, UpdateClient, DeleteClient, CreateReceipt,
                     UpdateReceipt, DeleteReceipt, bookVars
<1>6. ASSUME NEW i \in InvoiceIds
      PROVE  Accounted(invoice'[i], ledger'[i], entries'[i])
  BY <1>3, <1>4, <1>5
<1> QED BY <1>2, <1>6, Zenon DEF EntriesFit

LEMMA StatementNextIsNext == [StatementNext]_statementVars => [Next]_vars
<1>1. ASSUME NEW i \in InvoiceIds, InvoiceSteps(i) PROVE InvoiceNext
  BY <1>1, Zenon DEF InvoiceSteps, InvoiceNext
<1>2. ClientSteps => ClientNext
  BY Zenon DEF ClientSteps
<1>3. UNCHANGED statementVars => UNCHANGED vars
  BY Zenon DEF statementVars
<1> QED BY <1>1, <1>2, <1>3, Zenon DEF StatementNext, Next

LEMMA UnaccountedStep ==
  EntriesFit /\ UNCHANGED <<invoice, ledger, entries>> => EntriesFit'
BY DEF EntriesFit

LEMMA StatementStep == StatementBooks /\ [StatementNext]_statementVars => EntriesFit'
<1> SUFFICES ASSUME StatementBooks, [StatementNext]_statementVars PROVE EntriesFit'
  OBVIOUS
<1>1. CASE TenantNext /\ UNCHANGED entries
  <2>1. UNCHANGED <<invoice, ledger, entries>>
    BY <1>1, Zenon DEF TenantNext, UpdateTenant, bookVars
  <2> QED BY <2>1, UnaccountedStep DEF StatementBooks
<1>2. CASE ProductNext /\ UNCHANGED entries
  <2>1. UNCHANGED <<invoice, ledger, entries>>
    BY <1>2, Zenon DEF ProductNext, CreateProduct, UpdateProduct, DeleteProduct, bookVars
  <2> QED BY <2>1, UnaccountedStep DEF StatementBooks
<1>3. CASE \E i \in InvoiceIds : InvoiceSteps(i)
  BY <1>3, InvoiceAccounts
<1>4. CASE ClientSteps
  BY <1>4, ClientAccounts
<1>5. CASE UNCHANGED statementVars
  <2>1. UNCHANGED <<invoice, ledger, entries>>
    BY <1>5, Zenon DEF statementVars, vars, bookVars
  <2> QED BY <2>1, UnaccountedStep DEF StatementBooks
<1> QED BY <1>1, <1>2, <1>3, <1>4, <1>5, Zenon DEF StatementNext

LEMMA StatementInitAccounts == StatementInit => EntriesFit
<1> SUFFICES ASSUME StatementInit PROVE EntriesFit
  OBVIOUS
<1>1. /\ invoice = [i \in InvoiceIds |-> NoInvoice] /\ ledger = [i \in InvoiceIds |-> 0]
      /\ entries = [i \in InvoiceIds |-> <<>>]
  BY DEF StatementInit, Init
<1>2. ~OnAccount(NoInvoice)
  BY DEF OnAccount, NoInvoice
<1>3. Accounted(NoInvoice, 0, <<>>)
  BY <1>2, NothingAccounted
<1>4. ASSUME NEW i \in InvoiceIds PROVE Accounted(invoice[i], ledger[i], entries[i])
  <2>1. invoice[i] = NoInvoice /\ ledger[i] = 0 /\ entries[i] = <<>>
    BY <1>1
  <2> QED BY <1>3, <2>1, Zenon
<1> QED BY <1>1, <1>4 DEF EntriesFit

LEMMA StatementImplementsBackend == StatementSpec => Spec
<1>1. StatementInit => Init
  BY DEF StatementInit
<1> QED BY <1>1, StatementNextIsNext, PTL DEF StatementSpec, Spec

\* The rows of client_ledger agree with the invoices after any requests: they add up
\* to the account, and the latest posting of a posted invoice, with the edits after
\* it, is its present total (transitionInvoice, applyPostedInvoiceEdit).
THEOREM EntriesAlwaysFit == StatementSpec => [](BooksAgree /\ EntriesFit)
<1>1. StatementSpec => []BooksAgree
  BY StatementImplementsBackend, BooksAlwaysAgree, PTL
<1>2. BooksAgree /\ EntriesFit /\ [StatementNext]_statementVars => EntriesFit'
  BY StatementStep DEF BooksAgree, StatementBooks
<1> QED BY <1>1, <1>2, StatementInitAccounts, PTL DEF StatementSpec

-----------------------------------------------------------------------------
(***************************************************************************)
(* The statement made of them.                                             *)
(***************************************************************************)

\* A column of the rows of an invoice.
LEMMA ColumnSum ==
  ASSUME NEW rows \in Seq(Entry), NEW S, S \subseteq 1 .. Len(rows)
  PROVE  /\ SumFunction([k \in S |-> rows[k].minor]) = SumFunctionOnSet(Minors(rows), S)
         /\ SumFunctionOnSet(Minors(rows), S) \in Int
         /\ IsFiniteSet(S)
         /\ \A k \in S : Minors(rows)[k] \in Int /\ Minors(rows)[k] = rows[k].minor
<1> DEFINE f == [k \in S |-> rows[k].minor]
           m == Minors(rows)
<1>1. IsFiniteSet(S) /\ \A k \in S : m[k] \in Int /\ m[k] = rows[k].minor
  BY MinorsType, FS_Subset
<1>2. DOMAIN f = S /\ \A k \in S : f[k] = m[k]
  BY <1>1
<1>3. SumFunction(f) = SumFunctionOnSet(f, S)
  BY <1>2, Zenon DEF SumFunction, SumFunctionOnSet, FoldFunction
<1> HIDE DEF f, m
<1>4. SumFunctionOnSet(f, S) = SumFunctionOnSet(m, S)
  BY <1>1, <1>2, SumOfEqual
<1>5. SumFunctionOnSet(m, S) \in Int
  BY <1>1, SumIsInt
<1> QED BY <1>1, <1>3, <1>4, <1>5 DEF f, m

Edits(i) == OfKinds(i, {"adjust"})

\* What the statement reads of an invoice that is accounted for.
LEMMA StatementRows ==
  ASSUME EntriesFit, NEW i \in InvoiceIds
  PROVE  LET rows == entries[i] IN
         /\ rows \in Seq(Entry) /\ DOMAIN rows = 1 .. Len(rows)
         /\ RowsAddUp(ledger[i], rows)
         /\ Edits(i) = {k \in 1 .. Len(rows) : rows[k].kind = "adjust"}
         /\ Postings(i) = {k \in 1 .. Len(rows) : rows[k].kind \in PostingKinds}
         /\ LastPostings(i) \subseteq Postings(i)
         /\ Postings(i) # {} => LastPostings(i) # {}
         /\ Extra(i) = SumFunctionOnSet(Minors(rows), Edits(i))
         /\ Extra(i) \in Int
<1> DEFINE rows == entries[i]
<1>1. rows \in Seq(Entry) /\ RowsAddUp(ledger[i], rows)
  BY DEF EntriesFit, Accounted
<1>2. DOMAIN rows = 1 .. Len(rows)
  BY <1>1
<1>3. /\ Edits(i) = {k \in 1 .. Len(rows) : rows[k].kind = "adjust"}
      /\ Postings(i) = {k \in 1 .. Len(rows) : rows[k].kind \in PostingKinds}
  BY <1>2 DEF Edits, OfKinds, Postings, PostingKinds
<1>7. LastPostings(i) \subseteq Postings(i) /\ (Postings(i) # {} => LastPostings(i) # {})
  BY DEF LastPostings, Postings, OfKinds
<1>4. Edits(i) \subseteq 1 .. Len(rows)
  BY <1>3
<1>5. Extra(i) = SumFunction([k \in Edits(i) |-> rows[k].minor])
  BY Zenon DEF Extra, Edits
<1> HIDE DEF rows
<1>6. Extra(i) = SumFunctionOnSet(Minors(rows), Edits(i)) /\ Extra(i) \in Int
  BY <1>1, <1>4, <1>5, ColumnSum
<1> QED BY <1>1, <1>2, <1>3, <1>6, <1>7 DEF rows

\* The rows the statement shows of an invoice add up to its ledger, whichever of the
\* reactivations comes last.
LEMMA LinesAddUp ==
  ASSUME EntriesFit, NEW i \in InvoiceIds
  PROVE  Shown(i) = ledger[i]
<1> DEFINE rows == entries[i]
           D == 1 .. Len(rows)
           m == Minors(rows)
           L == Lines(i)
           l == IF Postings(i) = {} THEN 0 ELSE CHOOSE k \in LastPostings(i) : TRUE
           d == [k \in L |-> Delta(i, k, l)]
<1> SUFFICES SumFunction(d) = ledger[i]
  BY Zenon DEF Shown
<1>1. /\ rows \in Seq(Entry) /\ DOMAIN rows = D
      /\ RowsAddUp(ledger[i], rows)
      /\ Edits(i) = {k \in D : rows[k].kind = "adjust"}
      /\ Postings(i) = {k \in D : rows[k].kind \in PostingKinds}
      /\ LastPostings(i) \subseteq Postings(i)
      /\ Postings(i) # {} => LastPostings(i) # {}
      /\ Extra(i) = SumFunctionOnSet(m, Edits(i)) /\ Extra(i) \in Int
  BY StatementRows
<1>2. /\ IsFiniteSet(D)
      /\ \A k \in D : m[k] \in Int /\ m[k] = rows[k].minor
  BY <1>1, MinorsType
<1>3. ledger[i] = SumFunctionOnSet(m, D)
  BY <1>1, Zenon DEF RowsAddUp
<1>4. DOMAIN d = L /\ SumFunction(d) = SumFunctionOnSet(d, L)
  BY DEF SumFunction
<1>5. CASE Postings(i) = {}
  <2>1. L = D
    BY <1>1, <1>5 DEF Lines
  <2>2. \A k \in D : d[k] = m[k]
    <3>1. l = 0 /\ \A k \in D : k # 0
      BY <1>1, <1>5, MinorsType
    <3> HIDE DEF l
    <3> QED BY <1>1, <1>2, <2>1, <3>1 DEF Delta
  <2> HIDE DEF d, m, D, L, l
  <2>3. SumFunctionOnSet(d, D) = SumFunctionOnSet(m, D)
    BY <1>2, <2>2, SumOfEqual
  <2> QED BY <1>3, <1>4, <2>1, <2>3, Zenon
<1>6. CASE Postings(i) # {}
  <2>1. L = D \ Edits(i)
    BY <1>1, <1>6 DEF Lines, Edits
  <2>2. l \in LastPostings(i)
    BY <1>1, <1>6
  <2> HIDE DEF l
  <2>4. l \in D /\ rows[l].kind \in PostingKinds
    BY <1>1, <2>2
  <2>5. l \in L
    BY <1>1, <2>1, <2>4 DEF PostingKinds
  <2>6. /\ \A k \in L : d[k] = m[k] + IF k = l THEN Extra(i) ELSE 0
        /\ L \subseteq D /\ Edits(i) \subseteq D
    <3>1. \A k \in L : Delta(i, k, l) = rows[k].minor + IF k = l THEN Extra(i) ELSE 0
      BY Zenon DEF Delta
    <3>2. L \subseteq D /\ Edits(i) \subseteq D
      BY <1>1, <2>1
    <3> HIDE DEF l
    <3> QED BY <1>2, <3>1, <3>2
  <2> DEFINE E == Edits(i)
             x == Extra(i)
  <2>7. D \ E = L /\ IsFiniteSet(L) /\ E \subseteq D
    BY <1>2, <2>1, <2>6, FS_Subset
  <2>8. x = SumFunctionOnSet(m, E) /\ x \in Int
    BY <1>1
  <2> HIDE DEF d, m, D, L, l, E, x, rows
  <2>9. /\ \A k \in L : m[k] \in Int
        /\ \A k \in L : d[k] \in Int
        /\ \A k \in L \ {l} : d[k] = m[k]
        /\ d[l] = m[l] + x /\ m[l] \in Int
    BY <1>2, <2>5, <2>6, <2>8 DEF x
  <2>10. SumFunctionOnSet(d, L) = SumFunctionOnSet(m, L) + d[l] - m[l]
    BY <2>5, <2>7, <2>9, SumChangedOnce
  <2>11. SumFunctionOnSet(m, D) = SumFunctionOnSet(m, E) + SumFunctionOnSet(m, L)
    <3>1. \A k \in D : m[k] \in Int
      BY <1>2
    <3>2. SumFunctionOnSet(m, D) = SumFunctionOnSet(m, E) + SumFunctionOnSet(m, D \ E)
      BY <1>2, <2>7, <3>1, SumInParts
    <3> QED BY <2>7, <3>2, Zenon
  <2>12. SumFunctionOnSet(m, L) \in Int
    BY <2>7, <2>9, SumIsInt
  <2>13. SumFunctionOnSet(d, L) = SumFunctionOnSet(m, D)
    BY <2>8, <2>9, <2>10, <2>11, <2>12
  <2> QED BY <1>3, <1>4, <2>13, Zenon
<1> QED BY <1>5, <1>6

\* The receipts of a client add up to a number.
LEMMA ReceivedSum ==
  ASSUME TypeOK, NEW c \in Clients
  PROVE  /\ Opening(client[c]) \in Int
         /\ SumFunction([r \in ReceiptsOf(c) |-> Received(r)]) \in Int
<1> DEFINE R == ReceiptsOf(c)
           f == [r \in R |-> Received(r)]
<1>1. Opening(client[c]) \in Int
  BY BalanceSums DEF BalanceIsSums
<1>2. R \subseteq ReceiptIds /\ IsFiniteSet(R)
  BY IdsAssumption, FS_Subset DEF ReceiptsOf
<1>3. \A r \in R : f[r] \in Int
  BY <1>2, EffectsInt DEF EffectsAreInt
<1>4. DOMAIN f = R /\ SumFunction(f) = SumFunctionOnSet(f, R)
  BY DEF SumFunction
<1> HIDE DEF R, f
<1>5. SumFunctionOnSet(f, R) \in Int
  BY <1>2, <1>3, SumIsInt
<1>6. SumFunction(f) \in Int
  BY <1>4, <1>5
<1> QED BY <1>1, <1>6 DEF R, f

\* The fold takes every edit into the last posting, those before it too.
LEMMA FoldedEdits == EntriesFit => EditsAreFolded
<1> SUFFICES ASSUME EntriesFit, NEW i \in InvoiceIds,
                    invoice[i].status = "posted" /\ invoice[i].client # NoClient
             PROVE  /\ Lines(i) \cap OfKinds(i, {"adjust"}) = {}
                    /\ \A l \in LastPostings(i) :
                         Delta(i, l, l) = DebtOf(invoice[i].doc, invoice[i].total)
                                            + EditedBefore(i, l)
  BY DEF EditsAreFolded
<1> DEFINE rows == entries[i]
           D == 1 .. Len(rows)
           m == Minors(rows)
           E == Edits(i)
           debt == DebtOf(invoice[i].doc, invoice[i].total)
<1>1. /\ rows \in Seq(Entry) /\ DOMAIN rows = D
      /\ E = {k \in D : rows[k].kind = "adjust"}
      /\ Postings(i) = {k \in D : rows[k].kind \in PostingKinds}
      /\ LastPostings(i) \subseteq Postings(i)
      /\ Extra(i) = SumFunctionOnSet(m, E) /\ Extra(i) \in Int
  BY StatementRows
<1>2. PostsTotal(invoice[i], rows)
  BY DEF EntriesFit, Accounted, OnAccount, Live
<1>6. Lines(i) \cap OfKinds(i, {"adjust"}) = {}
  <2>1. Postings(i) # {}
    BY <1>1, <1>2 DEF PostsTotal
  <2> QED BY <2>1 DEF Lines
<1> SUFFICES ASSUME NEW l \in LastPostings(i)
             PROVE  Delta(i, l, l) = debt + EditedBefore(i, l)
  BY <1>6
<1>4. l \in D /\ rows[l].kind \in PostingKinds
  BY <1>1
<1>3. rows[l].minor + SumFunctionOnSet(m, EditsAfter(rows, l)) = debt
  <2>1. IsTotal(invoice[i], rows, l)
    BY <1>2, <1>4, Zenon DEF PostsTotal
  <2> QED BY <2>1, Zenon DEF IsTotal
<1>7. Delta(i, l, l) = rows[l].minor + Extra(i)
  BY Zenon DEF Delta
<1> DEFINE before == {k \in E : k < l}
           after == EditsAfter(rows, l)
<1>8. /\ E \subseteq D /\ before \subseteq E /\ before \subseteq D /\ E \ before = after
      /\ after \subseteq D
  <2>1. \A k \in D : k \in Int
    BY <1>1, MinorsType
  <2>2. l \notin E
    BY <1>1, <1>4 DEF PostingKinds
  <2>3. \A k \in E : k < l \/ k > l
    BY <1>1, <2>1, <2>2
  <2> QED BY <1>1, <2>1, <2>3 DEF EditsAfter
<1>9. EditedBefore(i, l) = SumFunctionOnSet(m, before) /\ SumFunctionOnSet(m, before) \in Int
  <2>1. EditedBefore(i, l) = SumFunction([k \in before |-> rows[k].minor])
    BY Zenon DEF EditedBefore, Edits
  <2> HIDE DEF before, rows, E
  <2> QED BY <1>1, <1>8, <2>1, ColumnSum
<1>10. SumFunctionOnSet(m, E) = SumFunctionOnSet(m, before) + SumFunctionOnSet(m, after)
  <2>1. IsFiniteSet(E) /\ \A k \in E : m[k] \in Int
    <3> HIDE DEF rows, E
    <3> QED BY <1>1, <1>8, ColumnSum
  <2> HIDE DEF m, E, before, after
  <2>2. SumFunctionOnSet(m, E) = SumFunctionOnSet(m, before) + SumFunctionOnSet(m, E \ before)
    BY <1>8, <2>1, SumInParts
  <2> QED BY <1>8, <2>2, Zenon
<1>11. SumFunctionOnSet(m, after) \in Int
  <2> HIDE DEF rows, after
  <2> QED BY <1>1, <1>8, ColumnSum
<1>12. rows[l].minor \in Int
  BY <1>1, <1>4, MinorsType
<1>13. Delta(i, l, l) = debt + EditedBefore(i, l)
  <2>1. rows[l].minor + SumFunctionOnSet(m, after) = debt
    BY <1>3
  <2> HIDE DEF m, E, before, after, debt, rows
  <2> QED BY <1>1, <1>7, <1>9, <1>10, <1>11, <1>12, <2>1
<1> QED BY <1>13

-----------------------------------------------------------------------------
\* What the statement drops with a void invoice.
Dropped(i) == IF invoice[i].status = "void" THEN invoice[i].returnedMinor ELSE 0

\* The closing balance sums the ledger of the invoices shown, the balance that of
\* all of them; they differ by the void ones, of which the returns are left.
LEMMA ClosingIsBalance == BooksAgree /\ EntriesFit => StatementsClose
<1> SUFFICES ASSUME BooksAgree, EntriesFit, NEW c \in Clients, client[c].row = "live"
             PROVE  Closing(c) = Balance(c)
                      + SumFunction([i \in {i \in InvoicesOf(c) : invoice[i].status = "void"} |->
                                       invoice[i].returnedMinor])
  BY DEF StatementsClose
<1> DEFINE O == InvoicesOf(c)
           V == {i \in InvoicesOf(c) : invoice[i].status = "void"}
           inner == [i \in Read(c) |-> Shown(i)]
           paid == [i \in O |-> DebtOf(invoice[i].doc, invoice[i].paid)]
           owed == [i \in O |-> InvoiceDebt(i)]
           gone == [i \in V |-> invoice[i].returnedMinor]
           shown == [i \in O |-> IF i \in Read(c) THEN ledger[i] ELSE 0]
           dropped == [i \in O |-> Dropped(i)]
           other == [i \in O |-> paid[i] + dropped[i]]
<1>1. /\ O \subseteq InvoiceIds /\ IsFiniteSet(O)
      /\ V \subseteq O /\ Read(c) \subseteq O /\ O \ V \subseteq InvoiceIds
      /\ \A i \in O : i \in Read(c) <=> invoice[i].status # "void"
      /\ \A i \in O : i \in V <=> invoice[i].status = "void"
      /\ \A i \in O : invoice[i].client = c /\ c # NoClient
  BY IdsAssumption, FS_Subset DEF InvoicesOf, Read
<1>2. TypeOK /\ LedgerMatchesInvoices
  BY DEF BooksAgree
<1>3. ASSUME NEW i \in O
      PROVE  /\ ledger[i] \in Int /\ paid[i] \in Int /\ owed[i] = ledger[i] - paid[i]
             /\ invoice[i].returnedMinor \in Int
             /\ i \in V => ledger[i] = -invoice[i].returnedMinor
  <2>1. i \in InvoiceIds /\ invoice[i] \in Invoice /\ ledger[i] \in Int
    BY <1>1, <1>2, <1>3 DEF TypeOK
  <2>2. invoice[i].paid \in Int /\ invoice[i].returnedMinor \in Int
    BY <2>1 DEF Invoice
  <2>3. paid[i] = DebtOf(invoice[i].doc, invoice[i].paid) /\ paid[i] \in Int
    BY <1>3, <2>2, DebtIsInt
  <2>4. owed[i] = ledger[i] - paid[i]
    BY <1>3, <2>3 DEF InvoiceDebt
  <2>5. i \in V => ledger[i] = -invoice[i].returnedMinor
    BY <1>1, <1>2, <1>3, <2>1 DEF LedgerMatchesInvoices, NetDebt
  <2> QED BY <2>1, <2>2, <2>3, <2>4, <2>5
<1>4. /\ \A i \in Read(c) : inner[i] = shown[i]
      /\ \A i \in O \ Read(c) : shown[i] = 0
      /\ \A i \in O : shown[i] \in Int
      /\ DOMAIN inner = Read(c)
  <2>1. ASSUME NEW i \in Read(c) PROVE inner[i] = shown[i]
    <3>1. inner[i] = ledger[i] /\ i \in O
      BY <1>1, LinesAddUp
    <3> QED BY <3>1
  <2>2. \A i \in O : shown[i] \in Int
    <3> HIDE DEF owed, paid, V
    <3> QED BY <1>3
  <2>3. \A i \in O \ Read(c) : shown[i] = 0
    OBVIOUS
  <2>4. DOMAIN inner = Read(c)
    OBVIOUS
  <2> QED BY <2>1, <2>2, <2>3, <2>4
<1>5. /\ \A i \in V : gone[i] = dropped[i]
      /\ \A i \in O \ V : dropped[i] = 0
      /\ \A i \in O : dropped[i] \in Int
      /\ DOMAIN gone = V /\ DOMAIN owed = O /\ DOMAIN paid = O
  <2>1. \A i \in O : dropped[i] = IF i \in V THEN invoice[i].returnedMinor ELSE 0
    BY <1>1 DEF Dropped
  <2>2. \A i \in V : gone[i] = invoice[i].returnedMinor /\ i \in O
    BY <1>1
  <2>3. DOMAIN gone = V /\ DOMAIN owed = O /\ DOMAIN paid = O
    OBVIOUS
  <2> HIDE DEF gone, dropped, owed, paid, V, O
  <2> QED BY <1>3, <2>1, <2>2, <2>3
<1>6. /\ \A i \in O : other[i] = paid[i] + dropped[i] /\ paid[i] \in Int /\ dropped[i] \in Int
      /\ \A i \in O : other[i] \in Int
  <2>1. \A i \in O : other[i] = paid[i] + dropped[i]
    OBVIOUS
  <2> HIDE DEF other, dropped, paid, owed, V, O
  <2> QED BY <1>3, <1>5, <2>1
<1>7. \A i \in O : shown[i] = owed[i] + other[i] /\ owed[i] \in Int /\ other[i] \in Int
  <2>1. \A i \in O : shown[i] = IF i \in V THEN 0 ELSE ledger[i]
    BY <1>1
  <2>2. \A i \in O : dropped[i] = IF i \in V THEN -ledger[i] ELSE 0
    <3> HIDE DEF gone, dropped, owed, paid, O
    <3>1. ASSUME NEW i \in O PROVE dropped[i] = IF i \in V THEN -ledger[i] ELSE 0
      <4>1. dropped[i] = IF i \in V THEN invoice[i].returnedMinor ELSE 0
        BY <1>1 DEF Dropped, dropped
      <4> HIDE DEF V
      <4> QED BY <1>3, <4>1
    <3> QED BY <3>1
  <2> HIDE DEF shown, gone, dropped, owed, paid, other, V, O
  <2> QED BY <1>3, <1>6, <2>1, <2>2
<1>8. /\ SumFunction(inner) = SumFunctionOnSet(inner, Read(c))
      /\ SumFunction(gone) = SumFunctionOnSet(gone, V)
      /\ SumFunction(owed) = SumFunctionOnSet(owed, O)
      /\ SumFunction(paid) = SumFunctionOnSet(paid, O)
  BY <1>4, <1>5, Zenon DEF SumFunction, SumFunctionOnSet, FoldFunction
<1>9. /\ Closing(c) = Opening(client[c]) + SumFunction(inner) - SumFunction(paid)
                        + SumFunction([r \in ReceiptsOf(c) |-> Received(r)])
      /\ Balance(c) = Opening(client[c]) + SumFunction(owed)
                        + SumFunction([r \in ReceiptsOf(c) |-> Received(r)])
  BY Zenon DEF Closing, Balance
<1>10. /\ Opening(client[c]) \in Int
       /\ SumFunction([r \in ReceiptsOf(c) |-> Received(r)]) \in Int
  BY <1>2, ReceivedSum
<1> DEFINE received == SumFunction([r \in ReceiptsOf(c) |-> Received(r)])
<1> HIDE DEF O, V, inner, paid, owed, gone, shown, dropped, other
<1>11. SumFunctionOnSet(inner, Read(c)) = SumFunctionOnSet(shown, O)
  <2>1. IsFiniteSet(Read(c))
    BY <1>1, FS_Subset
  <2>2. SumFunctionOnSet(inner, Read(c)) = SumFunctionOnSet(shown, Read(c))
    BY <1>4, <2>1, SumOfEqual
  <2>3. SumFunctionOnSet(shown, O) = SumFunctionOnSet(shown, Read(c))
    BY <1>1, <1>4, SumOnSupport
  <2> QED BY <2>2, <2>3
<1>12. SumFunctionOnSet(gone, V) = SumFunctionOnSet(dropped, O)
  <2>1. IsFiniteSet(V)
    BY <1>1, FS_Subset
  <2>2. SumFunctionOnSet(gone, V) = SumFunctionOnSet(dropped, V)
    BY <1>5, <2>1, SumOfEqual
  <2>3. SumFunctionOnSet(dropped, O) = SumFunctionOnSet(dropped, V)
    BY <1>1, <1>5, SumOnSupport
  <2> QED BY <2>2, <2>3
<1>13. SumFunctionOnSet(shown, O) = SumFunctionOnSet(owed, O) + SumFunctionOnSet(other, O)
  BY <1>1, <1>7, SumOfSums
<1>14. SumFunctionOnSet(other, O) = SumFunctionOnSet(paid, O) + SumFunctionOnSet(dropped, O)
  BY <1>1, <1>6, SumOfSums
<1>15. /\ SumFunctionOnSet(owed, O) \in Int
       /\ SumFunctionOnSet(paid, O) \in Int
       /\ SumFunctionOnSet(dropped, O) \in Int
  <2>1. /\ \A i \in O : owed[i] \in Int
        /\ \A i \in O : paid[i] \in Int
        /\ \A i \in O : dropped[i] \in Int
    BY <1>6, <1>7
  <2> QED BY <1>1, <2>1, SumIsInt
<1> HIDE DEF received
<1>16. Closing(c) = Balance(c) + SumFunction(gone)
  <2>1. /\ Closing(c) = Opening(client[c]) + SumFunction(inner) - SumFunction(paid) + received
        /\ Balance(c) = Opening(client[c]) + SumFunction(owed) + received
        /\ received \in Int
    BY <1>9, <1>10, Zenon DEF received
  <2> QED BY <1>8, <1>10, <1>11, <1>12, <1>13, <1>14, <1>15, <2>1
<1> QED BY <1>16, Zenon DEF gone, V

\* The statement of a client closes with the balance shown beside it, but for what
\* was returned of invoices that are void now (clientLedger, clientDisplayQuery).
THEOREM StatementsAlwaysClose == StatementSpec => []StatementsClose
  BY EntriesAlwaysFit, ClosingIsBalance, PTL

\* A posted invoice has one line for its last posting, whichever that is of several
\* reactivations, of its present total and the edits before that posting, and none for an edit (foldInvoiceAdjustments).
THEOREM EditsAreAlwaysFolded == StatementSpec => []EditsAreFolded
<1>1. BooksAgree /\ EntriesFit => EditsAreFolded
  BY FoldedEdits
<1> QED BY <1>1, EntriesAlwaysFit, PTL
=============================================================================
