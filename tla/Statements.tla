------------------------------ MODULE Statements ------------------------------
(***************************************************************************)
(* The client's account as a statement (clientLedger, clientStatementPDF):  *)
(* the rows of client_ledger, which Commerce keeps as sums, one by one, and *)
(* what loadClientLedger and foldInvoiceAdjustments make of them.  The      *)
(* kinds of a purchase (purchase_void, ...) are folded like those of a      *)
(* sale and carry its names here.                                           *)
(***************************************************************************)
EXTENDS Backend, Sequences, FiniteSetsExt

VARIABLE entries  \* client_ledger: the rows of an invoice, oldest first

statementVars == <<vars, entries>>

-----------------------------------------------------------------------------
(***************************************************************************)
(* Who writes which rows.                                                  *)
(***************************************************************************)

Recorded(i, kind) ==
  entries' = [entries EXCEPT ![i] =
    Append(@, [kind |-> kind, minor |-> ledger'[i] - ledger[i]])]

\* Mutant: an edit that lowers the total writes no row.
Adjusted_RaisesOnly(i) ==
  IF DebtOf(invoice[i].doc, ledger'[i] - ledger[i]) <= 0 THEN UNCHANGED entries
                                                         ELSE Recorded(i, "adjust")

\* applyPostedInvoiceEdit writes a row when the total changes.
Adjusted(i) ==
  IF invoice'[i].total = invoice[i].total THEN UNCHANGED entries
                                          ELSE Recorded(i, "adjust")

InvoiceSteps(i) ==
  LET version == invoice[i].version
  IN  \/ PostInvoice(i, version)    /\ Recorded(i, "invoice")
      \/ VoidInvoice(i, version)    /\ Recorded(i, "void")
      \/ ReactivateVoid(i, version) /\ Recorded(i, "reactivate")
      \/ \E cartons \in [Products -> ReturnInputs \cup {0}] :
            CreateReturn(i, cartons) /\ Recorded(i, "return")
      \/ \E c \in Clients, doc \in DocumentTypes, lines \in LineForms :
            \/ EditPosted(i, version, c, doc, lines) /\ Adjusted(i)
            \/ CreateInvoice(i, c, doc, lines) /\ UNCHANGED entries
            \/ UpdateDraft(i, version, c, doc, lines) /\ UNCHANGED entries
      \/ /\ \/ CancelInvoice(i, version)
            \/ ReactivateCancelled(i, version)
            \/ DeleteCancelled(i)
            \/ \E amount \in PaymentInputs : CreatePayment(i, amount)
         /\ UNCHANGED entries

\* deleteClientAssociations deletes the rows of the client's invoices, which
\* it detaches; the other handlers of clients and receipts write none.
ClientSteps ==
  /\ ClientNext
  /\ entries' = [i \in InvoiceIds |->
                   IF invoice'[i].client = NoClient THEN <<>> ELSE entries[i]]

StatementInit == Init /\ entries = [i \in InvoiceIds |-> <<>>]

StatementNext ==
  \/ TenantNext /\ UNCHANGED entries
  \/ ProductNext /\ UNCHANGED entries
  \/ \E i \in InvoiceIds : InvoiceSteps(i)
  \/ ClientSteps

StatementSpec == StatementInit /\ [][StatementNext]_statementVars

-----------------------------------------------------------------------------
(***************************************************************************)
(* The statement of client c.  loadClientLedger reads the rows of the       *)
(* invoices that are not void, and every payment and receipt; an invoice's  *)
(* posting, adjustments and reactivations carry one and the same date       *)
(* (posted_at), where "reactivate" sorts last and several of them in any    *)
(* order (ORDER BY at, kind, ref_id).                                       *)
(***************************************************************************)
Read(c) == {i \in InvoiceIds : invoice[i].client = c /\ invoice[i].status # "void"}

OfKinds(i, kinds) == {k \in DOMAIN entries[i] : entries[i][k].kind \in kinds}

Postings(i) == OfKinds(i, {"invoice", "reactivate"})

\* The rows that may come last of them, lastPosting of foldInvoiceAdjustments.
LastPostings(i) ==
  IF OfKinds(i, {"reactivate"}) = {} THEN Postings(i) ELSE OfKinds(i, {"reactivate"})

\* Mutant: an adjustment replaces the one before it.
Extra_Replaces(i) ==
  LET adjusted == OfKinds(i, {"adjust"})
  IN  IF adjusted = {} THEN 0 ELSE entries[i][Max(adjusted)].minor

\* What the adjustments add to the posting they are folded into.
Extra(i) == SumFunction([k \in OfKinds(i, {"adjust"}) |-> entries[i][k].minor])

\* The rows the fold leaves: adjustments disappear into the last posting,
\* and stay when there is none.
Lines(i) ==
  IF Postings(i) = {} THEN DOMAIN entries[i]
                      ELSE DOMAIN entries[i] \ OfKinds(i, {"adjust"})

Delta(i, k, last) ==
  entries[i][k].minor + IF k = last THEN Extra(i) ELSE 0

\* Which posting comes last makes no difference to the sum.
Shown(i) ==
  LET last == IF Postings(i) = {} THEN 0 ELSE CHOOSE l \in LastPostings(i) : TRUE
  IN  SumFunction([k \in Lines(i) |-> Delta(i, k, last)])

\* The last running balance.
Closing(c) ==
  Opening(client[c])
  + SumFunction([i \in Read(c) |-> Shown(i)])
  - SumFunction([i \in InvoicesOf(c) |-> DebtOf(invoice[i].doc, invoice[i].paid)])
  + SumFunction([r \in ReceiptsOf(c) |-> Received(r)])

-----------------------------------------------------------------------------
\* The two ways the code computes a client's balance, clientDisplayQuery and
\* the last line of the statement shown beside it, agree after any history of
\* the invoices, except for what was returned of invoices that are void now:
\* the ledger keeps those returns, the statement drops them with the invoice.
StatementsClose ==
  \A c \in Clients : client[c].row = "live" =>
    Closing(c) = Balance(c)
      + SumFunction([i \in {i \in InvoicesOf(c) : invoice[i].status = "void"} |->
                       invoice[i].returnedMinor])

\* What edits had added to the invoice before its posting l.
EditedBefore(i, l) ==
  SumFunction([k \in {k \in OfKinds(i, {"adjust"}) : k < l} |-> entries[i][k].minor])

\* "the account shows the invoice at its edited total" (invoice_edit.go:121): a
\* posted invoice has one line for its last posting, of its present total, and no
\* line for an edit, whichever of several reactivations is sorted last.  For an
\* invoice that was edited, voided and reactivated the line is too high by the edits
\* before that reactivation, which are folded into it although the total reactivated
\* contains them.
EditsAreFolded ==
  \A i \in InvoiceIds : invoice[i].status = "posted" /\ invoice[i].client # NoClient =>
    /\ Lines(i) \cap OfKinds(i, {"adjust"}) = {}
    /\ \A l \in LastPostings(i) :
         Delta(i, l, l) = DebtOf(invoice[i].doc, invoice[i].total) + EditedBefore(i, l)
=============================================================================
