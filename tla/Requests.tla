------------------------------ MODULE Requests ------------------------------
(***************************************************************************)
(* Requests as the apps of several users send them.  An app sends the      *)
(* version of the row its screen shows, which may be out of date when the  *)
(* request arrives; a request whose answer is lost is sent again, and a    *)
(* delayed one arrives after others.  So request[a] stays deliverable      *)
(* until app a sends another.  The requests without a version (creation,   *)
(* payments, returns, clients, receipts) arrive as in Backend.             *)
(***************************************************************************)
EXTENDS Backend

CONSTANT Apps

VARIABLES
  request,   \* the request each app sent last
  path,      \* the status reactivateInvoice has read for it, before it writes
  effects    \* how often it has taken effect

requestVars == <<request, path, effects>>
allVars == <<vars, requestVars>>

Transitions == {"post", "void", "cancel", "reactivate"}

\* A request carries what its app showed (seen), of which the code compares
\* the version; "none" before the first one.
NoRequest == [kind |-> "none"]

RequestsInit ==
  /\ Init
  /\ request = [a \in Apps |-> NoRequest]
  /\ path = [a \in Apps |-> "unread"]
  /\ effects = [a \in Apps |-> 0]

Send(a, r) ==
  /\ request' = [request EXCEPT ![a] = r]
  /\ path' = [path EXCEPT ![a] = "unread"]
  /\ effects' = [effects EXCEPT ![a] = 0]
  /\ UNCHANGED vars

\* The app shows the invoice it has just read and sends a transition of it.
SendTransition(a, i, kind) ==
  /\ invoice[i].status \notin {"unused", "deleted"}
  /\ Send(a, [kind |-> kind, id |-> i, seen |-> invoice[i]])

\* The edit form sends the whole document.
SendSave(a, i, c, doc, lines) ==
  /\ invoice[i].status \in {"draft", "posted"}
  /\ Send(a, [kind |-> "save", id |-> i, seen |-> invoice[i],
              client |-> c, doc |-> doc, lines |-> lines])

SendProduct(a, p, in) ==
  /\ product[p].row = "live"
  /\ Send(a, [kind |-> "product", id |-> p, seen |-> product[p], in |-> in])

(***************************************************************************)
(* The handler of a request, as often as it is delivered.  A refusal, and  *)
(* the 200 of a transition whose target is already the status, change      *)
(* nothing.                                                                *)
(***************************************************************************)
HandleSave(r) ==
  /\ r.kind = "save"
  /\ \/ UpdateDraft(r.id, r.seen.version, r.client, r.doc, r.lines)
     \/ EditPosted(r.id, r.seen.version, r.client, r.doc, r.lines)

HandleProduct(r) ==
  r.kind = "product" /\ UpdateProduct(r.id, r.seen.version, r.in)

HandleTransition(r) ==
  \/ r.kind = "post"   /\ PostInvoice(r.id, r.seen.version)
  \/ r.kind = "void"   /\ VoidInvoice(r.id, r.seen.version)
  \/ r.kind = "cancel" /\ CancelInvoice(r.id, r.seen.version)

\* Mutant: the UPDATE of a cancelled draft without its WHERE.
HandleReactivation_Unconditional(r, status) ==
  /\ r.kind = "reactivate" /\ status = "cancelled"
  /\ invoice' = [invoice EXCEPT ![r.id] = Stamped(@, "draft")]
  /\ UNCHANGED <<tenantActive, stockVars, client, bookVars, receipt>>

\* reactivateInvoice takes the path of the status it has read.
HandleReactivation(r, status) ==
  /\ r.kind = "reactivate"
  /\ \/ status = "void"      /\ ReactivateVoid(r.id, r.seen.version)
     \/ status = "cancelled" /\ ReactivateCancelled(r.id, r.seen.version)

\* reactivateInvoice reads the status without a lock and without a version.
ReadStatus(a) ==
  /\ request[a].kind = "reactivate"
  /\ path' = [path EXCEPT ![a] = invoice[request[a].id].status]
  /\ UNCHANGED <<vars, request, effects>>

Deliver(a) ==
  /\ \/ HandleSave(request[a])
     \/ HandleProduct(request[a])
     \/ HandleTransition(request[a])
     \/ HandleReactivation(request[a], path[a])
  /\ effects' = [effects EXCEPT ![a] = @ + 1]
  /\ path' = [path EXCEPT ![a] = "unread"]
  /\ UNCHANGED request

AppNext ==
  \E a \in Apps :
    \/ \E i \in InvoiceIds :
         \/ \E kind \in Transitions : SendTransition(a, i, kind)
         \/ \E c \in Clients, doc \in DocumentTypes, lines \in LineForms :
              SendSave(a, i, c, doc, lines)
    \/ \E p \in Products, in \in ProductInputs : SendProduct(a, p, in)
    \/ ReadStatus(a)
    \/ Deliver(a)

\* The requests whose body names no version.
UnversionedNext ==
  \/ TenantNext
  \/ ClientNext
  \/ \E p \in Products :
       (\E in \in ProductInputs : CreateProduct(p, in)) \/ DeleteProduct(p)
  \/ \E i \in InvoiceIds :
       \/ \E c \in Clients, doc \in DocumentTypes, lines \in LineForms :
             CreateInvoice(i, c, doc, lines)
       \/ DeleteCancelled(i)
       \/ \E cartons \in [Products -> ReturnInputs \cup {0}] : CreateReturn(i, cartons)
       \/ \E amount \in PaymentInputs : CreatePayment(i, amount)

RequestsNext == AppNext \/ (UnversionedNext /\ UNCHANGED requestVars)

RequestsSpec == RequestsInit /\ [][RequestsNext]_allVars

-----------------------------------------------------------------------------
\* "Retrying a completed transition never repeats stock/ledger effects"
\* (invoices.go:469), and no save does either: however often and however late
\* a request with a version is delivered, it takes effect once at most.
AtMostOnce == \A a \in Apps : effects[a] <= 1

\* What a document says: everything a user decides on before acting on it,
\* except the client, which the cleanup of a client's associations takes away
\* without a new version, and the returns and payments, which have none.
Document(inv) == [status |-> inv.status, doc |-> inv.doc, items |-> inv.items,
                  total |-> inv.total, number |-> inv.number]

\* The stale check is enough: a request that takes effect finds the document,
\* or the product with its stock, its user was looking at, whatever the other
\* users, the postings of other invoices and the returns did in between.
NothingUnseenIsOverwritten ==
  [][\A a \in Apps : effects'[a] > effects[a] =>
       LET r == request[a]
       IN  IF r.kind = "product" THEN product[r.id] = r.seen
           ELSE Document(invoice[r.id]) = Document(r.seen)]_allVars

\* Racing, stale and repeated requests do nothing to the tables that Backend's
\* one-at-a-time requests with current versions could not do.
RefinesBackend == Spec
=============================================================================
