---------------------------- MODULE Transactions ----------------------------
(***************************************************************************)
(* Backend takes every handler that goes through commerceTx as one step.   *)
(* Here transitionInvoice (post, void, cancel, reactivate) runs statement  *)
(* by statement, several at a time, beside the handlers of Backend that    *)
(* the row locks let through, and any request may break off anywhere.      *)
(*                                                                         *)
(* The tables of Backend hold what the open transactions have written      *)
(* (InnoDB writes in place), committed holds what they held before; a row  *)
(* written or read FOR UPDATE is locked until the transaction ends.        *)
(* Deadlock detection is left out: NoWaitCycle shows it has nothing to do. *)
(***************************************************************************)
EXTENDS Backend, SequencesExt

CONSTANTS Txs,     \* the requests being served at a time
          Nobody   \* no transaction

ASSUME TransactionsAssumption == Nobody \notin Txs

VARIABLES
  step,       \* the next statement of each transaction; "idle": none is open
  request,    \* the transition it serves
  lines,      \* the invoice lines it has still to move, in the order of their ids
  writer,     \* the transaction that holds a row FOR UPDATE
  sharers,    \* the transactions that hold a client FOR SHARE
  committed   \* the rows as of the last commit

txVars == <<step, request, lines, writer, sharers, committed>>
everything == <<vars, txVars>>

\* The rows locked FOR UPDATE: the tenant's, the invoice counter's, and these.
Lockable == {"tenant", "counter"} \cup Products \cup InvoiceIds

Kinds == {"post", "void", "cancel", "reactivate"}

NoTransition == [kind |-> "cancel", id |-> "none", version |-> 0, number |-> 0]

Tables == [product |-> product, movement |-> movement, invoice |-> invoice,
           ledger |-> ledger, nextNumber |-> nextNumber]

NoneOpen ==
  /\ step = [t \in Txs |-> "idle"]
  /\ request = [t \in Txs |-> NoTransition]
  /\ lines = [t \in Txs |-> <<>>]
  /\ writer = [r \in Lockable |-> Nobody]
  /\ sharers = [c \in Clients |-> {}]
  /\ committed = Tables

TransactionsInit == Init /\ NoneOpen

-----------------------------------------------------------------------------
(***************************************************************************)
(* Locks, commit and rollback.                                             *)
(***************************************************************************)
Free(t, r) == writer[r] \in {Nobody, t}

Lock(t, r) == writer' = [writer EXCEPT ![r] = t]

Go(t, next) == step' = [step EXCEPT ![t] = next]

\* The rows t has locked take their value from one side, the others keep theirs.
Mine(t, from, into) ==
  [r \in DOMAIN into |-> IF writer[r] = t THEN from[r] ELSE into[r]]

Release(t) ==
  /\ writer' = [r \in Lockable |-> IF writer[r] = t THEN Nobody ELSE writer[r]]
  /\ sharers' = [c \in Clients |-> sharers[c] \ {t}]
  /\ step' = [step EXCEPT ![t] = "idle"]
  /\ request' = [request EXCEPT ![t] = NoTransition]
  /\ lines' = [lines EXCEPT ![t] = <<>>]

\* Mutant: the deferred tx.Rollback is missing, the connection goes back to the
\* pool with its writes.
Rollback_Keeps(t) ==
  /\ step[t] # "idle"
  /\ Release(t)
  /\ UNCHANGED <<vars, committed>>

\* The deferred tx.Rollback.
Rollback(t) ==
  /\ step[t] # "idle"
  /\ Release(t)
  /\ product' = Mine(t, committed.product, product)
  /\ movement' = Mine(t, committed.movement, movement)
  /\ invoice' = Mine(t, committed.invoice, invoice)
  /\ ledger' = Mine(t, committed.ledger, ledger)
  /\ nextNumber' = IF writer["counter"] = t THEN committed.nextNumber ELSE nextNumber
  /\ UNCHANGED <<tenantActive, correction, client, receipt, committed>>

Commit(t) ==
  /\ step[t] = "commit"
  /\ Release(t)
  /\ committed' =
       [product |-> Mine(t, product, committed.product),
        movement |-> Mine(t, movement, committed.movement),
        invoice |-> Mine(t, invoice, committed.invoice),
        ledger |-> Mine(t, ledger, committed.ledger),
        nextNumber |-> IF writer["counter"] = t THEN nextNumber
                                                ELSE committed.nextNumber]
  /\ UNCHANGED vars

-----------------------------------------------------------------------------
(***************************************************************************)
(* What the next statement of t needs: the row it locks FOR UPDATE, if it  *)
(* does, and the check of what it finds.                                   *)
(***************************************************************************)
From(kind) ==
  CASE kind = "post" -> "draft" [] kind = "void" -> "posted"
    [] kind = "cancel" -> "draft" [] kind = "reactivate" -> "void"

Delta(r, p) ==
  LET whole == StockOf(invoice[r.id].doc, invoice[r.id].items[p].qty)
  IN  IF r.kind = "void" THEN -whole ELSE whole

\* The check of the status and the version of the locked row.
Allowed(r) ==
  invoice[r.id].status = From(r.kind) /\ Current(r.id, r.version)

\* The checks of the product of a line.
CanBook(r, p) ==
  /\ CanMove(product[p], Delta(r, p))
  /\ r.kind # "void" =>
       product[p].active /\ product[p].pieces = invoice[r.id].items[p].pieces

Wanted(t) ==
  CASE step[t] = "tenant"  -> {"tenant"}
    [] step[t] = "invoice" -> {request[t].id}
    [] step[t] = "line" /\ lines[t] # <<>> -> {Head(lines[t])}
    [] step[t] = "counter" -> {"counter"}
    [] OTHER -> {}

Waits(t) == \E r \in Wanted(t) : ~Free(t, r)

Passes(t) ==
  LET r == request[t]
  IN  CASE step[t] = "tenant"  -> tenantActive
        [] step[t] = "invoice" -> Allowed(r)
        [] step[t] = "client"  -> ActiveClient(invoice[r.id].client)
        [] step[t] = "line"    -> IF lines[t] # <<>> THEN CanBook(r, Head(lines[t]))
                                  ELSE invoice[r.id].client # NoClient
        [] OTHER -> TRUE

(***************************************************************************)
(* transitionInvoice.  A statement whose check fails ends the request.     *)
(***************************************************************************)
Begin(t, kind, i) ==
  /\ step[t] = "idle"
  /\ committed.invoice[i].status \notin {"unused", "deleted"}
  /\ request' = [request EXCEPT ![t] =
        [kind |-> kind, id |-> i, version |-> committed.invoice[i].version, number |-> 0]]
  /\ Go(t, "tenant")
  /\ UNCHANGED <<vars, lines, writer, sharers, committed>>

\* Mutant: commerceTx reads the tenant row without locking it.
LockTenant_ReadsOnly(t) ==
  /\ step[t] = "tenant"
  /\ Go(t, "invoice")
  /\ UNCHANGED <<vars, request, lines, writer, sharers, committed>>

LockTenant(t) ==
  /\ step[t] = "tenant" /\ Free(t, "tenant")
  /\ Lock(t, "tenant")
  /\ Go(t, "invoice")
  /\ UNCHANGED <<vars, request, lines, sharers, committed>>

LockInvoice(t) ==
  LET r == request[t]
  IN  /\ step[t] = "invoice" /\ Free(t, r.id)
      /\ Lock(t, r.id)
      /\ \E order \in SetToSeqs(OnInvoice(invoice[r.id])) :
           lines' = [lines EXCEPT ![t] = order]
      /\ Go(t, CASE r.kind = "cancel" -> "status" [] r.kind = "void" -> "line"
                 [] OTHER -> "client")
      /\ UNCHANGED <<vars, request, sharers, committed>>

ShareClient(t) ==
  LET c == invoice[request[t].id].client
  IN  /\ step[t] = "client"
      /\ sharers' = [sharers EXCEPT ![c] = @ \cup {t}]
      /\ Go(t, "line")
      /\ UNCHANGED <<vars, request, lines, writer, committed>>

\* The row lock of a line's product, and the checks of the row it returns.
LockLine(t) ==
  LET p == Head(lines[t])
  IN  /\ step[t] = "line" /\ lines[t] # <<>> /\ Free(t, p)
      /\ Lock(t, p)
      /\ Go(t, "move")
      /\ UNCHANGED <<vars, request, lines, sharers, committed>>

\* quantity + ?, version + 1, and the stock_movements row.
MoveLine(t) ==
  LET i == request[t].id
      p == Head(lines[t])
      delta == Delta(request[t], p)
  IN  /\ step[t] = "move"
      /\ product' = [product EXCEPT ![p] = Restocked(@, delta)]
      /\ movement' = [movement EXCEPT ![i][p] = @ + delta]
      /\ lines' = [lines EXCEPT ![t] = Tail(@)]
      /\ Go(t, "line")
      /\ UNCHANGED <<tenantActive, correction, client, invoice, bookVars, receipt>>
      /\ UNCHANGED <<request, writer, sharers, committed>>

BookTotal(t) ==
  LET r == request[t]
      debt == DebtOf(invoice[r.id].doc, invoice[r.id].total)
  IN  /\ step[t] = "line" /\ lines[t] = <<>>
      /\ Book(r.id, IF r.kind = "void" THEN -debt ELSE debt)
      /\ Go(t, IF r.kind = "post" THEN "counter" ELSE "status")
      /\ UNCHANGED <<tenantActive, stockVars, client, invoice, nextNumber, receipt>>
      /\ UNCHANGED <<request, lines, writer, sharers, committed>>

\* The counter is read FOR UPDATE and advanced.
TakeNumber(t) ==
  /\ step[t] = "counter" /\ Free(t, "counter")
  /\ Lock(t, "counter")
  /\ request' = [request EXCEPT ![t].number = nextNumber]
  /\ nextNumber' = nextNumber + 1
  /\ Go(t, "status")
  /\ UNCHANGED <<tenantActive, stockVars, client, invoice, ledger, receipt>>
  /\ UNCHANGED <<lines, sharers, committed>>

Target(kind) ==
  CASE kind = "void" -> "void" [] kind = "cancel" -> "cancelled" [] OTHER -> "posted"

SetStatus(t) ==
  LET r == request[t]
  IN  /\ step[t] = "status"
      /\ invoice' = [invoice EXCEPT ![r.id] =
            IF r.kind = "post" THEN [Stamped(@, "posted") EXCEPT !.number = r.number]
                               ELSE Stamped(@, Target(r.kind))]
      /\ Go(t, "commit")
      /\ UNCHANGED <<tenantActive, stockVars, client, bookVars, receipt>>
      /\ UNCHANGED <<request, lines, writer, sharers, committed>>

Statement(t) ==
  /\ Passes(t)
  /\ \/ LockTenant(t) \/ LockInvoice(t) \/ ShareClient(t) \/ LockLine(t)
     \/ MoveLine(t) \/ BookTotal(t) \/ TakeNumber(t) \/ SetStatus(t) \/ Commit(t)

\* Mutant: a refusal returns without ending its transaction.
Refuse_LeavesOpen(t) == FALSE

\* The statement has got its row and the check of it fails: 4xx.
Refuse(t) == ~Waits(t) /\ ~Passes(t) /\ Rollback(t)

-----------------------------------------------------------------------------
(***************************************************************************)
(* The other handlers.                                                     *)
(***************************************************************************)
\* A row this step has changed is committed with it.
Changed(old, new, into) ==
  [r \in DOMAIN new |-> IF new[r] # old[r] THEN new[r] ELSE into[r]]

\* One transaction or statement of Backend beside the open ones.
Alone(A) ==
  /\ A
  /\ committed' =
       [product |-> Changed(product, product', committed.product),
        movement |-> Changed(movement, movement', committed.movement),
        invoice |-> Changed(invoice, invoice', committed.invoice),
        ledger |-> Changed(ledger, ledger', committed.ledger),
        nextNumber |-> IF nextNumber' # nextNumber THEN nextNumber'
                       ELSE committed.nextNumber]
  /\ UNCHANGED <<step, request, lines, writer, sharers>>

Unlocked(r) == writer[r] = Nobody

\* The handlers that lock the tenant row first, each in one step.
LockedNext == Unlocked("tenant") /\ Alone(Next)

\* The two that do not: they only wait for the rows they write.
UnlockedNext ==
  \/ \E c \in Clients : sharers[c] = {} /\ Alone(DeleteClient(c))
  \/ \E i \in InvoiceIds :
       Unlocked(i) /\ Alone(ReactivateCancelled(i, invoice[i].version))

TransactionsNext ==
  \/ \E t \in Txs :
       \/ \E kind \in Kinds, i \in InvoiceIds : Begin(t, kind, i)
       \/ Statement(t)
       \/ Refuse(t)
       \/ Rollback(t)
  \/ LockedNext
  \/ UnlockedNext

(***************************************************************************)
(* The server runs the statements of an open transaction, and InnoDB hands *)
(* a row lock to those that wait for it in the order they came, so none is *)
(* passed over for ever.  Nothing says that anybody sends a request.       *)
(***************************************************************************)
ServerRuns == \A t \in Txs : SF_everything(Statement(t) \/ Refuse(t))

TransactionsSpec ==
  TransactionsInit /\ [][TransactionsNext]_everything /\ ServerRuns

-----------------------------------------------------------------------------
(***************************************************************************)
(* What the locks achieve.                                                 *)
(***************************************************************************)
\* The tables as every reader without locks sees them.
View == INSTANCE Backend WITH
  product <- committed.product, movement <- committed.movement,
  invoice <- committed.invoice, ledger <- committed.ledger,
  nextNumber <- committed.nextNumber

\* "Stock changes, stock-history records, invoice status/number, and client-ledger
\* entries commit in one MySQL transaction" (docs/commerce-api.md:76): whatever
\* statements interleave and wherever a request breaks off, the committed tables
\* move only by the whole handlers of Backend.
RefinesBackend == View!Spec

\* Locking the tenant row first, two invoices over the same products never wait
\* for each other, in whatever order their lines name them.
NoWaitCycle ==
  \A t, u \in Txs : t # u =>
    ~ /\ \E r \in Wanted(t) : writer[r] = u
      /\ \E r \in Wanted(u) : writer[r] = t

\* Every transition is answered in the end: it commits, is refused or breaks off.
EveryRequestEnds ==
  \A t \in Txs : step[t] # "idle" ~> step[t] = "idle"
=============================================================================
