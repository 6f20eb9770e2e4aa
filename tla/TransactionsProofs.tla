------------------------- MODULE TransactionsProofs -------------------------
(***************************************************************************)
(* The order of the row locks: no two requests wait for each other,        *)
(* whatever the number of transactions, products and invoices; and the     *)
(* refinement: the committed tables move by whole handlers of Backend.     *)
(***************************************************************************)
EXTENDS Transactions, TypesProofs, FiniteSetTheorems, TLAPS

Steps == {"idle", "tenant", "invoice", "client", "line", "move", "counter", "status",
          "commit"}

\* What the transactions hold and want are rows of the tables.
RowsOnly ==
  /\ step \in [Txs -> Steps]
  /\ writer \in [Lockable -> Txs \cup {Nobody}]
  /\ lines \in [Txs -> Seq(Products)]
  /\ DOMAIN request = Txs
  /\ \A t \in Txs :
       /\ request[t] = [kind |-> request[t].kind, id |-> request[t].id,
                        version |-> request[t].version, number |-> request[t].number]
       /\ step[t] # "idle" => request[t].id \in InvoiceIds
       /\ step[t] = "move" => lines[t] # <<>>

\* Whoever holds a row or is past its first statement holds the tenant's row.
TenantFirst ==
  /\ RowsOnly
  /\ \A r \in Lockable : writer[r] # Nobody => writer["tenant"] = writer[r]
  /\ \A t \in Txs : step[t] \notin {"idle", "tenant"} => writer["tenant"] = t

lockVars == <<step, request, lines, writer>>

-----------------------------------------------------------------------------
\* The tenant's row is among those that are locked.
LEMMA TenantIsLockable == "tenant" \in Lockable
  BY DEF Lockable

\* An order of a set of products is a sequence of products.
LEMMA OrderType ==
  ASSUME NEW S \in SUBSET Products, NEW order \in SetToSeqs(S)
  PROVE  order \in Seq(Products)
<1>1. IsFiniteSet(S)
  BY IdsAssumption, FS_Subset
<1>2. Cardinality(S) \in Nat
  BY <1>1, FS_CardinalityType
<1>3. order \in [1 .. Cardinality(S) -> S]
  BY DEF SetToSeqs
<1>4. order \in [1 .. Cardinality(S) -> Products]
  BY <1>3
<1> QED BY <1>2, <1>4

\* The rows a transaction waits for are among those that are locked.
LEMMA WantedRows ==
  ASSUME RowsOnly, NEW t \in Txs
  PROVE  Wanted(t) \subseteq Lockable
<1>1. ASSUME step[t] = "line", lines[t] # <<>>
      PROVE  Head(lines[t]) \in Products
  BY <1>1 DEF RowsOnly
<1>2. step[t] = "invoice" => request[t].id \in InvoiceIds
  BY DEF RowsOnly
<1> QED BY <1>1, <1>2 DEF Wanted, Lockable

\* At first nothing is locked.
LEMMA InitTenantFirst == NoneOpen => TenantFirst
<1> SUFFICES ASSUME NoneOpen PROVE TenantFirst
  OBVIOUS
<1>1. RowsOnly
  BY DEF NoneOpen, RowsOnly, Steps, NoTransition
<1> QED BY <1>1 DEF NoneOpen, TenantFirst

\* The end of a transaction gives back what it holds and nothing else.
LEMMA ReleaseKeeps ==
  ASSUME TenantFirst, NEW t \in Txs, Release(t)
  PROVE  TenantFirst'
<1>1. RowsOnly'
  <2>1. step' \in [Txs -> Steps] /\ lines' \in [Txs -> Seq(Products)]
    BY DEF TenantFirst, RowsOnly, Release, Steps
  <2>2. writer' \in [Lockable -> Txs \cup {Nobody}]
    BY DEF TenantFirst, RowsOnly, Release
  <2>3. request' = [request EXCEPT ![t] = NoTransition]
    BY DEF Release
  <2>4. DOMAIN request' = Txs
    BY <2>3 DEF TenantFirst, RowsOnly
  <2>5. ASSUME NEW u \in Txs
        PROVE  /\ request'[u] = [kind |-> request'[u].kind, id |-> request'[u].id,
                     version |-> request'[u].version, number |-> request'[u].number]
               /\ step'[u] # "idle" => request'[u].id \in InvoiceIds
    <3>1. CASE u = t
      BY <2>3, <3>1 DEF TenantFirst, RowsOnly, Release, NoTransition
    <3>2. CASE u # t
      BY <2>3, <3>2 DEF TenantFirst, RowsOnly, Release
    <3> QED BY <3>1, <3>2
  <2>6. ASSUME NEW u \in Txs, step'[u] = "move"
        PROVE  lines'[u] # <<>>
    BY <2>6 DEF TenantFirst, RowsOnly, Release
  <2> QED BY <2>1, <2>2, <2>4, <2>5, <2>6 DEF RowsOnly
<1>2. ASSUME NEW r \in Lockable, writer'[r] # Nobody
      PROVE  writer'["tenant"] = writer'[r]
  <2>1. writer[r] # t /\ writer'[r] = writer[r]
    BY <1>2 DEF Release
  <2>2. writer["tenant"] = writer[r]
    BY <1>2, <2>1 DEF TenantFirst
  <2> QED BY <2>1, <2>2, TenantIsLockable DEF Release
<1>3. ASSUME NEW u \in Txs, step'[u] \notin {"idle", "tenant"}
      PROVE  writer'["tenant"] = u
  <2>1. u # t /\ step[u] = step'[u]
    BY <1>3 DEF Release, TenantFirst, RowsOnly
  <2>2. writer["tenant"] = u
    BY <1>3, <2>1 DEF TenantFirst
  <2> QED BY <2>1, <2>2, TenantIsLockable DEF Release
<1> QED BY <1>1, <1>2, <1>3 DEF TenantFirst

\* A transaction past its first statement goes on to its next one.
LEMMA GoKeeps ==
  ASSUME TenantFirst, NEW t \in Txs, step[t] \notin {"idle", "tenant"},
         NEW next \in Steps, Go(t, next),
         request' = request \/ \E n : request' = [request EXCEPT ![t].number = n],
         lines' \in [Txs -> Seq(Products)],
         \A u \in Txs \ {t} : lines'[u] = lines[u],
         next = "move" => lines'[t] # <<>>,
         UNCHANGED writer \/ \E r : Lock(t, r)
  PROVE  TenantFirst'
<1>1. writer["tenant"] = t /\ t # Nobody
  BY TransactionsAssumption DEF TenantFirst
<1>2. writer' \in [Lockable -> Txs \cup {Nobody}]
  BY DEF TenantFirst, RowsOnly, Lock
<1>3. writer'["tenant"] = t
  BY <1>1, TenantIsLockable DEF TenantFirst, RowsOnly, Lock
<1>4. ASSUME NEW r \in Lockable, writer'[r] # Nobody
      PROVE  writer'["tenant"] = writer'[r]
  <2>1. writer'[r] = t \/ writer'[r] = writer[r]
    BY DEF TenantFirst, RowsOnly, Lock
  <2> QED BY <1>1, <1>3, <1>4, <2>1 DEF TenantFirst
<1>5. ASSUME NEW u \in Txs
      PROVE  /\ request'[u] = [kind |-> request'[u].kind, id |-> request'[u].id,
                   version |-> request'[u].version, number |-> request'[u].number]
             /\ request'[u].id = request[u].id
  <2>1. CASE request' = request
    BY <2>1 DEF TenantFirst, RowsOnly
  <2>2. ASSUME NEW n, request' = [request EXCEPT ![t].number = n]
        PROVE  <1>5!2
    <3>1. request[u] = [kind |-> request[u].kind, id |-> request[u].id,
                        version |-> request[u].version, number |-> request[u].number]
      BY DEF TenantFirst, RowsOnly
    <3>2. CASE u = t
      <4>1. request'[u] = [kind |-> request[u].kind, id |-> request[u].id,
                           version |-> request[u].version, number |-> n]
        BY <2>2, <3>1, <3>2 DEF TenantFirst, RowsOnly
      <4> QED BY <4>1
    <3>3. CASE u # t
      BY <2>2, <3>1, <3>3 DEF TenantFirst, RowsOnly
    <3> QED BY <3>2, <3>3
  <2> QED BY <2>1, <2>2
<1>6. ASSUME NEW u \in Txs
      PROVE  /\ step'[u] # "idle" => step[u] # "idle"
             /\ step'[u] \notin {"idle", "tenant"} => writer["tenant"] = u
  BY <1>1 DEF TenantFirst, RowsOnly, Go
<1>7. step' \in [Txs -> Steps] /\ DOMAIN request' = Txs
  BY DEF TenantFirst, RowsOnly, Go
<1>8. ASSUME NEW u \in Txs, step'[u] = "move"
      PROVE  lines'[u] # <<>>
  BY <1>8 DEF TenantFirst, RowsOnly, Go
<1>9. RowsOnly'
  BY <1>2, <1>5, <1>6, <1>7, <1>8 DEF TenantFirst, RowsOnly
<1> QED BY <1>1, <1>3, <1>4, <1>6, <1>9 DEF TenantFirst

\* Each statement keeps the order.
LEMMA StatementKeeps ==
  ASSUME TenantFirst, NEW t \in Txs, Statement(t)
  PROVE  TenantFirst'
<1> USE DEF Steps
<1>0. lines \in [Txs -> Seq(Products)]
  BY DEF TenantFirst, RowsOnly
<1>1. CASE LockTenant(t)
  <2>1. step[t] = "tenant" /\ step' = [step EXCEPT ![t] = "invoice"]
    BY <1>1 DEF LockTenant, Go
  <2>2. writer["tenant"] \in {Nobody, t} /\ writer' = [writer EXCEPT !["tenant"] = t]
    BY <1>1 DEF LockTenant, Free, Lock
  <2>3. RowsOnly'
    BY <1>1, <2>1, <2>2 DEF TenantFirst, RowsOnly, LockTenant
  <2>4. ASSUME NEW r \in Lockable, writer'[r] # Nobody
        PROVE  writer'["tenant"] = writer'[r]
    BY <2>2, <2>4, TenantIsLockable DEF TenantFirst, RowsOnly
  <2>5. ASSUME NEW u \in Txs, step'[u] \notin {"idle", "tenant"}
        PROVE  writer'["tenant"] = u
    <3>1. CASE u = t
      BY <2>2, <3>1, TenantIsLockable DEF TenantFirst, RowsOnly
    <3>2. CASE u # t
      <4>1. writer["tenant"] = u
        BY <2>1, <2>5, <3>2 DEF TenantFirst, RowsOnly
      <4> QED BY <2>2, <3>2, <4>1, TransactionsAssumption
    <3> QED BY <3>1, <3>2
  <2> QED BY <2>3, <2>4, <2>5 DEF TenantFirst
<1>2. CASE LockInvoice(t)
  <2>1. PICK order \in SetToSeqs(OnInvoice(invoice[request[t].id])) :
          lines' = [lines EXCEPT ![t] = order]
    BY <1>2 DEF LockInvoice
  <2>2. OnInvoice(invoice[request[t].id]) \subseteq Products
    BY DEF OnInvoice
  <2>3. order \in Seq(Products)
    BY <2>2, OrderType
  <2>4. lines' \in [Txs -> Seq(Products)] /\ \A u \in Txs \ {t} : lines'[u] = lines[u]
    BY <1>0, <2>1, <2>3
  <2>5. /\ step[t] = "invoice" /\ request' = request
        /\ \E r : Lock(t, r)
        /\ \E next \in Steps \ {"move"} : Go(t, next)
    BY <1>2 DEF LockInvoice
  <2> QED BY <2>4, <2>5, GoKeeps
<1>3. CASE ShareClient(t)
  BY <1>0, <1>3, GoKeeps DEF ShareClient
<1>4. CASE LockLine(t)
  <2>1. step[t] = "line" /\ Go(t, "move") /\ Lock(t, Head(lines[t]))
        /\ request' = request /\ lines' = lines /\ lines[t] # <<>>
    BY <1>4 DEF LockLine
  <2> QED BY <1>0, <2>1, GoKeeps
<1>5. CASE MoveLine(t)
  <2>1. step[t] = "move" /\ Go(t, "line") /\ request' = request /\ writer' = writer
        /\ lines' = [lines EXCEPT ![t] = Tail(lines[t])]
    BY <1>5 DEF MoveLine
  <2>2. Tail(lines[t]) \in Seq(Products)
    BY <1>0, <2>1 DEF TenantFirst, RowsOnly
  <2>3. lines' \in [Txs -> Seq(Products)] /\ \A u \in Txs \ {t} : lines'[u] = lines[u]
    BY <1>0, <2>1, <2>2
  <2> QED BY <2>1, <2>3, GoKeeps
<1>6. CASE BookTotal(t)
  <2>1. step[t] = "line" /\ (\E next \in Steps \ {"move"} : Go(t, next)) /\ request' = request
        /\ lines' = lines /\ writer' = writer
    BY <1>6 DEF BookTotal
  <2> QED BY <1>0, <2>1, GoKeeps
<1>7. CASE TakeNumber(t)
  <2>1. step[t] = "counter" /\ Go(t, "status") /\ lines' = lines /\ Lock(t, "counter")
        /\ request' = [request EXCEPT ![t].number = nextNumber]
    BY <1>7 DEF TakeNumber
  <2> QED BY <1>0, <2>1, GoKeeps
<1>8. CASE SetStatus(t)
  <2>1. step[t] = "status" /\ Go(t, "commit") /\ request' = request
        /\ lines' = lines /\ writer' = writer
    BY <1>8 DEF SetStatus
  <2> QED BY <1>0, <2>1, GoKeeps
<1>9. CASE Commit(t)
  BY <1>9, ReleaseKeeps DEF Commit
<1> QED BY <1>1, <1>2, <1>3, <1>4, <1>5, <1>6, <1>7, <1>8, <1>9 DEF Statement

\* A new request holds nothing.
LEMMA BeginKeeps ==
  ASSUME TenantFirst, NEW t \in Txs, NEW kind \in Kinds, NEW i \in InvoiceIds,
         Begin(t, kind, i)
  PROVE  TenantFirst'
<1> DEFINE new == [kind |-> kind, id |-> i, version |-> committed.invoice[i].version,
                   number |-> 0]
<1>1. /\ request' = [request EXCEPT ![t] = new]
      /\ step' = [step EXCEPT ![t] = "tenant"]
      /\ lines' = lines /\ writer' = writer
  BY DEF Begin, Go
<1>2. ASSUME NEW u \in Txs
      PROVE  /\ request'[u] = [kind |-> request'[u].kind, id |-> request'[u].id,
                   version |-> request'[u].version, number |-> request'[u].number]
             /\ step'[u] # "idle" => request'[u].id \in InvoiceIds
  <2>1. CASE u = t
    <3>1. request'[u] = new
      BY <1>1, <2>1 DEF TenantFirst, RowsOnly
    <3> QED BY <3>1
  <2>2. CASE u # t
    BY <1>1, <2>2 DEF TenantFirst, RowsOnly
  <2> QED BY <2>1, <2>2
<1>3. RowsOnly'
  <2>1. DOMAIN request' = Txs /\ step' \in [Txs -> Steps]
    BY <1>1 DEF TenantFirst, RowsOnly, Steps
  <2> QED BY <1>1, <1>2, <2>1 DEF TenantFirst, RowsOnly
<1>4. ASSUME NEW u \in Txs, step'[u] \notin {"idle", "tenant"}
      PROVE  writer["tenant"] = u
  BY <1>1, <1>4 DEF TenantFirst, RowsOnly
<1> QED BY <1>1, <1>3, <1>4 DEF TenantFirst

\* The handlers beside the transactions hold no row after their one step.
LEMMA AloneKeeps ==
  ASSUME TenantFirst, LockedNext \/ UnlockedNext
  PROVE  TenantFirst'
<1>1. UNCHANGED lockVars
  BY DEF LockedNext, UnlockedNext, Alone, lockVars
<1> QED BY <1>1 DEF lockVars, TenantFirst, RowsOnly

\* Every step keeps the order.
LEMMA TenantFirstStep == TenantFirst /\ [TransactionsNext]_everything => TenantFirst'
<1> SUFFICES ASSUME TenantFirst, [TransactionsNext]_everything PROVE TenantFirst'
  OBVIOUS
<1>1. ASSUME NEW t \in Txs, NEW kind \in Kinds, NEW i \in InvoiceIds, Begin(t, kind, i)
      PROVE  TenantFirst'
  BY <1>1, BeginKeeps
<1>2. ASSUME NEW t \in Txs, Statement(t)
      PROVE  TenantFirst'
  BY <1>2, StatementKeeps
<1>3. ASSUME NEW t \in Txs, Refuse(t) \/ Rollback(t)
      PROVE  TenantFirst'
  BY <1>3, ReleaseKeeps DEF Refuse, Rollback
<1>4. CASE LockedNext \/ UnlockedNext
  BY <1>4, AloneKeeps
<1>5. CASE UNCHANGED everything
  BY <1>5 DEF everything, txVars, TenantFirst, RowsOnly
<1> QED BY <1>1, <1>2, <1>3, <1>4, <1>5 DEF TransactionsNext

\* The inductive invariant of the locks: every row lock is taken under the tenant's
\* (commerceTx, products.go:15).
THEOREM TenantIsLockedFirst == TransactionsSpec => []TenantFirst
<1>1. TransactionsInit => TenantFirst
  BY InitTenantFirst DEF TransactionsInit
<1> QED BY <1>1, TenantFirstStep, PTL DEF TransactionsSpec

\* Of two that hold and wait, one has the tenant's row and the other has none.
LEMMA NoCycle == TenantFirst => NoWaitCycle
<1> SUFFICES ASSUME TenantFirst, NEW t \in Txs, NEW u \in Txs, t # u,
                    NEW r \in Wanted(t), writer[r] = u,
                    NEW s \in Wanted(u), writer[s] = t
             PROVE  FALSE
  BY DEF NoWaitCycle
<1>1. r \in Lockable /\ s \in Lockable
  BY WantedRows DEF TenantFirst
<1>2. writer["tenant"] = u /\ writer["tenant"] = t
  BY <1>1, TransactionsAssumption DEF TenantFirst
<1> QED BY <1>2

\* No two requests wait for each other (commerceTx, transitionInvoice): MySQL's
\* deadlock detection has nothing to do among the handlers that lock the tenant first.
THEOREM NobodyWaitsInCircles == TransactionsSpec => []NoWaitCycle
  BY TenantIsLockedFirst, NoCycle, PTL

-----------------------------------------------------------------------------
(***************************************************************************)
(* The handlers of Backend on the committed tables: where the committed    *)
(* rows are the present ones, before and after, each action is the same    *)
(* action of View.                                                         *)
(***************************************************************************)
\* Nobody has written what is not committed.
Same ==
  /\ product = committed.product /\ movement = committed.movement
  /\ invoice = committed.invoice /\ ledger = committed.ledger
  /\ nextNumber = committed.nextNumber

\* Sums, totals and balances are the same operators.
LEMMA ViewSum ==
  ASSUME NEW f
  PROVE  View!SumFunction(f) = SumFunction(f)
  BY Zenon DEF SumFunction, SumFunctionOnSet, FoldFunctionOnSet, MapThenFoldSet,
     View!SumFunction, View!SumFunctionOnSet, View!FoldFunctionOnSet, View!MapThenFoldSet

LEMMA ViewTotal ==
  ASSUME NEW items
  PROVE  View!TotalOf(items) = TotalOf(items)
  BY ViewSum, Zenon DEF TotalOf, View!TotalOf

LEMMA ViewCredit ==
  ASSUME NEW inv, NEW cartons
  PROVE  View!CreditOf(inv, cartons) = CreditOf(inv, cartons)
  BY ViewSum, Zenon DEF CreditOf, View!CreditOf

LEMMA ViewBalance ==
  ASSUME Same, NEW c
  PROVE  View!Balance(c) = Balance(c)
<1>1. View!InvoicesOf(c) = InvoicesOf(c) /\ View!ReceiptsOf(c) = ReceiptsOf(c)
  BY DEF Same, InvoicesOf, View!InvoicesOf, ReceiptsOf, View!ReceiptsOf
<1>2. View!Opening(client[c]) = Opening(client[c])
  BY DEF Opening, View!Opening
<1>3. [i \in View!InvoicesOf(c) |-> View!InvoiceDebt(i)]
        = [i \in InvoicesOf(c) |-> InvoiceDebt(i)]
  BY <1>1 DEF Same, InvoiceDebt, View!InvoiceDebt, DebtOf, View!DebtOf
<1>4. [r \in View!ReceiptsOf(c) |-> View!Received(r)] = [r \in ReceiptsOf(c) |-> Received(r)]
  BY <1>1 DEF Received, View!Received, ReceiptEffect, View!ReceiptEffect
<1> QED BY <1>2, <1>3, <1>4, ViewSum, Zenon DEF Balance, View!Balance

\* The handlers, one by one.
LEMMA ViewUpdateTenant ==
  ASSUME Same, Same', NEW active \in TenantInputs, UpdateTenant(active)
  PROVE  View!UpdateTenant(active)
  BY DEF Same, UpdateTenant, View!UpdateTenant, stockVars, View!stockVars, bookVars,
     View!bookVars

LEMMA ViewCreateProduct ==
  ASSUME Same, Same', NEW p \in Products, NEW in \in ProductInputs, CreateProduct(p, in)
  PROVE  View!CreateProduct(p, in)
  BY DEF Same, CreateProduct, View!CreateProduct, CommerceTx, View!CommerceTx, ValidProduct,
         View!ValidProduct, Correct, View!Correct, Given, View!Given, bookVars,
         View!bookVars

LEMMA ViewUpdateProduct ==
  ASSUME Same, Same', NEW p \in Products, NEW v, NEW in \in ProductInputs, UpdateProduct(p,
         v, in)
  PROVE  View!UpdateProduct(p, v, in)
  BY DEF Same, UpdateProduct, View!UpdateProduct, CommerceTx, View!CommerceTx, ValidProduct,
         View!ValidProduct, Correct, View!Correct, Given, View!Given, bookVars,
         View!bookVars

LEMMA ViewDeleteProduct ==
  ASSUME Same, Same', NEW p \in Products, DeleteProduct(p)
  PROVE  View!DeleteProduct(p)
  BY DEF Same, DeleteProduct, View!DeleteProduct, CommerceTx, View!CommerceTx, Referenced,
         View!Referenced, NoProduct, View!NoProduct, bookVars, View!bookVars

LEMMA ViewVoidInvoice ==
  ASSUME Same, Same', NEW i \in InvoiceIds, NEW v, VoidInvoice(i, v)
  PROVE  View!VoidInvoice(i, v)
  BY DEF Same, VoidInvoice, View!VoidInvoice, Transition, View!Transition, CommerceTx,
         View!CommerceTx, Current, View!Current, MoveStock, View!MoveStock, CanMove,
         View!CanMove, Restocked, View!Restocked, Book, View!Book, StockOf, View!StockOf,
         DebtOf, View!DebtOf, Stamped, View!Stamped

LEMMA ViewCancelInvoice ==
  ASSUME Same, Same', NEW i \in InvoiceIds, NEW v, CancelInvoice(i, v)
  PROVE  View!CancelInvoice(i, v)
  BY DEF Same, CancelInvoice, View!CancelInvoice, Transition, View!Transition, CommerceTx,
         View!CommerceTx, Current, View!Current, Stamped, View!Stamped, stockVars,
         View!stockVars, bookVars, View!bookVars

LEMMA ViewReactivateCancelled ==
  ASSUME Same, Same', NEW i \in InvoiceIds, NEW v, ReactivateCancelled(i, v)
  PROVE  View!ReactivateCancelled(i, v)
  BY DEF Same, ReactivateCancelled, View!ReactivateCancelled, Current, View!Current,
     Stamped,
         View!Stamped, stockVars, View!stockVars, bookVars, View!bookVars

LEMMA ViewDeleteCancelled ==
  ASSUME Same, Same', NEW i \in InvoiceIds, DeleteCancelled(i)
  PROVE  View!DeleteCancelled(i)
  BY DEF Same, DeleteCancelled, View!DeleteCancelled, CommerceTx, View!CommerceTx,
     NoInvoice,
         View!NoInvoice, NoItem, View!NoItem, stockVars, View!stockVars, bookVars,
         View!bookVars

LEMMA ViewCreatePayment ==
  ASSUME Same, Same', NEW i \in InvoiceIds, NEW amount \in PaymentInputs, CreatePayment(i,
         amount)
  PROVE  View!CreatePayment(i, amount)
  BY DEF Same, CreatePayment, View!CreatePayment, CommerceTx, View!CommerceTx, Due,
     View!Due,
         stockVars, View!stockVars, bookVars, View!bookVars

LEMMA ViewCreateClient ==
  ASSUME Same, Same', NEW c \in Clients, NEW in \in ClientInputs, CreateClient(c, in)
  PROVE  View!CreateClient(c, in)
  BY DEF Same, CreateClient, View!CreateClient, CommerceTx, View!CommerceTx, Applied,
         View!Applied, Given, View!Given, NoAccount, View!NoAccount, stockVars,
         View!stockVars, bookVars, View!bookVars

LEMMA ViewUpdateClient ==
  ASSUME Same, Same', NEW c \in Clients, NEW in \in ClientInputs, UpdateClient(c, in)
  PROVE  View!UpdateClient(c, in)
  BY DEF Same, UpdateClient, View!UpdateClient, CommerceTx, View!CommerceTx, Applied,
         View!Applied, Given, View!Given, stockVars, View!stockVars, bookVars, View!bookVars

LEMMA ViewDeleteClientAssociations ==
  ASSUME Same, Same', NEW c \in Clients, DeleteClientAssociations(c)
  PROVE  View!DeleteClientAssociations(c)
  BY DEF Same, DeleteClientAssociations, View!DeleteClientAssociations, CommerceTx,
         View!CommerceTx, InvoicesOf, View!InvoicesOf, NoReceipt, View!NoReceipt, stockVars,
         View!stockVars

LEMMA ViewDeleteClient ==
  ASSUME Same, Same', NEW c \in Clients, DeleteClient(c)
  PROVE  View!DeleteClient(c)
  BY DEF Same, DeleteClient, View!DeleteClient, HasRows, View!HasRows, NoAccount,
     View!NoAccount,
         stockVars, View!stockVars, bookVars, View!bookVars

LEMMA ViewCreateReceipt ==
  ASSUME Same, Same', NEW r \in ReceiptIds, NEW c \in Clients, NEW in \in ReceiptInputs,
         CreateReceipt(r, c, in)
  PROVE  View!CreateReceipt(r, c, in)
  BY ViewBalance DEF Same, CreateReceipt, View!CreateReceipt, CommerceTx, View!CommerceTx,
     WithinBalance,
         View!WithinBalance, stockVars, View!stockVars, bookVars, View!bookVars

LEMMA ViewUpdateReceipt ==
  ASSUME Same, Same', NEW r \in ReceiptIds, NEW in \in ReceiptInputs, UpdateReceipt(r, in)
  PROVE  View!UpdateReceipt(r, in)
  BY ViewBalance DEF Same, UpdateReceipt, View!UpdateReceipt, CommerceTx, View!CommerceTx,
     Resulting,
         View!Resulting, Received, View!Received, ReceiptEffect, View!ReceiptEffect,
         stockVars, View!stockVars, bookVars, View!bookVars

LEMMA ViewDeleteReceipt ==
  ASSUME Same, Same', NEW r \in ReceiptIds, DeleteReceipt(r)
  PROVE  View!DeleteReceipt(r)
  BY DEF Same, DeleteReceipt, View!DeleteReceipt, CommerceTx, View!CommerceTx, NoReceipt,
         View!NoReceipt, stockVars, View!stockVars, bookVars, View!bookVars

\* What the invoice handlers are built from.
LEMMA ViewItems ==
  ASSUME Same, NEW form
  PROVE  View!ItemsOf(form) = ItemsOf(form)
  BY DEF Same, ItemsOf, View!ItemsOf

LEMMA ViewCartonPrices == View!CartonPrices = CartonPrices
  BY DEF CartonPrices, View!CartonPrices

LEMMA ViewCanInvoice ==
  ASSUME Same, NEW c, NEW form, NEW kept, CanInvoice(c, form, kept)
  PROVE  View!CanInvoice(c, form, kept)
  BY ViewTotal, ViewCartonPrices DEF Same, CanInvoice, View!CanInvoice, CommerceTx, View!CommerceTx,
     ActiveClient,
     View!ActiveClient

LEMMA ViewOneRow ==
  ASSUME NEW inv, NEW s
  PROVE  View!Stamped(inv, s) = Stamped(inv, s)
  BY Zenon DEF Stamped, View!Stamped

LEMMA ViewRewritten ==
  ASSUME Same, NEW inv, NEW c, NEW doc, NEW form
  PROVE  View!Rewritten(inv, c, doc, form) = Rewritten(inv, c, doc, form)
  BY ViewItems, ViewTotal, Zenon DEF Rewritten, View!Rewritten

LEMMA ViewMoveStock ==
  ASSUME Same, Same', NEW i, NEW delta, MoveStock(i, delta)
  PROVE  View!MoveStock(i, delta)
  BY DEF Same, MoveStock, View!MoveStock, CanMove, View!CanMove, Restocked, View!Restocked

LEMMA ViewBook ==
  ASSUME Same, Same', NEW i, NEW minor, Book(i, minor)
  PROVE  View!Book(i, minor)
  BY DEF Same, Book, View!Book

LEMMA ViewBookInvoice ==
  ASSUME Same, Same', NEW i, BookInvoice(i)
  PROVE  View!BookInvoice(i)
<1> DEFINE D == [p \in Products |-> StockOf(invoice[i].doc, invoice[i].items[p].qty)]
           M == DebtOf(invoice[i].doc, invoice[i].total)
<1>1. MoveStock(i, D) /\ Book(i, M)
  BY Zenon DEF BookInvoice
<1>2. View!MoveStock(i, D) /\ View!Book(i, M)
  <2> HIDE DEF D, M
  <2> QED BY <1>1, ViewMoveStock, ViewBook
<1>3. D = [p \in Products |-> View!StockOf(committed.invoice[i].doc,
                                           committed.invoice[i].items[p].qty)]
  BY DEF Same, StockOf, View!StockOf
<1>4. M = View!DebtOf(committed.invoice[i].doc, committed.invoice[i].total)
  BY DEF Same, DebtOf, View!DebtOf
<1>5. /\ View!ActiveClient(committed.invoice[i].client)
      /\ \A p \in View!OnInvoice(committed.invoice[i]) :
            committed.product[p].active
            /\ committed.product[p].pieces = committed.invoice[i].items[p].pieces
  BY DEF Same, BookInvoice, ActiveClient, View!ActiveClient, OnInvoice, View!OnInvoice
<1> HIDE DEF D, M
<1> QED BY <1>2, <1>3, <1>4, <1>5, Zenon DEF View!BookInvoice

LEMMA ViewCreateInvoice ==
  ASSUME Same, Same', NEW i \in InvoiceIds, NEW c \in Clients, NEW doc \in DocumentTypes,
         NEW form \in LineForms, CreateInvoice(i, c, doc, form)
  PROVE  View!CreateInvoice(i, c, doc, form)
  BY ViewCanInvoice, ViewItems, ViewTotal DEF Same, CreateInvoice, View!CreateInvoice,
     NoInvoice, View!NoInvoice, NoItem, View!NoItem,
         stockVars, View!stockVars, bookVars, View!bookVars

LEMMA ViewUpdateDraft ==
  ASSUME Same, Same', NEW i \in InvoiceIds, NEW v, NEW c \in Clients,
         NEW doc \in DocumentTypes, NEW form \in LineForms, UpdateDraft(i, v, c, doc, form)
  PROVE  View!UpdateDraft(i, v, c, doc, form)
  BY ViewCanInvoice, ViewRewritten DEF Same, UpdateDraft, View!UpdateDraft, Current,
     View!Current, stockVars, View!stockVars,
         bookVars, View!bookVars

LEMMA ViewPostInvoice ==
  ASSUME Same, Same', NEW i \in InvoiceIds, NEW v, PostInvoice(i, v)
  PROVE  View!PostInvoice(i, v)
  BY ViewBookInvoice, ViewOneRow DEF Same, PostInvoice, View!PostInvoice, Transition,
     View!Transition, CommerceTx,
         View!CommerceTx, Current, View!Current

LEMMA ViewReactivateVoid ==
  ASSUME Same, Same', NEW i \in InvoiceIds, NEW v, ReactivateVoid(i, v)
  PROVE  View!ReactivateVoid(i, v)
  BY ViewBookInvoice, ViewOneRow DEF Same, ReactivateVoid, View!ReactivateVoid, Transition,
     View!Transition, CommerceTx,
         View!CommerceTx, Current, View!Current

LEMMA ViewEditPosted ==
  ASSUME Same, Same', NEW i \in InvoiceIds, NEW v, NEW c \in Clients,
         NEW doc \in DocumentTypes,
         NEW form \in LineForms, EditPosted(i, v, c, doc, form)
  PROVE  View!EditPosted(i, v, c, doc, form)
<1> DEFINE D == [p \in Products |-> StockOf(doc, form[p].qty - invoice[i].items[p].qty)]
           M == DebtOf(doc, TotalOf(form) - invoice[i].total)
<1>1. MoveStock(i, D) /\ Book(i, M) /\ CanInvoice(c, form, OnInvoice(invoice[i]))
  BY Zenon DEF EditPosted
<1>2. View!MoveStock(i, D) /\ View!Book(i, M)
  <2> HIDE DEF D, M
  <2> QED BY <1>1, ViewMoveStock, ViewBook
<1>3. D = [p \in Products |->
             View!StockOf(doc, form[p].qty - committed.invoice[i].items[p].qty)]
  BY DEF Same, StockOf, View!StockOf
<1>4. M = View!DebtOf(doc, View!TotalOf(form) - committed.invoice[i].total)
  BY ViewTotal DEF Same, DebtOf, View!DebtOf
<1>5. View!CanInvoice(c, form, View!OnInvoice(committed.invoice[i]))
  <2>1. View!OnInvoice(committed.invoice[i]) = OnInvoice(invoice[i])
    BY DEF Same, OnInvoice, View!OnInvoice
  <2> QED BY <1>1, <2>1, ViewCanInvoice
<1>6. /\ committed.invoice[i].status = "posted"
      /\ View!Current(i, v)
      /\ View!SameAccount(committed.invoice[i], c, doc)
      /\ View!KeepsHistory(committed.invoice[i], form)
      /\ committed.invoice' =
           [committed.invoice EXCEPT ![i] = View!Rewritten(committed.invoice[i], c, doc,
           form)]
      /\ UNCHANGED <<tenantActive, client, committed.nextNumber, receipt>>
  BY ViewRewritten, ViewTotal DEF Same, EditPosted, Current, View!Current, SameAccount,
     View!SameAccount, KeepsHistory, View!KeepsHistory
<1> HIDE DEF D, M
<1> QED BY <1>2, <1>3, <1>4, <1>5, <1>6, Zenon DEF View!EditPosted

LEMMA ViewCreateReturn ==
  ASSUME Same, Same', NEW i \in InvoiceIds,
         NEW cartons \in [Products -> ReturnInputs \cup {0}],
         CreateReturn(i, cartons)
  PROVE  View!CreateReturn(i, cartons)
<1> DEFINE inv == committed.invoice[i]
           credit == CreditOf(inv, cartons)
<1>1. inv = invoice[i]
  BY DEF Same
<1>2. /\ MoveStock(i, cartons) /\ Book(i, -credit)
      /\ credit \in 1..MaxTotal
      /\ CommerceTx
      /\ inv.status = "posted" /\ inv.doc = "sale"
      /\ Returnable(inv, cartons)
      /\ invoice' = [invoice EXCEPT ![i] = Credited(inv, cartons, credit)]
      /\ UNCHANGED <<tenantActive, client, nextNumber, receipt>>
  <2> HIDE DEF inv
  <2> QED BY <1>1, Zenon DEF CreateReturn
<1>3. View!CreditOf(inv, cartons) = credit
  BY ViewCredit
<1> HIDE DEF credit
<1>4. View!MoveStock(i, cartons) /\ View!Book(i, -credit)
  BY <1>2, ViewMoveStock, ViewBook
<1>5. /\ committed.invoice' =
           [committed.invoice EXCEPT ![i] = View!Credited(inv, cartons, credit)]
      /\ UNCHANGED <<tenantActive, client, committed.nextNumber, receipt>>
      /\ View!CommerceTx /\ View!Returnable(inv, cartons)
  BY <1>2 DEF Same, Credited, View!Credited, CommerceTx, View!CommerceTx, Returnable,
     View!Returnable
<1> QED BY <1>2, <1>3, <1>4, <1>5, Zenon DEF View!CreateReturn

\* The disjuncts of Next.
LEMMA ViewProductNext ==
  ASSUME Same, Same', ProductNext
  PROVE  View!ProductNext
<1>1. PICK p \in Products :
        \/ \E in \in ProductInputs : CreateProduct(p, in)
        \/ \E in \in ProductInputs : UpdateProduct(p, product[p].version, in)
        \/ DeleteProduct(p)
  BY Zenon DEF ProductNext
<1>2. product[p] = committed.product[p]
  BY DEF Same
<1>3. ASSUME NEW in \in ProductInputs, CreateProduct(p, in)
      PROVE  View!ProductNext
  BY <1>3, ViewCreateProduct, Zenon DEF View!ProductNext
<1>4. ASSUME NEW in \in ProductInputs, UpdateProduct(p, product[p].version, in)
      PROVE  View!ProductNext
  <2>1. View!UpdateProduct(p, committed.product[p].version, in)
    BY <1>2, <1>4, ViewUpdateProduct, Zenon
  <2> QED BY <2>1, Zenon DEF View!ProductNext
<1>5. CASE DeleteProduct(p)
  BY <1>5, ViewDeleteProduct, Zenon DEF View!ProductNext
<1> QED BY <1>1, <1>3, <1>4, <1>5

LEMMA ViewInvoiceNext ==
  ASSUME Same, Same', InvoiceNext
  PROVE  View!InvoiceNext
<1>0. View!LineForms = LineForms
  BY Zenon DEF LineForms, View!LineForms, NoLine, View!NoLine
<1>1. PICK i \in InvoiceIds :
        \/ \E c \in Clients, doc \in DocumentTypes, form \in LineForms :
             \/ CreateInvoice(i, c, doc, form)
             \/ UpdateDraft(i, invoice[i].version, c, doc, form)
             \/ EditPosted(i, invoice[i].version, c, doc, form)
        \/ PostInvoice(i, invoice[i].version)
        \/ VoidInvoice(i, invoice[i].version)
        \/ ReactivateVoid(i, invoice[i].version)
        \/ CancelInvoice(i, invoice[i].version)
        \/ ReactivateCancelled(i, invoice[i].version)
        \/ DeleteCancelled(i)
        \/ \E cartons \in [Products -> ReturnInputs \cup {0}] : CreateReturn(i, cartons)
        \/ \E amount \in PaymentInputs : CreatePayment(i, amount)
  BY Zenon DEF InvoiceNext
<1>2. invoice[i].version = committed.invoice[i].version
  BY DEF Same
<1> DEFINE v == committed.invoice[i].version
<1>3. ASSUME NEW c \in Clients, NEW doc \in DocumentTypes, NEW form \in LineForms,
             \/ CreateInvoice(i, c, doc, form)
             \/ UpdateDraft(i, invoice[i].version, c, doc, form)
             \/ EditPosted(i, invoice[i].version, c, doc, form)
      PROVE  View!InvoiceNext
  <2>1. \/ View!CreateInvoice(i, c, doc, form)
        \/ View!UpdateDraft(i, v, c, doc, form)
        \/ View!EditPosted(i, v, c, doc, form)
    BY <1>2, <1>3, ViewCreateInvoice, ViewUpdateDraft, ViewEditPosted, Zenon
  <2> QED BY <1>0, <2>1, Zenon DEF View!InvoiceNext
<1>4. ASSUME \/ PostInvoice(i, invoice[i].version)
             \/ VoidInvoice(i, invoice[i].version)
             \/ ReactivateVoid(i, invoice[i].version)
             \/ CancelInvoice(i, invoice[i].version)
             \/ ReactivateCancelled(i, invoice[i].version)
             \/ DeleteCancelled(i)
      PROVE  View!InvoiceNext
  <2>1. \/ View!PostInvoice(i, v) \/ View!VoidInvoice(i, v) \/ View!ReactivateVoid(i, v)
        \/ View!CancelInvoice(i, v) \/ View!ReactivateCancelled(i, v)
        \/ View!DeleteCancelled(i)
    BY <1>2, <1>4, ViewPostInvoice, ViewVoidInvoice, ViewReactivateVoid, ViewCancelInvoice,
       ViewReactivateCancelled, ViewDeleteCancelled, Zenon
  <2> QED BY <2>1, Zenon DEF View!InvoiceNext
<1>5. ASSUME NEW cartons \in [Products -> ReturnInputs \cup {0}], CreateReturn(i, cartons)
      PROVE  View!InvoiceNext
  BY <1>5, ViewCreateReturn, Zenon DEF View!InvoiceNext
<1>6. ASSUME NEW amount \in PaymentInputs, CreatePayment(i, amount)
      PROVE  View!InvoiceNext
  BY <1>6, ViewCreatePayment, Zenon DEF View!InvoiceNext
<1> QED BY <1>1, <1>3, <1>4, <1>5, <1>6

LEMMA ViewClientNext ==
  ASSUME Same, Same', ClientNext
  PROVE  View!ClientNext
<1>1. ASSUME NEW c \in Clients, NEW in \in ClientInputs,
             CreateClient(c, in) \/ UpdateClient(c, in)
      PROVE  View!ClientNext
  BY <1>1, ViewCreateClient, ViewUpdateClient, Zenon DEF View!ClientNext
<1>2. ASSUME NEW c \in Clients, DeleteClientAssociations(c) \/ DeleteClient(c)
      PROVE  View!ClientNext
  BY <1>2, ViewDeleteClientAssociations, ViewDeleteClient, Zenon DEF View!ClientNext
<1>3. ASSUME NEW c \in Clients, NEW r \in ReceiptIds, NEW in \in ReceiptInputs,
             CreateReceipt(r, c, in)
      PROVE  View!ClientNext
  BY <1>3, ViewCreateReceipt, Zenon DEF View!ClientNext
<1>4. ASSUME NEW r \in ReceiptIds, NEW in \in ReceiptInputs, UpdateReceipt(r, in)
      PROVE  View!ClientNext
  BY <1>4, ViewUpdateReceipt, Zenon DEF View!ClientNext
<1>5. ASSUME NEW r \in ReceiptIds, DeleteReceipt(r)
      PROVE  View!ClientNext
  BY <1>5, ViewDeleteReceipt, Zenon DEF View!ClientNext
<1> QED BY <1>1, <1>2, <1>3, <1>4, <1>5, Zenon DEF ClientNext

\* Where the committed rows are the present ones, before and after, a step of Backend
\* is one of the committed rows.
LEMMA ViewNext ==
  ASSUME Same, Same', Next
  PROVE  View!Next
<1>1. TenantNext => View!TenantNext
  BY ViewUpdateTenant, Zenon DEF TenantNext, View!TenantNext
<1> QED BY <1>1, ViewProductNext, ViewInvoiceNext, ViewClientNext, Zenon DEF Next, View!Next

-----------------------------------------------------------------------------
(***************************************************************************)
(* The committed tables.  Whoever is past its first statement holds the    *)
(* tenant, so it alone has written: what it has written so far, as a       *)
(* function of the committed rows and of where it stands.                  *)
(***************************************************************************)
\* The transactions that have locked the tenant.
Past(t) == step[t] \notin {"idle", "tenant"}

\* The committed row of the invoice it is about.
Doc(t) == committed.invoice[request[t].id]

\* The products t has moved, and those whose checks it has passed.
Done(t) == IF step[t] = "invoice" THEN {} ELSE OnInvoice(Doc(t)) \ Range(lines[t])

Tested(t) == Done(t) \cup (IF step[t] = "move" THEN {Head(lines[t])} ELSE {})

\* What its kind does to the stock of a product.
Change(t, p) ==
  LET whole == StockOf(Doc(t).doc, Doc(t).items[p].qty)
  IN  IF request[t].kind = "void" THEN -whole ELSE whole

\* What it books on the account.
Debt(t) ==
  LET whole == DebtOf(Doc(t).doc, Doc(t).total)
  IN  IF request[t].kind = "void" THEN -whole ELSE whole

\* The document it leaves.
Final(t) ==
  IF request[t].kind = "post"
    THEN [Stamped(Doc(t), "posted") EXCEPT !.number = committed.nextNumber]
    ELSE Stamped(Doc(t), Target(request[t].kind))

\* Whether it has written the ledger row, and taken the number.
Booked(t) == step[t] \in {"counter", "status", "commit"} /\ request[t].kind # "cancel"

HasNumber(t) == step[t] \in {"status", "commit"} /\ request[t].kind = "post"

\* A product and the movements of the invoice as it has written them.
RowNow(t, p) ==
  IF p \in Done(t) THEN Restocked(committed.product[p], Change(t, p))
                    ELSE committed.product[p]

SumNow(t, p) ==
  committed.movement[request[t].id][p] + (IF p \in Done(t) THEN Change(t, p) ELSE 0)

Written(t) ==
  LET i == request[t].id
  IN  /\ product = [p \in Products |-> RowNow(t, p)]
      /\ movement = [committed.movement EXCEPT ![i] = [p \in Products |-> SumNow(t, p)]]
      /\ ledger = [committed.ledger EXCEPT ![i] = @ + (IF Booked(t) THEN Debt(t) ELSE 0)]
      /\ nextNumber = committed.nextNumber + (IF HasNumber(t) THEN 1 ELSE 0)
      /\ invoice = [committed.invoice EXCEPT ![i] =
                      IF step[t] = "commit" THEN Final(t) ELSE @]

\* What t has written is locked by it.
Covered(t) ==
  /\ step[t] # "invoice" => writer[request[t].id] = t
  /\ \A p \in Tested(t) : writer[p] = t
  /\ HasNumber(t) => writer["counter"] = t

\* What t has checked is still so.
Checked(t) ==
  /\ tenantActive
  /\ step[t] # "invoice" =>
       Doc(t).status = From(request[t].kind) /\ Doc(t).version < MaxVersion
  /\ step[t] \notin {"invoice", "client"} /\ request[t].kind \in {"post", "reactivate"} =>
       ActiveClient(Doc(t).client) /\ t \in sharers[Doc(t).client]
  /\ \A p \in Tested(t) :
       /\ CanMove(committed.product[p], Change(t, p))
       /\ request[t].kind # "void" =>
            /\ committed.product[p].active
            /\ committed.product[p].pieces = Doc(t).items[p].pieces
  /\ Booked(t) => Doc(t).client # NoClient
  /\ HasNumber(t) => request[t].number = committed.nextNumber

\* The lines still to move, each once, and the statements each kind has.
Ordered(t) ==
  /\ step[t] # "invoice" =>
       IsInjective(lines[t]) /\ Range(lines[t]) \subseteq OnInvoice(Doc(t))
  /\ request[t].kind = "cancel" => step[t] \in {"invoice", "status", "commit"}
  /\ step[t] \in {"client", "counter"} => request[t].kind # "void"
  /\ step[t] = "counter" => request[t].kind = "post"
  /\ step[t] = "client" \/ (step[t] # "invoice" /\ request[t].kind = "cancel") =>
       OnInvoice(Doc(t)) \subseteq Range(lines[t])
  /\ Booked(t) => lines[t] = <<>>

\* A transaction and its writes are in order.
Stands(t) == Written(t) /\ Covered(t) /\ Checked(t) /\ Ordered(t)

\* The committed rows are rows of the tables.
CommittedTyped ==
  /\ committed.product \in [Products -> Product]
  /\ committed.movement \in [InvoiceIds -> [Products -> Int]]
  /\ committed.invoice \in [InvoiceIds -> Invoice]
  /\ committed.nextNumber \in Nat \ {0}
  /\ committed.ledger \in [InvoiceIds -> Int]

\* The inductive invariant.
CommitsFit ==
  /\ TenantFirst
  /\ TypeOK /\ CommittedTyped
  /\ DOMAIN sharers = Clients
  /\ \A t \in Txs : step[t] # "idle" => request[t].kind \in Kinds
  /\ \A r \in Lockable : writer[r] # Nobody => Past(writer[r])
  /\ writer["tenant"] = Nobody => Same
  /\ \A t \in Txs : Past(t) => Stands(t)

-----------------------------------------------------------------------------
\* An order of a set of products names each of them once.
LEMMA OrderNamesAll ==
  ASSUME NEW S \in SUBSET Products, NEW order \in SetToSeqs(S)
  PROVE  IsInjective(order) /\ Range(order) = S
<1> DEFINE n == Cardinality(S)
<1>1. IsFiniteSet(S) /\ n \in Nat
  BY IdsAssumption, FS_Subset, FS_CardinalityType
<1>2. /\ order \in [1..n -> S]
      /\ \A i, j \in 1..n : i # j => order[i] # order[j]
  BY DEF SetToSeqs
<1> HIDE DEF n
<1>3. IsInjective(order)
  BY <1>2 DEF IsInjective
<1>4. Range(order) \in SUBSET S
  BY <1>2 DEF Range
<1>5. order \in Bijection(1..n, Range(order))
  BY <1>2, <1>3 DEF Bijection, Injection, Surjection, Range
<1>6. ExistsBijection(1..n, Range(order))
  BY <1>5 DEF ExistsBijection
<1>7. Cardinality(Range(order)) = n
  BY <1>1, <1>6, FS_CountingElements
<1>8. Range(order) = S
  BY <1>1, <1>4, <1>7, FS_Subset DEF n
<1> QED BY <1>3, <1>8

\* The first line of those still to move leaves the others.
LEMMA LessOne ==
  ASSUME NEW s \in Seq(Products), s # <<>>, IsInjective(s)
  PROVE  /\ Head(s) \in Range(s)
         /\ IsInjective(Tail(s))
         /\ Range(Tail(s)) = Range(s) \ {Head(s)}
<1> DEFINE n == Len(s)
<1>1. n \in Nat \ {0} /\ DOMAIN s = 1..n /\ Head(s) = s[1]
  OBVIOUS
<1>2. /\ DOMAIN Tail(s) = 1..(n - 1)
      /\ \A k \in 1..(n - 1) : Tail(s)[k] = s[k + 1]
  OBVIOUS
<1> HIDE DEF n
<1>3. Head(s) \in Range(s)
  BY <1>1 DEF Range
<1>4. ASSUME NEW a \in DOMAIN Tail(s), NEW b \in DOMAIN Tail(s), Tail(s)[a] = Tail(s)[b]
      PROVE  a = b
  <2>1. a + 1 \in DOMAIN s /\ b + 1 \in DOMAIN s /\ s[a + 1] = s[b + 1]
    BY <1>1, <1>2, <1>4
  <2>2. a + 1 = b + 1
    BY <2>1 DEF IsInjective
  <2> QED BY <1>1, <1>2, <2>2
<1>5. ASSUME NEW x \in Range(Tail(s)) PROVE x \in Range(s) \ {Head(s)}
  <2>1. PICK k \in 1..(n - 1) : x = s[k + 1]
    BY <1>2, <1>5 DEF Range
  <2>2. k + 1 \in DOMAIN s /\ 1 \in DOMAIN s /\ k + 1 # 1
    BY <1>1, <2>1
  <2>3. s[k + 1] # s[1]
    BY <2>2 DEF IsInjective
  <2> QED BY <1>1, <2>1, <2>2, <2>3 DEF Range
<1>6. ASSUME NEW x \in Range(s), x # Head(s) PROVE x \in Range(Tail(s))
  <2>1. PICK k \in 1..n : x = s[k]
    BY <1>1, <1>6 DEF Range
  <2>2. k # 1 /\ k - 1 \in 1..(n - 1) /\ (k - 1) + 1 = k
    BY <1>1, <1>6, <2>1
  <2>3. Tail(s)[k - 1] = x /\ k - 1 \in DOMAIN Tail(s)
    BY <1>2, <2>1, <2>2
  <2> QED BY <2>3 DEF Range
<1> QED BY <1>3, <1>4, <1>5, <1>6 DEF IsInjective

\* The figures of a whole invoice are integers.
LEMMA WholeType ==
  ASSUME NEW inv \in Invoice
  PROVE  /\ \A p \in Products :
              inv.items[p].qty \in Nat /\ StockOf(inv.doc, inv.items[p].qty) \in Int
         /\ DebtOf(inv.doc, inv.total) \in Int
  BY LimitsAssumption DEF Invoice, Item, StockOf, DebtOf

\* What holds of every transaction past its first statement.
LEMMA PastFacts ==
  ASSUME CommitsFit, NEW t \in Txs, Past(t)
  PROVE  /\ request[t].id \in InvoiceIds /\ request[t].kind \in Kinds
         /\ Doc(t) \in Invoice /\ OnInvoice(Doc(t)) \subseteq Products
         /\ \A p \in Products : Change(t, p) \in Int
         /\ Debt(t) \in Int
         /\ writer["tenant"] = t /\ t # Nobody
         /\ lines[t] \in Seq(Products)
         /\ step[t] \in Steps
         /\ Stands(t)
<1>1. request[t].id \in InvoiceIds /\ request[t].kind \in Kinds
  BY DEF CommitsFit, TenantFirst, RowsOnly, Past
<1>2. Doc(t) \in Invoice
  BY <1>1 DEF CommitsFit, CommittedTyped, Doc
<1>3. /\ \A p \in Products : Change(t, p) \in Int
      /\ Debt(t) \in Int
  BY <1>2, WholeType DEF Change, Debt
<1>4. writer["tenant"] = t /\ t # Nobody /\ lines[t] \in Seq(Products) /\ step[t] \in Steps
  BY TransactionsAssumption DEF CommitsFit, TenantFirst, RowsOnly, Past
<1> QED BY <1>1, <1>2, <1>3, <1>4 DEF CommitsFit, OnInvoice

\* No two are past it.
LEMMA OnePast ==
  ASSUME CommitsFit, NEW t \in Txs, Past(t), NEW u \in Txs, Past(u)
  PROVE  t = u
  BY PastFacts

\* Where the tenant is free, none is.
LEMMA NonePast ==
  ASSUME CommitsFit, writer["tenant"] = Nobody, NEW t \in Txs
  PROVE  ~Past(t)
  BY PastFacts

\* The differences of a transaction whose document stands.
LEMMA SameFigures ==
  ASSUME NEW t, Doc(t)' = Doc(t), request'[t].kind = request[t].kind,
         committed'.nextNumber = committed.nextNumber
  PROVE  /\ \A p : Change(t, p)' = Change(t, p)
         /\ Debt(t)' = Debt(t)
         /\ Final(t)' = Final(t)
<1>1. \A p : Change(t, p)' = Change(t, p)
  BY DEF Change
<1>2. Debt(t)' = Debt(t)
  BY DEF Debt
<1>3. Final(t)' = Final(t)
  BY DEF Final
<1> QED BY <1>1, <1>2, <1>3

\* The same, where nothing is committed.
LEMMA SameDoc ==
  ASSUME NEW t, committed' = committed, request'[t].id = request[t].id,
         request'[t].kind = request[t].kind
  PROVE  /\ Doc(t)' = Doc(t)
         /\ \A p : Change(t, p)' = Change(t, p)
         /\ Debt(t)' = Debt(t)
         /\ Final(t)' = Final(t)
<1>1. Doc(t)' = Doc(t)
  BY DEF Doc
<1> QED BY <1>1, SameFigures

-----------------------------------------------------------------------------
\* What stands goes on standing while its document, its rows, its request and its locks do.
LEMMA StandsBeside ==
  ASSUME NEW u, Stands(u),
         step'[u] = step[u], request'[u] = request[u], lines'[u] = lines[u],
         tenantActive' = tenantActive,
         UNCHANGED <<product, movement, ledger, nextNumber>>,
         committed'.product = committed.product, committed'.movement = committed.movement,
         committed'.ledger = committed.ledger, committed'.nextNumber = committed.nextNumber,
         Doc(u)' = Doc(u),
         invoice' = [committed'.invoice EXCEPT ![request[u].id] =
                       IF step[u] = "commit" THEN Final(u) ELSE @],
         \A r : writer[r] = u => writer'[r] = u,
         \A c \in Clients : u \in sharers[c] => u \in sharers'[c] /\ client'[c] = client[c]
  PROVE  Stands(u)'
<1>1. /\ Debt(u)' = Debt(u) /\ Final(u)' = Final(u)
      /\ \A p : Change(u, p)' = Change(u, p)
  BY SameFigures
<1>2. Done(u)' = Done(u)
  BY DEF Done, OnInvoice
<1>3. Tested(u)' = Tested(u)
  BY <1>2 DEF Tested
<1>4. Booked(u)' = Booked(u) /\ HasNumber(u)' = HasNumber(u)
  BY DEF Booked, HasNumber
<1>5. \A p : RowNow(u, p)' = RowNow(u, p) /\ SumNow(u, p)' = SumNow(u, p)
  BY <1>1, <1>2 DEF RowNow, SumNow, Restocked
<1>6. Written(u)'
  BY <1>1, <1>4, <1>5 DEF Stands, Written
<1>7. Covered(u)'
  BY <1>3, <1>4 DEF Stands, Covered
<1>8. Checked(u)'
  BY <1>1, <1>3, <1>4 DEF Stands, Checked, ActiveClient, CanMove
<1>9. Ordered(u)'
  BY <1>4 DEF Stands, Ordered, OnInvoice
<1> QED BY <1>6, <1>7, <1>8, <1>9 DEF Stands

\* The same, where nothing is committed and no table is written.
LEMMA StandsStill ==
  ASSUME NEW u, Stands(u),
         step'[u] = step[u], request'[u] = request[u], lines'[u] = lines[u],
         committed' = committed, tenantActive' = tenantActive,
         UNCHANGED <<product, movement, ledger, nextNumber, invoice>>,
         \A r : writer[r] = u => writer'[r] = u,
         \A c \in Clients : u \in sharers[c] => u \in sharers'[c] /\ client'[c] = client[c]
  PROVE  Stands(u)'
<1>1. Doc(u)' = Doc(u)
  BY DEF Doc
<1>2. invoice = [committed.invoice EXCEPT ![request[u].id] =
                   IF step[u] = "commit" THEN Final(u) ELSE @]
  BY Zenon DEF Stands, Written
<1>3. invoice' = [committed'.invoice EXCEPT ![request[u].id] =
                    IF step[u] = "commit" THEN Final(u) ELSE @]
  BY <1>2
<1> QED BY <1>1, <1>3, StandsBeside

\* A statement of the transaction that holds the tenant: what is left to show.
LEMMA OneWrites ==
  ASSUME CommitsFit, NEW t \in Txs, Past(t),
         TenantFirst', TypeOK', committed' = committed, DOMAIN sharers' = Clients,
         \A r \in Lockable : writer'[r] = writer[r] \/ writer'[r] = t,
         \A u \in Txs \ {t} : step'[u] = step[u] /\ request'[u] = request[u],
         Past(t)', request'[t].kind = request[t].kind,
         Stands(t)'
  PROVE  CommitsFit'
<1>1. CommittedTyped'
  BY DEF CommitsFit, CommittedTyped
<1>2. t # Nobody /\ writer["tenant"] = t /\ writer'["tenant"] = t
  BY PastFacts, TenantIsLockable
<1>3. ASSUME NEW u \in Txs, Past(u)' PROVE u = t
  BY <1>2, <1>3 DEF Past, TenantFirst
<1>5. ASSUME NEW r \in Lockable, writer'[r] # Nobody PROVE writer'[r] = t
  BY <1>2, <1>5 DEF CommitsFit, TenantFirst
<1>6. \A r \in Lockable : writer'[r] # Nobody => Past(writer[r])'
  BY <1>5 DEF Past
<1>7. \A u \in Txs : step'[u] # "idle" => request'[u].kind \in Kinds
  BY PastFacts DEF CommitsFit
<1> QED BY <1>1, <1>2, <1>3, <1>6, <1>7 DEF CommitsFit
-----------------------------------------------------------------------------
\* While nothing more is written, what was written stays so.
LEMMA WrittenStays ==
  ASSUME NEW t, Written(t), committed' = committed,
         request'[t].id = request[t].id, request'[t].kind = request[t].kind,
         UNCHANGED <<product, movement, ledger, nextNumber, invoice>>,
         Done(t)' = Done(t), Booked(t)' = Booked(t), HasNumber(t)' = HasNumber(t),
         step[t] # "commit", step'[t] # "commit"
  PROVE  Written(t)'
<1>1. Debt(t)' = Debt(t) /\ \A p : Change(t, p)' = Change(t, p)
  BY SameDoc
<1>2. \A p : RowNow(t, p)' = RowNow(t, p) /\ SumNow(t, p)' = SumNow(t, p)
  BY <1>1 DEF RowNow, SumNow, Restocked
<1> QED BY <1>1, <1>2 DEF Written

\* The row of the document until it is stamped, and what the statements take from it.
LEMMA Unstamped ==
  ASSUME CommitsFit, NEW t \in Txs, Past(t), step[t] # "commit"
  PROVE  /\ invoice = committed.invoice
         /\ \A p : Delta(request[t], p) = Change(t, p)
<1>1. Stands(t)
  BY PastFacts
<1>2. invoice = [committed.invoice EXCEPT ![request[t].id] = committed.invoice[request[t].id]]
  BY <1>1, Zenon DEF Stands, Written
<1>3. committed.invoice \in [InvoiceIds -> Invoice]
  BY DEF CommitsFit, CommittedTyped
<1>4. invoice = committed.invoice
  BY <1>2, <1>3
<1> QED BY <1>4 DEF Delta, Change, Doc

\* At its first row, the invoice, a transaction has written nothing.
LEMMA NothingYet ==
  ASSUME CommittedTyped', Same', NEW t, step'[t] = "invoice", request'[t].id \in InvoiceIds,
         tenantActive'
  PROVE  Stands(t)'
<1>1. Done(t)' = {} /\ Tested(t)' = {} /\ ~Booked(t)' /\ ~HasNumber(t)'
  BY DEF Done, Tested, Booked, HasNumber
<1>2. \A p \in Products : RowNow(t, p)' = committed'.product[p]
  BY <1>1 DEF RowNow
<1>3. \A p \in Products : SumNow(t, p)' = committed'.movement[request'[t].id][p]
  BY <1>1 DEF SumNow, CommittedTyped
<1>4. product' = [p \in Products |-> RowNow(t, p)']
  BY <1>2 DEF Same, CommittedTyped
<1>5. movement' = [committed'.movement EXCEPT ![request'[t].id] =
                     [p \in Products |-> SumNow(t, p)']]
  BY <1>3 DEF Same, CommittedTyped
<1>6. /\ ledger' = [committed'.ledger EXCEPT ![request'[t].id] = @ + 0]
      /\ nextNumber' = committed'.nextNumber + 0
      /\ invoice' = [committed'.invoice EXCEPT ![request'[t].id] = @]
  BY DEF Same, CommittedTyped
<1>7. Written(t)'
  BY <1>1, <1>4, <1>5, <1>6 DEF Written
<1>8. Covered(t)' /\ Checked(t)' /\ Ordered(t)'
  BY <1>1 DEF Covered, Checked, Ordered
<1> QED BY <1>7, <1>8 DEF Stands

\* commerceTx: the tenant's row is locked, nothing is written yet.
LEMMA LockTenantFits ==
  ASSUME CommitsFit, TenantFirst', NEW t \in Txs, LockTenant(t), tenantActive
  PROVE  CommitsFit'
<1>1. /\ step[t] = "tenant" /\ step' = [step EXCEPT ![t] = "invoice"]
      /\ writer["tenant"] \in {Nobody, t}
      /\ writer' = [writer EXCEPT !["tenant"] = t]
      /\ UNCHANGED <<vars, request, lines, sharers, committed>>
  BY DEF LockTenant, Go, Free, Lock
<1>2. writer["tenant"] = Nobody
  BY <1>1, TenantIsLockable, TransactionsAssumption DEF CommitsFit, Past
<1>3. Same /\ Same'
  BY <1>1, <1>2 DEF CommitsFit, Same, vars, stockVars, bookVars
<1>4. TypeOK' /\ CommittedTyped'
  BY <1>1 DEF CommitsFit, TypeOK, CommittedTyped, vars, stockVars, bookVars
<1>5. \A u \in Txs : Past(u)' <=> u = t
  <2>1. \A u \in Txs : ~Past(u)
    BY <1>2, NonePast
  <2> QED BY <1>1, <2>1 DEF Past, CommitsFit, TenantFirst, RowsOnly
<1>6. \A r \in Lockable : writer'[r] # Nobody => Past(writer[r])'
  <2>1. \A r \in Lockable : writer[r] = Nobody
    BY <1>2 DEF CommitsFit, TenantFirst
  <2> QED BY <1>1, <1>5, <2>1 DEF CommitsFit, TenantFirst, RowsOnly
<1>7. Stands(t)'
  <2>1. step'[t] = "invoice" /\ request'[t].id \in InvoiceIds
    BY <1>1 DEF CommitsFit, TenantFirst, RowsOnly
  <2>2. tenantActive'
    BY <1>1 DEF vars
  <2> QED BY <1>3, <1>4, <2>1, <2>2, NothingYet
<1>8. \A u \in Txs : step'[u] # "idle" => request'[u].kind \in Kinds
  BY <1>1 DEF CommitsFit
<1>9. DOMAIN sharers' = Clients /\ (\A u \in Txs : Past(u)' => Stands(u)')
  BY <1>1, <1>5, <1>7 DEF CommitsFit
<1> QED BY <1>3, <1>4, <1>6, <1>8, <1>9 DEF CommitsFit

\* The invoice is locked and found in the status the transition starts from.
LEMMA LockInvoiceFits ==
  ASSUME CommitsFit, TenantFirst', NEW t \in Txs, LockInvoice(t), Allowed(request[t])
  PROVE  CommitsFit'
<1> DEFINE i == request[t].id
           next == CASE request[t].kind = "cancel" -> "status"
                     [] request[t].kind = "void" -> "line" [] OTHER -> "client"
<1>1. PICK order \in SetToSeqs(OnInvoice(invoice[i])) :
        lines' = [lines EXCEPT ![t] = order]
  BY DEF LockInvoice
<1>2. /\ step[t] = "invoice" /\ step' = [step EXCEPT ![t] = next]
      /\ writer' = [writer EXCEPT ![i] = t]
      /\ UNCHANGED <<vars, request, sharers, committed>>
  BY DEF LockInvoice, Go, Lock
<1>3. Past(t)
  BY <1>2 DEF Past
<1>4. invoice = committed.invoice /\ i \in InvoiceIds /\ request[t].kind \in Kinds
      /\ OnInvoice(Doc(t)) \subseteq Products /\ Stands(t)
  BY <1>2, <1>3, Unstamped, PastFacts
<1>5. step'[t] = next /\ lines'[t] = order
  BY <1>1, <1>2 DEF CommitsFit, TenantFirst, RowsOnly
<1>6. Doc(t)' = Doc(t) /\ Doc(t) = invoice[i] /\ request'[t] = request[t]
  BY <1>2, <1>4 DEF Doc
<1>7. IsInjective(order) /\ Range(order) = OnInvoice(Doc(t))
  BY <1>4, <1>6, OrderNamesAll
<1>8. /\ next # "invoice" /\ next # "move" /\ next # "commit" /\ next # "counter"
      /\ next = "status" <=> request[t].kind = "cancel"
      /\ next = "line" <=> request[t].kind = "void"
      /\ next \in {"status", "line", "client"}
  BY DEF Kinds
<1> HIDE DEF next
<1>9. Done(t)' = {} /\ Tested(t)' = {} /\ ~Booked(t)' /\ ~HasNumber(t)'
  <2>1. Done(t)' = {}
    BY <1>5, <1>6, <1>7, <1>8 DEF Done
  <2> QED BY <1>5, <1>6, <1>8, <2>1 DEF Tested, Booked, HasNumber
<1>10. Done(t) = {} /\ ~Booked(t) /\ ~HasNumber(t)
  BY <1>2 DEF Done, Booked, HasNumber
<1>11. Written(t)'
  <2>1. UNCHANGED <<product, movement, ledger, nextNumber, invoice>>
    BY <1>2 DEF vars, stockVars, bookVars
  <2>2. Done(t)' = Done(t) /\ Booked(t)' = Booked(t) /\ HasNumber(t)' = HasNumber(t)
    <3>1. Booked(t)' = Booked(t) /\ HasNumber(t)' = HasNumber(t)
      BY <1>9, <1>10 DEF Booked, HasNumber
    <3> QED BY <1>9, <1>10, <3>1
  <2>3. Written(t) /\ committed' = committed /\ step[t] # "commit" /\ step'[t] # "commit"
    BY <1>2, <1>4, <1>5, <1>8 DEF Stands
  <2> QED BY <1>6, <2>1, <2>2, <2>3, WrittenStays
<1>12. Covered(t)'
  <2>1. i \in Lockable /\ DOMAIN writer = Lockable
    BY <1>4 DEF Lockable, CommitsFit, TenantFirst, RowsOnly
  <2> QED BY <1>2, <1>6, <1>9, <2>1 DEF Covered
<1>13. Checked(t)'
  <2>1. Doc(t).status = From(request[t].kind) /\ Doc(t).version < MaxVersion
    BY <1>6 DEF Allowed, Current
  <2>2. tenantActive' = tenantActive /\ tenantActive
    BY <1>2, <1>4 DEF vars, Stands, Checked
  <2> QED BY <1>5, <1>6, <1>8, <1>9, <2>1, <2>2 DEF Checked
<1>14. Ordered(t)'
  <2>1. OnInvoice(Doc(t))' = OnInvoice(Doc(t))
    BY <1>6 DEF OnInvoice
  <2> QED BY <1>5, <1>6, <1>7, <1>8, <1>9, <2>1 DEF Ordered
<1>15. /\ TypeOK' /\ committed' = committed /\ DOMAIN sharers' = Clients
       /\ \A r \in Lockable : writer'[r] = writer[r] \/ writer'[r] = t
       /\ \A u \in Txs \ {t} : step'[u] = step[u] /\ request'[u] = request[u]
       /\ request'[t].kind = request[t].kind
  <2>1. TypeOK'
    BY <1>2 DEF CommitsFit, TypeOK, vars, stockVars, bookVars
  <2> QED BY <1>2, <2>1 DEF CommitsFit, TenantFirst, RowsOnly
<1>16. Past(t)'
  BY <1>5, <1>8 DEF Past
<1> QED BY <1>3, <1>11, <1>12, <1>13, <1>14, <1>15, <1>16, OneWrites DEF Stands
\* The client is found active and is held in share mode.
LEMMA ShareClientFits ==
  ASSUME CommitsFit, TenantFirst', NEW t \in Txs, ShareClient(t),
         ActiveClient(invoice[request[t].id].client)
  PROVE  CommitsFit'
<1> DEFINE c == invoice[request[t].id].client
<1>1. /\ step[t] = "client" /\ step' = [step EXCEPT ![t] = "line"]
      /\ sharers' = [sharers EXCEPT ![c] = @ \cup {t}]
      /\ UNCHANGED <<vars, request, lines, writer, committed>>
  BY DEF ShareClient, Go
<1>2. Past(t)
  BY <1>1 DEF Past
<1>3. invoice = committed.invoice /\ Stands(t) /\ request[t].kind \in Kinds
  BY <1>1, <1>2, Unstamped, PastFacts
<1>4. step'[t] = "line"
  BY <1>1 DEF CommitsFit, TenantFirst, RowsOnly
<1>5. Doc(t)' = Doc(t) /\ c = Doc(t).client /\ \A p : Change(t, p)' = Change(t, p)
  BY <1>1, <1>3, SameDoc DEF Doc
<1>6. OnInvoice(Doc(t))' = OnInvoice(Doc(t))
  BY <1>5 DEF OnInvoice
<1>7. /\ Done(t)' = Done(t) /\ Tested(t)' = {} /\ ~Booked(t)' /\ ~HasNumber(t)'
      /\ ~Booked(t) /\ ~HasNumber(t)
  <2>1. Done(t)' = Done(t) /\ Done(t) = {}
    BY <1>1, <1>3, <1>4, <1>6 DEF Done, Stands, Ordered
  <2> QED BY <1>1, <1>4, <2>1 DEF Tested, Booked, HasNumber
<1>8. Written(t)'
  <2>1. UNCHANGED <<product, movement, ledger, nextNumber, invoice>>
    BY <1>1 DEF vars, stockVars, bookVars
  <2>2. Booked(t)' = Booked(t) /\ HasNumber(t)' = HasNumber(t)
    BY <1>1, <1>4 DEF Booked, HasNumber
  <2> QED BY <1>1, <1>3, <1>4, <1>7, <2>1, <2>2, WrittenStays DEF Stands
<1>9. Covered(t)'
  BY <1>1, <1>3, <1>7 DEF Covered, Stands
<1>10. Checked(t)'
  <2>1. ActiveClient(Doc(t).client)' /\ c \in Clients
    BY <1>1, <1>5 DEF ActiveClient, vars
  <2>2. t \in sharers'[c]
    BY <1>1, <2>1 DEF CommitsFit
  <2>3. /\ tenantActive' /\ Doc(t).status = From(request[t].kind)
        /\ Doc(t).version < MaxVersion /\ request' = request
    BY <1>1, <1>3 DEF Stands, Checked, vars
  <2> QED BY <1>4, <1>5, <1>7, <2>1, <2>2, <2>3 DEF Checked
<1>11. Ordered(t)'
  BY <1>1, <1>3, <1>4, <1>6, <1>7 DEF Ordered, Stands, Kinds
<1>12. /\ TypeOK' /\ committed' = committed /\ DOMAIN sharers' = Clients
       /\ \A r \in Lockable : writer'[r] = writer[r] \/ writer'[r] = t
       /\ \A u \in Txs \ {t} : step'[u] = step[u] /\ request'[u] = request[u]
       /\ request'[t].kind = request[t].kind
  <2>1. TypeOK'
    BY <1>1 DEF CommitsFit, TypeOK, vars, stockVars, bookVars
  <2> QED BY <1>1, <2>1 DEF CommitsFit, TenantFirst, RowsOnly
<1>13. Past(t)'
  BY <1>4 DEF Past
<1> QED BY <1>2, <1>8, <1>9, <1>10, <1>11, <1>12, <1>13, OneWrites DEF Stands

\* The product of the next line is locked and passes its checks.
LEMMA LockLineFits ==
  ASSUME CommitsFit, TenantFirst', NEW t \in Txs, LockLine(t), CanBook(request[t],
         Head(lines[t]))
  PROVE  CommitsFit'
<1> DEFINE p == Head(lines[t])
<1>1. /\ step[t] = "line" /\ lines[t] # <<>> /\ step' = [step EXCEPT ![t] = "move"]
      /\ writer' = [writer EXCEPT ![p] = t]
      /\ UNCHANGED <<vars, request, lines, sharers, committed>>
  BY DEF LockLine, Go, Lock
<1>2. Past(t)
  BY <1>1 DEF Past
<1>3. /\ invoice = committed.invoice /\ Stands(t) /\ request[t].kind \in Kinds
      /\ OnInvoice(Doc(t)) \subseteq Products /\ lines[t] \in Seq(Products)
      /\ \A q : Delta(request[t], q) = Change(t, q)
      /\ request[t].id \in InvoiceIds
  BY <1>1, <1>2, Unstamped, PastFacts
<1>4. step'[t] = "move" /\ request' = request /\ lines' = lines
  BY <1>1 DEF CommitsFit, TenantFirst, RowsOnly
<1>5. Doc(t)' = Doc(t) /\ Doc(t) = invoice[request[t].id] /\ \A q : Change(t, q)' = Change(t, q)
  BY <1>1, <1>3, SameDoc DEF Doc
<1>6. OnInvoice(Doc(t))' = OnInvoice(Doc(t))
  BY <1>5 DEF OnInvoice
<1>7. /\ Done(t)' = Done(t) /\ Tested(t)' = Done(t) \cup {p} /\ Tested(t) = Done(t)
      /\ ~Booked(t)' /\ ~HasNumber(t)' /\ ~Booked(t) /\ ~HasNumber(t)
  <2>1. Done(t)' = Done(t)
    BY <1>1, <1>4, <1>6 DEF Done
  <2> QED BY <1>1, <1>4, <2>1 DEF Tested, Booked, HasNumber
<1>8. p \in Range(lines[t]) /\ p \in Products /\ p \notin Done(t)
  BY <1>1, <1>3, LessOne DEF Done, Stands, Ordered
<1>9. product[p] = committed.product[p]
  <2>1. product = [q \in Products |-> RowNow(t, q)]
    BY <1>3 DEF Stands, Written
  <2>2. product[p] = RowNow(t, p)
    BY <1>8, <2>1
  <2> QED BY <1>8, <2>2 DEF RowNow
<1>10. Written(t)'
  <2>1. UNCHANGED <<product, movement, ledger, nextNumber, invoice>>
    BY <1>1 DEF vars, stockVars, bookVars
  <2>2. Booked(t)' = Booked(t) /\ HasNumber(t)' = HasNumber(t)
    BY <1>1, <1>4 DEF Booked, HasNumber
  <2> QED BY <1>1, <1>3, <1>4, <1>7, <2>1, <2>2, WrittenStays DEF Stands
<1>11. Covered(t)'
  <2>1. p \in Lockable /\ request[t].id \in Lockable /\ DOMAIN writer = Lockable
        /\ Products \subseteq Lockable
    BY <1>3, <1>8 DEF Lockable, CommitsFit, TenantFirst, RowsOnly
  <2>2. \A r \in Lockable : writer[r] = t \/ r = p => writer'[r] = t
    BY <1>1, <2>1
  <2>3. writer[request[t].id] = t /\ \A q \in Done(t) : writer[q] = t
    BY <1>1, <1>3, <1>7 DEF Stands, Covered
  <2>4. Done(t) \subseteq Lockable
    BY <1>3, <2>1 DEF Done
  <2> QED BY <1>4, <1>7, <2>1, <2>2, <2>3, <2>4 DEF Covered
<1>12. Checked(t)'
  <2>1. /\ CanMove(committed.product[p], Change(t, p))
        /\ request[t].kind # "void" =>
             committed.product[p].active /\ committed.product[p].pieces = Doc(t).items[p].pieces
    BY <1>3, <1>5, <1>9 DEF CanBook
  <2>2. ActiveClient(Doc(t).client)' = ActiveClient(Doc(t).client)
        /\ \A q : CanMove(committed.product[q], Change(t, q))'
                  = CanMove(committed.product[q], Change(t, q))
    BY <1>1, <1>5 DEF ActiveClient, CanMove, vars
  <2>3. Checked(t) /\ tenantActive' = tenantActive /\ sharers' = sharers
    BY <1>1, <1>3 DEF Stands, vars
  <2> QED BY <1>1, <1>4, <1>5, <1>7, <2>1, <2>2, <2>3 DEF Checked
<1>13. Ordered(t)'
  BY <1>1, <1>3, <1>4, <1>6, <1>7 DEF Ordered, Stands, Kinds
<1>14. /\ TypeOK' /\ committed' = committed /\ DOMAIN sharers' = Clients
       /\ \A r \in Lockable : writer'[r] = writer[r] \/ writer'[r] = t
       /\ \A u \in Txs \ {t} : step'[u] = step[u] /\ request'[u] = request[u]
       /\ request'[t].kind = request[t].kind
  <2>1. TypeOK'
    BY <1>1 DEF CommitsFit, TypeOK, vars, stockVars, bookVars
  <2> QED BY <1>1, <2>1 DEF CommitsFit, TenantFirst, RowsOnly
<1>15. Past(t)'
  BY <1>4 DEF Past
<1> QED BY <1>2, <1>10, <1>11, <1>12, <1>13, <1>14, <1>15, OneWrites DEF Stands

\* A row of stock that has moved keeps the shape of a row.
LEMMA MovedType ==
  ASSUME NEW row \in Product, NEW d \in Int, CanMove(row, d)
  PROVE  Restocked(row, d) \in Product
<1> DEFINE q == row.quantity + d
           v == row.version + 1
<1>1. q \in 0..MaxQuantity /\ v \in Nat
  BY DEF CanMove, Product
<1>2. Restocked(row, d) = [row EXCEPT !.quantity = q, !.version = v]
  BY DEF Restocked
<1> HIDE DEF q, v
<1> QED BY <1>1, <1>2 DEF Product

\* The line's stock is moved: one product more is done.
LEMMA MoveLineFits ==
  ASSUME CommitsFit, TenantFirst', NEW t \in Txs, MoveLine(t)
  PROVE  CommitsFit'
<1>0. PICK i, p, d : i = request[t].id /\ p = Head(lines[t]) /\ d = Change(t, p)
  OBVIOUS
<1>1. /\ step[t] = "move" /\ step' = [step EXCEPT ![t] = "line"]
      /\ lines' = [lines EXCEPT ![t] = Tail(@)]
      /\ product' = [product EXCEPT ![p] = Restocked(@, Delta(request[t], p))]
      /\ movement' = [movement EXCEPT ![i][p] = @ + Delta(request[t], p)]
      /\ UNCHANGED <<tenantActive, correction, client, invoice, ledger, nextNumber, receipt>>
      /\ UNCHANGED <<request, writer, sharers, committed>>
  BY <1>0 DEF MoveLine, Go, bookVars
<1>2. Past(t)
  BY <1>1 DEF Past
<1>3. /\ invoice = committed.invoice /\ Stands(t) /\ request[t].kind \in Kinds
      /\ OnInvoice(Doc(t)) \subseteq Products /\ lines[t] \in Seq(Products)
      /\ Delta(request[t], p) = d
      /\ i \in InvoiceIds /\ Doc(t) \in Invoice
      /\ \A q \in Products : Change(t, q) \in Int
  BY <1>0, <1>1, <1>2, Unstamped, PastFacts
<1>4. lines[t] # <<>>
  BY <1>1 DEF CommitsFit, TenantFirst, RowsOnly
<1>5. step'[t] = "line" /\ request' = request /\ lines'[t] = Tail(lines[t])
  BY <1>1 DEF CommitsFit, TenantFirst, RowsOnly
<1>6. Doc(t)' = Doc(t) /\ Debt(t)' = Debt(t) /\ \A q : Change(t, q)' = Change(t, q)
  BY <1>1, SameDoc
<1>7. OnInvoice(Doc(t))' = OnInvoice(Doc(t))
  BY <1>6 DEF OnInvoice
<1>8. /\ IsInjective(lines[t]) /\ Range(lines[t]) \subseteq OnInvoice(Doc(t))
  BY <1>1, <1>3 DEF Stands, Ordered
<1>9. /\ p \in Range(lines[t]) /\ IsInjective(Tail(lines[t]))
      /\ Range(Tail(lines[t])) = Range(lines[t]) \ {p}
  BY <1>0, <1>3, <1>4, <1>8, LessOne
<1>10. p \in Products /\ p \notin Done(t) /\ d \in Int
  BY <1>0, <1>1, <1>3, <1>8, <1>9 DEF Done
<1>11. /\ Done(t)' = Done(t) \cup {p} /\ Tested(t)' = Done(t) \cup {p}
       /\ Tested(t) = Done(t) \cup {p}
       /\ ~Booked(t)' /\ ~HasNumber(t)' /\ ~Booked(t) /\ ~HasNumber(t)
  <2>1. Done(t)' = Done(t) \cup {p}
    BY <1>1, <1>5, <1>7, <1>8, <1>9 DEF Done
  <2> QED BY <1>0, <1>1, <1>5, <2>1 DEF Tested, Booked, HasNumber
<1>12. /\ product = [q \in Products |-> RowNow(t, q)]
       /\ movement = [committed.movement EXCEPT ![i] = [q \in Products |-> SumNow(t, q)]]
       /\ ledger = [committed.ledger EXCEPT ![i] = @ + (IF Booked(t) THEN Debt(t) ELSE 0)]
       /\ nextNumber = committed.nextNumber + (IF HasNumber(t) THEN 1 ELSE 0)
       /\ invoice = [committed.invoice EXCEPT ![i] = IF step[t] = "commit" THEN Final(t) ELSE @]
  BY <1>0, <1>3, Zenon DEF Stands, Written
<1>13. committed.movement \in [InvoiceIds -> [Products -> Int]]
       /\ committed.product \in [Products -> Product]
  BY DEF CommitsFit, CommittedTyped
<1>14. product' = [q \in Products |-> RowNow(t, q)']
  <2>1. RowNow(t, p) = committed.product[p]
    BY <1>10 DEF RowNow
  <2>2. RowNow(t, p)' = Restocked(committed.product[p], d)
    BY <1>0, <1>1, <1>6, <1>11 DEF RowNow, Restocked
  <2>3. \A q \in Products \ {p} : RowNow(t, q)' = RowNow(t, q)
    BY <1>1, <1>6, <1>11 DEF RowNow, Restocked
  <2>4. product' = [product EXCEPT ![p] = Restocked(committed.product[p], d)]
    BY <1>1, <1>3, <1>10, <1>12, <2>1
  <2>5. DOMAIN product' = Products /\ product'[p] = RowNow(t, p)'
        /\ \A q \in Products \ {p} : product'[q] = RowNow(t, q)'
    BY <1>10, <1>12, <2>2, <2>3, <2>4
  <2> QED BY <1>12, <2>4, <2>5
<1>15. movement' = [committed'.movement EXCEPT ![i] = [q \in Products |-> SumNow(t, q)']]
  <2>1. SumNow(t, p) = committed.movement[i][p] /\ SumNow(t, p) \in Int
    BY <1>0, <1>3, <1>10, <1>13 DEF SumNow
  <2>2. SumNow(t, p)' = committed.movement[i][p] + d
    BY <1>0, <1>1, <1>6, <1>11 DEF SumNow
  <2>3. \A q \in Products \ {p} : SumNow(t, q)' = SumNow(t, q)
    BY <1>1, <1>6, <1>11 DEF SumNow
  <2>4. DOMAIN movement = InvoiceIds /\ movement[i] = [q \in Products |-> SumNow(t, q)]
    BY <1>3, <1>12, <1>13
  <2>5. movement' = [movement EXCEPT ![i] = [movement[i] EXCEPT ![p] = movement[i][p] + d]]
    BY <1>1, <1>3, <2>4
  <2>6. [movement[i] EXCEPT ![p] = movement[i][p] + d] = [q \in Products |-> SumNow(t, q)']
    BY <1>10, <2>1, <2>2, <2>3, <2>4
  <2> QED BY <1>1, <1>12, <2>5, <2>6
<1>16. Written(t)'
  <2>1. request'[t].id = i
    BY <1>0, <1>1
  <2>2. /\ ledger' = [committed'.ledger EXCEPT ![i] = @ + 0]
        /\ nextNumber' = committed'.nextNumber + 0
        /\ invoice' = [committed'.invoice EXCEPT ![i] = @]
    BY <1>1, <1>11, <1>12
  <2> QED BY <1>5, <1>11, <1>14, <1>15, <2>1, <2>2 DEF Written
<1>17. Covered(t)'
  BY <1>1, <1>3, <1>5, <1>11 DEF Covered, Stands
<1>18. Checked(t)'
  <2>1. ActiveClient(Doc(t).client)' = ActiveClient(Doc(t).client)
        /\ \A q : CanMove(committed.product[q], Change(t, q))'
                  = CanMove(committed.product[q], Change(t, q))
    BY <1>1, <1>6 DEF ActiveClient, CanMove
  <2>2. Checked(t) /\ tenantActive' = tenantActive /\ sharers' = sharers
    BY <1>1, <1>3 DEF Stands
  <2> QED BY <1>1, <1>5, <1>6, <1>11, <2>1, <2>2 DEF Checked
<1>19. Ordered(t)'
  BY <1>1, <1>3, <1>5, <1>7, <1>8, <1>9, <1>11 DEF Ordered, Stands, Kinds
<1>20. TypeOK'
  <2>1. product[p] = committed.product[p]
    BY <1>10, <1>12 DEF RowNow
  <2>2. CanMove(product[p], d)
    BY <1>0, <1>3, <1>11, <2>1 DEF Stands, Checked
  <2>3. product' \in [Products -> Product]
    <3>1. Restocked(product[p], d) \in Product
      BY <1>10, <2>2, MovedType DEF CommitsFit, TypeOK
    <3> QED BY <1>1, <1>3, <3>1 DEF CommitsFit, TypeOK
  <2>4. movement' \in [InvoiceIds -> [Products -> Int]]
    BY <1>1, <1>3, <1>10 DEF CommitsFit, TypeOK
  <2> QED BY <1>1, <2>3, <2>4 DEF CommitsFit, TypeOK
<1>21. /\ committed' = committed /\ DOMAIN sharers' = Clients
       /\ \A r \in Lockable : writer'[r] = writer[r] \/ writer'[r] = t
       /\ \A u \in Txs \ {t} : step'[u] = step[u] /\ request'[u] = request[u]
       /\ request'[t].kind = request[t].kind
  BY <1>1 DEF CommitsFit, TenantFirst, RowsOnly
<1>22. Past(t)'
  BY <1>5 DEF Past
<1> QED BY <1>2, <1>16, <1>17, <1>18, <1>19, <1>20, <1>21, <1>22, OneWrites DEF Stands

\* All the lines are moved, the account is booked.
LEMMA BookTotalFits ==
  ASSUME CommitsFit, TenantFirst', NEW t \in Txs, BookTotal(t),
         invoice[request[t].id].client # NoClient
  PROVE  CommitsFit'
<1>0. PICK i, next : /\ i = request[t].id
                     /\ next = IF request[t].kind = "post" THEN "counter" ELSE "status"
  OBVIOUS
<1>1. /\ step[t] = "line" /\ lines[t] = <<>> /\ step' = [step EXCEPT ![t] = next]
      /\ UNCHANGED <<tenantActive, product, correction, movement, client, invoice, nextNumber,
                     receipt>>
      /\ UNCHANGED <<request, lines, writer, sharers, committed>>
  BY <1>0 DEF BookTotal, Go, stockVars
<1>2. Past(t)
  BY <1>1 DEF Past
<1>3. /\ invoice = committed.invoice /\ Stands(t) /\ request[t].kind \in Kinds
      /\ i \in InvoiceIds /\ Doc(t) \in Invoice /\ Debt(t) \in Int
      /\ \A q : Delta(request[t], q) = Change(t, q)
  BY <1>0, <1>1, <1>2, Unstamped, PastFacts
<1>4. ledger' = [ledger EXCEPT ![i] = @ + Debt(t)]
  BY <1>0, <1>3 DEF BookTotal, Book, Debt, Doc
<1>5. /\ step'[t] = next /\ next \in {"counter", "status"}
      /\ next = "counter" <=> request[t].kind = "post"
  BY <1>0, <1>1 DEF CommitsFit, TenantFirst, RowsOnly
<1>6. Doc(t)' = Doc(t) /\ Debt(t)' = Debt(t) /\ \A q : Change(t, q)' = Change(t, q)
  BY <1>1, SameDoc
<1>7. OnInvoice(Doc(t))' = OnInvoice(Doc(t))
  BY <1>6 DEF OnInvoice
<1>8. request[t].kind # "cancel"
  BY <1>1, <1>3 DEF Stands, Ordered
<1>9. /\ Done(t)' = Done(t) /\ Tested(t)' = Tested(t)
      /\ Booked(t)' /\ ~HasNumber(t)' /\ ~Booked(t) /\ ~HasNumber(t)
  <2>1. Done(t)' = Done(t)
    BY <1>1, <1>5, <1>7 DEF Done
  <2> QED BY <1>1, <1>5, <1>8, <2>1 DEF Tested, Booked, HasNumber
<1>10. /\ product = [q \in Products |-> RowNow(t, q)]
       /\ movement = [committed.movement EXCEPT ![i] = [q \in Products |-> SumNow(t, q)]]
       /\ ledger = [committed.ledger EXCEPT ![i] = @ + (IF Booked(t) THEN Debt(t) ELSE 0)]
       /\ nextNumber = committed.nextNumber + (IF HasNumber(t) THEN 1 ELSE 0)
       /\ invoice = [committed.invoice EXCEPT ![i] = IF step[t] = "commit" THEN Final(t) ELSE @]
  BY <1>0, <1>3, Zenon DEF Stands, Written
<1>11. committed.ledger \in [InvoiceIds -> Int]
  BY DEF CommitsFit, CommittedTyped
<1>12. \A q : RowNow(t, q)' = RowNow(t, q) /\ SumNow(t, q)' = SumNow(t, q)
  BY <1>1, <1>6, <1>9 DEF RowNow, SumNow, Restocked
<1>13. ledger' = [committed.ledger EXCEPT ![i] = @ + Debt(t)]
  <2>1. ledger = [committed.ledger EXCEPT ![i] = @ + 0]
    BY <1>9, <1>10
  <2>2. ledger = committed.ledger
    BY <1>3, <1>11, <2>1
  <2> QED BY <1>4, <2>2
<1>14. Written(t)'
  <2>1. /\ product' = [q \in Products |-> RowNow(t, q)']
        /\ movement' = [committed'.movement EXCEPT ![i] = [q \in Products |-> SumNow(t, q)']]
    BY <1>1, <1>10, <1>12
  <2>2. /\ ledger' = [committed'.ledger EXCEPT ![i] =
                        @ + (IF Booked(t)' THEN Debt(t)' ELSE 0)]
        /\ nextNumber' = committed'.nextNumber + (IF HasNumber(t)' THEN 1 ELSE 0)
        /\ invoice' = [committed'.invoice EXCEPT ![i] = @]
    BY <1>1, <1>6, <1>9, <1>10, <1>13
  <2>3. request'[t].id = i
    BY <1>0, <1>1
  <2> QED BY <1>5, <2>1, <2>2, <2>3 DEF Written
<1>15. Covered(t)'
  BY <1>1, <1>3, <1>5, <1>9 DEF Covered, Stands
<1>16. Checked(t)'
  <2>1. ActiveClient(Doc(t).client)' = ActiveClient(Doc(t).client)
        /\ \A q : CanMove(committed.product[q], Change(t, q))'
                  = CanMove(committed.product[q], Change(t, q))
    BY <1>1, <1>6 DEF ActiveClient, CanMove
  <2>2. Checked(t) /\ tenantActive' = tenantActive /\ sharers' = sharers
    BY <1>1, <1>3 DEF Stands
  <2>3. Doc(t).client # NoClient
    BY <1>3 DEF Doc
  <2> QED BY <1>1, <1>5, <1>6, <1>9, <2>1, <2>2, <2>3 DEF Checked
<1>17. Ordered(t)'
  BY <1>1, <1>3, <1>5, <1>7, <1>8, <1>9 DEF Ordered, Stands, Kinds
<1>18. TypeOK'
  BY <1>1, <1>3, <1>4 DEF CommitsFit, TypeOK
<1>19. /\ committed' = committed /\ DOMAIN sharers' = Clients
       /\ \A r \in Lockable : writer'[r] = writer[r] \/ writer'[r] = t
       /\ \A u \in Txs \ {t} : step'[u] = step[u] /\ request'[u] = request[u]
       /\ request'[t].kind = request[t].kind
  BY <1>1 DEF CommitsFit, TenantFirst, RowsOnly
<1>20. Past(t)'
  BY <1>5 DEF Past
<1> QED BY <1>2, <1>14, <1>15, <1>16, <1>17, <1>18, <1>19, <1>20, OneWrites DEF Stands

\* The number is the committed counter's, which is advanced.
LEMMA TakeNumberFits ==
  ASSUME CommitsFit, TenantFirst', NEW t \in Txs, TakeNumber(t)
  PROVE  CommitsFit'
<1>0. PICK i, n : i = request[t].id /\ n = nextNumber
  OBVIOUS
<1>1. /\ step[t] = "counter" /\ step' = [step EXCEPT ![t] = "status"]
      /\ writer' = [writer EXCEPT !["counter"] = t]
      /\ request' = [request EXCEPT ![t].number = n]
      /\ nextNumber' = n + 1
      /\ UNCHANGED <<tenantActive, product, correction, movement, client, invoice, ledger,
                     receipt>>
      /\ UNCHANGED <<lines, sharers, committed>>
  BY <1>0 DEF TakeNumber, Go, Lock, stockVars
<1>2. Past(t)
  BY <1>1 DEF Past
<1>3. /\ invoice = committed.invoice /\ Stands(t) /\ i \in InvoiceIds
  BY <1>0, <1>1, <1>2, Unstamped, PastFacts
<1>4. request[t].kind = "post"
  BY <1>1, <1>3 DEF Stands, Ordered
<1>5. step'[t] = "status"
  BY <1>1 DEF CommitsFit, TenantFirst, RowsOnly
<1>6. /\ request'[t].id = i /\ request'[t].kind = request[t].kind /\ request'[t].number = n
  <2>1. request[t] = [kind |-> request[t].kind, id |-> request[t].id,
                      version |-> request[t].version, number |-> request[t].number]
        /\ DOMAIN request = Txs
    BY DEF CommitsFit, TenantFirst, RowsOnly
  <2>2. request'[t] = [kind |-> request[t].kind, id |-> request[t].id,
                       version |-> request[t].version, number |-> n]
    BY <1>1, <2>1
  <2> QED BY <1>0, <2>2
<1>7. Doc(t)' = Doc(t) /\ Debt(t)' = Debt(t) /\ \A q : Change(t, q)' = Change(t, q)
  BY <1>0, <1>1, <1>6, SameDoc
<1>8. OnInvoice(Doc(t))' = OnInvoice(Doc(t))
  BY <1>7 DEF OnInvoice
<1>9. /\ Done(t)' = Done(t) /\ Tested(t)' = Tested(t)
      /\ Booked(t)' /\ HasNumber(t)' /\ Booked(t) /\ ~HasNumber(t)
  <2>1. Done(t)' = Done(t)
    BY <1>1, <1>5, <1>8 DEF Done
  <2> QED BY <1>1, <1>4, <1>5, <1>6, <2>1 DEF Tested, Booked, HasNumber
<1>10. /\ product = [q \in Products |-> RowNow(t, q)]
       /\ movement = [committed.movement EXCEPT ![i] = [q \in Products |-> SumNow(t, q)]]
       /\ ledger = [committed.ledger EXCEPT ![i] = @ + (IF Booked(t) THEN Debt(t) ELSE 0)]
       /\ nextNumber = committed.nextNumber + (IF HasNumber(t) THEN 1 ELSE 0)
       /\ invoice = [committed.invoice EXCEPT ![i] = IF step[t] = "commit" THEN Final(t) ELSE @]
  BY <1>0, <1>3, Zenon DEF Stands, Written
<1>11. n = committed.nextNumber /\ n \in Nat \ {0}
  BY <1>0, <1>9, <1>10 DEF CommitsFit, CommittedTyped
<1>12. \A q : RowNow(t, q)' = RowNow(t, q) /\ SumNow(t, q)' = SumNow(t, q)
  BY <1>0, <1>1, <1>6, <1>7, <1>9 DEF RowNow, SumNow, Restocked
<1>13. Written(t)'
  <2>1. /\ product' = [q \in Products |-> RowNow(t, q)']
        /\ movement' = [committed'.movement EXCEPT ![i] = [q \in Products |-> SumNow(t, q)']]
    BY <1>1, <1>10, <1>12
  <2>2. /\ ledger' = [committed'.ledger EXCEPT ![i] =
                        @ + (IF Booked(t)' THEN Debt(t)' ELSE 0)]
        /\ nextNumber' = committed'.nextNumber + (IF HasNumber(t)' THEN 1 ELSE 0)
        /\ invoice' = [committed'.invoice EXCEPT ![i] = @]
    BY <1>1, <1>7, <1>9, <1>10, <1>11
  <2> QED BY <1>5, <1>6, <2>1, <2>2 DEF Written
<1>14. Covered(t)'
  <2>1. "counter" \in Lockable /\ i \in Lockable /\ Products \subseteq Lockable
        /\ DOMAIN writer = Lockable
    BY <1>3 DEF Lockable, CommitsFit, TenantFirst, RowsOnly
  <2>2. \A r : writer[r] = t => writer'[r] = t
    BY <1>1, <2>1
  <2>3. writer'["counter"] = t
    BY <1>1, <2>1
  <2>4. writer[i] = t /\ \A q \in Tested(t) : writer[q] = t
    BY <1>0, <1>1, <1>3 DEF Stands, Covered
  <2> QED BY <1>6, <1>9, <2>2, <2>3, <2>4 DEF Covered
<1>15. Checked(t)'
  <2>1. ActiveClient(Doc(t).client)' = ActiveClient(Doc(t).client)
        /\ \A q : CanMove(committed.product[q], Change(t, q))'
                  = CanMove(committed.product[q], Change(t, q))
    BY <1>1, <1>7 DEF ActiveClient, CanMove
  <2>2. /\ Checked(t) /\ tenantActive' = tenantActive /\ sharers' = sharers
        /\ committed' = committed
    BY <1>1, <1>3 DEF Stands
  <2> QED BY <1>1, <1>5, <1>6, <1>7, <1>9, <1>11, <2>1, <2>2 DEF Checked
<1>16. Ordered(t)'
  BY <1>1, <1>3, <1>4, <1>5, <1>6, <1>8, <1>9 DEF Ordered, Stands, Kinds
<1>17. TypeOK'
  BY <1>1, <1>11 DEF CommitsFit, TypeOK
<1>18. /\ committed' = committed /\ DOMAIN sharers' = Clients
       /\ \A r \in Lockable : writer'[r] = writer[r] \/ writer'[r] = t
       /\ \A u \in Txs \ {t} : step'[u] = step[u] /\ request'[u] = request[u]
  BY <1>1 DEF CommitsFit, TenantFirst, RowsOnly
<1>19. Past(t)'
  BY <1>5 DEF Past
<1> QED BY <1>2, <1>6, <1>13, <1>14, <1>15, <1>16, <1>17, <1>18, <1>19, OneWrites DEF Stands

\* A stamped invoice is an invoice.
LEMMA FinalType ==
  ASSUME NEW inv \in Invoice, NEW n \in Nat
  PROVE  /\ \A s \in Statuses : Stamped(inv, s) \in Invoice
         /\ [Stamped(inv, "posted") EXCEPT !.number = n] \in Invoice
<1>1. \A s \in Statuses : Stamped(inv, s) \in Invoice
  BY StampedRow
<1>2. Stamped(inv, "posted") \in Invoice
  BY <1>1 DEF Statuses
<1> QED BY <1>1, <1>2, NumberedRow

\* The document gets its final form.
LEMMA SetStatusFits ==
  ASSUME CommitsFit, TenantFirst', NEW t \in Txs, SetStatus(t)
  PROVE  CommitsFit'
<1>0. PICK i : i = request[t].id
  OBVIOUS
<1>1. /\ step[t] = "status" /\ step' = [step EXCEPT ![t] = "commit"]
      /\ UNCHANGED <<tenantActive, product, correction, movement, client, nextNumber, ledger,
                     receipt>>
      /\ UNCHANGED <<request, lines, writer, sharers, committed>>
  BY DEF SetStatus, Go, stockVars, bookVars
<1>2. Past(t)
  BY <1>1 DEF Past
<1>3. /\ invoice = committed.invoice /\ Stands(t) /\ i \in InvoiceIds
      /\ request[t].kind \in Kinds /\ Doc(t) \in Invoice /\ Doc(t) = invoice[i]
  BY <1>0, <1>1, <1>2, Unstamped, PastFacts DEF Doc
<1>4. request[t].kind = "post" => request[t].number = committed.nextNumber
  BY <1>1, <1>3 DEF Stands, Checked, HasNumber
<1>5. step'[t] = "commit"
  BY <1>1 DEF CommitsFit, TenantFirst, RowsOnly
<1>6. /\ Doc(t)' = Doc(t) /\ Debt(t)' = Debt(t) /\ Final(t)' = Final(t)
      /\ \A q : Change(t, q)' = Change(t, q)
  BY <1>1, SameDoc
<1>7. invoice' = [invoice EXCEPT ![i] = Final(t)]
  <2>1. CASE request[t].kind = "post"
    BY <1>0, <1>3, <1>4, <2>1 DEF SetStatus, Final
  <2>2. CASE request[t].kind # "post"
    BY <1>0, <1>3, <2>2 DEF SetStatus, Final
  <2> QED BY <2>1, <2>2
<1>8. OnInvoice(Doc(t))' = OnInvoice(Doc(t))
  BY <1>6 DEF OnInvoice
<1>9. /\ Done(t)' = Done(t) /\ Tested(t)' = Tested(t)
      /\ Booked(t)' = Booked(t) /\ HasNumber(t)' = HasNumber(t)
  <2>1. Done(t)' = Done(t)
    BY <1>1, <1>5, <1>8 DEF Done
  <2> QED BY <1>1, <1>5, <2>1 DEF Tested, Booked, HasNumber
<1>10. /\ product = [q \in Products |-> RowNow(t, q)]
       /\ movement = [committed.movement EXCEPT ![i] = [q \in Products |-> SumNow(t, q)]]
       /\ ledger = [committed.ledger EXCEPT ![i] = @ + (IF Booked(t) THEN Debt(t) ELSE 0)]
       /\ nextNumber = committed.nextNumber + (IF HasNumber(t) THEN 1 ELSE 0)
  BY <1>0, <1>3, Zenon DEF Stands, Written
<1>11. \A q : RowNow(t, q)' = RowNow(t, q) /\ SumNow(t, q)' = SumNow(t, q)
  BY <1>1, <1>6, <1>9 DEF RowNow, SumNow, Restocked
<1>12. Written(t)'
  <2>1. /\ product' = [q \in Products |-> RowNow(t, q)']
        /\ movement' = [committed'.movement EXCEPT ![i] = [q \in Products |-> SumNow(t, q)']]
    BY <1>1, <1>10, <1>11
  <2>2. /\ ledger' = [committed'.ledger EXCEPT ![i] =
                        @ + (IF Booked(t)' THEN Debt(t)' ELSE 0)]
        /\ nextNumber' = committed'.nextNumber + (IF HasNumber(t)' THEN 1 ELSE 0)
        /\ invoice' = [committed'.invoice EXCEPT ![i] = Final(t)']
    BY <1>1, <1>3, <1>6, <1>7, <1>9, <1>10
  <2>3. request'[t].id = i
    BY <1>0, <1>1
  <2> QED BY <1>5, <2>1, <2>2, <2>3 DEF Written
<1>13. Covered(t)'
  BY <1>1, <1>3, <1>5, <1>9 DEF Covered, Stands
<1>14. Checked(t)'
  <2>1. ActiveClient(Doc(t).client)' = ActiveClient(Doc(t).client)
        /\ \A q : CanMove(committed.product[q], Change(t, q))'
                  = CanMove(committed.product[q], Change(t, q))
    BY <1>1, <1>6 DEF ActiveClient, CanMove
  <2>2. Checked(t) /\ tenantActive' = tenantActive /\ sharers' = sharers
    BY <1>1, <1>3 DEF Stands
  <2> QED BY <1>1, <1>5, <1>6, <1>9, <2>1, <2>2 DEF Checked
<1>15. Ordered(t)'
  BY <1>1, <1>3, <1>5, <1>8, <1>9 DEF Ordered, Stands, Kinds
<1>16. TypeOK'
  <2>1. committed.nextNumber \in Nat /\ Target(request[t].kind) \in Statuses
    BY <1>3 DEF CommitsFit, CommittedTyped, Target, Statuses, Kinds
  <2>2. Final(t) \in Invoice
    BY <1>3, <2>1, FinalType DEF Final
  <2> QED BY <1>1, <1>3, <1>7, <2>2 DEF CommitsFit, TypeOK
<1>17. /\ committed' = committed /\ DOMAIN sharers' = Clients
       /\ \A r \in Lockable : writer'[r] = writer[r] \/ writer'[r] = t
       /\ \A u \in Txs \ {t} : step'[u] = step[u] /\ request'[u] = request[u]
       /\ request'[t].kind = request[t].kind
  BY <1>1 DEF CommitsFit, TenantFirst, RowsOnly
<1>18. Past(t)'
  BY <1>5 DEF Past
<1> QED BY <1>2, <1>12, <1>13, <1>14, <1>15, <1>16, <1>17, <1>18, OneWrites DEF Stands

-----------------------------------------------------------------------------
\* Commit and rollback: what is written is locked, so that one side gives all of it.
LEMMA OnlyLocked ==
  ASSUME CommitsFit, NEW t \in Txs, Past(t)
  PROVE  /\ \A p \in Products : writer[p] # t => product[p] = committed.product[p]
         /\ \A j \in InvoiceIds : writer[j] # t =>
              /\ movement[j] = committed.movement[j] /\ invoice[j] = committed.invoice[j]
              /\ ledger[j] = committed.ledger[j]
         /\ writer["counter"] # t => nextNumber = committed.nextNumber
<1>0. PICK i : i = request[t].id
  OBVIOUS
<1>1. Stands(t) /\ i \in InvoiceIds
  BY <1>0, PastFacts
<1>2. /\ product = [q \in Products |-> RowNow(t, q)]
      /\ movement = [committed.movement EXCEPT ![i] = [q \in Products |-> SumNow(t, q)]]
      /\ ledger = [committed.ledger EXCEPT ![i] = @ + (IF Booked(t) THEN Debt(t) ELSE 0)]
      /\ nextNumber = committed.nextNumber + (IF HasNumber(t) THEN 1 ELSE 0)
      /\ invoice = [committed.invoice EXCEPT ![i] = IF step[t] = "commit" THEN Final(t) ELSE @]
  BY <1>0, <1>1, Zenon DEF Stands, Written
<1>3. /\ committed.movement \in [InvoiceIds -> [Products -> Int]]
      /\ committed.invoice \in [InvoiceIds -> Invoice]
      /\ committed.ledger \in [InvoiceIds -> Int]
      /\ committed.nextNumber \in Nat
  BY DEF CommitsFit, CommittedTyped
<1>4. ASSUME NEW p \in Products, writer[p] # t
      PROVE  product[p] = committed.product[p]
  <2>1. p \notin Done(t)
    BY <1>1, <1>4 DEF Stands, Covered, Tested
  <2> QED BY <1>2, <2>1 DEF RowNow
<1>5. ASSUME NEW j \in InvoiceIds, writer[j] # t
      PROVE  /\ movement[j] = committed.movement[j] /\ invoice[j] = committed.invoice[j]
             /\ ledger[j] = committed.ledger[j]
  <2>1. CASE j # i
    BY <1>2, <1>3, <1>5, <2>1
  <2>2. CASE j = i
    <3>1. step[t] = "invoice"
      BY <1>0, <1>1, <1>5, <2>2 DEF Stands, Covered
    <3>2. Done(t) = {} /\ ~Booked(t)
      BY <3>1 DEF Done, Booked
    <3>3. \A q \in Products : SumNow(t, q) = committed.movement[i][q]
      BY <1>0, <1>1, <1>3, <3>2 DEF SumNow
    <3>4. movement[i] = [q \in Products |-> committed.movement[i][q]]
      BY <1>1, <1>2, <1>3, <3>3
    <3>5. committed.movement[i] = [q \in Products |-> committed.movement[i][q]]
      BY <1>1, <1>3
    <3>6. invoice[i] = committed.invoice[i] /\ ledger[i] = committed.ledger[i]
      BY <1>1, <1>2, <1>3, <3>1, <3>2
    <3> QED BY <2>2, <3>4, <3>5, <3>6
  <2> QED BY <2>1, <2>2
<1>6. ASSUME writer["counter"] # t PROVE nextNumber = committed.nextNumber
  BY <1>1, <1>2, <1>3, <1>6 DEF Stands, Covered
<1> QED BY <1>4, <1>5, <1>6

\* The tables and their committed rows, as functions.
TableDomains ==
  /\ product = [p \in Products |-> product[p]] /\ DOMAIN product = Products
  /\ movement = [j \in InvoiceIds |-> movement[j]] /\ DOMAIN movement = InvoiceIds
  /\ invoice = [j \in InvoiceIds |-> invoice[j]] /\ DOMAIN invoice = InvoiceIds
  /\ ledger = [j \in InvoiceIds |-> ledger[j]] /\ DOMAIN ledger = InvoiceIds

CommittedDomains ==
  /\ committed.product = [p \in Products |-> committed.product[p]]
  /\ committed.movement = [j \in InvoiceIds |-> committed.movement[j]]
  /\ committed.invoice = [j \in InvoiceIds |-> committed.invoice[j]]
  /\ committed.ledger = [j \in InvoiceIds |-> committed.ledger[j]]
  /\ DOMAIN committed.product = Products /\ DOMAIN committed.movement = InvoiceIds
  /\ DOMAIN committed.invoice = InvoiceIds /\ DOMAIN committed.ledger = InvoiceIds

\* Both are.
LEMMA Domains == CommitsFit => TableDomains /\ CommittedDomains
<1>1. TypeOK => TableDomains
  BY DEF TypeOK, TableDomains
<1>2. CommittedTyped => CommittedDomains
  BY DEF CommittedTyped, CommittedDomains
<1> QED BY <1>1, <1>2 DEF CommitsFit

\* Commit: from now on the committed tables are the present ones.
LEMMA CommitIsAll ==
  ASSUME CommitsFit, NEW t \in Txs, Commit(t)
  PROVE  Same' /\ UNCHANGED vars /\ Past(t)
<1>1. Past(t)
  BY DEF Past, Commit
<1>2. /\ committed'.product = Mine(t, product, committed.product)
      /\ committed'.movement = Mine(t, movement, committed.movement)
      /\ committed'.invoice = Mine(t, invoice, committed.invoice)
      /\ committed'.ledger = Mine(t, ledger, committed.ledger)
      /\ committed'.nextNumber = IF writer["counter"] = t THEN nextNumber
                                 ELSE committed.nextNumber
      /\ UNCHANGED vars
  BY DEF Commit
<1>3. TableDomains /\ CommittedDomains
  BY Domains
<1>9. /\ \A p \in Products : writer[p] # t => product[p] = committed.product[p]
      /\ \A j \in InvoiceIds : writer[j] # t => movement[j] = committed.movement[j]
      /\ \A j \in InvoiceIds : writer[j] # t => invoice[j] = committed.invoice[j]
      /\ \A j \in InvoiceIds : writer[j] # t => ledger[j] = committed.ledger[j]
  BY <1>1, OnlyLocked
<1>4. committed'.product = product
  BY <1>2, <1>3, <1>9 DEF Mine, TableDomains, CommittedDomains
<1>5. committed'.movement = movement
  BY <1>2, <1>3, <1>9 DEF Mine, TableDomains, CommittedDomains
<1>6. committed'.invoice = invoice
  BY <1>2, <1>3, <1>9 DEF Mine, TableDomains, CommittedDomains
<1>7. committed'.ledger = ledger
  BY <1>2, <1>3, <1>9 DEF Mine, TableDomains, CommittedDomains
<1>8. committed'.nextNumber = nextNumber
  BY <1>1, <1>2, OnlyLocked
<1> QED BY <1>1, <1>2, <1>4, <1>5, <1>6, <1>7, <1>8 DEF Same, vars, stockVars, bookVars

\* The end of the transaction that holds the tenant leaves nobody past the first statement.
LEMMA ReleaseFits ==
  ASSUME CommitsFit, TenantFirst', NEW t \in Txs, Release(t), Past(t),
         TypeOK', CommittedTyped', Same'
  PROVE  CommitsFit'
<1>1. /\ \A u \in Txs \ {t} : step'[u] = step[u] /\ request'[u] = request[u]
      /\ step'[t] = "idle"
      /\ DOMAIN sharers' = Clients
  BY DEF Release, CommitsFit, TenantFirst, RowsOnly
<1>2. \A u \in Txs : ~Past(u)'
  BY <1>1, OnePast DEF Past
<1>3. \A u \in Txs : step'[u] # "idle" => request'[u].kind \in Kinds
  BY <1>1 DEF CommitsFit
<1>4. \A r \in Lockable : writer'[r] = Nobody
  <2>1. writer'["tenant"] = Nobody
    BY PastFacts, TenantIsLockable DEF Release
  <2> QED BY <2>1 DEF TenantFirst
<1> QED BY <1>1, <1>2, <1>3, <1>4 DEF CommitsFit

\* After a commit the present tables are the committed ones.
LEMMA CommitFits ==
  ASSUME CommitsFit, TenantFirst', NEW t \in Txs, Commit(t)
  PROVE  CommitsFit'
<1>1. Same' /\ UNCHANGED vars /\ Past(t)
  BY CommitIsAll
<1>2. TypeOK'
  BY <1>1 DEF CommitsFit, TypeOK, vars, stockVars, bookVars
<1>3. CommittedTyped'
  BY <1>1, <1>2 DEF TypeOK, CommittedTyped, Same
<1> QED BY <1>1, <1>2, <1>3, ReleaseFits DEF Commit

\* After a rollback they are so again.
LEMMA RollbackFits ==
  ASSUME CommitsFit, TenantFirst', NEW t \in Txs, Rollback(t)
  PROVE  CommitsFit'
<1>1. /\ Release(t)
      /\ product' = Mine(t, committed.product, product)
      /\ movement' = Mine(t, committed.movement, movement)
      /\ invoice' = Mine(t, committed.invoice, invoice)
      /\ ledger' = Mine(t, committed.ledger, ledger)
      /\ nextNumber' = IF writer["counter"] = t THEN committed.nextNumber ELSE nextNumber
      /\ UNCHANGED <<tenantActive, correction, client, receipt, committed>>
  BY DEF Rollback
<1>2. /\ product \in [Products -> Product] /\ committed.product \in [Products -> Product]
      /\ movement \in [InvoiceIds -> [Products -> Int]]
      /\ committed.movement \in [InvoiceIds -> [Products -> Int]]
      /\ invoice \in [InvoiceIds -> Invoice] /\ committed.invoice \in [InvoiceIds -> Invoice]
      /\ ledger \in [InvoiceIds -> Int] /\ committed.ledger \in [InvoiceIds -> Int]
      /\ nextNumber \in Nat \ {0} /\ committed.nextNumber \in Nat \ {0}
  BY DEF CommitsFit, TypeOK, CommittedTyped
<1>3. Products \subseteq Lockable /\ InvoiceIds \subseteq Lockable /\ "counter" \in Lockable
  BY DEF Lockable
<1>4. CommittedTyped'
  BY <1>1 DEF CommitsFit, CommittedTyped
<1>7. TableDomains /\ CommittedDomains
  BY Domains
<1>5. CASE Past(t)
  <2>0. /\ \A p \in Products : writer[p] # t => committed.product[p] = product[p]
        /\ \A j \in InvoiceIds : writer[j] # t => committed.movement[j] = movement[j]
        /\ \A j \in InvoiceIds : writer[j] # t => committed.invoice[j] = invoice[j]
        /\ \A j \in InvoiceIds : writer[j] # t => committed.ledger[j] = ledger[j]
    BY <1>5, OnlyLocked
  <2>1. product' = committed.product
    BY <1>1, <1>7, <2>0 DEF Mine, TableDomains, CommittedDomains
  <2>2. movement' = committed.movement
    BY <1>1, <1>7, <2>0 DEF Mine, TableDomains, CommittedDomains
  <2>3. invoice' = committed.invoice
    BY <1>1, <1>7, <2>0 DEF Mine, TableDomains, CommittedDomains
  <2>4. ledger' = committed.ledger
    BY <1>1, <1>7, <2>0 DEF Mine, TableDomains, CommittedDomains
  <2>5. nextNumber' = committed.nextNumber
    BY <1>1, <1>5, OnlyLocked
  <2>6. Same'
    BY <1>1, <2>1, <2>2, <2>3, <2>4, <2>5 DEF Same
  <2>7. TypeOK'
    BY <1>1, <1>2, <2>1, <2>2, <2>3, <2>4, <2>5 DEF CommitsFit, TypeOK
  <2> QED BY <1>1, <1>4, <1>5, <2>6, <2>7, ReleaseFits
<1>6. CASE ~Past(t)
  <2>1. \A r \in Lockable : writer[r] # t
    BY <1>6, TransactionsAssumption DEF CommitsFit
  <2>2. UNCHANGED <<product, movement, invoice, ledger, nextNumber>>
    <3>1. (\A r \in Products : writer[r] # t) /\ (\A r \in InvoiceIds : writer[r] # t)
      BY <1>3, <2>1
    <3>2. product' = product
      BY <1>1, <1>7, <3>1 DEF Mine, TableDomains
    <3>3. movement' = movement
      BY <1>1, <1>7, <3>1 DEF Mine, TableDomains
    <3>4. invoice' = invoice
      BY <1>1, <1>7, <3>1 DEF Mine, TableDomains
    <3>5. ledger' = ledger
      BY <1>1, <1>7, <3>1 DEF Mine, TableDomains
    <3> QED BY <1>1, <1>3, <2>1, <3>2, <3>3, <3>4, <3>5
  <2>3. TypeOK'
    BY <1>1, <2>2 DEF CommitsFit, TypeOK
  <2>4. /\ \A u \in Txs \ {t} : /\ step'[u] = step[u] /\ request'[u] = request[u]
                                /\ lines'[u] = lines[u]
        /\ step'[t] = "idle"
        /\ DOMAIN sharers' = Clients
        /\ \A c \in Clients : sharers'[c] = sharers[c] \ {t}
        /\ \A r \in Lockable : writer'[r] = writer[r]
    BY <1>1, <2>1 DEF Release, CommitsFit, TenantFirst, RowsOnly
  <2>5. \A u \in Txs : step'[u] # "idle" => request'[u].kind \in Kinds
    BY <2>4 DEF CommitsFit
  <2>6. \A r \in Lockable : writer'[r] # Nobody => Past(writer[r])'
    <3>1. ASSUME NEW r \in Lockable, writer'[r] # Nobody
          PROVE  Past(writer[r])'
      <4>1. writer[r] \in Txs \ {t} /\ Past(writer[r]) /\ writer'[r] = writer[r]
        BY <2>1, <2>4, <3>1 DEF CommitsFit, TenantFirst, RowsOnly
      <4> QED BY <2>4, <4>1 DEF Past
    <3> QED BY <3>1
  <2>7. writer'["tenant"] = Nobody => Same'
    BY <1>1, <2>2, <2>4, TenantIsLockable DEF CommitsFit, Same
  <2>8. ASSUME NEW u \in Txs, Past(u)'
        PROVE  Stands(u)'
    <3>1. u # t /\ step'[u] = step[u] /\ request'[u] = request[u] /\ lines'[u] = lines[u]
      BY <2>4, <2>8 DEF Past
    <3>2. Stands(u)
      BY <2>8, <3>1 DEF CommitsFit, Past
    <3>3. writer' = writer
      BY <1>1, <2>1, <2>4 DEF Release, CommitsFit, TenantFirst, RowsOnly
    <3>4. \A c \in Clients : u \in sharers[c] => u \in sharers'[c] /\ client'[c] = client[c]
      BY <1>1, <2>4, <3>1
    <3> QED BY <1>1, <2>2, <3>1, <3>2, <3>3, <3>4, StandsStill
  <2> QED BY <1>4, <2>3, <2>4, <2>5, <2>6, <2>7, <2>8 DEF CommitsFit
<1> QED BY <1>5, <1>6
-----------------------------------------------------------------------------
\* At first nothing is written.
LEMMA InitFits == TransactionsInit => CommitsFit
<1> SUFFICES ASSUME TransactionsInit PROVE CommitsFit
  OBVIOUS
<1>1. TenantFirst /\ TypeOK
  BY InitTenantFirst, InitTypeOK DEF TransactionsInit
<1>2. Same
  BY DEF TransactionsInit, NoneOpen, Tables, Same
<1>3. CommittedTyped
  BY <1>1, <1>2 DEF TypeOK, CommittedTyped, Same
<1>4. /\ DOMAIN sharers = Clients
      /\ \A t \in Txs : step[t] = "idle"
      /\ \A r \in Lockable : writer[r] = Nobody
  BY DEF TransactionsInit, NoneOpen
<1> QED BY <1>1, <1>2, <1>3, <1>4 DEF CommitsFit, Past

\* Nobody's work changes where the tables, the requests past the tenant and the locks
\* stay as they are.
LEMMA BeginFits ==
  ASSUME CommitsFit, TenantFirst', NEW t \in Txs, NEW kind \in Kinds, NEW i \in InvoiceIds,
         Begin(t, kind, i)
  PROVE  CommitsFit'
<1>1. /\ step[t] = "idle" /\ step' = [step EXCEPT ![t] = "tenant"]
      /\ request' = [request EXCEPT ![t] = [kind |-> kind, id |-> i,
                       version |-> committed.invoice[i].version, number |-> 0]]
      /\ UNCHANGED <<vars, lines, writer, sharers, committed>>
  BY DEF Begin, Go
<1>2. UNCHANGED <<tenantActive, product, correction, movement, client, invoice, nextNumber,
                  ledger, receipt>>
  BY <1>1 DEF vars, stockVars, bookVars
<1>3. /\ \A u \in Txs \ {t} : step'[u] = step[u] /\ request'[u] = request[u]
      /\ step'[t] = "tenant" /\ request'[t].kind = kind
  <2>1. t \in DOMAIN request
    BY DEF CommitsFit, TenantFirst, RowsOnly
  <2>2. request'[t] = [kind |-> kind, id |-> i,
                       version |-> committed.invoice[i].version, number |-> 0]
    BY <1>1, <2>1
  <2>3. request'[t].kind = kind
    BY <2>2
  <2> QED BY <1>1, <2>3 DEF CommitsFit, TenantFirst, RowsOnly
<1>4. TypeOK' /\ CommittedTyped'
  BY <1>1, <1>2 DEF CommitsFit, TypeOK, CommittedTyped
<1>5. \A u \in Txs : step'[u] # "idle" => request'[u].kind \in Kinds
  BY <1>3 DEF CommitsFit
<1>6. ASSUME NEW u \in Txs, Past(u) PROVE Past(u)'
  BY <1>1, <1>3, <1>6 DEF Past
<1>7. \A r \in Lockable : writer'[r] # Nobody => Past(writer[r])'
  <2>1. ASSUME NEW r \in Lockable, writer'[r] # Nobody PROVE Past(writer[r])'
    <3>1. writer'[r] = writer[r] /\ writer[r] \in Txs /\ Past(writer[r])
      BY <1>1, <2>1 DEF CommitsFit, TenantFirst, RowsOnly
    <3>2. writer[r] # t
      BY <1>1, <3>1 DEF Past
    <3> QED BY <1>3, <3>1, <3>2 DEF Past
  <2> QED BY <2>1
<1>8. ASSUME NEW u \in Txs, Past(u)' PROVE Stands(u)'
  <2>1. u # t /\ Past(u)
    BY <1>3, <1>8 DEF Past
  <2>2. step'[u] = step[u] /\ request'[u] = request[u] /\ lines'[u] = lines[u]
    BY <1>1, <1>3, <2>1
  <2> QED BY <1>1, <1>2, <2>1, <2>2, StandsStill DEF CommitsFit
<1>9. writer'["tenant"] = Nobody => Same'
  BY <1>1, <1>2 DEF CommitsFit, Same
<1> QED BY <1>1, <1>4, <1>5, <1>7, <1>8, <1>9 DEF CommitsFit

\* Stuttering.
LEMMA StutterFits == CommitsFit /\ UNCHANGED everything => CommitsFit'
<1> SUFFICES ASSUME CommitsFit, UNCHANGED everything PROVE CommitsFit'
  OBVIOUS
<1>1. /\ UNCHANGED <<step, request, lines, writer, sharers, committed>>
      /\ UNCHANGED <<tenantActive, product, correction, movement, client, invoice, nextNumber,
                     ledger, receipt>>
  BY DEF everything, txVars, vars, stockVars, bookVars
<1>2. TenantFirst'
  BY <1>1 DEF CommitsFit, TenantFirst, RowsOnly
<1>3. TypeOK' /\ CommittedTyped'
  BY <1>1 DEF CommitsFit, TypeOK, CommittedTyped
<1>4. ASSUME NEW u \in Txs, Past(u)' PROVE Stands(u)'
  <2>1. Stands(u)
    BY <1>1, <1>4 DEF CommitsFit, Past
  <2> QED BY <1>1, <2>1, StandsStill
<1>5. /\ DOMAIN sharers' = Clients
      /\ \A u \in Txs : step'[u] # "idle" => request'[u].kind \in Kinds
      /\ \A r \in Lockable : writer'[r] # Nobody => Past(writer[r])'
      /\ writer'["tenant"] = Nobody => Same'
  BY <1>1 DEF CommitsFit, Past, Same
<1> QED BY <1>2, <1>3, <1>4, <1>5 DEF CommitsFit

\* A handler of Backend on its own commits what it changes.
LEMMA ChangedIsNew ==
  ASSUME CommitsFit, Same, TypeOK',
         committed' =
           [product |-> Changed(product, product', committed.product),
            movement |-> Changed(movement, movement', committed.movement),
            invoice |-> Changed(invoice, invoice', committed.invoice),
            ledger |-> Changed(ledger, ledger', committed.ledger),
            nextNumber |-> IF nextNumber' # nextNumber THEN nextNumber'
                           ELSE committed.nextNumber]
  PROVE  Same'
<1>1. /\ product' = [p \in Products |-> product'[p]]
      /\ movement' = [j \in InvoiceIds |-> movement'[j]]
      /\ invoice' = [j \in InvoiceIds |-> invoice'[j]]
      /\ ledger' = [j \in InvoiceIds |-> ledger'[j]]
      /\ DOMAIN product' = Products /\ DOMAIN movement' = InvoiceIds
      /\ DOMAIN invoice' = InvoiceIds /\ DOMAIN ledger' = InvoiceIds
  BY DEF TypeOK
<1>2. Changed(product, product', committed.product) = product'
  BY <1>1 DEF Changed, Same
<1>3. Changed(movement, movement', committed.movement) = movement'
  BY <1>1 DEF Changed, Same
<1>4. Changed(invoice, invoice', committed.invoice) = invoice'
  BY <1>1 DEF Changed, Same
<1>5. Changed(ledger, ledger', committed.ledger) = ledger'
  BY <1>1 DEF Changed, Same
<1>6. (IF nextNumber' # nextNumber THEN nextNumber' ELSE committed.nextNumber) = nextNumber'
  BY DEF Same
<1> QED BY <1>2, <1>3, <1>4, <1>5, <1>6 DEF Same

\* A handler that locks the tenant meets no uncommitted row and leaves none.
LEMMA LockedSame ==
  ASSUME CommitsFit, LockedNext
  PROVE  Same /\ Same' /\ Next /\ TypeOK'
<1>1. Same /\ Next
  BY DEF CommitsFit, LockedNext, Unlocked, Alone
<1>2. TypeOK'
  BY <1>1, TypeStep DEF CommitsFit
<1>3. committed' =
           [product |-> Changed(product, product', committed.product),
            movement |-> Changed(movement, movement', committed.movement),
            invoice |-> Changed(invoice, invoice', committed.invoice),
            ledger |-> Changed(ledger, ledger', committed.ledger),
            nextNumber |-> IF nextNumber' # nextNumber THEN nextNumber'
                           ELSE committed.nextNumber]
  BY Zenon DEF LockedNext, Alone
<1>4. Same'
  BY <1>1, <1>2, <1>3, ChangedIsNew
<1> QED BY <1>1, <1>2, <1>4

\* It keeps the invariant.
LEMMA LockedFits ==
  ASSUME CommitsFit, TenantFirst', LockedNext
  PROVE  CommitsFit'
<1>1. Same /\ Same' /\ TypeOK'
  BY LockedSame
<1>2. CommittedTyped'
  BY <1>1 DEF TypeOK, CommittedTyped, Same
<1>3. UNCHANGED <<step, request, lines, writer, sharers>> /\ writer["tenant"] = Nobody
  BY DEF LockedNext, Alone, Unlocked
<1>4. \A u \in Txs : ~Past(u)'
  BY <1>3, NonePast DEF Past
<1>5. /\ DOMAIN sharers' = Clients
      /\ \A u \in Txs : step'[u] # "idle" => request'[u].kind \in Kinds
      /\ \A r \in Lockable : writer'[r] # Nobody => Past(writer[r])'
  BY <1>3 DEF CommitsFit, Past
<1> QED BY <1>1, <1>2, <1>4, <1>5 DEF CommitsFit
-----------------------------------------------------------------------------
\* What the transaction that holds the tenant leaves alone, also where it has written.
LEMMA StillSame ==
  ASSUME CommitsFit, NEW u \in Txs, step[u] = "invoice"
  PROVE  Same
<1>1. Past(u)
  BY DEF Past
<1>2. Stands(u) /\ request[u].id \in InvoiceIds
  BY <1>1, PastFacts
<1>3. PICK i : i = request[u].id
  OBVIOUS
<1>4. Done(u) = {} /\ ~Booked(u) /\ ~HasNumber(u)
  BY DEF Done, Booked, HasNumber
<1>5. /\ product = [q \in Products |-> RowNow(u, q)]
      /\ movement = [committed.movement EXCEPT ![i] = [q \in Products |-> SumNow(u, q)]]
      /\ ledger = [committed.ledger EXCEPT ![i] = @ + (IF Booked(u) THEN Debt(u) ELSE 0)]
      /\ nextNumber = committed.nextNumber + (IF HasNumber(u) THEN 1 ELSE 0)
      /\ invoice = [committed.invoice EXCEPT ![i] = IF step[u] = "commit" THEN Final(u) ELSE @]
  BY <1>2, <1>3, Zenon DEF Stands, Written
<1>6. /\ committed.product \in [Products -> Product]
      /\ committed.movement \in [InvoiceIds -> [Products -> Int]]
      /\ committed.invoice \in [InvoiceIds -> Invoice]
      /\ committed.ledger \in [InvoiceIds -> Int]
      /\ committed.nextNumber \in Nat
  BY DEF CommitsFit, CommittedTyped
<1>7. product = committed.product
  BY <1>4, <1>5, <1>6 DEF RowNow
<1>8. movement = committed.movement
  <2>1. \A q \in Products : SumNow(u, q) = committed.movement[i][q]
    BY <1>2, <1>3, <1>4, <1>6 DEF SumNow
  <2>2. [q \in Products |-> SumNow(u, q)] = [q \in Products |-> committed.movement[i][q]]
    BY <2>1
  <2>3. committed.movement[i] = [q \in Products |-> committed.movement[i][q]]
    BY <1>2, <1>3, <1>6
  <2>4. movement = [committed.movement EXCEPT ![i] = committed.movement[i]]
    BY <1>5, <2>2, <2>3
  <2> QED BY <1>6, <2>4
<1>9. invoice = committed.invoice
  <2>1. invoice = [committed.invoice EXCEPT ![i] = committed.invoice[i]]
    BY <1>5
  <2> QED BY <1>6, <2>1
<1>10. ledger = committed.ledger
  <2>1. ledger = [committed.ledger EXCEPT ![i] = @ + 0]
    BY <1>4, <1>5
  <2>2. committed.ledger[i] + 0 = committed.ledger[i]
    BY <1>2, <1>3, <1>6
  <2>3. ledger = [committed.ledger EXCEPT ![i] = committed.ledger[i]]
    BY <2>1, <2>2
  <2> QED BY <1>6, <2>3
<1>11. nextNumber = committed.nextNumber
  BY <1>4, <1>5, <1>6
<1> QED BY <1>7, <1>8, <1>9, <1>10, <1>11 DEF Same

\* An invoice nobody holds is as committed.
LEMMA FreeInvoice ==
  ASSUME CommitsFit, NEW i \in InvoiceIds, writer[i] = Nobody
  PROVE  invoice[i] = committed.invoice[i]
<1>1. CASE writer["tenant"] = Nobody
  BY <1>1 DEF CommitsFit, Same
<1>2. CASE writer["tenant"] # Nobody
  <2>1. PICK t \in Txs : t = writer["tenant"] /\ Past(t) /\ t # Nobody
    BY <1>2, TenantIsLockable, TransactionsAssumption DEF CommitsFit, TenantFirst, RowsOnly
  <2> QED BY <2>1, OnlyLocked
<1> QED BY <1>1, <1>2

\* No transition changes who an invoice is for.
LEMMA InvoiceOwners ==
  ASSUME CommitsFit, NEW i \in InvoiceIds
  PROVE  /\ committed.invoice[i].client = invoice[i].client
         /\ committed.invoice[i].returnsClient = invoice[i].returnsClient
<1>1. CASE writer["tenant"] = Nobody
  BY <1>1 DEF CommitsFit, Same
<1>2. CASE writer["tenant"] # Nobody
  <2>1. PICK t \in Txs : t = writer["tenant"] /\ Past(t)
    BY <1>2, TenantIsLockable, TransactionsAssumption DEF CommitsFit, TenantFirst, RowsOnly
  <2>2. Stands(t) /\ Doc(t) \in Invoice /\ request[t].id \in InvoiceIds
    BY <2>1, PastFacts
  <2>3. invoice = [committed.invoice EXCEPT ![request[t].id] =
                     IF step[t] = "commit" THEN Final(t) ELSE @]
    BY <2>2, Zenon DEF Stands, Written
  <2>4. Final(t).client = Doc(t).client /\ Final(t).returnsClient = Doc(t).returnsClient
    BY <2>2 DEF Final, Stamped, Invoice
  <2>5. DOMAIN committed.invoice = InvoiceIds
    BY DEF CommitsFit, CommittedTyped
  <2> QED BY <2>2, <2>3, <2>4, <2>5 DEF Doc
<1> QED BY <1>1, <1>2

\* The DELETE of a client nobody holds, beside the open transactions.
LEMMA DeleteClientFits ==
  ASSUME CommitsFit, TenantFirst', NEW c \in Clients, sharers[c] = {},
         Alone(DeleteClient(c))
  PROVE  CommitsFit' /\ View!DeleteClient(c)
<1>1. /\ client[c].row = "live" /\ ~HasRows(c)
      /\ client' = [client EXCEPT ![c] = [NoAccount EXCEPT !.row = "deleted"]]
      /\ UNCHANGED <<tenantActive, product, correction, movement, invoice, nextNumber, ledger,
                     receipt>>
      /\ UNCHANGED <<step, request, lines, writer, sharers>>
  BY DEF Alone, DeleteClient, stockVars, bookVars
<1>2. committed' =
        [product |-> Changed(product, product', committed.product),
         movement |-> Changed(movement, movement', committed.movement),
         invoice |-> Changed(invoice, invoice', committed.invoice),
         ledger |-> Changed(ledger, ledger', committed.ledger),
         nextNumber |-> IF nextNumber' # nextNumber THEN nextNumber'
                        ELSE committed.nextNumber]
  BY Zenon DEF Alone
<1>3. TableDomains /\ CommittedDomains
  BY Domains
<1>4. /\ committed'.product = committed.product /\ committed'.movement = committed.movement
      /\ committed'.invoice = committed.invoice /\ committed'.ledger = committed.ledger
      /\ committed'.nextNumber = committed.nextNumber
  BY <1>1, <1>2, <1>3 DEF Changed, TableDomains, CommittedDomains
<1>5. TypeOK'
  <2>1. DeleteClient(c)
    BY Zenon DEF Alone
  <2>2. Next
    BY <2>1, Zenon DEF Next, ClientNext
  <2> QED BY <2>2, TypeStep DEF CommitsFit
<1>6. CommittedTyped'
  BY <1>4 DEF CommitsFit, CommittedTyped
<1>7. ASSUME NEW u \in Txs, Past(u)' PROVE Stands(u)'
  <2>1. Past(u) /\ Stands(u)
    BY <1>1, <1>7 DEF Past, CommitsFit
  <2>2. Doc(u)' = Doc(u)
    BY <1>1, <1>4 DEF Doc
  <2>3. invoice = [committed.invoice EXCEPT ![request[u].id] =
                     IF step[u] = "commit" THEN Final(u) ELSE @]
    BY <2>1, Zenon DEF Stands, Written
  <2>4. invoice' = [committed'.invoice EXCEPT ![request[u].id] =
                      IF step[u] = "commit" THEN Final(u) ELSE @]
    BY <1>1, <1>4, <2>3
  <2>5. \A d \in Clients : u \in sharers[d] => u \in sharers'[d] /\ client'[d] = client[d]
    BY <1>1
  <2> QED BY <1>1, <1>4, <2>1, <2>2, <2>4, <2>5, StandsBeside
<1>8. CommitsFit'
  <2>1. /\ DOMAIN sharers' = Clients
        /\ \A u \in Txs : step'[u] # "idle" => request'[u].kind \in Kinds
        /\ \A r \in Lockable : writer'[r] # Nobody => Past(writer[r])'
        /\ writer'["tenant"] = Nobody => Same'
    BY <1>1, <1>4 DEF CommitsFit, Past, Same
  <2> QED BY <1>5, <1>6, <1>7, <2>1 DEF CommitsFit
<1>9. View!DeleteClient(c)
  <2>1. \A i \in InvoiceIds : /\ committed.invoice[i].client = invoice[i].client
                             /\ committed.invoice[i].returnsClient = invoice[i].returnsClient
    BY InvoiceOwners
  <2>2. ~View!HasRows(c)
    BY <1>1, <2>1 DEF HasRows, View!HasRows
  <2> QED BY <1>1, <1>4, <2>2 DEF View!DeleteClient, NoAccount, View!NoAccount, View!stockVars,
         View!bookVars
<1> QED BY <1>8, <1>9

\* The one conditional UPDATE of a cancelled draft nobody holds.
LEMMA ReactivateFits ==
  ASSUME CommitsFit, TenantFirst', NEW i \in InvoiceIds, Unlocked(i),
         Alone(ReactivateCancelled(i, invoice[i].version))
  PROVE  CommitsFit' /\ View!ReactivateCancelled(i, committed.invoice[i].version)
<1> DEFINE row == Stamped(invoice[i], "draft")
<1>1. /\ invoice[i].status = "cancelled" /\ invoice[i].version < MaxVersion
      /\ invoice' = [invoice EXCEPT ![i] = row]
      /\ UNCHANGED <<tenantActive, product, correction, movement, client, nextNumber, ledger,
                     receipt>>
      /\ UNCHANGED <<step, request, lines, writer, sharers>>
      /\ writer[i] = Nobody
  BY DEF Alone, ReactivateCancelled, Current, Unlocked, stockVars, bookVars
<1>2. committed' =
        [product |-> Changed(product, product', committed.product),
         movement |-> Changed(movement, movement', committed.movement),
         invoice |-> Changed(invoice, invoice', committed.invoice),
         ledger |-> Changed(ledger, ledger', committed.ledger),
         nextNumber |-> IF nextNumber' # nextNumber THEN nextNumber'
                        ELSE committed.nextNumber]
  BY Zenon DEF Alone
<1>3. TableDomains /\ CommittedDomains
  BY Domains
<1>4. invoice[i] = committed.invoice[i]
  BY <1>1, FreeInvoice
<1> HIDE DEF row
<1>5. /\ committed'.product = committed.product /\ committed'.movement = committed.movement
      /\ committed'.ledger = committed.ledger
      /\ committed'.nextNumber = committed.nextNumber
  BY <1>1, <1>2, <1>3 DEF Changed, TableDomains, CommittedDomains
<1>6. committed'.invoice = [committed.invoice EXCEPT ![i] = row]
  <2>1. committed'.invoice = [j \in InvoiceIds |-> IF invoice'[j] # invoice[j] THEN invoice'[j]
                                                 ELSE committed.invoice[j]]
    BY <1>1, <1>2, <1>3 DEF Changed, TableDomains
  <2>2. \A j \in InvoiceIds :
          committed'.invoice[j] = IF j = i THEN row ELSE committed.invoice[j]
    BY <1>1, <1>3, <1>4, <2>1 DEF TableDomains
  <2> QED BY <1>3, <2>1, <2>2 DEF CommittedDomains
<1>7. TypeOK'
  <2>1. ReactivateCancelled(i, invoice[i].version)
    BY Zenon DEF Alone
  <2>2. Next
    BY <2>1, Zenon DEF Next, InvoiceNext
  <2> QED BY <2>2, TypeStep DEF CommitsFit
<1>8. CommittedTyped'
  <2>1. row \in Invoice
    BY StampedRow DEF row, CommitsFit, TypeOK, Statuses
  <2> QED BY <1>5, <1>6, <2>1 DEF CommitsFit, CommittedTyped
<1>9. ASSUME NEW u \in Txs, Past(u)' PROVE Stands(u)'
  <2>1. Past(u) /\ Stands(u) /\ request[u].id \in InvoiceIds /\ u # Nobody
    BY <1>1, <1>9, PastFacts DEF Past
  <2>2. CASE step[u] = "invoice"
    <3>1. Same
      BY <2>1, <2>2, StillSame
    <3>2. Same'
      BY <1>1, <1>5, <1>6, <3>1 DEF Same
    <3>3. tenantActive'
      BY <1>1, <2>1 DEF Stands, Checked
    <3> QED BY <1>1, <1>8, <2>1, <2>2, <3>2, <3>3, NothingYet
  <2>3. CASE step[u] # "invoice"
    <3>1. i # request[u].id
      BY <1>1, <2>1, <2>3 DEF Stands, Covered
    <3>2. Doc(u)' = Doc(u)
      BY <1>1, <1>6, <3>1 DEF Doc
    <3>3. invoice = [committed.invoice EXCEPT ![request[u].id] =
                       IF step[u] = "commit" THEN Final(u) ELSE @]
      BY <2>1, Zenon DEF Stands, Written
    <3>4. invoice' = [committed'.invoice EXCEPT ![request[u].id] =
                        IF step[u] = "commit" THEN Final(u) ELSE @]
      BY <1>1, <1>3, <1>6, <2>1, <3>1, <3>3 DEF TableDomains, CommittedDomains
    <3> QED BY <1>1, <1>5, <2>1, <3>2, <3>4, StandsBeside
  <2> QED BY <2>2, <2>3
<1>10. CommitsFit'
  <2>1. /\ DOMAIN sharers' = Clients
        /\ \A u \in Txs : step'[u] # "idle" => request'[u].kind \in Kinds
        /\ \A r \in Lockable : writer'[r] # Nobody => Past(writer[r])'
        /\ writer'["tenant"] = Nobody => Same'
    BY <1>1, <1>5, <1>6 DEF CommitsFit, Past, Same
  <2> QED BY <1>7, <1>8, <1>9, <2>1 DEF CommitsFit
<1>11. View!ReactivateCancelled(i, committed.invoice[i].version)
  <2>1. View!Current(i, committed.invoice[i].version)
    BY <1>1, <1>4 DEF View!Current
  <2>2. row = View!Stamped(committed.invoice[i], "draft")
    BY <1>4, ViewOneRow DEF row
  <2> QED BY <1>1, <1>4, <1>5, <1>6, <2>1, <2>2 DEF View!ReactivateCancelled, View!stockVars,
         View!bookVars
<1> QED BY <1>10, <1>11

-----------------------------------------------------------------------------
\* A statement goes through with its check passed.
LEMMA StatementFits ==
  ASSUME CommitsFit, TenantFirst', NEW t \in Txs, Statement(t)
  PROVE  CommitsFit'
<1>1. CASE LockTenant(t)
  <2>1. step[t] = "tenant"
    BY <1>1 DEF LockTenant
  <2>2. tenantActive
    BY <2>1 DEF Statement, Passes
  <2> QED BY <1>1, <2>2, LockTenantFits
<1>2. CASE LockInvoice(t)
  <2>1. step[t] = "invoice"
    BY <1>2 DEF LockInvoice
  <2>2. Allowed(request[t])
    BY <2>1 DEF Statement, Passes
  <2> QED BY <1>2, <2>2, LockInvoiceFits
<1>3. CASE ShareClient(t)
  <2>1. step[t] = "client"
    BY <1>3 DEF ShareClient
  <2>2. ActiveClient(invoice[request[t].id].client)
    BY <2>1 DEF Statement, Passes
  <2> QED BY <1>3, <2>2, ShareClientFits
<1>4. CASE LockLine(t)
  <2>1. step[t] = "line" /\ lines[t] # <<>>
    BY <1>4 DEF LockLine
  <2>2. CanBook(request[t], Head(lines[t]))
    BY <2>1 DEF Statement, Passes
  <2> QED BY <1>4, <2>2, LockLineFits
<1>5. CASE MoveLine(t)
  BY <1>5, MoveLineFits
<1>6. CASE BookTotal(t)
  <2>1. step[t] = "line" /\ lines[t] = <<>>
    BY <1>6 DEF BookTotal
  <2>2. invoice[request[t].id].client # NoClient
    BY <2>1 DEF Statement, Passes
  <2> QED BY <1>6, <2>2, BookTotalFits
<1>7. CASE TakeNumber(t)
  BY <1>7, TakeNumberFits
<1>8. CASE SetStatus(t)
  BY <1>8, SetStatusFits
<1>9. CASE Commit(t)
  BY <1>9, CommitFits
<1> QED
  BY <1>1, <1>2, <1>3, <1>4, <1>5, <1>6, <1>7, <1>8, <1>9, Zenon DEF Statement

\* The handlers that do not lock the tenant are those of Backend all the same.
LEMMA UnlockedFits ==
  ASSUME CommitsFit, TenantFirst', UnlockedNext
  PROVE  CommitsFit' /\ View!Next
<1>1. ASSUME NEW c \in Clients, sharers[c] = {}, Alone(DeleteClient(c))
      PROVE  CommitsFit' /\ View!Next
  <2>1. CommitsFit' /\ View!DeleteClient(c)
    BY <1>1, DeleteClientFits
  <2> QED BY <2>1, Zenon DEF View!Next, View!ClientNext
<1>2. ASSUME NEW i \in InvoiceIds, Unlocked(i),
             Alone(ReactivateCancelled(i, invoice[i].version))
      PROVE  CommitsFit' /\ View!Next
  <2>1. CommitsFit' /\ View!ReactivateCancelled(i, committed.invoice[i].version)
    BY <1>2, ReactivateFits
  <2> QED BY <2>1, Zenon DEF View!Next, View!InvoiceNext
<1> QED BY <1>1, <1>2, Zenon DEF UnlockedNext

\* Every step keeps the invariant.
LEMMA CommitsFitStep == CommitsFit /\ [TransactionsNext]_everything => CommitsFit'
<1> SUFFICES ASSUME CommitsFit, [TransactionsNext]_everything PROVE CommitsFit'
  OBVIOUS
<1>1. TenantFirst'
  BY TenantFirstStep DEF CommitsFit
<1>2. ASSUME NEW t \in Txs, NEW kind \in Kinds, NEW i \in InvoiceIds, Begin(t, kind, i)
      PROVE  CommitsFit'
  BY <1>1, <1>2, BeginFits
<1>3. ASSUME NEW t \in Txs, Statement(t)
      PROVE  CommitsFit'
  BY <1>1, <1>3, StatementFits
<1>4. ASSUME NEW t \in Txs, Refuse(t) \/ Rollback(t)
      PROVE  CommitsFit'
  <2>1. Rollback(t)
    BY <1>4 DEF Refuse
  <2> QED BY <1>1, <2>1, RollbackFits
<1>5. CASE LockedNext
  BY <1>1, <1>5, LockedFits
<1>6. CASE UnlockedNext
  BY <1>1, <1>6, UnlockedFits
<1>7. CASE UNCHANGED everything
  BY <1>7, StutterFits
<1> QED BY <1>2, <1>3, <1>4, <1>5, <1>6, <1>7, Zenon DEF TransactionsNext

\* The inductive invariant of the commits.  Only the transaction that holds the
\* tenant row has written (commerceTx); what it has written follows from the
\* committed rows and from the statement of transitionInvoice it has reached; the
\* rows it wrote are locked, and what its checks found still holds.
THEOREM CommitsAlwaysFit == TransactionsSpec => []CommitsFit
  BY InitFits, CommitsFitStep, PTL DEF TransactionsSpec

-----------------------------------------------------------------------------
\* What the transaction about to commit has written is its kind's whole handler.
LEMMA AllMoved ==
  ASSUME CommitsFit, NEW t \in Txs, step[t] = "commit", request[t].kind # "cancel"
  PROVE  /\ Done(t) = OnInvoice(Doc(t)) /\ Booked(t)
         /\ Doc(t).client # NoClient
<1>1. Past(t)
  BY DEF Past
<1>2. Stands(t)
  BY <1>1, PastFacts
<1>3. Booked(t)
  BY DEF Booked
<1>4. lines[t] = <<>>
  BY <1>2, <1>3 DEF Stands, Ordered
<1>5. Range(lines[t]) = {}
  BY <1>4 DEF Range
<1> QED BY <1>2, <1>3, <1>5 DEF Done, Stands, Checked

\* A product on the invoice moves, the others do not.
LEMMA MovedOnes ==
  ASSUME CommitsFit, NEW t \in Txs, Past(t), NEW p \in Products
  PROVE  Change(t, p) # 0 <=> p \in OnInvoice(Doc(t))
<1>1. Doc(t).items[p].qty \in Nat
  BY PastFacts, WholeType
<1> QED BY <1>1 DEF Change, StockOf, OnInvoice

\* The stock of a committed transition.
LEMMA StockCommitted ==
  ASSUME CommitsFit, NEW t \in Txs, Commit(t), request[t].kind # "cancel"
  PROVE  View!MoveStock(request[t].id, [p \in Products |-> Change(t, p)])
<1>0. step[t] = "commit"
  BY DEF Commit
<1>1. Same' /\ UNCHANGED vars /\ Past(t)
  BY CommitIsAll
<1>2. UNCHANGED <<product, correction, movement>>
  BY <1>1 DEF vars, stockVars
<1>3. Stands(t) /\ Done(t) = OnInvoice(Doc(t)) /\ request[t].id \in InvoiceIds
  BY <1>0, <1>1, AllMoved, PastFacts
<1>4. PICK i \in InvoiceIds : i = request[t].id
  BY <1>3
<1>5. PICK D \in [Products -> Int] : D = [p \in Products |-> Change(t, p)]
  BY <1>1, PastFacts
<1>6. \A p \in Products : D[p] # 0 <=> p \in Done(t)
  BY <1>1, <1>3, <1>5, MovedOnes
<1>7. ASSUME NEW p \in Products, D[p] # 0
      PROVE  View!CanMove(committed.product[p], D[p])
  <2>1. CanMove(committed.product[p], Change(t, p))
    BY <1>3, <1>6, <1>7 DEF Stands, Checked, Tested
  <2> QED BY <1>5, <2>1 DEF CanMove, View!CanMove
<1>8. committed'.product = [p \in Products |->
         IF D[p] = 0 THEN committed.product[p] ELSE View!Restocked(committed.product[p],
         D[p])]
  <2>1. \A p \in Products :
          RowNow(t, p) = IF D[p] = 0 THEN committed.product[p]
                                     ELSE View!Restocked(committed.product[p], D[p])
    BY <1>5, <1>6 DEF RowNow, Restocked, View!Restocked
  <2>2. committed'.product = [p \in Products |-> RowNow(t, p)]
    BY <1>1, <1>2, <1>3 DEF Same, Stands, Written
  <2> QED BY <2>1, <2>2
<1>9. committed'.movement =
        [committed.movement EXCEPT ![i] = [p \in Products |-> committed.movement[i][p] + D[p]]]
  <2>1. \A p \in Products : SumNow(t, p) = committed.movement[i][p] + D[p]
    BY <1>4, <1>5, <1>6 DEF SumNow
  <2>2. committed'.movement =
          [committed.movement EXCEPT ![i] = [p \in Products |-> SumNow(t, p)]]
    BY <1>1, <1>2, <1>3, <1>4 DEF Same, Stands, Written
  <2> QED BY <2>1, <2>2
<1>10. View!MoveStock(i, D)
  BY <1>2, <1>7, <1>8, <1>9 DEF View!MoveStock
<1> QED BY <1>4, <1>5, <1>10

\* Its account.
LEMMA AccountCommitted ==
  ASSUME CommitsFit, NEW t \in Txs, Commit(t), request[t].kind # "cancel"
  PROVE  View!Book(request[t].id, Debt(t))
<1>0. step[t] = "commit"
  BY DEF Commit
<1>1. Same' /\ UNCHANGED vars /\ Past(t)
  BY CommitIsAll
<1>2. Stands(t) /\ Booked(t) /\ Doc(t).client # NoClient
  BY <1>0, <1>1, AllMoved, PastFacts
<1>3. ledger = [committed.ledger EXCEPT ![request[t].id] = @ + Debt(t)]
  BY <1>2 DEF Stands, Written
<1>4. committed'.ledger = ledger
  BY <1>1 DEF Same, vars, bookVars
<1> QED BY <1>2, <1>3, <1>4 DEF View!Book, Doc

\* Its document and its number.
LEMMA DocumentCommitted ==
  ASSUME CommitsFit, NEW t \in Txs, Commit(t), NEW i, i = request[t].id
  PROVE  /\ i \in InvoiceIds
         /\ View!Transition(i, committed.invoice[i].version, From(request[t].kind))
         /\ committed'.invoice = [committed.invoice EXCEPT ![i] = Final(t)]
         /\ committed'.nextNumber = committed.nextNumber + (IF HasNumber(t) THEN 1 ELSE 0)
         /\ UNCHANGED <<tenantActive, client, correction, receipt>>
<1>0. step[t] = "commit"
  BY DEF Commit
<1>1. Same' /\ UNCHANGED vars /\ Past(t)
  BY CommitIsAll
<1>2. Stands(t) /\ i \in InvoiceIds
  BY <1>1, PastFacts
<1>3. /\ invoice = [committed.invoice EXCEPT ![i] = Final(t)]
      /\ nextNumber = committed.nextNumber + (IF HasNumber(t) THEN 1 ELSE 0)
  BY <1>0, <1>2 DEF Stands, Written
<1>4. UNCHANGED <<tenantActive, client, correction, receipt, invoice, nextNumber>>
  BY <1>1 DEF vars, stockVars, bookVars
<1>5. committed'.invoice = invoice /\ committed'.nextNumber = nextNumber
  BY <1>1, <1>4 DEF Same
<1>6. /\ tenantActive
      /\ Doc(t).status = From(request[t].kind) /\ Doc(t).version < MaxVersion
  BY <1>0, <1>2 DEF Stands, Checked
<1>7. View!Transition(i, committed.invoice[i].version, From(request[t].kind))
  BY <1>6 DEF View!Transition, View!CommerceTx, View!Current, Doc
<1> QED BY <1>2, <1>3, <1>4, <1>5, <1>7

\* The stock and the debt of a whole invoice, posted or reactivated.
LEMMA BookingCommitted ==
  ASSUME CommitsFit, NEW t \in Txs, Commit(t), request[t].kind \in {"post", "reactivate"}
  PROVE  View!BookInvoice(request[t].id)
<1>0. step[t] = "commit"
  BY DEF Commit
<1>1. Past(t)
  BY CommitIsAll
<1>2. Stands(t) /\ Done(t) = OnInvoice(Doc(t))
  BY <1>0, <1>1, AllMoved, PastFacts
<1>3. PICK i : i = request[t].id
  OBVIOUS
<1>4. Doc(t) = committed.invoice[i]
  BY <1>3 DEF Doc
<1>5. View!ActiveClient(committed.invoice[i].client)
  BY <1>0, <1>2, <1>4 DEF Stands, Checked, ActiveClient, View!ActiveClient
<1>6. \A p \in View!OnInvoice(committed.invoice[i]) :
        /\ committed.product[p].active
        /\ committed.product[p].pieces = committed.invoice[i].items[p].pieces
  <2>1. View!OnInvoice(committed.invoice[i]) = Done(t)
    BY <1>2, <1>4 DEF OnInvoice, View!OnInvoice
  <2> QED BY <1>2, <1>4, <2>1 DEF Stands, Checked, Tested
<1>7. [p \in Products |-> Change(t, p)] =
        [p \in Products |-> View!StockOf(committed.invoice[i].doc,
                                         committed.invoice[i].items[p].qty)]
  BY <1>4 DEF Change, StockOf, View!StockOf
<1>8. Debt(t) = View!DebtOf(committed.invoice[i].doc, committed.invoice[i].total)
  BY <1>4 DEF Debt, DebtOf, View!DebtOf
<1>9. View!MoveStock(i, [p \in Products |-> Change(t, p)]) /\ View!Book(i, Debt(t))
  BY <1>3, StockCommitted, AccountCommitted
<1>10. View!BookInvoice(i)
  BY <1>5, <1>6, <1>7, <1>8, <1>9, Zenon DEF View!BookInvoice
<1> QED BY <1>3, <1>10

\* A cancelled draft moves neither stock nor account.
LEMMA CancelMovesNothing ==
  ASSUME CommitsFit, NEW t \in Txs, Commit(t), request[t].kind = "cancel"
  PROVE  UNCHANGED <<committed.product, committed.movement, committed.ledger>>
<1>0. step[t] = "commit"
  BY DEF Commit
<1>1. Same' /\ UNCHANGED vars /\ Past(t)
  BY CommitIsAll
<1>2. UNCHANGED <<product, movement, ledger>>
  BY <1>1 DEF vars, stockVars, bookVars
<1>3. Stands(t) /\ request[t].id \in InvoiceIds /\ OnInvoice(Doc(t)) \subseteq Range(lines[t])
  BY <1>0, <1>1, PastFacts DEF Stands, Ordered
<1>4. PICK i \in InvoiceIds : i = request[t].id
  BY <1>3
<1>5. Done(t) = {} /\ ~Booked(t)
  BY <1>0, <1>3 DEF Done, Booked
<1>6. /\ product = [q \in Products |-> RowNow(t, q)]
      /\ movement = [committed.movement EXCEPT ![i] = [q \in Products |-> SumNow(t, q)]]
      /\ ledger = [committed.ledger EXCEPT ![i] = @ + (IF Booked(t) THEN Debt(t) ELSE 0)]
  BY <1>3, <1>4, Zenon DEF Stands, Written
<1>7. /\ committed.product \in [Products -> Product]
      /\ committed.movement \in [InvoiceIds -> [Products -> Int]]
      /\ committed.ledger \in [InvoiceIds -> Int]
  BY DEF CommitsFit, CommittedTyped
<1>8. product = committed.product
  BY <1>5, <1>6, <1>7 DEF RowNow
<1>9. movement = committed.movement
  <2>1. \A q \in Products : SumNow(t, q) = committed.movement[i][q]
    BY <1>4, <1>5, <1>7 DEF SumNow
  <2>2. [q \in Products |-> SumNow(t, q)] = [q \in Products |-> committed.movement[i][q]]
    BY <2>1
  <2>3. committed.movement[i] = [q \in Products |-> committed.movement[i][q]]
    BY <1>7
  <2>4. movement = [committed.movement EXCEPT ![i] = committed.movement[i]]
    BY <1>6, <2>2, <2>3
  <2> QED BY <1>7, <2>4
<1>10. ledger = committed.ledger
  <2>1. committed.ledger[i] + 0 = committed.ledger[i]
    BY <1>7
  <2>2. ledger = [committed.ledger EXCEPT ![i] = committed.ledger[i]]
    BY <1>5, <1>6, <2>1
  <2> QED BY <1>7, <2>2
<1> QED BY <1>1, <1>2, <1>8, <1>9, <1>10 DEF Same

\* A commit is one whole handler of Backend on the committed tables.
LEMMA CommitIsHandler ==
  ASSUME CommitsFit, NEW t \in Txs, Commit(t)
  PROVE  View!Next
<1>0. step[t] = "commit"
  BY DEF Commit
<1>1. Past(t)
  BY CommitIsAll
<1>2. request[t].kind \in Kinds /\ Stands(t)
  BY <1>1, PastFacts
<1>3. PICK i, v : i = request[t].id /\ v = committed.invoice[i].version
  OBVIOUS
<1>4. /\ i \in InvoiceIds
      /\ View!Transition(i, v, From(request[t].kind))
      /\ committed'.invoice = [committed.invoice EXCEPT ![i] = Final(t)]
      /\ committed'.nextNumber = committed.nextNumber + (IF HasNumber(t) THEN 1 ELSE 0)
      /\ UNCHANGED <<tenantActive, client, correction, receipt>>
  BY <1>3, DocumentCommitted
<1>5. committed.nextNumber \in Nat /\ Doc(t) = committed.invoice[i]
  BY <1>3 DEF CommitsFit, CommittedTyped, Doc
<1>6. \A s : View!Stamped(committed.invoice[i], s) = Stamped(Doc(t), s)
  BY <1>5, ViewOneRow
<1>7. ASSUME request[t].kind # "post"
      PROVE  committed'.nextNumber = committed.nextNumber
  BY <1>4, <1>5, <1>7 DEF HasNumber
<1>8. CASE request[t].kind = "post"
  <2>1. View!BookInvoice(i)
    BY <1>3, <1>8, BookingCommitted
  <2>2. /\ committed'.invoice = [committed.invoice EXCEPT ![i] =
             [View!Stamped(committed.invoice[i], "posted") EXCEPT !.number =
                committed.nextNumber]]
        /\ committed'.nextNumber = committed.nextNumber + 1
    BY <1>0, <1>4, <1>6, <1>8 DEF Final, HasNumber
  <2>3. View!Transition(i, v, "draft")
    BY <1>4, <1>8 DEF From
  <2>4. View!PostInvoice(i, v)
    BY <1>4, <2>1, <2>2, <2>3 DEF View!PostInvoice
  <2>5. View!InvoiceNext
    BY <1>3, <1>4, <2>4, Zenon DEF View!InvoiceNext
  <2> QED BY <2>5, Zenon DEF View!Next
<1>9. CASE request[t].kind = "reactivate"
  <2>1. View!BookInvoice(i)
    BY <1>3, <1>9, BookingCommitted
  <2>2. committed'.invoice =
          [committed.invoice EXCEPT ![i] = View!Stamped(committed.invoice[i], "posted")]
    BY <1>4, <1>6, <1>9 DEF Final, Target
  <2>3. View!Transition(i, v, "void")
    BY <1>4, <1>9 DEF From
  <2>4. View!ReactivateVoid(i, v)
    BY <1>4, <1>7, <1>9, <2>1, <2>2, <2>3 DEF View!ReactivateVoid
  <2>5. View!InvoiceNext
    BY <1>3, <1>4, <2>4, Zenon DEF View!InvoiceNext
  <2> QED BY <2>5, Zenon DEF View!Next
<1>10. CASE request[t].kind = "void"
  <2>1. View!MoveStock(i, [p \in Products |-> Change(t, p)]) /\ View!Book(i, Debt(t))
    BY <1>3, <1>10, StockCommitted, AccountCommitted
  <2>2. [p \in Products |-> Change(t, p)] =
          [p \in Products |-> -View!StockOf(committed.invoice[i].doc,
                                            committed.invoice[i].items[p].qty)]
    BY <1>5, <1>10 DEF Change, StockOf, View!StockOf
  <2>3. Debt(t) = -View!DebtOf(committed.invoice[i].doc, committed.invoice[i].total)
    BY <1>5, <1>10 DEF Debt, DebtOf, View!DebtOf
  <2>4. committed'.invoice =
          [committed.invoice EXCEPT ![i] = View!Stamped(committed.invoice[i], "void")]
    BY <1>4, <1>6, <1>10 DEF Final, Target
  <2>5. View!Transition(i, v, "posted")
    BY <1>4, <1>10 DEF From
  <2>6. UNCHANGED <<tenantActive, client, committed.nextNumber, receipt>>
    BY <1>4, <1>7, <1>10
  <2>7. View!VoidInvoice(i, v)
    BY <2>1, <2>2, <2>3, <2>4, <2>5, <2>6, Zenon DEF View!VoidInvoice
  <2>8. View!InvoiceNext
    BY <1>3, <1>4, <2>7, Zenon DEF View!InvoiceNext
  <2> QED BY <2>8, Zenon DEF View!Next
<1>11. CASE request[t].kind = "cancel"
  <2>1. UNCHANGED <<committed.product, committed.movement, committed.ledger>>
    BY <1>11, CancelMovesNothing
  <2>2. committed'.invoice =
          [committed.invoice EXCEPT ![i] = View!Stamped(committed.invoice[i], "cancelled")]
    BY <1>4, <1>6, <1>11 DEF Final, Target
  <2>3. View!Transition(i, v, "draft")
    BY <1>4, <1>11 DEF From
  <2>4. View!CancelInvoice(i, v)
    BY <1>4, <1>7, <1>11, <2>1, <2>2, <2>3 DEF View!CancelInvoice, View!stockVars,
       View!bookVars
  <2>5. View!InvoiceNext
    BY <1>3, <1>4, <2>4, Zenon DEF View!InvoiceNext
  <2> QED BY <2>5, Zenon DEF View!Next
<1> QED BY <1>2, <1>8, <1>9, <1>10, <1>11 DEF Kinds

\* Every step of the statements is a step of Backend on the committed tables, or none.
LEMMA StepRefines ==
  ASSUME CommitsFit, [TransactionsNext]_everything
  PROVE  [View!Next]_(View!vars)
<1> DEFINE Stays == UNCHANGED <<tenantActive, correction, client, receipt, committed>>
<1>1. ASSUME Stays PROVE UNCHANGED View!vars
  BY <1>1 DEF View!vars, View!stockVars, View!bookVars
<1>2. ASSUME NEW t \in Txs, NEW kind \in Kinds, NEW i \in InvoiceIds, Begin(t, kind, i)
      PROVE  Stays
  BY <1>2 DEF Begin, vars, stockVars
<1>3. ASSUME NEW t \in Txs, Statement(t)
      PROVE  Stays \/ View!Next
  <2>1. CASE LockTenant(t) \/ LockInvoice(t) \/ ShareClient(t) \/ LockLine(t)
    BY <2>1 DEF LockTenant, LockInvoice, ShareClient, LockLine, vars, stockVars
  <2>2. CASE MoveLine(t) \/ BookTotal(t) \/ TakeNumber(t) \/ SetStatus(t)
    BY <2>2 DEF MoveLine, BookTotal, TakeNumber, SetStatus, stockVars
  <2>3. CASE Commit(t)
    BY <2>3, CommitIsHandler
  <2> HIDE DEF Stays
  <2> QED BY <1>3, <2>1, <2>2, <2>3, Zenon DEF Statement
<1>4. ASSUME NEW t \in Txs, Refuse(t) \/ Rollback(t)
      PROVE  Stays
  BY <1>4 DEF Refuse, Rollback
<1>5. CASE LockedNext
  BY <1>5, LockedSame, ViewNext
<1>6. CASE UnlockedNext
  <2>1. TenantFirst'
    BY TenantFirstStep DEF CommitsFit
  <2> QED BY <1>6, <2>1, UnlockedFits
<1>7. ASSUME UNCHANGED everything PROVE Stays
  BY <1>7 DEF everything, txVars, vars, stockVars
<1> HIDE DEF Stays
<1> QED BY <1>1, <1>2, <1>3, <1>4, <1>5, <1>6, <1>7, Zenon DEF TransactionsNext

\* The tables start as in Backend.
LEMMA InitRefines == TransactionsInit => View!Init
<1> SUFFICES ASSUME TransactionsInit PROVE View!Init
  OBVIOUS
<1>1. Same /\ Init
  BY DEF TransactionsInit, NoneOpen, Tables, Same
<1> QED BY <1>1 DEF Same, Init, View!Init, NoProduct, View!NoProduct, NoAccount,
       View!NoAccount, NoInvoice, View!NoInvoice, NoItem, View!NoItem, NoReceipt,
       View!NoReceipt

\* The committed tables move only by the whole handlers of Backend, whatever
\* statements of transitionInvoice interleave and wherever a request breaks off
\* (docs/commerce-api.md:76).
THEOREM TransactionsRefineBackend == TransactionsSpec => RefinesBackend
<1>1. TransactionsInit => View!Init
  BY InitRefines
<1>2. CommitsFit /\ [TransactionsNext]_everything => [View!Next]_(View!vars)
  BY StepRefines
<1> QED
  BY <1>1, <1>2, CommitsAlwaysFit, PTL DEF RefinesBackend, TransactionsSpec, View!Spec
=============================================================================
