---------------------------- MODULE ClientHandlers ----------------------------
(***************************************************************************)
(* Clients, their opening balance and receipts, and the balance every      *)
(* screen shows (internal/server/clients.go, client_receipts.go).  A       *)
(* client's owning user is left out.                                       *)
(***************************************************************************)
EXTENDS Commerce

(***************************************************************************)
(* clientDisplayQuery: opening balance, plus the client_ledger rows, minus *)
(* the payments and receipts.  A payment on a purchase and a receipt "out" *)
(* are money paid to the client.                                           *)
(***************************************************************************)
Opening(account) ==
  IF account.type = "payable" THEN -account.minor ELSE account.minor

ReceiptEffect(direction, amount) == IF direction = "in" THEN -amount ELSE amount

InvoiceDebt(i) == ledger[i] - DebtOf(invoice[i].doc, invoice[i].paid)

InvoicesOf(c) == {i \in InvoiceIds : invoice[i].client = c}

ReceiptsOf(c) == {r \in ReceiptIds : receipt[r].row = "live" /\ receipt[r].client = c}

Received(r) == ReceiptEffect(receipt[r].direction, receipt[r].amount)

Balance(c) ==
  Opening(client[c]) + SumFunction([i \in InvoicesOf(c) |-> InvoiceDebt(i)])
                     + SumFunction([r \in ReceiptsOf(c) |-> Received(r)])

\* clientInput.apply: a negative opening balance is a payable one.
Applied(in, account) ==
  LET minor == Given(in.minor, account.minor)
      type  == IF minor < 0 THEN "payable" ELSE account.type
  IN  [account EXCEPT !.active = Given(in.active, @),
                      !.minor = IF minor < 0 THEN -minor ELSE minor,
                      !.type = Given(in.type, type)]

CreateClient(c, in) ==
  /\ CommerceTx
  /\ client[c].row = "unused"
  /\ client' = [client EXCEPT ![c] =
        Applied(in, [NoAccount EXCEPT !.row = "live", !.active = TRUE])]
  /\ UNCHANGED <<tenantActive, stockVars, invoice, bookVars, receipt>>

UpdateClient(c, in) ==
  /\ CommerceTx
  /\ client[c].row = "live"
  /\ client' = [client EXCEPT ![c] = Applied(in, client[c])]
  /\ UNCHANGED <<tenantActive, stockVars, invoice, bookVars, receipt>>

(***************************************************************************)
(* deleteClientAssociations: the invoices stay, without their client, and  *)
(* the client's payments, ledger rows and receipts go.  The invoice_returns*)
(* rows keep the client.                                                   *)
(***************************************************************************)
DeleteClientAssociations(c) ==
  LET owned == InvoicesOf(c)
  IN  /\ CommerceTx
      /\ client[c].row = "live"
      /\ invoice' = [i \in InvoiceIds |->
            IF i \in owned THEN [invoice[i] EXCEPT !.client = NoClient, !.paid = 0]
            ELSE invoice[i]]
      /\ ledger' = [i \in InvoiceIds |-> IF i \in owned THEN 0 ELSE ledger[i]]
      /\ receipt' = [r \in ReceiptIds |->
            IF receipt[r].client = c THEN [NoReceipt EXCEPT !.row = "deleted"]
            ELSE receipt[r]]
      /\ UNCHANGED <<tenantActive, stockVars, client, nextNumber>>

\* Mutant: without fk_return_client.
HasRows_NoReturns(c) ==
  \/ \E i \in InvoiceIds : c = invoice[i].client
  \/ \E r \in ReceiptIds : receipt[r].row = "live" /\ receipt[r].client = c

\* The counts of deleteClient and the foreign keys its DELETE meets.
HasRows(c) ==
  \/ \E i \in InvoiceIds : c \in {invoice[i].client, invoice[i].returnsClient}
  \/ \E r \in ReceiptIds : receipt[r].row = "live" /\ receipt[r].client = c

\* deleteClient takes no tenant row.
DeleteClient(c) ==
  /\ client[c].row = "live"
  /\ ~HasRows(c)
  /\ client' = [client EXCEPT ![c] = [NoAccount EXCEPT !.row = "deleted"]]
  /\ UNCHANGED <<tenantActive, stockVars, invoice, bookVars, receipt>>

\* Mutant: the side of the balance is checked, its size is not.
WithinBalance_AnyAmount(balance, in) ==
  IF in.direction = "in" THEN balance > 0 ELSE balance < 0

(***************************************************************************)
(* Receipts: money in up to what the client owes, money out up to what is  *)
(* owed to the client.                                                     *)
(***************************************************************************)
WithinBalance(balance, in) ==
  IF in.direction = "in" THEN balance > 0 /\ in.amount <= balance
                         ELSE balance < 0 /\ in.amount <= -balance

CreateReceipt(r, c, in) ==
  /\ CommerceTx
  /\ client[c].row = "live"
  /\ receipt[r].row = "unused"
  /\ in.amount <= MaxPrice
  /\ WithinBalance(Balance(c), in)
  /\ receipt' = [receipt EXCEPT ![r] = [row |-> "live", client |-> c,
                                        direction |-> in.direction,
                                        amount |-> in.amount]]
  /\ UNCHANGED <<tenantActive, stockVars, client, invoice, bookVars>>

\* The balance without the old receipt, with the new one, may not change side.
Resulting(r, in) ==
  Balance(receipt[r].client)
  - Received(r)
  + ReceiptEffect(in.direction, in.amount)

UpdateReceipt(r, in) ==
  /\ CommerceTx
  /\ receipt[r].row = "live"
  /\ in.amount <= MaxPrice
  /\ Resulting(r, in) < 0 => in.direction = "out"
  /\ Resulting(r, in) > 0 => in.direction = "in"
  /\ receipt' = [receipt EXCEPT ![r] =
        [receipt[r] EXCEPT !.direction = in.direction, !.amount = in.amount]]
  /\ UNCHANGED <<tenantActive, stockVars, client, invoice, bookVars>>

DeleteReceipt(r) ==
  /\ CommerceTx
  /\ receipt[r].row = "live"
  /\ receipt' = [receipt EXCEPT ![r] = [NoReceipt EXCEPT !.row = "deleted"]]
  /\ UNCHANGED <<tenantActive, stockVars, client, invoice, bookVars>>

ClientNext ==
  \/ \E c \in Clients :
       \/ \E in \in ClientInputs : CreateClient(c, in) \/ UpdateClient(c, in)
       \/ DeleteClientAssociations(c)
       \/ DeleteClient(c)
       \/ \E r \in ReceiptIds, in \in ReceiptInputs : CreateReceipt(r, c, in)
  \/ \E r \in ReceiptIds :
       \/ \E in \in ReceiptInputs : UpdateReceipt(r, in)
       \/ DeleteReceipt(r)
=============================================================================
