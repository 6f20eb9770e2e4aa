------------------------------- MODULE Promises -------------------------------
(***************************************************************************)
(* What the documents, comments and tests of the repository say of the     *)
(* commerce back end and its code does not do.  Each run of one of these   *)
(* ends in a counterexample.                                               *)
(***************************************************************************)
EXTENDS Backend

\* "Voiding a posted invoice atomically restores stock and reverses debt"
\* (docs/design.md:24): a void invoice has taken no stock and booked no debt.
\* transitionInvoice reverses the whole quantity and total, so what came back
\* in a return before the void comes back twice.
VoidUndoesInvoice ==
  \A i \in InvoiceIds : invoice[i].status = "void" =>
    ledger[i] = 0 /\ \A p \in Products : movement[i][p] = 0

\* The cleanup endpoint frees the client for deletion, "so the existing composite
\* foreign keys can remain in place" (migration 018): no row refers to a client
\* right after deleteClientAssociations.
CleanupFreesClient ==
  [][\A c \in Clients : DeleteClientAssociations(c) => ~HasRows(c)']_vars
=============================================================================
