--------------------------- MODULE ProductHandlers ---------------------------
(***************************************************************************)
(* POST, PATCH and DELETE /products (internal/server/products.go).         *)
(***************************************************************************)
EXTENDS Commerce

\* saveProduct's limits on the row it is about to write.
ValidProduct(row) ==
  /\ row.quantity \in 0..MaxQuantity
  /\ row.pieces \in 1..MaxPieces

\* Mutant: a manual change of the stock without its stock_movements row.
Correct_Silently(p, change) == UNCHANGED correction

\* The stock_movements row of a manual change: "opening" or "adjustment".
Correct(p, change) == correction' = [correction EXCEPT ![p] = @ + change]

CreateProduct(p, in) ==
  LET row == [row |-> "live", active |-> Given(in.active, TRUE),
              quantity |-> in.quantity, pieces |-> in.pieces, version |-> 1]
  IN  /\ CommerceTx
      /\ product[p].row = "unused"
      /\ in.quantity # Absent /\ in.pieces # Absent
      /\ ValidProduct(row)
      /\ product' = [product EXCEPT ![p] = row]
      /\ Correct(p, row.quantity)
      /\ UNCHANGED <<tenantActive, movement, client, invoice, bookVars, receipt>>

\* The version the request carries must be the row's.
UpdateProduct(p, version, in) ==
  LET old == product[p]
      row == [old EXCEPT !.active = Given(in.active, @),
                         !.quantity = Given(in.quantity, @),
                         !.pieces = Given(in.pieces, @),
                         !.version = @ + 1]
  IN  /\ CommerceTx
      /\ old.row = "live" /\ old.version = version
      /\ ValidProduct(row)
      /\ old.version < MaxVersion
      /\ product' = [product EXCEPT ![p] = row]
      /\ Correct(p, row.quantity - old.quantity)
      /\ UNCHANGED <<tenantActive, movement, client, invoice, bookVars, receipt>>

\* Mutant: a product whose invoices have no returns is deleted.
Referenced_ByReturns(p) == \E i \in InvoiceIds : invoice[i].returned[p] > 0

\* fk_item_product and fk_return_item_product.
Referenced(p) ==
  \E i \in InvoiceIds : invoice[i].items[p].qty > 0 \/ invoice[i].returned[p] > 0

\* The product goes with its whole stock history.
DeleteProduct(p) ==
  /\ CommerceTx
  /\ product[p].row = "live"
  /\ ~Referenced(p)
  /\ product' = [product EXCEPT ![p] = [NoProduct EXCEPT !.row = "deleted"]]
  /\ correction' = [correction EXCEPT ![p] = 0]
  /\ movement' = [i \in InvoiceIds |-> [movement[i] EXCEPT ![p] = 0]]
  /\ UNCHANGED <<tenantActive, client, invoice, bookVars, receipt>>

ProductNext ==
  \E p \in Products :
    \/ \E in \in ProductInputs : CreateProduct(p, in)
    \/ \E in \in ProductInputs : UpdateProduct(p, product[p].version, in)
    \/ DeleteProduct(p)
=============================================================================
