----------------------------- MODULE MCRequests -----------------------------
(***************************************************************************)
(* Values of Requests' constants for TLC.                                  *)
(***************************************************************************)
EXTENDS Requests, TLC

CONSTANTS p1, c1, i1, a1, a2

Keep == [active |-> Absent, quantity |-> Absent, pieces |-> Absent]

\* One body that creates a product with stock, and a later correction of it.
StockThenCorrection ==
  {[Keep EXCEPT !.quantity = 2, !.pieces = 1], [Keep EXCEPT !.quantity = 1]}

PlainClient == {[active |-> Absent, minor |-> Absent, type |-> Absent]}

TwoLines == {[qty |-> 1, price |-> 1], [qty |-> 2, price |-> 1]}

AppSymmetry == Permutations(Apps)
=============================================================================
