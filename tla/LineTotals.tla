----------------------------- MODULE LineTotals -----------------------------
(***************************************************************************)
(* The total of an invoice line (internal/server/invoices.go, lineTotal)   *)
(* in machine integers: a product is taken modulo 2^w.                     *)
(***************************************************************************)
EXTENDS Integers

CONSTANTS
  MaxPrice,     \* maxPrice
  MaxQuantity,  \* maxQuantity
  MaxTotal,     \* maxTotal
  Word          \* 2^(w-1) of an int of w bits

\* The machine's result for the integer x.
Wrap(x) == ((x + Word) % (2 * Word)) - Word

InRange(price, units, packs) ==
  /\ price \in 0 .. MaxPrice
  /\ units \in 1 .. MaxQuantity
  /\ packs \in 1 .. MaxQuantity

\* Mutant: the product of the quantities is not bounded before it is used.
Fits_PriceOnly(price, units, packs) ==
  LET pieces == Wrap(units * packs)
  IN  price > 0 => pieces # 0 /\ price <= MaxTotal \div pieces

\* The second check: each division is of the largest total by what is in range.
Fits(price, units, packs) ==
  /\ units <= MaxTotal \div packs
  /\ price > 0 => price <= MaxTotal \div Wrap(units * packs)

LineTotal(price, units, packs) ==
  IF InRange(price, units, packs) /\ Fits(price, units, packs)
  THEN [ok |-> TRUE, total |-> Wrap(Wrap(price * units) * packs)]
  ELSE [ok |-> FALSE, total |-> 0]

-----------------------------------------------------------------------------
\* The bounds refuse exactly the lines whose true total is too large, and what is
\* accepted never wrapped on the way, although the limits of the three factors
\* together are far beyond the word.  (A line that costs nothing is bounded by its
\* pieces.)
Exact(price, units, packs) ==
  LET line == LineTotal(price, units, packs)
  IN  InRange(price, units, packs) =>
        /\ line.ok <=> units * packs <= MaxTotal /\ price * units * packs <= MaxTotal
        /\ line.ok => line.total = price * units * packs
=============================================================================
