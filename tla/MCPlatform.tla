------------------------------ MODULE MCPlatform ------------------------------
(***************************************************************************)
(* Values of Platform's constants for TLC: of the 25 migrations one of     *)
(* each shape, in the order they have.                                     *)
(***************************************************************************)
EXTENDS Platform

CONSTANTS a1, a2, p1, p2, q1, q2, d1, d2, d3

\* The least sort_order.
Least == -1

Do(kind, names) == [kind |-> kind, names |-> names]
Plain(statements) == [owners |-> FALSE, statements |-> statements]

\* 001 and 003, 002, 006, 012, 015 and 019.
Files == <<
  Plain(<<Do("create", {"users"}), Do("create", {"price", "numbers", "once"})>>),
  [owners |-> TRUE, statements |-> <<Do("add", {"slot"})>>],
  Plain(<<Do("dropCheck", {"numbers"}), Do("drop", {"price"}), Do("add", {"numbers"})>>),
  Plain(<<Do("undo", {}), Do("purge", {})>>),
  Plain(<<Do("drop", {"once"})>>),
  Plain(<<Do("create", {"returns"}), Do("add", {"return_id"}), Do("drop", {"once"})>>) >>
=============================================================================
