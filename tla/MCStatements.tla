----------------------------- MODULE MCStatements -----------------------------
(***************************************************************************)
(* Values of the constants of Statements for TLC: those of MCBackend.      *)
(***************************************************************************)
EXTENDS MCBackend, Statements
=============================================================================
