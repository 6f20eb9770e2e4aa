---------------------------- MODULE MCDocuments ----------------------------
(***************************************************************************)
(* Values of Documents' constants for TLC.                                 *)
(***************************************************************************)
EXTENDS Documents, TLC

CONSTANTS k1, k2, k3, r1, r2

\* Every call may fail at any time, so a client that has left is told apart only where
\* a call has a context of its own.
OthersStay == \A r \in Requests : job[r].gone => At(r, "pdfLink")

\* What goes wrong with one key does so whatever is in doubt of another.
OneInDoubt == Cardinality(doubt) <= 1

Symmetry == Permutations(Keys) \cup Permutations(Requests)
=============================================================================
