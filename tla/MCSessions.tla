----------------------------- MODULE MCSessions -----------------------------
(***************************************************************************)
(* Values of Sessions' constants for TLC.                                  *)
(***************************************************************************)
EXTENDS Sessions, TLC

CONSTANTS u1, u2, u3, k1, k2, l1, r1, r2, old

\* A reset, a new email, and (de)activation.
FewUserInputs == {[password |-> old, active |-> Absent, other |-> FALSE],
                  [password |-> Absent, active |-> Absent, other |-> TRUE],
                  [password |-> Absent, active |-> FALSE, other |-> FALSE],
                  [password |-> Absent, active |-> TRUE, other |-> FALSE]}

Symmetry == Permutations(Users) \cup Permutations(Tokens) \cup Permutations(Logins)
            \cup Permutations(Changes)
=============================================================================
