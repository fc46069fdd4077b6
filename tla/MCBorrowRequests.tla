--------------------------- MODULE MCBorrowRequests ---------------------------
(* Instances of BorrowRequests for TLC. *)
EXTENDS BorrowRequests, TLC

\* Assets and employees are interchangeable; no liveness is checked.
Symmetry == Permutations(Assets) \cup Permutations(Employees)
=============================================================================
