--------------------------- MODULE MCRecoveryLedger ---------------------------
(* Instances of RecoveryLedger for TLC. *)
EXTENDS RecoveryRefinement, RecoveryInvariant, TLC

\* Accounts, code positions and threads are interchangeable; no liveness is
\* checked in the runs that use it.
Symmetry == Permutations(Accounts) \cup Permutations(Codes) \cup Permutations(Threads)
=============================================================================
