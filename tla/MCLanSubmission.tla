--------------------------- MODULE MCLanSubmission ---------------------------
(* Instances of LanSubmission for TLC. *)
EXTENDS LanSubmission, TLC

\* Interchangeable; no liveness is checked.
Symmetry == Permutations(Assets) \cup Permutations(Employees)
              \cup Permutations(Handlers) \cup Permutations(RequestIds)
=============================================================================
