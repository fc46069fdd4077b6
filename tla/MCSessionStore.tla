---------------------------- MODULE MCSessionStore ----------------------------
(* Instances of SessionStore for TLC. *)
EXTENDS SessionStore, TLC

\* The code locks after ten failures, or five under the strict policy.
Thresholds == [p \in Policies |-> IF p = "standard" THEN 2 ELSE 1]

\* Each account has its name, and one of them a second spelling that leads to it:
\* a character no username has is typed into it.
TypedNames == {"adman", "ad man", "staff"}
StoredNames == [a \in Accounts |-> IF a = Adman THEN "adman" ELSE "staff"]
Owners == [n \in TypedNames |->
  IF n = "staff" THEN CHOOSE a \in Accounts : a # Adman ELSE Adman]

\* Interchangeable; no liveness is checked.
Symmetry == Permutations(Threads)
=============================================================================
