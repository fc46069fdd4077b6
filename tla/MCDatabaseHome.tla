---------------------------- MODULE MCDatabaseHome ----------------------------
(***************************************************************************)
(* DatabaseHome for TLC: the threads are interchangeable, and what is       *)
(* checked is safety only.                                                  *)
(***************************************************************************)
EXTENDS DatabaseHome, TLC

Interchangeable == Permutations(Threads)
=============================================================================
