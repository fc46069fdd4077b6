----------------------------- MODULE MCAutoBackup -----------------------------
(* Instances of AutoBackup for TLC. *)
EXTENDS AutoBackup

\* 15 minutes, 1 hour and 3 hours, scaled down with the interval of 6 hours.
Delays == <<1, 1, 2>>
=============================================================================
