----------------------------- MODULE MCLanServer -----------------------------
(* Instances of LanServer for TLC. *)
EXTENDS LanServer
=============================================================================
