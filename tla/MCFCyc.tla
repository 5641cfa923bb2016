------------------------------- MODULE MCFCyc -------------------------------
(* A small instance of FCyc for TLC. *)
EXTENDS FCyc
=============================================================================
