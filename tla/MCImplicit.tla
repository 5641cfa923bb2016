----------------------------- MODULE MCImplicit -----------------------------
(* Small instances of Implicit for TLC. *)
EXTENDS Implicit, TLC

IdSymmetry == Permutations(Ids)
=============================================================================
