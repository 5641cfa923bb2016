---------------------------- MODULE MCSegregate -----------------------------
(* Small instances of Segregate for TLC. *)
EXTENDS Segregate, TLC

IdSymmetry == Permutations(Ids)
=============================================================================
