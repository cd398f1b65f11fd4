----------------------------- MODULE MCIdentity -----------------------------
(* Instances of Identity for TLC: what the configurations share. *)
EXTENDS Identity, TLC

Symmetry == Permutations(Users)
=============================================================================
