------------------------------- MODULE MCJobs -------------------------------
(* Instances of Jobs for TLC: what the configurations share. *)
EXTENDS Jobs, TLC

\* For invariants only: job ids, libraries and processes are interchangeable.
Symmetry == Permutations(Jobs) \cup Permutations(Libraries) \cup Permutations(Processes)
=============================================================================
