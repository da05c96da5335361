------------------------------- MODULE MC_Quota -------------------------------
(* Instances of Quota for TLC: the requests are interchangeable. *)
EXTENDS Quota, TLC

Symmetry == Permutations(Requests)
=============================================================================
