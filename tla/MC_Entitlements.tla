---------------------------- MODULE MC_Entitlements ----------------------------
(* Instances of Entitlements for TLC. *)
EXTENDS Entitlements, TLC

Symmetry == Permutations(Requests) \cup Permutations(Writers)
=============================================================================
