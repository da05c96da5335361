------------------------------ MODULE MC_Billing ------------------------------
(* Instances of Billing for TLC. *)
EXTENDS Billing, TLC

CONSTANTS
    Lifetime,   \* the plan that never ends and has no trial
    Verified1   \* the user with a verified phone in Billing_race

MCRows == LicenceRows \cup Subscriptions

MCTerm == [p \in Plans |-> IF p = Lifetime THEN Never ELSE 1]

MCTrialTerm == [p \in Plans |-> IF p = Lifetime THEN 0 ELSE 1]

OnePhone == [u \in Users |-> "phone"]

PhoneOfVerified1 == [u \in Users |-> IF u = Verified1 THEN "phone" ELSE NoPhone]

Symmetry == Permutations(Sessions)
=============================================================================
