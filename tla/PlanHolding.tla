------------------------------ MODULE PlanHolding ------------------------------
(***************************************************************************)
(* What billing promises about plans and licence keys, without tables,     *)
(* transactions or locks.  A key is claimed once, by one user, and the     *)
(* claim and the plan it buys come together.  A trial or a grant is given  *)
(* once.  A user holds at most one plan, and loses it only to another one, *)
(* to its expiry or to a revocation.                                       *)
(***************************************************************************)
CONSTANTS
    Users,
    Keys,       \* the licence keys
    Others,     \* what else a user can hold: trials and an admin's grants
    Nobody,     \* the key is not claimed
    Nothing     \* the user holds no plan

VARIABLES
    owner,      \* owner[k]: the user who claimed k, or Nobody
    revoked,    \* the keys that were revoked
    given,      \* the trials and grants ever given
    holds       \* holds[u]: the key, trial or grant that u's plan comes from

holdingVars == <<owner, revoked, given, holds>>

Init ==
    /\ owner = [k \in Keys |-> Nobody]
    /\ revoked = {}
    /\ given = {}
    /\ holds \in [Users -> {Nothing}]

\* A user activates a licence key.
Claim(u, k) ==
    /\ owner[k] = Nobody
    /\ owner' = [owner EXCEPT ![k] = u]
    /\ holds' = [holds EXCEPT ![u] = k]
    /\ UNCHANGED <<revoked, given>>

\* A trial is started or an admin grants a plan.
Give(u, x) ==
    /\ x \notin given
    /\ given' = given \cup {x}
    /\ holds' = [holds EXCEPT ![u] = x]
    /\ UNCHANGED <<owner, revoked>>

\* A licence is revoked, and with it the plan it still carries.
Revoke(k) ==
    /\ owner[k] # Nobody
    /\ revoked' = revoked \cup {k}
    /\ holds' = [u \in Users |-> IF holds[u] = k THEN Nothing ELSE holds[u]]
    /\ UNCHANGED <<owner, given>>

\* Plans expire or an admin revokes a user's plan.
End(ended) ==
    /\ holds' = [u \in Users |-> IF u \in ended THEN Nothing ELSE holds[u]]
    /\ UNCHANGED <<owner, revoked, given>>

Next ==
    \/ \E ended \in SUBSET Users : End(ended)
    \/ \E k \in Keys : Revoke(k)
    \/ \E u \in Users : (\E k \in Keys : Claim(u, k)) \/ (\E x \in Others : Give(u, x))

Spec == Init /\ [][Next]_holdingVars
=============================================================================
