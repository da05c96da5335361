----------------------------- MODULE QuotaLedger -----------------------------
(***************************************************************************)
(* What a flow quota promises, without Redis, Postgres or transactions: a  *)
(* ledger of units.  A unit is booked before its action, and is then       *)
(* performed, given back, or burned by a request that died with it.  A     *)
(* booking is made only while everything booked stays under the limit.     *)
(***************************************************************************)
EXTENDS Integers, FiniteSets

CONSTANTS
    Requests,  \* the requests that may hold a unit
    Limit      \* the plan's limit, or -1 for an unlimited plan

VARIABLES
    holders,   \* the requests holding a unit whose action is not finished
    done,      \* how many actions were performed
    burned     \* how many units were lost with their request

ledgerVars == <<holders, done, burned>>

Booked == done + Cardinality(holders) + burned

Init ==
    /\ holders = {}
    /\ done \in IF Limit = -1 THEN {0} ELSE 0..Limit
    /\ burned = 0

Book(r) ==
    /\ r \notin holders
    /\ Limit = -1 \/ Booked < Limit
    /\ holders' = holders \cup {r}
    /\ UNCHANGED <<done, burned>>

Perform(r) ==
    /\ r \in holders
    /\ holders' = holders \ {r}
    /\ done' = done + 1
    /\ UNCHANGED burned

GiveBack(r) ==
    /\ r \in holders
    /\ holders' = holders \ {r}
    /\ UNCHANGED <<done, burned>>

Burn(r) ==
    /\ r \in holders
    /\ holders' = holders \ {r}
    /\ burned' = burned + 1
    /\ UNCHANGED done

Next == \E r \in Requests : Book(r) \/ Perform(r) \/ GiveBack(r) \/ Burn(r)

Spec == Init /\ [][Next]_ledgerVars
=============================================================================
