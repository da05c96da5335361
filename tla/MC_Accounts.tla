------------------------------ MODULE MC_Accounts ------------------------------
(* Instances of Accounts for TLC: an account with a session, a reset link and a pending
   change of address; the same with a second factor and two codes; two accounts. *)
EXTENDS Accounts, TLC

CONSTANTS a, b, p, q

MCRows == Accounts \cup Secrets
Anna == <<"account", 1>>
Bert == <<"account", 2>>
Account(address, method) ==
    [address |-> address, password |-> p, active |-> TRUE, phone |-> FALSE, method |-> method]
Held == [owner |-> Anna, used |-> FALSE]
LoginCode == Held @@ [purpose |-> "login", channel |-> "email"]

Plain ==
    (Anna :> Account(a, NoMethod)) @@ (<<"token", 1>> :> (Held @@ [era |-> 0]))
    @@ (<<"link", 1>> :> Held) @@ (<<"move", 1>> :> (Held @@ [address |-> b]))
Coded ==
    (Anna :> Account(a, "email")) @@ (<<"code", 1>> :> LoginCode) @@ (<<"code", 2>> :> LoginCode)
MCFirstTables == {Plain, Coded}

MCMenus ==
    {{"login", "refresh", "logout", "reset"},
     {"login", "setup", "enroll", "verify", "resend"},
     {"register", "ask", "confirm", "update"},
     {"forgot", "reset", "refresh", "delete"},
     {"create", "change", "verify", "reset", "delete"}}

Symmetry == Permutations(Sessions)
=============================================================================
