-------------------------------- MODULE Accounts --------------------------------
(***************************************************************************)
(* Accounts and what opens them: services/auth_service.py (registration,   *)
(* logins, refresh tokens, password resets, e-mail changes, second factor) *)
(* and the user administration of services/admin_service.py.               *)
(*                                                                         *)
(* Refresh tokens, reset links, confirmation links and codes are secrets   *)
(* that are spent once; only who holds one can present it, so a secret is  *)
(* its row.  A request that its first query refuses changes nothing and is *)
(* not a step: neither is one with an expired secret or a wrong code (the  *)
(* count of wrong codes is rolled back with the request that raises it).   *)
(* An access token is good for any account that exists and is active.      *)
(*                                                                         *)
(* One action is one query, or one flush of the ORM, which writes back the *)
(* columns that differ from what the request read.  A statement on several *)
(* rows waits until none of them is locked.                                *)
(***************************************************************************)
EXTENDS Tables, Integers

CONSTANTS
    Addresses,    \* e-mail addresses
    Passwords,
    Ids,          \* the identities of the rows of each table, in the order of creation
    FirstTables,  \* bound: the rows there may be at the start
    Menus,        \* bound: the sets of operations that a behaviour mixes
    MaxRequests,  \* bound: the requests that get past their first query
    Gone,         \* the row has been deleted
    NoRow,        \* the request has, or makes, no row of that sort
    NoMethod,     \* the account has no second factor
    NoRequest     \* the session is idle

VARIABLES
    pc,         \* where each session is
    req,        \* what it does: see Request
    menu,       \* the operations of this behaviour
    begun,      \* the requests so far
    uses,       \* history: uses[i], how many committed requests spent the secret i
    contested,  \* history: the secrets that two open requests have presented
    near,       \* history: the sessions another request on the same account overlapped
    resets,     \* history: resets[u], the password resets of account u
    disturbed   \* history: the accounts whose last reset another request overlapped

historyVars == <<begun, uses, contested, near, resets, disturbed>>
vars == <<tableVars, pc, req, menu, historyVars>>

Accounts == {"account"} \X Ids
Tokens == {"token"} \X Ids
Links == {"link"} \X Ids
Moves == {"move"} \X Ids
Codes == {"code"} \X Ids
Secrets == Tokens \cup Links \cup Moves \cup Codes

\* "both" (e-mail and phone) needs a phone number just as "phone" does.
Methods == {"email", "phone"}

\* `phone`: a number is on file.  two_factor_enabled holds exactly if there is a method.
AccountRow == [address : Addresses, password : Passwords, active : BOOLEAN, phone : BOOLEAN,
               method : Methods \cup {NoMethod}]

\* `era` is history: how many resets the account had seen when its owner logged in.
TokenRow == [owner : Accounts, used : BOOLEAN, era : Nat]
LinkRow == [owner : Accounts, used : BOOLEAN]
MoveRow == [owner : Accounts, used : BOOLEAN, address : Addresses]
CodeRow == [owner : Accounts, used : BOOLEAN, purpose : {"enroll", "login"}, channel : Methods]

Operations == {"register", "login", "refresh", "logout", "forgot", "reset", "change", "ask",
               "confirm", "setup", "enroll", "verify", "resend", "create", "update", "delete"}

Steps == {"idle", "spend", "owner", "taken", "code", "write", "revoke", "commit"}

\* The request in a session: its account, that account as it read it (or Absent), the
\* secret presented, the new value, the row it is to create, and the era of its login.
Request == [op : Operations, who : Accounts, me : AccountRow \cup {Absent},
            key : Secrets \cup {NoRow},
            arg : Addresses \cup Passwords \cup Methods \cup {"on", "off", NoRow},
            new : Rows \cup {NoRow}, era : Nat]

ASSUME AccountsAssumption ==
    /\ Rows = Accounts \cup Secrets
    /\ Ids \subseteq Nat
    /\ MaxRequests \in Nat
    /\ Menus \subseteq SUBSET Operations
    /\ NoRow \notin Rows /\ NoMethod \notin Methods
    /\ Absent # Unwritten /\ Absent # Gone /\ Unwritten # Gone
    /\ {Absent, Unwritten, Gone}
          \cap (AccountRow \cup TokenRow \cup LinkRow \cup MoveRow \cup CodeRow) = {}

-----------------------------------------------------------------------------
(* Rows *)

Exists(row) == row \notin {Absent, Unwritten, Gone}

IsRow(i, row) ==
    CASE i \in Accounts -> row \in AccountRow
      [] i \in Tokens -> row \in TokenRow
      [] i \in Links -> row \in LinkRow
      [] i \in Moves -> row \in MoveRow
      [] OTHER -> row \in CodeRow

\* What there may be at the start: accounts with an address each, and their secrets, of which
\* no session is from before a reset.
ASSUME FirstTablesAssumption ==
    \A table \in FirstTables :
        /\ DOMAIN table \subseteq Rows
        /\ \A i \in DOMAIN table : IsRow(i, table[i])
        /\ \A u, v \in Accounts \cap DOMAIN table :
              table[u].address = table[v].address => u = v
        /\ \A i \in Secrets \cap DOMAIN table : table[i].owner \in DOMAIN table
        /\ \A t \in Tokens \cap DOMAIN table : table[t].era = 0

\* get_by_email(): the account with the address.
Registered(s, a) == {u \in Accounts : Exists(Seen(s, u)) /\ Seen(s, u).address = a}

\* The unique index on users.email.
Clashes_Never(s, u, row) == FALSE

Clashes(s, u, row) == \E v \in Registered(s, row.address) : v # u

\* A write of an account with a new address waits for who has a claim on the address.
ClashWaits(s, u, row) ==
    \E o \in Sessions \ {s}, v \in Accounts \ {u} :
        /\ draft[o][v] # Unwritten
        /\ \/ Exists(draft[o][v]) /\ draft[o][v].address = row.address
           \/ Exists(db[v]) /\ db[v].address = row.address

\* A secret that may still be spent: not revoked, used or consumed.
Usable_Again(row) == Exists(row)

Usable(row) == Exists(row) /\ ~row.used

Spent(row) == IF row = Gone THEN Gone ELSE [row EXCEPT !.used = TRUE]

\* get_latest_active_otp(): the newest code for the purpose that is not consumed.
LatestCode(s, u, purpose) ==
    LET active == {c \in Codes : /\ Usable(Seen(s, c)) /\ Seen(s, c).owner = u
                                 /\ Seen(s, c).purpose = purpose}
    IN  {c \in active : \A d \in active : d[2] <= c[2]}

LiveTokens(s, u) == {t \in Tokens : Usable(Seen(s, t)) /\ Seen(s, t).owner = u}

\* The rows that go with an account (ON DELETE CASCADE).
Holdings(s, u) == {i \in Secrets : Exists(Seen(s, i)) /\ Seen(s, i).owner = u}

\* A foreign key locks the account it points to against deletion and a new address.
KeyChanged(u, row) == row = Gone \/ row.address # db[u].address

OwnerWaits(s, u) ==
    \E o \in Sessions \ {s} : draft[o][u] # Unwritten /\ KeyChanged(u, draft[o][u])

ChildrenWait(s, u) ==
    \E o \in Sessions \ {s}, i \in Secrets :
        db[i] = Absent /\ Exists(draft[o][i]) /\ draft[o][i].owner = u

-----------------------------------------------------------------------------
TypeOK ==
    /\ db = [i \in Rows |-> db[i]]
    /\ \A i \in Rows : db[i] \in {Absent, Gone} \/ IsRow(i, db[i])
    /\ draft = [s \in Sessions |-> draft[s]]
    /\ \A s \in Sessions :
        /\ draft[s] = [i \in Rows |-> draft[s][i]]
        /\ \A i \in Rows : draft[s][i] \in {Unwritten, Gone} \/ IsRow(i, draft[s][i])
    /\ pc \in [Sessions -> Steps]
    /\ req = [s \in Sessions |-> req[s]]
    /\ \A s \in Sessions :
        IF pc[s] = "idle" THEN req[s] = NoRequest /\ draft[s] = Blank ELSE req[s] \in Request
    /\ menu \in Menus
    /\ begun \in 0..MaxRequests
    /\ uses \in [Secrets -> Nat]
    /\ contested \subseteq Secrets
    /\ near \subseteq Sessions
    /\ resets \in [Accounts -> Nat]
    /\ disturbed \subseteq Accounts

Init ==
    /\ \E table \in FirstTables :
        db = [i \in Rows |-> IF i \in DOMAIN table THEN table[i] ELSE Absent]
    /\ draft = [s \in Sessions |-> Blank]
    /\ pc = [s \in Sessions |-> "idle"]
    /\ req = [s \in Sessions |-> NoRequest]
    /\ menu \in Menus
    /\ begun = 0
    /\ uses = [i \in Secrets |-> 0]
    /\ contested = {}
    /\ near = {}
    /\ resets = [u \in Accounts |-> 0]
    /\ disturbed = {}

-----------------------------------------------------------------------------
(* The first query of a request *)

\* The row of a table that the request is to create: later ones get greater identities.
InUse(i) == db[i] # Absent \/ \E s \in Sessions : pc[s] # "idle" /\ req[s].new = i

Fresh(table) ==
    LET free == {i \in table : \A j \in table : InUse(j) => j[2] < i[2]}
    IN  {i \in free : \A j \in free : i[2] <= j[2]}

OpenOn(u) == {o \in Sessions : pc[o] # "idle" /\ req[o].who = u}

\* The request r gets past its first query, of its account or of the secret it presents.
Begin(s, r, step) ==
    /\ pc[s] = "idle" /\ begun < MaxRequests /\ r.op \in menu
    /\ pc' = [pc EXCEPT ![s] = step]
    /\ req' = [req EXCEPT ![s] = r]
    /\ begun' = begun + 1
    /\ near' = IF OpenOn(r.who) = {} THEN near ELSE near \cup OpenOn(r.who) \cup {s}
    /\ contested' = IF r.key # NoRow /\ \E o \in OpenOn(r.who) : req[o].key = r.key
                    THEN contested \cup {r.key} ELSE contested
    /\ UNCHANGED <<tableVars, menu, uses, resets, disturbed>>

Ask(op, u, key, arg, new) ==
    [op |-> op, who |-> u, me |-> db[u], key |-> key, arg |-> arg, new |-> new,
     era |-> resets[u]]

Active(u) == Exists(db[u]) /\ db[u].active

\* register() and create_user(): the address is free now; the row is inserted later.
Join(s, op) ==
    \E a \in Addresses, u \in Fresh(Accounts) :
        Registered(s, a) = {} /\ Begin(s, Ask(op, u, NoRow, a, u), "write")

Register(s) == Join(s, "register")

CreateUser(s) == Join(s, "create")

\* login(): the password is right and the account active; a second factor means a code
\* instead of a token.
NeedsCode(row) == row.method # NoMethod

Login(s) ==
    \E u \in Accounts, p \in Passwords :
        /\ Active(u) /\ db[u].password = p
        /\ \E i \in Fresh(IF NeedsCode(db[u]) THEN Codes ELSE Tokens) :
              Begin(s, Ask("login", u, NoRow, NoRow, i), "write")

\* refresh() and logout(): the token is not revoked.
Present(s, op, t, new) ==
    Usable(db[t]) /\ Begin(s, [Ask(op, db[t].owner, t, NoRow, new) EXCEPT !.me = Absent,
                                                                       !.era = db[t].era], "spend")

Refresh(s) == \E t \in Tokens, i \in Fresh(Tokens) : Present(s, "refresh", t, i)

Logout(s) == \E t \in Tokens : Present(s, "logout", t, NoRow)

ForgotPassword(s) ==
    \E u \in Accounts, i \in Fresh(Links) :
        Exists(db[u]) /\ Begin(s, Ask("forgot", u, NoRow, NoRow, i), "write")

\* reset_password() and confirm_email_change(): the link is not used.
Follow(s, op, l, arg, step) ==
    Usable(db[l]) /\ Begin(s, [Ask(op, db[l].owner, l, arg, NoRow) EXCEPT !.me = Absent], step)

ResetPassword(s) == \E l \in Links, p \in Passwords : Follow(s, "reset", l, p, "owner")

ConfirmEmailChange(s) == \E m \in Moves : Follow(s, "confirm", m, db[m].address, "taken")

\* change_password(): the caller knows the current password, or is refused.
ChangePassword(s) ==
    \E u \in Accounts, p \in Passwords :
        Active(u) /\ Begin(s, Ask("change", u, NoRow, p, NoRow), "write")

\* request_email_change() also asks for the current password.
RequestEmailChange(s) ==
    \E u \in Accounts, a \in Addresses, i \in Fresh(Moves) :
        Active(u) /\ Begin(s, Ask("ask", u, NoRow, a, i), "taken")

\* setup_two_factor(), with a number, given or on file, if the method needs one.
SetupTwoFactor(s) ==
    \E u \in Accounts, m \in Methods, i \in Fresh(Codes) :
        Active(u) /\ Begin(s, Ask("setup", u, NoRow, m, i), "write")

VerifyTwoFactorSetup(s) ==
    \E u \in Accounts, c \in Codes :
        Active(u) /\ Begin(s, Ask("enroll", u, c, NoRow, NoRow), "code")

ResendTwoFactorLoginCode(s) ==
    \E u \in Accounts, i \in Fresh(Codes) :
        /\ Exists(db[u]) /\ NeedsCode(db[u])
        /\ Begin(s, Ask("resend", u, NoRow, NoRow, i), "code")

\* verify_two_factor_login(): the code must be the latest one.
VerifyTwoFactorLogin(s) ==
    \E u \in Accounts, c \in Codes, i \in Fresh(Tokens) :
        /\ c \in LatestCode(s, u, "login")
        /\ Begin(s, [Ask("verify", u, c, NoRow, i) EXCEPT !.me = Absent], "spend")

\* update_user(), of an address or of whether the account is active.
UpdateUser(s) ==
    \E u \in Accounts, v \in Addresses \cup {"on", "off"} :
        /\ Exists(db[u])
        /\ Begin(s, Ask("update", u, NoRow, v, NoRow),
                 IF v \in Addresses \ {db[u].address} THEN "taken" ELSE "write")

\* delete_user() of an administrator, who is none of these accounts.
DeleteUser(s) ==
    \E u \in Accounts :
        Exists(db[u]) /\ Begin(s, Ask("delete", u, NoRow, NoRow, NoRow), "write")

-----------------------------------------------------------------------------
(* The rest of a request *)

Op(s) == req[s].op

Leave(s) ==
    /\ pc' = [pc EXCEPT ![s] = "idle"]
    /\ req' = [req EXCEPT ![s] = NoRequest]
    /\ near' = near \ {s}

\* The request fails or dies: get_db_session() rolls back, what an error path wrote included.
Abort(s) ==
    /\ pc[s] # "idle"
    /\ DiscardRows(s)
    /\ Leave(s)
    /\ UNCHANGED <<menu, begun, uses, contested, resets, disturbed>>

Goto(s, step) ==
    /\ pc' = [pc EXCEPT ![s] = step]
    /\ UNCHANGED <<db, menu, historyVars>>

\* A flush: s writes the rows of w.
Flush(s, w) ==
    /\ \A i \in DOMAIN w : Writable(s, i)
    /\ draft' = [draft EXCEPT ![s] = [i \in Rows |-> IF i \in DOMAIN w THEN w[i] ELSE @[i]]]

\* The token is revoked, or the code consumed; for that it must still be there.
Spend(s) ==
    LET i == req[s].key
    IN  /\ pc[s] = "spend" /\ Exists(Seen(s, i))
        /\ Write(s, i, Spent(Seen(s, i)))
        /\ Goto(s, IF Op(s) = "logout" THEN "commit" ELSE "owner")
        /\ UNCHANGED req

\* Nobody has the new address: not even the account itself.
Untaken(s) ==
    /\ pc[s] = "taken" /\ Registered(s, req[s].arg) = {}
    /\ Goto(s, IF Op(s) = "confirm" THEN "owner" ELSE "write")
    /\ UNCHANGED <<draft, req>>

Owner_MayBeGone(s) ==
    LET me == Seen(s, req[s].who)
    IN  /\ pc[s] = "owner"
        /\ Op(s) \in {"refresh", "verify"} => Exists(me) /\ me.active
        /\ req' = [req EXCEPT ![s].me = me]
        /\ Goto(s, "write")
        /\ UNCHANGED draft

\* The owner of the secret is read: tokens are only for an active account.
Owner(s) ==
    LET me == Seen(s, req[s].who)
    IN  /\ pc[s] = "owner" /\ Exists(me)
        /\ Op(s) \in {"refresh", "verify"} => me.active
        /\ req' = [req EXCEPT ![s].me = me]
        /\ Goto(s, "write")
        /\ UNCHANGED draft

\* The code presented must be the latest one; a new one takes the place of the latest.
Code(s) ==
    LET latest == LatestCode(s, req[s].who, IF Op(s) = "enroll" THEN "enroll" ELSE "login")
    IN  /\ pc[s] = "code"
        /\ \/ /\ Op(s) = "enroll" /\ req[s].key \in latest
              /\ req' = [req EXCEPT ![s].arg = Seen(s, req[s].key).channel]
           \/ /\ Op(s) = "resend"
              /\ \E i \in IF latest = {} THEN {NoRow} ELSE latest :
                    req' = [req EXCEPT ![s].key = i]
        /\ Goto(s, "write")
        /\ UNCHANGED draft

-----------------------------------------------------------------------------
(* Writes *)

\* The columns of its account that the request sets.
Settings(s) ==
    LET r == req[s]
    IN  CASE r.op \in {"reset", "change"} -> [password |-> r.arg]
          [] r.op = "confirm" -> [address |-> r.arg]
          [] r.op = "setup" -> [phone |-> r.arg = "phone" \/ r.me.phone]
          [] r.op = "enroll" -> [method |-> r.arg]
          [] r.op = "update" -> IF r.arg \in Addresses THEN [address |-> r.arg]
                                ELSE [active |-> r.arg = "on"]
          [] OTHER -> [c \in {} |-> TRUE]

\* A new hash always differs from what was read; another value is written if it does.
Dirty(s) ==
    {c \in DOMAIN Settings(s) : c = "password" \/ Settings(s)[c] # req[s].me[c]}

Changed(s) ==
    LET now == Seen(s, req[s].who)
    IN  IF now = Gone THEN Gone
        ELSE [c \in DOMAIN now |-> IF c \in Dirty(s) THEN Settings(s)[c] ELSE now[c]]

\* The row the request creates; register() may be given a phone number, create_user()
\* chooses whether the account is active, and its password is in the mail to the owner.
NewRows(s) ==
    LET r == req[s]
        Account(p, on, given) == [address |-> r.arg, password |-> p, active |-> on,
                                  phone |-> given, method |-> NoMethod]
        CodeFor(purpose, channel) == [owner |-> r.who, used |-> FALSE, purpose |-> purpose,
                                      channel |-> channel]
    IN  CASE r.op = "register" ->
                {Account(p, TRUE, given) : p \in Passwords, given \in BOOLEAN}
          [] r.op = "create" ->
                {Account(p, on, FALSE) : p \in Passwords, on \in BOOLEAN}
          [] r.op \in {"refresh", "verify"} \/ (r.op = "login" /\ ~NeedsCode(r.me)) ->
                {[owner |-> r.who, used |-> FALSE, era |-> r.era]}
          [] r.op = "forgot" -> {[owner |-> r.who, used |-> FALSE]}
          [] r.op = "ask" -> {[owner |-> r.who, used |-> FALSE, address |-> r.arg]}
          [] r.op = "setup" -> {CodeFor("enroll", r.arg)}
          [] OTHER -> {CodeFor("login", r.me.method)}

\* All that a flush writes: the account, the secret that is used up, and the new row.
Writes(s) ==
    LET r == req[s]
        changed == IF Dirty(s) = {} THEN {} ELSE {r.who}
        used == IF Op(s) \in {"reset", "confirm", "enroll", "resend"} THEN {r.key} \ {NoRow} ELSE {}
        rest == [i \in changed \cup used |->
                    IF i = r.who THEN Changed(s) ELSE Spent(Seen(s, i))]
    IN  IF Op(s) = "delete" THEN {[i \in {r.who} \cup Holdings(s, r.who) |-> Gone]}
        ELSE IF r.new = NoRow THEN {rest}
        ELSE {[i \in DOMAIN rest \cup {r.new} |-> IF i = r.new THEN row ELSE rest[i]] :
                  row \in NewRows(s)}

\* The statement waits for another transaction.
WriteWaits(s, i, row) ==
    IF i \in Accounts
    THEN \/ row # Gone /\ ClashWaits(s, i, row)
         \/ db[i] # Absent /\ KeyChanged(i, row) /\ ChildrenWait(s, i)
    ELSE db[i] = Absent /\ OwnerWaits(s, req[s].who)

\* The statement fails: the row to change or its owner is gone, or the address is taken.
WriteFails(s, i, row) ==
    IF row = Gone THEN Op(s) # "delete"
    ELSE \/ i \in Accounts /\ Clashes(s, i, row)
         \/ i \in Secrets /\ db[i] = Absent /\ ~Exists(Seen(s, req[s].who))

\* The flush or, for those who only changed what they had read, the commit that flushes.
WriteRows(s) ==
    /\ pc[s] = "write"
    /\ \E w \in Writes(s) :
        /\ {i \in DOMAIN w : WriteWaits(s, i, w[i]) \/ WriteFails(s, i, w[i])} = {}
        /\ Flush(s, w)
    /\ Goto(s, IF Op(s) = "reset" THEN "revoke" ELSE "commit")
    /\ UNCHANGED req

\* revoke_all_refresh_tokens_for_user()
RevokeAll_Never(s) ==
    /\ pc[s] = "revoke"
    /\ Goto(s, "commit")
    /\ UNCHANGED <<draft, req>>

RevokeAll(s) ==
    LET live == LiveTokens(s, req[s].who)
    IN  /\ pc[s] = "revoke"
        /\ Flush(s, [i \in live |-> Spent(Seen(s, i))])
        /\ Goto(s, "commit")
        /\ UNCHANGED req

Spends(s) == Op(s) \in {"refresh", "reset", "confirm", "enroll", "verify"}

Commit(s) ==
    LET u == req[s].who
    IN  /\ pc[s] = "commit"
        /\ CommitRows(s)
        /\ uses' = IF Spends(s) THEN [uses EXCEPT ![req[s].key] = @ + 1] ELSE uses
        /\ IF Op(s) = "reset"
           THEN /\ resets' = [resets EXCEPT ![u] = @ + 1]
                /\ disturbed' = IF s \in near THEN disturbed \cup {u} ELSE disturbed \ {u}
           ELSE UNCHANGED <<resets, disturbed>>
        /\ Leave(s)
        /\ UNCHANGED <<menu, begun, contested>>

-----------------------------------------------------------------------------
Arrive(s) ==
    \/ Register(s) \/ Login(s) \/ Refresh(s) \/ Logout(s) \/ ForgotPassword(s)
    \/ ResetPassword(s) \/ ChangePassword(s) \/ RequestEmailChange(s) \/ ConfirmEmailChange(s)
    \/ SetupTwoFactor(s) \/ VerifyTwoFactorSetup(s) \/ VerifyTwoFactorLogin(s)
    \/ ResendTwoFactorLoginCode(s) \/ CreateUser(s) \/ UpdateUser(s) \/ DeleteUser(s)

Proceed(s) ==
    \/ Spend(s) \/ Untaken(s) \/ Owner(s) \/ Code(s) \/ WriteRows(s) \/ RevokeAll(s)
    \/ Commit(s)

Next == \E s \in Sessions : Arrive(s) \/ Proceed(s) \/ Abort(s)

Spec == Init /\ [][Next]_vars

-----------------------------------------------------------------------------
(* Properties *)

\* No two accounts have the same address, whatever registrations, confirmed changes and
\* edits overlap between the look-up of an address and the write (get_by_email), and an
\* account that is gone leaves no secret behind (ON DELETE CASCADE).
OneAccountPerAddress ==
    /\ \A u, v \in Accounts :
          Exists(db[u]) /\ Exists(db[v]) /\ db[u].address = db[v].address => u = v
    /\ \A i \in Secrets : Exists(db[i]) => Exists(db[db[i].owner])

\* A refresh token, a link or a code takes effect once, unless two requests that present
\* it overlap (refresh, reset_password, confirm_email_change, _consume_otp).
SpentOnce ==
    \A i \in Secrets \ contested : uses[i] <= 1

\* After a password reset that no other request on the account overlapped, every session
\* that is alive goes back to a login after the reset, however often it was rotated and
\* whatever happened since (reset_password revokes, refresh rotates).
SessionsEndWithReset ==
    \A u \in Accounts \ disturbed : \A t \in Tokens :
        Usable(db[t]) /\ db[t].owner = u => db[t].era = resets[u]
=============================================================================
