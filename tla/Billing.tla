-------------------------------- MODULE Billing --------------------------------
(***************************************************************************)
(* Licence keys, orders and subscriptions: services/billing_service.py     *)
(* (activation, trial, revocation, revalidation), the grant and revoke of  *)
(* services/subscription_admin_service.py, and the expiry sweep and        *)
(* revalidation of workers/jobs_billing.py.                                *)
(*                                                                         *)
(* One action of a session is one statement or one call to the seller.     *)
(* Users activate and start trials under a per-user advisory lock; admins  *)
(* and jobs take no lock, and only the unique indexes stand between them.  *)
(* An order and its licence are one row here: they are inserted in one     *)
(* savepoint, become visible together, and change their status together.   *)
(*                                                                         *)
(* Times are relative to the present, and Tick brings every end closer.    *)
(***************************************************************************)
EXTENDS Tables, Integers, FiniteSets

CONSTANTS
    Users,
    Keys,         \* genuine licence keys
    Grants,       \* bound: the subscriptions admins may grant
    Plans,        \* the plans a key, a trial or a grant can be for
    Term,         \* Term[p]: the ticks plan p lasts, or Never
    TrialTerm,    \* TrialTerm[p]: the ticks a trial of p lasts, 0 if p has none
    Sold,         \* the plans the seller's keys activate
    Phone,        \* Phone[u]: the verified phone of u, or NoPhone
    NoPhone,      \* the user has no verified phone
    GrantEnds,    \* the ends an admin may choose for a grant
    Never,        \* the end of what does not end
    NoOne,        \* nobody: holds the advisory lock, has claimed the key
    NoJob,        \* the session is idle
    NoRow         \* no row was read, or none is to be inserted

Licence(k) == <<"licence", k>>
Purchase(k) == <<"purchase", k>>
Trial(u) == <<"trial", u>>
Granted(g) == <<"granted", g>>

LicenceRows == {Licence(k) : k \in Keys}
Subscriptions ==
    {Purchase(k) : k \in Keys} \cup {Trial(u) : u \in Users} \cup {Granted(g) : g \in Grants}

Ends == Nat \cup {Never}

LicenceRow == [user : Users, status : {"active", "revoked"}]

Subscription ==
    [user : Users, plan : Plans, status : {"active", "cancelled", "expired"}, ends : Ends]

ASSUME BillingAssumption ==
    /\ Rows = LicenceRows \cup Subscriptions
    /\ Term \in [Plans -> (Nat \ {0}) \cup {Never}]
    /\ TrialTerm \in [Plans -> Nat]
    /\ Sold \subseteq Plans
    /\ GrantEnds \subseteq Nat \ {0}
    /\ Never \notin Int
    /\ NoOne \notin Sessions \cup Users
    /\ NoRow \notin Rows
    /\ Absent # Unwritten
    /\ {Absent, Unwritten} \cap (LicenceRow \cup Subscription) = {}

VARIABLES
    lock,      \* lock[u]: the session that holds u's advisory lock
    pc,        \* where each session is
    job,       \* what it does: operation, user, target row and plan
    found,     \* the subscription it read as the active one, or NoRow
    until      \* the end it computed for the one it inserts

sessionVars == <<lock, pc, job, found, until>>
vars == <<tableVars, sessionVars>>

Operations == {"activate", "trial", "grant", "drop", "revoke", "revalidate"}

Job == [op : Operations, user : Users, target : Subscriptions \cup {NoRow}, plan : Plans]

Steps == {"idle", "verify", "lock", "eligible", "running", "read", "cancel", "claim",
          "insert", "recheck", "void", "readOwn", "commit"}

-----------------------------------------------------------------------------
(* Rows *)

IsActive(row, u) == row \notin {Absent, Unwritten} /\ row.user = u /\ row.status = "active"

Unended(ends) == ends = Never \/ ends > 0

ActiveIn(rows, u) == {i \in Subscriptions : IsActive(rows[i], u)}

\* The licence that a purchased subscription comes from.
LicenceOf(i) == Licence(i[2])

\* compute_expiry(): a plan starts now, or where the same plan's current term ends.
NewEnd_Overwrites(u, p) == Term[p]

NewEnd(u, p) ==
    LET stacked == {i \in ActiveIn(db, u) :
                       db[i].plan = p /\ db[i].ends # Never /\ db[i].ends > 0}
    IN  IF Term[p] = Never \/ stacked = {} THEN Term[p]
        ELSE (CHOOSE e \in {db[i].ends : i \in stacked} : TRUE) + Term[p]

Older(ends) == IF ends = Never \/ ends = 0 THEN ends ELSE ends - 1

OlderRow(i, row) ==
    IF i \in LicenceRows \/ row \in {Absent, Unwritten} THEN row
    ELSE [row EXCEPT !.ends = Older(@)]

\* uq_subscriptions_one_active_per_user and uq_subscriptions_one_trial_per_user: an insert
\* waits for the transactions that wrote what it could clash with, and fails if it does.
InsertWaits(s, u, i) ==
    \/ ~Writable(s, i)
    \/ \E o \in Sessions \ {s}, j \in Subscriptions :
          draft[o][j] # Unwritten /\ (IsActive(draft[o][j], u) \/ IsActive(db[j], u))

InsertClashes_Never(s, u, i) == FALSE

InsertClashes(s, u, i) ==
    \/ i = Trial(u) /\ Seen(s, i) # Absent
    \/ \E j \in Subscriptions : IsActive(Seen(s, j), u)

\* Orders are unique per strategy and key hash, licences per key hash.
KeyClashes_Never(k) == FALSE

KeyClashes(k) == db[Licence(k)] # Absent

\* revoke_license() on the licence and its order.
Voided_LikeSubscription(row) == [row EXCEPT !.status = "cancelled"]

Voided(row) == [row EXCEPT !.status = "revoked"]

-----------------------------------------------------------------------------
\* Every row is of its table's type, or is none.
IsTable(rows, none) ==
    /\ rows = [i \in Rows |-> rows[i]]
    /\ \A i \in LicenceRows : rows[i] \in LicenceRow \cup {none}
    /\ \A i \in Subscriptions : rows[i] \in Subscription \cup {none}

TypeOK ==
    /\ IsTable(db, Absent)
    /\ draft = [s \in Sessions |-> draft[s]]
    /\ \A s \in Sessions : IsTable(draft[s], Unwritten)
    /\ lock \in [Users -> Sessions \cup {NoOne}]
    /\ pc \in [Sessions -> Steps]
    /\ job \in [Sessions -> Job \cup {NoJob}]
    /\ found \in [Sessions -> Subscriptions \cup {NoRow}]
    /\ until \in [Sessions -> Ends]

Init ==
    /\ db = [i \in Rows |-> Absent]
    /\ draft = [s \in Sessions |-> Blank]
    /\ lock = [u \in Users |-> NoOne]
    /\ pc = [s \in Sessions |-> "idle"]
    /\ job = [s \in Sessions |-> NoJob]
    /\ found = [s \in Sessions |-> NoRow]
    /\ until = [s \in Sessions |-> 0]

-----------------------------------------------------------------------------
Goto(s, step) == pc' = [pc EXCEPT ![s] = step]

\* The transaction of s is over, and with it the advisory lock it held.
Leave_SessionLock(s) ==
    /\ Goto(s, "idle")
    /\ job' = [job EXCEPT ![s] = NoJob]
    /\ found' = [found EXCEPT ![s] = NoRow]
    /\ until' = [until EXCEPT ![s] = 0]
    /\ UNCHANGED lock

Leave(s) ==
    /\ Goto(s, "idle")
    /\ job' = [job EXCEPT ![s] = NoJob]
    /\ found' = [found EXCEPT ![s] = NoRow]
    /\ until' = [until EXCEPT ![s] = 0]
    /\ lock' = [u \in Users |-> IF lock[u] = s THEN NoOne ELSE lock[u]]

Begin(s, step, op, u, i, p) ==
    /\ pc[s] = "idle"
    /\ Goto(s, step)
    /\ job' = [job EXCEPT ![s] = [op |-> op, user |-> u, target |-> i, plan |-> p]]
    /\ UNCHANGED <<tableVars, lock, found, until>>

\* activate_license(): a key of our own records is answered from them and changes nothing;
\* the seller is asked about any other.
Activate(s) ==
    \E u \in Users, k \in Keys, p \in Sold :
        /\ db[Licence(k)] = Absent
        /\ Begin(s, "verify", "activate", u, Purchase(k), p)

StartTrial(s) ==
    \E u \in Users, p \in Plans :
        /\ TrialTerm[p] > 0 /\ Phone[u] # NoPhone
        /\ Begin(s, "lock", "trial", u, Trial(u), p)

\* SubscriptionAdminService.grant and revoke.
AdminGrant(s) ==
    \E u \in Users, g \in Grants, p \in Plans :
        /\ db[Granted(g)] = Absent
        /\ \A o \in Sessions : pc[o] # "idle" => job[o].target # Granted(g)
        /\ Begin(s, "read", "grant", u, Granted(g), p)

AdminRevoke(s) ==
    \E u \in Users : \E i \in ActiveIn(db, u) :
        Begin(s, "read", "drop", u, NoRow, db[i].plan)

\* admin_revoke_license(), and one licence of the revalidation batch.
RevokeLicence(s) ==
    \E k \in Keys :
        /\ db[Licence(k)] # Absent /\ db[Licence(k)].status = "active"
        /\ Begin(s, "void", "revoke", db[Licence(k)].user, Purchase(k), db[Purchase(k)].plan)

Revalidate(s) ==
    \E k \in Keys :
        /\ db[Licence(k)] # Absent /\ db[Licence(k)].status = "active"
        /\ db[Purchase(k)].status = "active"
        /\ Begin(s, "recheck", "revalidate", db[Licence(k)].user, Purchase(k),
                 db[Purchase(k)].plan)

-----------------------------------------------------------------------------
(* The seller *)

KeyOf(s) == job[s].target[2]

\* The seller is free to answer anything at any time: "valid" ...
Verified(s) ==
    /\ pc[s] = "verify"
    /\ Goto(s, "lock")
    /\ UNCHANGED <<tableVars, lock, job, found, until>>

\* ... or "not valid", which verify() also makes of a status 4xx other than 401 and 403:
\* a revalidation then ends the plan.
Rechecked(s) ==
    /\ pc[s] = "recheck"
    /\ Goto(s, "void")
    /\ UNCHANGED <<tableVars, lock, job, found, until>>

\* The key is not accepted, a revalidation finds it valid, or the seller is unreachable.
Dismissed(s) ==
    /\ pc[s] \in {"verify", "recheck"}
    /\ Leave(s)
    /\ UNCHANGED tableVars

-----------------------------------------------------------------------------
(* The transaction *)

LockUser(s) ==
    /\ pc[s] = "lock" /\ lock[job[s].user] = NoOne
    /\ lock' = [lock EXCEPT ![job[s].user] = s]
    /\ Goto(s, IF job[s].op = "trial" THEN "eligible" ELSE "read")
    /\ UNCHANGED <<tableVars, job, found, until>>

\* _trial_eligibility_problem(): no trial of the user or of the phone number ...
TrialUnused(u) == \A v \in Users : Phone[v] = Phone[u] => db[Trial(v)] = Absent

Eligible(s) ==
    /\ pc[s] = "eligible"
    /\ IF TrialUnused(job[s].user)
       THEN /\ Goto(s, "running")
            /\ UNCHANGED <<lock, job, found, until>>
       ELSE Leave(s)
    /\ UNCHANGED tableVars

\* ... and no active plan that has not ended.
NothingRunning(s) ==
    /\ pc[s] = "running"
    /\ IF \E i \in ActiveIn(db, job[s].user) : Unended(db[i].ends)
       THEN Leave(s)
       ELSE /\ Goto(s, "insert")
            /\ until' = [until EXCEPT ![s] = TrialTerm[job[s].plan]]
            /\ UNCHANGED <<lock, job, found>>
    /\ UNCHANGED tableVars

\* The active subscription, and the end of the new one.
AfterCancel(op) ==
    CASE op = "activate" -> "claim" [] op = "grant" -> "insert" [] OTHER -> "commit"

ReadActive(s) ==
    LET u == job[s].user
        op == job[s].op
        active == ActiveIn(db, u)
    IN  /\ pc[s] = "read"
        /\ \E i \in IF active = {} THEN {NoRow} ELSE active :
            found' = [found EXCEPT ![s] = i]
        /\ \E e \in CASE op = "drop" -> {0}
                      [] op = "grant" -> {NewEnd(u, job[s].plan)} \cup GrantEnds
                      [] OTHER -> {NewEnd(u, job[s].plan)} :
            until' = [until EXCEPT ![s] = e]
        /\ Goto(s, IF active = {} THEN AfterCancel(op) ELSE "cancel")
        /\ UNCHANGED <<tableVars, lock, job>>

\* The UPDATE names the row it read, whatever became of it since.  The end of a subscription
\* that is not active is read by nobody: kept as 0.
Cancel(s) ==
    /\ pc[s] = "cancel"
    /\ Write(s, found[s], [Seen(s, found[s]) EXCEPT !.status = "cancelled", !.ends = 0])
    /\ Goto(s, AfterCancel(job[s].op))
    /\ UNCHANGED <<db, lock, job, found, until>>

\* The order and the licence.
ClaimKey(s) ==
    /\ pc[s] = "claim" /\ ~KeyClashes(KeyOf(s))
    /\ Write(s, Licence(KeyOf(s)), [user |-> job[s].user, status |-> "active"])
    /\ Goto(s, "insert")
    /\ UNCHANGED <<db, lock, job, found, until>>

InsertSubscription(s) ==
    LET u == job[s].user
    IN  /\ pc[s] = "insert"
        /\ ~InsertWaits(s, u, job[s].target) /\ ~InsertClashes(s, u, job[s].target)
        /\ Write(s, job[s].target,
                 [user |-> u, plan |-> job[s].plan, status |-> "active", ends |-> until[s]])
        /\ Goto(s, "commit")
        /\ UNCHANGED <<db, lock, job, found, until>>

\* IntegrityError: the savepoint, or the whole transaction, is rolled back; the reads that
\* choose the answer change nothing.
Clash(s) ==
    /\ \/ /\ pc[s] = "claim"
          /\ Writable(s, Licence(KeyOf(s))) /\ KeyClashes(KeyOf(s))
       \/ /\ pc[s] = "insert"
          /\ ~InsertWaits(s, job[s].user, job[s].target)
          /\ InsertClashes(s, job[s].user, job[s].target)
    /\ DiscardRows(s)
    /\ Leave(s)

\* revoke_license(): the licence and its order, then the subscription if it is active.
VoidLicence(s) ==
    LET i == LicenceOf(job[s].target)
    IN  /\ pc[s] = "void"
        /\ Write(s, i, Voided(Seen(s, i)))
        /\ Goto(s, "readOwn")
        /\ UNCHANGED <<db, lock, job, found, until>>

ReadOwn(s) ==
    /\ pc[s] = "readOwn"
    /\ IF db[job[s].target].status = "active"
       THEN found' = [found EXCEPT ![s] = job[s].target] /\ Goto(s, "cancel")
       ELSE UNCHANGED found /\ Goto(s, "commit")
    /\ UNCHANGED <<tableVars, lock, job, until>>

Commit(s) ==
    /\ pc[s] = "commit"
    /\ CommitRows(s)
    /\ Leave(s)

\* The request is cancelled, or its process or its database connection dies.
Abort(s) ==
    /\ pc[s] # "idle"
    /\ draft' = [draft EXCEPT ![s] = Blank]
    /\ Leave(s)
    /\ UNCHANGED <<db>>

-----------------------------------------------------------------------------
(* The sweep and the world *)

\* expire_subscriptions_job(): one UPDATE over every active row whose end has passed, and
\* its commit.  A user has one such row, so nobody can wait for it in between in a circle.
Overdue == {i \in Subscriptions :
               db[i] # Absent /\ db[i].status = "active" /\ db[i].ends = 0}

ExpireJob ==
    /\ Overdue # {}
    /\ \A i \in Overdue, s \in Sessions : draft[s][i] = Unwritten
    /\ db' = [i \in Rows |-> IF i \in Overdue THEN [db[i] EXCEPT !.status = "expired"] ELSE db[i]]
    /\ UNCHANGED <<draft, sessionVars>>

Tick ==
    /\ db' = [i \in Rows |-> OlderRow(i, db[i])]
    /\ draft' = [s \in Sessions |-> [i \in Rows |-> OlderRow(i, draft[s][i])]]
    /\ until' = [s \in Sessions |-> Older(until[s])]
    /\ UNCHANGED <<lock, pc, job, found>>

-----------------------------------------------------------------------------
Ask(s) ==
    \/ Activate(s) \/ StartTrial(s) \/ AdminGrant(s) \/ AdminRevoke(s)
    \/ RevokeLicence(s) \/ Revalidate(s)

Proceed(s) ==
    \/ Verified(s) \/ Rechecked(s) \/ Dismissed(s)
    \/ LockUser(s) \/ Eligible(s) \/ NothingRunning(s)
    \/ ReadActive(s) \/ Cancel(s) \/ ClaimKey(s) \/ InsertSubscription(s) \/ Clash(s)
    \/ VoidLicence(s) \/ ReadOwn(s) \/ Commit(s)

Next ==
    \/ \E s \in Sessions : Ask(s) \/ Proceed(s) \/ Abort(s)
    \/ ExpireJob
    \/ Tick

Spec == Init /\ [][Next]_vars

-----------------------------------------------------------------------------
(* Properties *)

\* No interleaving of activations, trials, grants and revocations leaves a user with two
\* active subscriptions: every reader of them asks for "one or none".
OneActive == \A u \in Users : Cardinality(ActiveIn(db, u)) <= 1

\* What u's plan comes from.
Holding(u) ==
    LET active == ActiveIn(db, u) IN IF active = {} THEN NoRow ELSE CHOOSE i \in active : TRUE

Owner(k) == IF db[Licence(k)] = Absent THEN NoOne ELSE db[Licence(k)].user

Holdings ==
    INSTANCE PlanHolding
        WITH Keys <- {Purchase(k) : k \in Keys},
             Others <- {Trial(u) : u \in Users} \cup {Granted(g) : g \in Grants},
             Nobody <- NoOne, Nothing <- NoRow,
             given <- {i \in Subscriptions \ {Purchase(k) : k \in Keys} : db[i] # Absent},
             owner <- [i \in {Purchase(k) : k \in Keys} |-> Owner(i[2])],
             revoked <- {i \in {Purchase(k) : k \in Keys} :
                            db[LicenceOf(i)] # Absent /\ db[LicenceOf(i)].status = "revoked"},
             holds <- [u \in Users |-> Holding(u)]

\* A key is claimed once and by one user, and in the same instant that user holds its plan;
\* a user's trial is given once; however many users and sessions race for them (savepoint
\* and unique indexes of activate_license, lock and index of start_trial).
ImplementsHolding == Holdings!Spec

\* A user whose plan runs loses it only when a revocation commits: an activation or a trial
\* that fails, at whatever statement, takes nothing away.
PlansEndForAReason ==
    [][\A u \in Users :
           (\E i \in ActiveIn(db, u) : Unended(db[i].ends)) /\ ActiveIn(db, u)' = {} =>
               \E s \in Sessions : Commit(s) /\ job[s].op \in {"drop", "revoke", "revalidate"}]_vars

\* A renewal never costs time: when an activation commits over a running term of the same
\* plan, the new end is that term's end plus the plan's, although the end was computed
\* before the statements that wrote it and admins and jobs may have moved in between.
RenewalsAddTheirTerm ==
    [][\A s \in Sessions :
           pc[s] = "commit" /\ job[s].op = "activate" /\ Commit(s) =>
               \A i \in ActiveIn(db, job[s].user) :
                   db[i].plan = job[s].plan /\ db[i].ends # Never /\ db[i].ends > 0 =>
                       db'[job[s].target].ends =
                           IF Term[db[i].plan] = Never THEN Never
                           ELSE db[i].ends + Term[db[i].plan]]_vars

\* "One trial per phone number, however many accounts it is attached to."
OneTrialPerPhone ==
    \A u, v \in Users : u # v /\ Phone[u] = Phone[v] =>
        db[Trial(u)] = Absent \/ db[Trial(v)] = Absent

\* The session cannot go on before another transaction ends.
Waiting(s) ==
    \/ pc[s] = "lock" /\ lock[job[s].user] # NoOne
    \/ pc[s] = "cancel" /\ ~Writable(s, found[s])
    \/ pc[s] = "claim" /\ ~Writable(s, Licence(KeyOf(s)))
    \/ pc[s] = "insert" /\ InsertWaits(s, job[s].user, job[s].target)
    \/ pc[s] = "void" /\ ~Writable(s, LicenceOf(job[s].target))

Busy == {s \in Sessions : pc[s] # "idle"}

\* Activations, trials, grants and an admin's plan revocations take the advisory lock, row
\* locks and waits on the unique indexes in one order: Postgres has no deadlock to break
\* unless a licence is being revoked, which locks the licence before the subscription.
DeadlockTakesARevocation ==
    Busy # {} /\ (\A s \in Busy : Waiting(s)) =>
        \E s \in Busy : pc[s] = "cancel" /\ job[s].op \in {"revoke", "revalidate"}
=============================================================================
