---------------------------- MODULE Billing_proofs ----------------------------
(***************************************************************************)
(* What is proved of Billing for every value of its constants: any number  *)
(* of sessions, users, keys, grants and plans.                             *)
(***************************************************************************)
EXTENDS Billing, FiniteSetTheorems, TLAPS

\* What a step of the system is, with one hypothesis for each action.
LEMMA NextCases ==
    ASSUME NEW P, [Next]_vars,
           ASSUME NEW s \in Sessions, Activate(s) PROVE P,
           ASSUME NEW s \in Sessions, StartTrial(s) PROVE P,
           ASSUME NEW s \in Sessions, AdminGrant(s) PROVE P,
           ASSUME NEW s \in Sessions, AdminRevoke(s) PROVE P,
           ASSUME NEW s \in Sessions, RevokeLicence(s) PROVE P,
           ASSUME NEW s \in Sessions, Revalidate(s) PROVE P,
           ASSUME NEW s \in Sessions, Verified(s) PROVE P,
           ASSUME NEW s \in Sessions, Rechecked(s) PROVE P,
           ASSUME NEW s \in Sessions, Dismissed(s) PROVE P,
           ASSUME NEW s \in Sessions, LockUser(s) PROVE P,
           ASSUME NEW s \in Sessions, Eligible(s) PROVE P,
           ASSUME NEW s \in Sessions, NothingRunning(s) PROVE P,
           ASSUME NEW s \in Sessions, ReadActive(s) PROVE P,
           ASSUME NEW s \in Sessions, Cancel(s) PROVE P,
           ASSUME NEW s \in Sessions, ClaimKey(s) PROVE P,
           ASSUME NEW s \in Sessions, InsertSubscription(s) PROVE P,
           ASSUME NEW s \in Sessions, Clash(s) PROVE P,
           ASSUME NEW s \in Sessions, VoidLicence(s) PROVE P,
           ASSUME NEW s \in Sessions, ReadOwn(s) PROVE P,
           ASSUME NEW s \in Sessions, Commit(s) PROVE P,
           ASSUME NEW s \in Sessions, Abort(s) PROVE P,
           ASSUME ExpireJob PROVE P,
           ASSUME Tick PROVE P,
           ASSUME UNCHANGED vars PROVE P
    PROVE  P
BY DEF Next, Ask, Proceed

-----------------------------------------------------------------------------
(* Rows *)

LEMMA RowNames ==
    /\ LicenceRows \subseteq Rows /\ Subscriptions \subseteq Rows
    /\ LicenceRows \cap Subscriptions = {}
    /\ \A i \in Rows : i \in LicenceRows \/ i \in Subscriptions
    /\ \A k \in Keys : Licence(k) \in LicenceRows /\ Purchase(k) \in Subscriptions
    /\ \A k, j \in Keys : Licence(k) = Licence(j) => k = j
    /\ \A k \in Keys : Purchase(k)[2] = k /\ LicenceOf(Purchase(k)) = Licence(k)
    /\ \A u \in Users : Trial(u) \in Subscriptions
    /\ \A g \in Grants : Granted(g) \in Subscriptions
    /\ NoRow \notin Subscriptions
BY BillingAssumption
   DEF LicenceRows, Subscriptions, Licence, Purchase, Trial, Granted, LicenceOf

\* A row of a table is none of the marks.
LEMMA RowsAreReal ==
    \A row \in LicenceRow \cup Subscription : row # Absent /\ row # Unwritten
BY BillingAssumption

\* What the statements make of a row.
LEMMA CancelledRow ==
    ASSUME NEW row \in Subscription
    PROVE  LET cancelled == [row EXCEPT !.status = "cancelled", !.ends = 0]
           IN  cancelled \in Subscription /\ cancelled.status = "cancelled"
BY DEF Subscription, Ends

LEMMA ExpiredRow ==
    ASSUME NEW row \in Subscription
    PROVE  LET expired == [row EXCEPT !.status = "expired"]
           IN  expired \in Subscription /\ expired.status = "expired"
BY DEF Subscription

LEMMA VoidedRow ==
    ASSUME NEW row \in LicenceRow
    PROVE  Voided(row) \in LicenceRow
BY DEF LicenceRow, Voided

LEMMA OlderType ==
    ASSUME NEW e \in Ends
    PROVE  Older(e) \in Ends
BY BillingAssumption DEF Ends, Older

LEMMA OlderRowType ==
    /\ \A i \in LicenceRows : \A row : OlderRow(i, row) = row
    /\ \A i : OlderRow(i, Absent) = Absent /\ OlderRow(i, Unwritten) = Unwritten
    /\ \A i \in Subscriptions, row \in Subscription :
          /\ OlderRow(i, row) \in Subscription
          /\ OlderRow(i, row).user = row.user
          /\ OlderRow(i, row).status = row.status
<1>1. ASSUME NEW i \in Subscriptions, NEW row \in Subscription
      PROVE  /\ OlderRow(i, row) \in Subscription
             /\ OlderRow(i, row).user = row.user
             /\ OlderRow(i, row).status = row.status
  <2>1. OlderRow(i, row) = [row EXCEPT !.ends = Older(row.ends)]
    BY RowNames, RowsAreReal DEF OlderRow
  <2>2. Older(row.ends) \in Ends
    BY OlderType DEF Subscription
  <2>3. QED
    BY <2>1, <2>2 DEF Subscription
<1>2. QED
  BY <1>1 DEF OlderRow

\* Being active survives Tick and the marks are not active.
LEMMA ActiveRows ==
    /\ \A u : ~IsActive(Absent, u) /\ ~IsActive(Unwritten, u)
    /\ \A row \in Subscription : \A u : IsActive(row, u) <=> row.user = u /\ row.status = "active"
    /\ \A i \in Subscriptions, row \in Subscription \cup {Absent, Unwritten} : \A u :
          IsActive(OlderRow(i, row), u) <=> IsActive(row, u)
<1>1. /\ \A u : ~IsActive(Absent, u) /\ ~IsActive(Unwritten, u)
      /\ \A row \in Subscription : \A u : IsActive(row, u) <=> row.user = u /\ row.status = "active"
  BY RowsAreReal DEF IsActive
<1>2. ASSUME NEW i \in Subscriptions, NEW row \in Subscription \cup {Absent, Unwritten}, NEW u
      PROVE  IsActive(OlderRow(i, row), u) <=> IsActive(row, u)
  BY <1>1, OlderRowType
<1>3. QED
  BY <1>1, <1>2

-----------------------------------------------------------------------------
(***************************************************************************)
(* Types.  A revocation reads the subscription of a licence, so a licence  *)
(* must never be committed without it; and an UPDATE writes the row it     *)
(* read before, so that row must still be there.                           *)
(***************************************************************************)
TablesOK ==
    /\ IsTable(db, Absent)
    /\ draft = [s \in Sessions |-> draft[s]]
    /\ \A s \in Sessions : IsTable(draft[s], Unwritten)

SessionsOK ==
    /\ lock \in [Users -> Sessions \cup {NoOne}]
    /\ pc \in [Sessions -> Steps]
    /\ job \in [Sessions -> Job \cup {NoJob}]
    /\ found \in [Sessions -> Subscriptions \cup {NoRow}]
    /\ until \in [Sessions -> Ends]

\* What the job of a session at work is, by where the session is.
JobOK(s) ==
    /\ job[s] \in Job
    /\ pc[s] \in {"verify", "claim"} => job[s].op = "activate"
    /\ pc[s] \in {"recheck", "void", "readOwn"} => job[s].op \in {"revoke", "revalidate"}
    /\ pc[s] \in {"eligible", "running"} => job[s].op = "trial"
    /\ pc[s] = "lock" => job[s].op \in {"activate", "trial"}
    /\ pc[s] = "read" => job[s].op \in {"activate", "grant", "drop"}
    /\ pc[s] = "cancel" => job[s].op # "trial"
    /\ pc[s] = "insert" => job[s].op \in {"activate", "trial", "grant"}
    /\ job[s].op = "activate" => \E k \in Keys : job[s].target = Purchase(k)
    /\ job[s].op \in {"trial", "grant"} => job[s].target \in Subscriptions

\* What a session will update is there.
TargetThere(s) ==
    /\ pc[s] = "cancel" => found[s] \in Subscriptions /\ db[found[s]] # Absent
    /\ job[s].op \in {"revoke", "revalidate"} =>
          \E k \in Keys : job[s].target = Purchase(k) /\ db[Licence(k)] # Absent

JobsOK == \A s \in Sessions : pc[s] # "idle" => JobOK(s) /\ TargetThere(s)

\* A committed licence has its subscription.
Paired == \A k \in Keys : db[Licence(k)] # Absent => db[Purchase(k)] # Absent

\* A licence not yet committed is one an activation is about to commit with its subscription.
Claims ==
    \A s \in Sessions, k \in Keys :
        draft[s][Licence(k)] # Unwritten /\ db[Licence(k)] = Absent =>
            /\ pc[s] \in {"insert", "commit"}
            /\ job[s].op = "activate" /\ job[s].target = Purchase(k)
            /\ pc[s] = "commit" => draft[s][Purchase(k)] # Unwritten

\* A row is written by one transaction at a time.
Exclusive ==
    \A i \in Rows, s, o \in Sessions :
        draft[s][i] # Unwritten /\ draft[o][i] # Unwritten => s = o

TypeInv == TablesOK /\ SessionsOK /\ JobsOK /\ Paired /\ Claims /\ Exclusive

-----------------------------------------------------------------------------
(* The five things a step can do to the tables keep them tables. *)

LEMMA SeenType ==
    ASSUME TablesOK, NEW s \in Sessions
    PROVE  /\ \A i \in LicenceRows : Seen(s, i) \in LicenceRow \cup {Absent}
           /\ \A i \in Subscriptions : Seen(s, i) \in Subscription \cup {Absent}
           /\ \A i \in Rows : db[i] # Absent => Seen(s, i) # Absent
<1>1. /\ \A i \in LicenceRows : Seen(s, i) \in LicenceRow \cup {Absent}
      /\ \A i \in Subscriptions : Seen(s, i) \in Subscription \cup {Absent}
  BY DEF TablesOK, IsTable, Seen
<1>2. ASSUME NEW i \in Rows, db[i] # Absent PROVE Seen(s, i) # Absent
  BY <1>2, RowNames, RowsAreReal DEF TablesOK, IsTable, Seen
<1>3. QED
  BY <1>1, <1>2

LEMMA WriteKeepsTables ==
    ASSUME TablesOK, NEW s \in Sessions, NEW i, NEW row,
           \/ i \in LicenceRows /\ row \in LicenceRow
           \/ i \in Subscriptions /\ row \in Subscription,
           Write(s, i, row), UNCHANGED db
    PROVE  TablesOK'
<1>1. i \in Rows
  BY RowNames
<1>2. draft' = [o \in Sessions |-> draft'[o]]
  BY DEF Write, TablesOK
<1>3. ASSUME NEW o \in Sessions PROVE IsTable(draft'[o], Unwritten)
  <2>1. CASE o = s
    <3>1. draft'[o] = [draft[o] EXCEPT ![i] = row]
      BY <2>1 DEF Write, TablesOK
    <3>2. QED
      BY <1>1, <3>1, RowNames DEF TablesOK, IsTable
  <2>2. CASE o # s
    BY <2>2 DEF Write, TablesOK
  <2>3. QED
    BY <2>1, <2>2
<1>4. QED
  BY <1>2, <1>3 DEF TablesOK

LEMMA BlankTable == IsTable(Blank, Unwritten)
BY RowNames DEF IsTable, Blank

LEMMA DiscardKeepsTables ==
    ASSUME TablesOK, NEW s \in Sessions,
           draft' = [draft EXCEPT ![s] = Blank], UNCHANGED db
    PROVE  TablesOK'
BY BlankTable DEF TablesOK

LEMMA CommitKeepsTables ==
    ASSUME TablesOK, NEW s \in Sessions, CommitRows(s)
    PROVE  TablesOK'
<1>1. IsTable(db', Absent)
  BY SeenType, RowNames DEF CommitRows, IsTable
<1>2. QED
  BY <1>1, BlankTable DEF TablesOK, CommitRows

LEMMA SweepKeepsTables ==
    ASSUME TablesOK, ExpireJob
    PROVE  TablesOK'
<1>1. IsTable(db', Absent)
  <2>1. db' = [i \in Rows |-> db'[i]]
    BY DEF ExpireJob
  <2>2. \A i \in LicenceRows : db'[i] = db[i]
    BY RowNames DEF ExpireJob, Overdue
  <2>3. ASSUME NEW i \in Subscriptions PROVE db'[i] \in Subscription \cup {Absent}
    <3>1. CASE i \in Overdue
      <4>1. db[i] \in Subscription
        BY <3>1 DEF Overdue, TablesOK, IsTable
      <4>2. QED
        BY <3>1, <4>1, ExpiredRow, RowNames DEF ExpireJob
    <3>2. CASE i \notin Overdue
      BY <3>2, RowNames DEF ExpireJob, TablesOK, IsTable
    <3>3. QED
      BY <3>1, <3>2
  <2>4. QED
    BY <2>1, <2>2, <2>3 DEF TablesOK, IsTable
<1>2. QED
  BY <1>1 DEF ExpireJob, TablesOK

LEMMA OlderTable ==
    ASSUME NEW rows, NEW none \in {Absent, Unwritten}, IsTable(rows, none)
    PROVE  IsTable([i \in Rows |-> OlderRow(i, rows[i])], none)
BY RowNames, OlderRowType DEF IsTable

LEMMA TickKeepsTables ==
    ASSUME TablesOK, Tick
    PROVE  TablesOK'
<1>1. IsTable(db', Absent)
  BY OlderTable DEF TablesOK, Tick
<1>2. ASSUME NEW s \in Sessions PROVE IsTable(draft'[s], Unwritten)
  <2>1. draft'[s] = [i \in Rows |-> OlderRow(i, draft[s][i])]
    BY DEF Tick
  <2>2. QED
    BY <2>1, OlderTable DEF TablesOK
<1>3. QED
  BY <1>1, <1>2 DEF TablesOK, Tick

-----------------------------------------------------------------------------
(* The sessions' own variables. *)

LEMMA NewEndType ==
    ASSUME TablesOK, NEW u \in Users, NEW p \in Plans
    PROVE  NewEnd(u, p) \in Ends
<1> DEFINE stacked == {i \in ActiveIn(db, u) :
                          db[i].plan = p /\ db[i].ends # Never /\ db[i].ends > 0}
<1>1. Term[p] \in (Nat \ {0}) \cup {Never}
  BY BillingAssumption
<1>2. CASE Term[p] = Never \/ stacked = {}
  BY <1>1, <1>2 DEF NewEnd, Ends
<1>3. CASE Term[p] # Never /\ stacked # {}
  <2>1. \A i \in stacked : db[i].ends \in Nat
    <3>1. ASSUME NEW i \in stacked PROVE db[i].ends \in Nat
      <4>1. i \in Subscriptions /\ db[i] # Absent
        BY DEF ActiveIn, IsActive
      <4>2. db[i] \in Subscription
        BY <4>1 DEF TablesOK, IsTable
      <4>3. QED
        BY <4>2 DEF Subscription, Ends
    <3>2. QED
      BY <3>1
  <2>2. (CHOOSE e \in {db[i].ends : i \in stacked} : TRUE) \in {db[i].ends : i \in stacked}
    BY <1>3
  <2>3. (CHOOSE e \in {db[i].ends : i \in stacked} : TRUE) \in Nat
    BY <2>1, <2>2
  <2>4. NewEnd(u, p) = (CHOOSE e \in {db[i].ends : i \in stacked} : TRUE) + Term[p]
    BY <1>3 DEF NewEnd
  <2>5. QED
    BY <1>1, <1>3, <2>3, <2>4 DEF Ends
<1>4. QED
  BY <1>2, <1>3

LEMMA LeaveKeepsSessions ==
    ASSUME SessionsOK, NEW s \in Sessions, Leave(s)
    PROVE  SessionsOK'
BY DEF SessionsOK, Leave, Goto, Steps, Ends

LEMMA SessionsTyped ==
    ASSUME TypeInv, [Next]_vars
    PROVE  SessionsOK'
<1> USE DEF TypeInv
<1>1. ASSUME NEW s \in Sessions, NEW u \in Users, NEW i \in Subscriptions \cup {NoRow},
             NEW p \in Plans, NEW op \in Operations, NEW step \in Steps,
             Begin(s, step, op, u, i, p)
      PROVE  SessionsOK'
  BY <1>1 DEF SessionsOK, Begin, Goto, Job
<1>2. ASSUME NEW s \in Sessions, Activate(s) PROVE SessionsOK'
  BY <1>1, <1>2, RowNames, BillingAssumption DEF Activate, Operations, Steps
<1>3. ASSUME NEW s \in Sessions, StartTrial(s) PROVE SessionsOK'
  BY <1>1, <1>3, RowNames DEF StartTrial, Operations, Steps
<1>4. ASSUME NEW s \in Sessions, AdminGrant(s) PROVE SessionsOK'
  BY <1>1, <1>4, RowNames DEF AdminGrant, Operations, Steps
<1>5. ASSUME NEW s \in Sessions, AdminRevoke(s) PROVE SessionsOK'
  <2>0. PICK u \in Users :
            \E i \in ActiveIn(db, u) : Begin(s, "read", "drop", u, NoRow, db[i].plan)
    BY <1>5 DEF AdminRevoke
  <2>1. PICK i \in ActiveIn(db, u) : Begin(s, "read", "drop", u, NoRow, db[i].plan)
    BY <2>0
  <2>2. db[i] \in Subscription
    BY DEF ActiveIn, IsActive, TablesOK, IsTable
  <2>3. db[i].plan \in Plans
    BY <2>2 DEF Subscription
  <2>4. QED
    BY <1>1, <2>1, <2>3 DEF Operations, Steps
<1>6. ASSUME NEW k \in Keys, db[Licence(k)] # Absent
      PROVE  db[Licence(k)].user \in Users /\ db[Purchase(k)].plan \in Plans
  <2>1. db[Licence(k)] \in LicenceRow
    BY <1>6, RowNames DEF TablesOK, IsTable
  <2>2. db[Purchase(k)] \in Subscription
    BY <1>6, RowNames DEF TablesOK, IsTable, Paired
  <2>3. QED
    BY <2>1, <2>2 DEF LicenceRow, Subscription
<1>7. ASSUME NEW s \in Sessions, RevokeLicence(s) PROVE SessionsOK'
  BY <1>1, <1>6, <1>7, RowNames DEF RevokeLicence, Operations, Steps
<1>8. ASSUME NEW s \in Sessions, Revalidate(s) PROVE SessionsOK'
  BY <1>1, <1>6, <1>8, RowNames DEF Revalidate, Operations, Steps
<1>9. ASSUME NEW s \in Sessions, Verified(s) PROVE SessionsOK'
  BY <1>9 DEF SessionsOK, Verified, Goto, Steps
<1>10. ASSUME NEW s \in Sessions, Rechecked(s) PROVE SessionsOK'
  BY <1>10 DEF SessionsOK, Rechecked, Goto, Steps
<1>11. ASSUME NEW s \in Sessions, Dismissed(s) PROVE SessionsOK'
  BY <1>11, LeaveKeepsSessions DEF Dismissed
<1>12. ASSUME NEW s \in Sessions, LockUser(s) PROVE SessionsOK'
  BY <1>12 DEF SessionsOK, LockUser, Goto, Steps
<1>13. ASSUME NEW s \in Sessions, Eligible(s) PROVE SessionsOK'
  <2>1. CASE TrialUnused(job[s].user)
    BY <1>13, <2>1 DEF SessionsOK, Eligible, Goto, Steps
  <2>2. CASE ~TrialUnused(job[s].user)
    BY <1>13, <2>2, LeaveKeepsSessions DEF Eligible
  <2>3. QED
    BY <2>1, <2>2
<1>14. ASSUME NEW s \in Sessions, NothingRunning(s) PROVE SessionsOK'
  <2>1. CASE \E i \in ActiveIn(db, job[s].user) : Unended(db[i].ends)
    BY <1>14, <2>1, LeaveKeepsSessions DEF NothingRunning
  <2>2. CASE ~(\E i \in ActiveIn(db, job[s].user) : Unended(db[i].ends))
    <3>1. job[s].plan \in Plans
      BY <1>14 DEF NothingRunning, JobsOK, JobOK, Job
    <3>2. TrialTerm[job[s].plan] \in Ends
      BY <3>1, BillingAssumption DEF Ends
    <3>3. QED
      BY <1>14, <2>2, <3>2 DEF SessionsOK, NothingRunning, Goto, Steps
  <2>3. QED
    BY <2>1, <2>2
<1>15. ASSUME NEW s \in Sessions, ReadActive(s) PROVE SessionsOK'
  <2>1. job[s].user \in Users /\ job[s].plan \in Plans /\ pc[s] = "read"
    BY <1>15 DEF ReadActive, JobsOK, JobOK, Job
  <2>2. NewEnd(job[s].user, job[s].plan) \in Ends
    BY <2>1, NewEndType
  <2>3. 0 \in Ends /\ GrantEnds \subseteq Ends
    BY BillingAssumption DEF Ends
  <2>4. PICK e \in CASE job[s].op = "drop" -> {0}
                      [] job[s].op = "grant" ->
                             {NewEnd(job[s].user, job[s].plan)} \cup GrantEnds
                      [] OTHER -> {NewEnd(job[s].user, job[s].plan)} :
            until' = [until EXCEPT ![s] = e]
    BY <1>15 DEF ReadActive
  <2>5. e \in Ends
    BY <2>2, <2>3, <2>4
  <2>6. PICK i \in IF ActiveIn(db, job[s].user) = {} THEN {NoRow}
                   ELSE ActiveIn(db, job[s].user) :
            found' = [found EXCEPT ![s] = i]
    BY <1>15 DEF ReadActive
  <2>7. i \in Subscriptions \cup {NoRow}
    BY <2>6 DEF ActiveIn
  <2>8. pc' \in [Sessions -> Steps] /\ UNCHANGED <<lock, job>>
    BY <1>15 DEF ReadActive, SessionsOK, Goto, AfterCancel, Steps
  <2>9. QED
    BY <2>4, <2>5, <2>6, <2>7, <2>8 DEF SessionsOK
<1>16. ASSUME NEW s \in Sessions, Cancel(s) PROVE SessionsOK'
  BY <1>16 DEF SessionsOK, Cancel, Goto, AfterCancel, Steps
<1>17. ASSUME NEW s \in Sessions, ClaimKey(s) PROVE SessionsOK'
  BY <1>17 DEF SessionsOK, ClaimKey, Goto, Steps
<1>18. ASSUME NEW s \in Sessions, InsertSubscription(s) PROVE SessionsOK'
  BY <1>18 DEF SessionsOK, InsertSubscription, Goto, Steps
<1>19. ASSUME NEW s \in Sessions, Clash(s) PROVE SessionsOK'
  BY <1>19, LeaveKeepsSessions DEF Clash
<1>20. ASSUME NEW s \in Sessions, VoidLicence(s) PROVE SessionsOK'
  BY <1>20 DEF SessionsOK, VoidLicence, Goto, Steps
<1>21. ASSUME NEW s \in Sessions, ReadOwn(s) PROVE SessionsOK'
  <2>1. job[s].target \in Subscriptions \cup {NoRow}
    BY <1>21 DEF ReadOwn, JobsOK, JobOK, Job
  <2>2. QED
    BY <1>21, <2>1 DEF SessionsOK, ReadOwn, Goto, Steps
<1>22. ASSUME NEW s \in Sessions, Commit(s) PROVE SessionsOK'
  BY <1>22, LeaveKeepsSessions DEF Commit
<1>23. ASSUME NEW s \in Sessions, Abort(s) PROVE SessionsOK'
  BY <1>23, LeaveKeepsSessions DEF Abort
<1>24. ASSUME ExpireJob PROVE SessionsOK'
  BY <1>24 DEF SessionsOK, ExpireJob, sessionVars
<1>25. ASSUME Tick PROVE SessionsOK'
  <2>1. \A s \in Sessions : Older(until[s]) \in Ends
    BY OlderType DEF SessionsOK
  <2>2. QED
    BY <1>25, <2>1 DEF SessionsOK, Tick
<1>26. ASSUME UNCHANGED vars PROVE SessionsOK'
  BY <1>26 DEF SessionsOK, vars, sessionVars
<1>27. QED
  BY NextCases, <1>2, <1>3, <1>4, <1>5, <1>7, <1>8, <1>9, <1>10, <1>11, <1>12, <1>13, <1>14,
     <1>15, <1>16, <1>17, <1>18, <1>19, <1>20, <1>21, <1>22, <1>23, <1>24, <1>25, <1>26

-----------------------------------------------------------------------------
(* The tables. *)

\* Which steps leave the tables alone, and what the others do to them.
LEMMA TableSteps ==
    ASSUME NEW P, TypeInv, [Next]_vars,
           ASSUME UNCHANGED tableVars PROVE P,
           ASSUME NEW s \in Sessions, Cancel(s) PROVE P,
           ASSUME NEW s \in Sessions, ClaimKey(s) PROVE P,
           ASSUME NEW s \in Sessions, InsertSubscription(s) PROVE P,
           ASSUME NEW s \in Sessions, VoidLicence(s) PROVE P,
           ASSUME NEW s \in Sessions, draft' = [draft EXCEPT ![s] = Blank], UNCHANGED db,
                  Leave(s) PROVE P,
           ASSUME NEW s \in Sessions, Commit(s) PROVE P,
           ASSUME ExpireJob PROVE P,
           ASSUME Tick PROVE P
    PROVE  P
<1>1. ASSUME NEW s \in Sessions,
             Activate(s) \/ StartTrial(s) \/ AdminGrant(s) \/ AdminRevoke(s)
                \/ RevokeLicence(s) \/ Revalidate(s)
      PROVE  P
  BY <1>1 DEF Activate, StartTrial, AdminGrant, AdminRevoke, RevokeLicence, Revalidate, Begin
<1>2. ASSUME NEW s \in Sessions,
             Verified(s) \/ Rechecked(s) \/ Dismissed(s) \/ LockUser(s) \/ Eligible(s)
                \/ NothingRunning(s) \/ ReadActive(s) \/ ReadOwn(s)
      PROVE  P
  BY <1>2 DEF Verified, Rechecked, Dismissed, LockUser, Eligible, NothingRunning, ReadActive,
              ReadOwn
<1>3. ASSUME NEW s \in Sessions, Clash(s) PROVE P
  BY <1>3 DEF Clash, DiscardRows
<1>4. ASSUME NEW s \in Sessions, Abort(s) PROVE P
  BY <1>4 DEF Abort
<1>5. ASSUME UNCHANGED vars PROVE P
  BY <1>5 DEF vars
<1>6. QED
  BY NextCases, <1>1, <1>2, <1>3, <1>4, <1>5

\* What the writing statements write.
LEMMA Written ==
    ASSUME TypeInv, NEW s \in Sessions
    PROVE  /\ Cancel(s) =>
                 LET row == [Seen(s, found[s]) EXCEPT !.status = "cancelled", !.ends = 0]
                 IN  /\ found[s] \in Subscriptions
                     /\ row \in Subscription /\ row.status = "cancelled"
                     /\ Write(s, found[s], row) /\ UNCHANGED db
           /\ ClaimKey(s) =>
                 \E k \in Keys :
                    LET row == [user |-> job[s].user, status |-> "active"]
                    IN  /\ job[s].op = "activate" /\ job[s].target = Purchase(k)
                        /\ row \in LicenceRow
                        /\ Write(s, Licence(k), row) /\ UNCHANGED db
           /\ InsertSubscription(s) =>
                 LET row == [user |-> job[s].user, plan |-> job[s].plan,
                             status |-> "active", ends |-> until[s]]
                 IN  /\ job[s].target \in Subscriptions /\ row \in Subscription
                     /\ Write(s, job[s].target, row) /\ UNCHANGED db
           /\ VoidLicence(s) =>
                 \E k \in Keys, row \in LicenceRow :
                     /\ db[Licence(k)] # Absent
                     /\ Write(s, Licence(k), row) /\ UNCHANGED db
<1> USE DEF TypeInv
<1>1. ASSUME Cancel(s)
      PROVE  LET row == [Seen(s, found[s]) EXCEPT !.status = "cancelled", !.ends = 0]
             IN  /\ found[s] \in Subscriptions
                 /\ row \in Subscription /\ row.status = "cancelled"
                 /\ Write(s, found[s], row) /\ UNCHANGED db
  <2>1. found[s] \in Subscriptions /\ db[found[s]] # Absent
    BY <1>1 DEF Cancel, JobsOK, TargetThere
  <2>2. Seen(s, found[s]) \in Subscription
    BY <2>1, SeenType, RowNames
  <2>3. QED
    BY <1>1, <2>1, <2>2, CancelledRow DEF Cancel
<1>2. ASSUME ClaimKey(s)
      PROVE  \E k \in Keys :
                LET row == [user |-> job[s].user, status |-> "active"]
                IN  /\ job[s].op = "activate" /\ job[s].target = Purchase(k)
                    /\ row \in LicenceRow
                    /\ Write(s, Licence(k), row) /\ UNCHANGED db
  <2>1. job[s] \in Job /\ job[s].op = "activate"
    BY <1>2 DEF ClaimKey, JobsOK, JobOK
  <2>2. PICK k \in Keys : job[s].target = Purchase(k)
    BY <1>2, <2>1 DEF ClaimKey, JobsOK, JobOK
  <2>3. KeyOf(s) = k
    BY <2>2, RowNames DEF KeyOf
  <2>4. [user |-> job[s].user, status |-> "active"] \in LicenceRow
    BY <2>1 DEF Job, LicenceRow
  <2>5. QED
    BY <1>2, <2>1, <2>2, <2>3, <2>4 DEF ClaimKey
<1>3. ASSUME InsertSubscription(s)
      PROVE  LET row == [user |-> job[s].user, plan |-> job[s].plan,
                         status |-> "active", ends |-> until[s]]
             IN  /\ job[s].target \in Subscriptions /\ row \in Subscription
                 /\ Write(s, job[s].target, row) /\ UNCHANGED db
  <2>1. job[s] \in Job /\ job[s].target \in Subscriptions
    BY <1>3, RowNames DEF InsertSubscription, JobsOK, JobOK
  <2>2. until[s] \in Ends
    BY DEF SessionsOK
  <2>3. QED
    BY <1>3, <2>1, <2>2 DEF InsertSubscription, Job, Subscription
<1>4. ASSUME VoidLicence(s)
      PROVE  \E k \in Keys, row \in LicenceRow :
                 /\ db[Licence(k)] # Absent
                 /\ Write(s, Licence(k), row) /\ UNCHANGED db
  <2>1. job[s].op \in {"revoke", "revalidate"}
    BY <1>4 DEF VoidLicence, JobsOK, JobOK
  <2>2. PICK k \in Keys : job[s].target = Purchase(k) /\ db[Licence(k)] # Absent
    BY <1>4, <2>1 DEF VoidLicence, JobsOK, TargetThere
  <2>3. LicenceOf(job[s].target) = Licence(k)
    BY <2>2, RowNames
  <2>4. Seen(s, Licence(k)) \in LicenceRow
    BY <2>2, SeenType, RowNames
  <2>5. QED
    BY <1>4, <2>2, <2>3, <2>4, VoidedRow DEF VoidLicence
<1>5. QED
  BY <1>1, <1>2, <1>3, <1>4

LEMMA TablesTyped ==
    ASSUME TypeInv, [Next]_vars
    PROVE  TablesOK'
<1>0. TablesOK
  BY DEF TypeInv
<1>1. ASSUME UNCHANGED tableVars PROVE TablesOK'
  BY <1>0, <1>1 DEF TablesOK, IsTable, tableVars
<1>2. ASSUME NEW s \in Sessions, Cancel(s) PROVE TablesOK'
  BY <1>0, <1>2, Written, WriteKeepsTables
<1>3. ASSUME NEW s \in Sessions, ClaimKey(s) PROVE TablesOK'
  BY <1>0, <1>3, Written, WriteKeepsTables, RowNames
<1>4. ASSUME NEW s \in Sessions, InsertSubscription(s) PROVE TablesOK'
  BY <1>0, <1>4, Written, WriteKeepsTables
<1>5. ASSUME NEW s \in Sessions, VoidLicence(s) PROVE TablesOK'
  BY <1>0, <1>5, Written, WriteKeepsTables, RowNames
<1>6. ASSUME NEW s \in Sessions, draft' = [draft EXCEPT ![s] = Blank], UNCHANGED db, Leave(s)
      PROVE  TablesOK'
  BY <1>0, <1>6, DiscardKeepsTables
<1>7. ASSUME NEW s \in Sessions, Commit(s) PROVE TablesOK'
  BY <1>0, <1>7, CommitKeepsTables DEF Commit
<1>8. ASSUME ExpireJob PROVE TablesOK'
  BY <1>0, <1>8, SweepKeepsTables
<1>9. ASSUME Tick PROVE TablesOK'
  BY <1>0, <1>9, TickKeepsTables
<1>10. QED
  BY TableSteps, <1>1, <1>2, <1>3, <1>4, <1>5, <1>6, <1>7, <1>8, <1>9

\* A write changes one row of one draft, a row nobody else has written.
LEMMA WriteEffect ==
    ASSUME TablesOK, NEW s \in Sessions, NEW i \in Rows, NEW row, Write(s, i, row)
    PROVE  /\ \A o \in Sessions, j \in Rows :
                 draft'[o][j] = IF o = s /\ j = i THEN row ELSE draft[o][j]
           /\ \A o \in Sessions : o # s => draft[o][i] = Unwritten
BY DEF TablesOK, IsTable, Write, Writable

\* A discard or a commit empties one draft.
LEMMA BlankEffect ==
    ASSUME TablesOK, NEW s \in Sessions, draft' = [draft EXCEPT ![s] = Blank]
    PROVE  \A o \in Sessions, j \in Rows :
              draft'[o][j] = IF o = s THEN Unwritten ELSE draft[o][j]
BY DEF TablesOK, Blank

\* Time passes over every row and changes no mark.
LEMMA TickEffect ==
    ASSUME TablesOK, Tick
    PROVE  /\ \A i \in Rows : db'[i] = OlderRow(i, db[i]) /\ (db'[i] = Absent <=> db[i] = Absent)
           /\ \A s \in Sessions, i \in Rows :
                 /\ draft'[s][i] = OlderRow(i, draft[s][i])
                 /\ draft'[s][i] = Unwritten <=> draft[s][i] = Unwritten
<1>1. /\ \A i \in Rows : db'[i] = OlderRow(i, db[i])
      /\ \A s \in Sessions, i \in Rows : draft'[s][i] = OlderRow(i, draft[s][i])
  BY DEF Tick
<1>2. \A i \in LicenceRows : db'[i] = db[i] /\ \A s \in Sessions : draft'[s][i] = draft[s][i]
  BY <1>1, OlderRowType, RowNames
<1>3. ASSUME NEW i \in Subscriptions PROVE db'[i] = Absent <=> db[i] = Absent
  <2>1. db[i] \in Subscription \cup {Absent} /\ db'[i] = OlderRow(i, db[i])
    BY <1>1, RowNames DEF TablesOK, IsTable
  <2>2. CASE db[i] \in Subscription
    BY <2>1, <2>2, OlderRowType, RowsAreReal
  <2>3. CASE db[i] = Absent
    BY <2>1, <2>3, OlderRowType
  <2>4. QED
    BY <2>1, <2>2, <2>3
<1>4. \A i \in Subscriptions, s \in Sessions :
         draft'[s][i] = Unwritten <=> draft[s][i] = Unwritten
  BY <1>1, OlderRowType, RowNames, RowsAreReal DEF TablesOK, IsTable
<1>5. QED
  BY <1>1, <1>2, <1>3, <1>4, RowNames

LEMMA ExclusiveKept ==
    ASSUME TypeInv, [Next]_vars
    PROVE  Exclusive'
<1> USE DEF TypeInv
<1>1. ASSUME UNCHANGED tableVars PROVE Exclusive'
  BY <1>1 DEF Exclusive, tableVars
<1>2. ASSUME NEW s \in Sessions, NEW i \in Rows, NEW row, Write(s, i, row)
      PROVE  Exclusive'
  BY <1>2, WriteEffect DEF Exclusive
<1>3. ASSUME NEW s \in Sessions, Cancel(s) PROVE Exclusive'
  BY <1>2, <1>3, Written, RowNames
<1>4. ASSUME NEW s \in Sessions, ClaimKey(s) PROVE Exclusive'
  BY <1>2, <1>4, Written, RowNames
<1>5. ASSUME NEW s \in Sessions, InsertSubscription(s) PROVE Exclusive'
  BY <1>2, <1>5, Written, RowNames
<1>6. ASSUME NEW s \in Sessions, VoidLicence(s) PROVE Exclusive'
  BY <1>2, <1>6, Written, RowNames
<1>7. ASSUME NEW s \in Sessions, draft' = [draft EXCEPT ![s] = Blank] PROVE Exclusive'
  <2>1. \A o \in Sessions, j \in Rows :
           draft'[o][j] = IF o = s THEN Unwritten ELSE draft[o][j]
    BY <1>7, BlankEffect
  <2>2. QED
    BY <2>1 DEF Exclusive
<1>8. ASSUME NEW s \in Sessions, Commit(s) PROVE Exclusive'
  BY <1>7, <1>8 DEF Commit, CommitRows
<1>9. ASSUME ExpireJob PROVE Exclusive'
  BY <1>9 DEF ExpireJob, Exclusive
<1>10. ASSUME Tick PROVE Exclusive'
  BY <1>10, TickEffect DEF Exclusive
<1>11. QED
  BY TableSteps, <1>1, <1>3, <1>4, <1>5, <1>6, <1>7, <1>8, <1>9, <1>10

\* No committed row ever goes away.
LEMMA RowsStay ==
    ASSUME TypeInv, [Next]_vars
    PROVE  \A i \in Rows : db[i] # Absent => db'[i] # Absent
<1> USE DEF TypeInv
<1> SUFFICES ASSUME NEW i \in Rows, db[i] # Absent PROVE db'[i] # Absent
  OBVIOUS
<1>1. ASSUME NEW s \in Sessions, Commit(s) PROVE db'[i] # Absent
  BY <1>1, SeenType DEF Commit, CommitRows
<1>2. ASSUME ExpireJob PROVE db'[i] # Absent
  <2>1. CASE i \in Overdue
    <3>1. db[i] \in Subscription
      BY <2>1 DEF Overdue, TablesOK, IsTable
    <3>2. db'[i] = [db[i] EXCEPT !.status = "expired"]
      BY <1>2, <2>1 DEF ExpireJob
    <3>3. QED
      BY <3>1, <3>2, ExpiredRow, RowsAreReal
  <2>2. CASE i \notin Overdue
    BY <1>2, <2>2 DEF ExpireJob
  <2>3. QED
    BY <2>1, <2>2
<1>3. ASSUME Tick PROVE db'[i] # Absent
  BY <1>3, TickEffect
<1>4. ASSUME UNCHANGED db PROVE db'[i] # Absent
  BY <1>4
<1>5. QED
  BY TableSteps, <1>1, <1>2, <1>3, <1>4
     DEF tableVars, Cancel, ClaimKey, InsertSubscription, VoidLicence

LEMMA PairedKept ==
    ASSUME TypeInv, [Next]_vars
    PROVE  Paired'
<1> USE DEF TypeInv
<1> SUFFICES ASSUME NEW k \in Keys, db'[Licence(k)] # Absent PROVE db'[Purchase(k)] # Absent
  BY DEF Paired
<1>0. Licence(k) \in Rows /\ Purchase(k) \in Rows
  BY RowNames
<1>1. CASE db[Licence(k)] # Absent
  BY <1>0, <1>1, RowsStay DEF Paired
<1>2. CASE db[Licence(k)] = Absent
  <2>1. ASSUME NEW s \in Sessions, Commit(s) PROVE db'[Purchase(k)] # Absent
    <3>1. draft[s][Licence(k)] # Unwritten
      BY <1>0, <1>2, <2>1 DEF Commit, CommitRows, Seen
    <3>2. draft[s][Purchase(k)] # Unwritten
      BY <1>2, <2>1, <3>1 DEF Claims, Commit
    <3>3. db'[Purchase(k)] = draft[s][Purchase(k)]
      BY <1>0, <2>1, <3>2 DEF Commit, CommitRows, Seen
    <3>4. draft[s][Purchase(k)] \in Subscription
      BY <3>2, RowNames DEF TablesOK, IsTable
    <3>5. QED
      BY <3>3, <3>4, RowsAreReal
  <2>2. ASSUME ExpireJob PROVE FALSE
    BY <1>0, <1>2, <2>2 DEF ExpireJob, Overdue
  <2>3. ASSUME Tick PROVE FALSE
    BY <1>0, <1>2, <2>3, TickEffect
  <2>4. ASSUME UNCHANGED db PROVE FALSE
    BY <1>2, <2>4
  <2>5. QED
    BY TableSteps, <2>1, <2>2, <2>3, <2>4
       DEF tableVars, Cancel, ClaimKey, InsertSubscription, VoidLicence
<1>3. QED
  BY <1>1, <1>2

-----------------------------------------------------------------------------
(* The jobs. *)

\* Whoever keeps its place keeps what is known of its job.
LEMMA OthersKeep ==
    ASSUME TypeInv, [Next]_vars, NEW s \in Sessions, pc'[s] # "idle",
           pc'[s] = pc[s], job'[s] = job[s], found'[s] = found[s]
    PROVE  JobOK(s)' /\ TargetThere(s)'
<1>1. JobOK(s) /\ TargetThere(s)
  BY DEF TypeInv, JobsOK
<1>2. JobOK(s)'
  BY <1>1 DEF JobOK
<1>3. TargetThere(s)'
  BY <1>1, RowsStay, RowNames DEF TargetThere
<1>4. QED
  BY <1>2, <1>3

\* The session that moves has a job that fits its new place, or is idle.
LEMMA MoverKeeps ==
    ASSUME TypeInv, [Next]_vars, SessionsOK', NEW s \in Sessions, pc'[s] # "idle",
           ~(pc'[s] = pc[s] /\ job'[s] = job[s] /\ found'[s] = found[s])
    PROVE  JobOK(s)' /\ TargetThere(s)'
<1> USE DEF TypeInv
<1> DEFINE Goal == JobOK(s)' /\ TargetThere(s)'
           Kept(o) == pc'[o] = pc[o] /\ job'[o] = job[o] /\ found'[o] = found[o]
<1> SUFFICES Goal
  OBVIOUS
<1>a. ASSUME pc[s] # "idle" PROVE JobOK(s) /\ TargetThere(s)
  BY <1>a DEF JobsOK
<1>b. ASSUME NEW o \in Sessions, NEW step, NEW op, NEW u, NEW i, NEW p, Begin(o, step, op, u, i, p)
      PROVE  \/ Kept(s)
             \/ /\ s = o /\ pc'[s] = step /\ UNCHANGED db
                /\ job'[s].op = op /\ job'[s].target = i /\ job'[s] \in Job \cup {NoJob}
                /\ job'[s] = [op |-> op, user |-> u, target |-> i, plan |-> p]
  BY <1>b DEF Begin, Goto, SessionsOK, tableVars
<1>1. ASSUME NEW o \in Sessions, Activate(o) PROVE Goal
  <2>1. PICK u \in Users, k \in Keys, p \in Sold : Begin(o, "verify", "activate", u, Purchase(k), p)
    BY <1>1 DEF Activate
  <2>2. [op |-> "activate", user |-> u, target |-> Purchase(k), plan |-> p] \in Job
    BY RowNames, BillingAssumption DEF Job, Operations
  <2>3. QED
    BY <1>b, <2>1, <2>2 DEF JobOK, TargetThere
<1>2. ASSUME NEW o \in Sessions, StartTrial(o) PROVE Goal
  <2>1. PICK u \in Users, p \in Plans : Begin(o, "lock", "trial", u, Trial(u), p)
    BY <1>2 DEF StartTrial
  <2>2. [op |-> "trial", user |-> u, target |-> Trial(u), plan |-> p] \in Job
        /\ Trial(u) \in Subscriptions
    BY RowNames DEF Job, Operations
  <2>3. QED
    BY <1>b, <2>1, <2>2 DEF JobOK, TargetThere
<1>3. ASSUME NEW o \in Sessions, AdminGrant(o) PROVE Goal
  <2>1. PICK u \in Users, g \in Grants, p \in Plans : Begin(o, "read", "grant", u, Granted(g), p)
    BY <1>3 DEF AdminGrant
  <2>2. [op |-> "grant", user |-> u, target |-> Granted(g), plan |-> p] \in Job
        /\ Granted(g) \in Subscriptions
    BY RowNames DEF Job, Operations
  <2>3. QED
    BY <1>b, <2>1, <2>2 DEF JobOK, TargetThere
<1>4. ASSUME NEW o \in Sessions, AdminRevoke(o) PROVE Goal
  <2>0. PICK u \in Users :
            \E i \in ActiveIn(db, u) : Begin(o, "read", "drop", u, NoRow, db[i].plan)
    BY <1>4 DEF AdminRevoke
  <2>1. PICK i \in ActiveIn(db, u) : Begin(o, "read", "drop", u, NoRow, db[i].plan)
    BY <2>0
  <2>2. db[i] \in Subscription
    BY DEF ActiveIn, IsActive, TablesOK, IsTable
  <2>3. [op |-> "drop", user |-> u, target |-> NoRow, plan |-> db[i].plan] \in Job
    BY <2>2 DEF Job, Operations, Subscription
  <2>4. QED
    BY <1>b, <2>1, <2>3 DEF JobOK, TargetThere
<1>5. ASSUME NEW o \in Sessions, NEW k \in Keys, NEW op \in {"revoke", "revalidate"},
             NEW step \in {"void", "recheck"}, db[Licence(k)] # Absent,
             Begin(o, step, op, db[Licence(k)].user, Purchase(k), db[Purchase(k)].plan)
      PROVE  Goal
  <2>1. db[Licence(k)] \in LicenceRow /\ db[Purchase(k)] \in Subscription
    BY <1>5, RowNames DEF TablesOK, IsTable, Paired
  <2>2. [op |-> op, user |-> db[Licence(k)].user, target |-> Purchase(k),
         plan |-> db[Purchase(k)].plan] \in Job
    BY <2>1, RowNames DEF Job, Operations, Subscription, LicenceRow
  <2>3. QED
    BY <1>b, <1>5, <2>2 DEF JobOK, TargetThere
<1>6. ASSUME NEW o \in Sessions, RevokeLicence(o) PROVE Goal
  BY <1>5, <1>6 DEF RevokeLicence
<1>7. ASSUME NEW o \in Sessions, Revalidate(o) PROVE Goal
  BY <1>5, <1>7 DEF Revalidate
<1>8. ASSUME NEW o \in Sessions, Leave(o) PROVE Goal
  BY <1>8 DEF Leave, Goto, SessionsOK
<1>9. ASSUME NEW o \in Sessions, Verified(o) PROVE Goal
  BY <1>9, <1>a DEF Verified, Goto, SessionsOK, JobOK, TargetThere, tableVars
<1>10. ASSUME NEW o \in Sessions, Rechecked(o) PROVE Goal
  BY <1>10, <1>a DEF Rechecked, Goto, SessionsOK, JobOK, TargetThere, tableVars
<1>11. ASSUME NEW o \in Sessions, LockUser(o) PROVE Goal
  BY <1>11, <1>a DEF LockUser, Goto, SessionsOK, JobOK, TargetThere, tableVars
<1>12. ASSUME NEW o \in Sessions, Eligible(o) PROVE Goal
  <2>1. CASE Leave(o)
    BY <1>8, <2>1
  <2>2. CASE ~Leave(o)
    BY <1>12, <1>a, <2>2 DEF Eligible, Goto, SessionsOK, JobOK, TargetThere, tableVars
  <2>3. QED
    BY <2>1, <2>2
<1>13. ASSUME NEW o \in Sessions, NothingRunning(o) PROVE Goal
  <2>1. CASE Leave(o)
    BY <1>8, <2>1
  <2>2. CASE ~Leave(o)
    BY <1>13, <1>a, <2>2 DEF NothingRunning, Goto, SessionsOK, JobOK, TargetThere, tableVars
  <2>3. QED
    BY <2>1, <2>2
<1>14. ASSUME NEW o \in Sessions, ReadActive(o) PROVE Goal
  <2>1. o = s
    BY <1>14 DEF ReadActive, Goto, SessionsOK
  <2>2. JobOK(s) /\ TargetThere(s) /\ pc[s] = "read"
    BY <1>a, <1>14, <2>1 DEF ReadActive
  <2>3. JobOK(s)'
    BY <1>14, <2>1, <2>2 DEF ReadActive, Goto, SessionsOK, JobOK, AfterCancel
  <2>4. PICK i \in IF ActiveIn(db, job[s].user) = {} THEN {NoRow}
                   ELSE ActiveIn(db, job[s].user) :
            found' = [found EXCEPT ![s] = i]
    BY <1>14, <2>1 DEF ReadActive
  <2>5. found'[s] = i
    BY <2>4 DEF SessionsOK
  <2>6. pc'[s] = "cancel" => i \in ActiveIn(db, job[s].user)
    BY <1>14, <2>1, <2>4 DEF ReadActive, Goto, SessionsOK, AfterCancel
  <2>7. TargetThere(s)'
    BY <1>14, <2>2, <2>5, <2>6
       DEF ReadActive, TargetThere, JobOK, ActiveIn, IsActive, tableVars
  <2>8. QED
    BY <2>3, <2>7
<1>15. ASSUME NEW o \in Sessions, Cancel(o) PROVE Goal
  BY <1>15, <1>a DEF Cancel, AfterCancel, Goto, SessionsOK, JobOK, TargetThere
<1>16. ASSUME NEW o \in Sessions, ClaimKey(o) PROVE Goal
  BY <1>16, <1>a DEF ClaimKey, Goto, SessionsOK, JobOK, TargetThere
<1>17. ASSUME NEW o \in Sessions, InsertSubscription(o) PROVE Goal
  BY <1>17, <1>a DEF InsertSubscription, Goto, SessionsOK, JobOK, TargetThere
<1>18. ASSUME NEW o \in Sessions, VoidLicence(o) PROVE Goal
  BY <1>18, <1>a DEF VoidLicence, Goto, SessionsOK, JobOK, TargetThere
<1>19. ASSUME NEW o \in Sessions, ReadOwn(o) PROVE Goal
  <2>1. o = s
    BY <1>19 DEF ReadOwn, Goto, SessionsOK
  <2>2. JobOK(s) /\ TargetThere(s) /\ pc[s] = "readOwn"
    BY <1>a, <1>19, <2>1 DEF ReadOwn
  <2>3. PICK k \in Keys : job[s].target = Purchase(k) /\ db[Licence(k)] # Absent
    BY <2>2 DEF JobOK, TargetThere
  <2>4. Purchase(k) \in Subscriptions /\ db[Purchase(k)] # Absent
    BY <2>3, RowNames DEF Paired
  <2>5. JobOK(s)'
    BY <1>19, <2>1, <2>2 DEF ReadOwn, Goto, SessionsOK, JobOK
  <2>6. TargetThere(s)'
    BY <1>19, <2>1, <2>2, <2>3, <2>4 DEF ReadOwn, Goto, SessionsOK, TargetThere, tableVars
  <2>7. QED
    BY <2>5, <2>6
<1>20. ASSUME ExpireJob \/ Tick \/ UNCHANGED vars PROVE Goal
  BY <1>20 DEF ExpireJob, Tick, vars, sessionVars
<1>21. QED
  BY NextCases, <1>1, <1>2, <1>3, <1>4, <1>6, <1>7, <1>8, <1>9, <1>10, <1>11, <1>12, <1>13,
     <1>14, <1>15, <1>16, <1>17, <1>18, <1>19, <1>20 DEF Dismissed, Clash, Commit, Abort

LEMMA JobsKept ==
    ASSUME TypeInv, [Next]_vars
    PROVE  JobsOK'
BY SessionsTyped, OthersKeep, MoverKeeps DEF JobsOK

LEMMA ClaimsKept ==
    ASSUME TypeInv, [Next]_vars
    PROVE  Claims'
<1> USE DEF TypeInv
<1> DEFINE Claim(o, k) ==
               draft[o][Licence(k)] # Unwritten /\ db[Licence(k)] = Absent =>
                   /\ pc[o] \in {"insert", "commit"}
                   /\ job[o].op = "activate" /\ job[o].target = Purchase(k)
                   /\ pc[o] = "commit" => draft[o][Purchase(k)] # Unwritten
           Moved(s) == \A o \in Sessions : o # s => pc'[o] = pc[o] /\ job'[o] = job[o]
<1> SUFFICES ASSUME NEW o \in Sessions, NEW k \in Keys PROVE Claim(o, k)'
  BY DEF Claims
<1>a. Claim(o, k)
  BY DEF Claims
<1>b. Licence(k) \in Rows /\ Purchase(k) \in Rows /\ Licence(k) \notin Subscriptions
      /\ Purchase(k) \notin LicenceRows
  BY RowNames
<1>c. ASSUME NEW s \in Sessions, Moved(s), UNCHANGED tableVars, pc[s] \notin {"insert", "commit"}
      PROVE  Claim(o, k)'
  BY <1>a, <1>c DEF tableVars
<1>1. ASSUME NEW s \in Sessions,
             Activate(s) \/ StartTrial(s) \/ AdminGrant(s) \/ AdminRevoke(s)
                \/ RevokeLicence(s) \/ Revalidate(s)
      PROVE  Claim(o, k)'
  BY <1>1, <1>c DEF Activate, StartTrial, AdminGrant, AdminRevoke, RevokeLicence, Revalidate,
                    Begin, Goto, SessionsOK
<1>2. ASSUME NEW s \in Sessions,
             Verified(s) \/ Rechecked(s) \/ Dismissed(s) \/ LockUser(s)
      PROVE  Claim(o, k)'
  BY <1>2, <1>c DEF Verified, Rechecked, Dismissed, LockUser, Leave, Goto, SessionsOK
<1>3. ASSUME NEW s \in Sessions, Eligible(s) \/ NothingRunning(s) PROVE Claim(o, k)'
  BY <1>3, <1>c DEF Eligible, NothingRunning, Leave, Goto, SessionsOK
<1>4. ASSUME NEW s \in Sessions, ReadActive(s) \/ ReadOwn(s) PROVE Claim(o, k)'
  BY <1>4, <1>c DEF ReadActive, ReadOwn, Goto, SessionsOK
<1>5. ASSUME NEW s \in Sessions, Cancel(s) PROVE Claim(o, k)'
  <2>0. PICK row : found[s] \in Subscriptions /\ Write(s, found[s], row) /\ UNCHANGED db
    BY <1>5, Written
  <2>1. /\ draft'[o][Licence(k)] = draft[o][Licence(k)] /\ UNCHANGED db
        /\ o # s => draft'[o][Purchase(k)] = draft[o][Purchase(k)]
    BY <1>b, <2>0, WriteEffect, RowNames
  <2>2. pc[s] = "cancel" /\ UNCHANGED job /\ (o # s => pc'[o] = pc[o])
    BY <1>5 DEF Cancel, Goto, SessionsOK
  <2>3. QED
    BY <1>a, <2>1, <2>2
<1>6. ASSUME NEW s \in Sessions, ClaimKey(s) PROVE Claim(o, k)'
  <2>1. PICK j \in Keys, row \in LicenceRow :
            /\ job[s].op = "activate" /\ job[s].target = Purchase(j)
            /\ Write(s, Licence(j), row) /\ UNCHANGED db
    BY <1>6, Written
  <2>2. pc[s] = "claim" /\ pc'[s] = "insert" /\ UNCHANGED job /\ (o # s => pc'[o] = pc[o])
    BY <1>6 DEF ClaimKey, Goto, SessionsOK
  <2>3. Licence(j) \in Rows /\ (Licence(k) = Licence(j) => k = j) /\ Purchase(k) # Licence(j)
    BY <1>b, RowNames
  <2>4. /\ draft'[o][Licence(k)] = IF o = s /\ Licence(k) = Licence(j) THEN row
                                   ELSE draft[o][Licence(k)]
        /\ draft'[o][Purchase(k)] = draft[o][Purchase(k)]
    BY <1>b, <2>1, <2>3, WriteEffect
  <2>5. CASE o = s /\ k = j
    BY <2>1, <2>2, <2>5
  <2>6. CASE ~(o = s /\ k = j)
    BY <1>a, <2>1, <2>2, <2>3, <2>4, <2>6
  <2>7. QED
    BY <2>5, <2>6
<1>7. ASSUME NEW s \in Sessions, InsertSubscription(s) PROVE Claim(o, k)'
  <2>1. PICK row \in Subscription :
            /\ job[s].target \in Subscriptions
            /\ Write(s, job[s].target, row) /\ UNCHANGED db
    BY <1>7, Written
  <2>2. pc[s] = "insert" /\ pc'[s] = "commit" /\ UNCHANGED job /\ (o # s => pc'[o] = pc[o])
    BY <1>7 DEF InsertSubscription, Goto, SessionsOK
  <2>3. /\ draft'[o][Licence(k)] = draft[o][Licence(k)]
        /\ o # s => draft'[o][Purchase(k)] = draft[o][Purchase(k)]
        /\ o = s /\ job[s].target = Purchase(k) => draft'[o][Purchase(k)] = row
    BY <1>b, <2>1, WriteEffect, RowNames
  <2>4. row # Unwritten
    BY RowsAreReal
  <2>5. QED
    BY <1>a, <2>1, <2>2, <2>3, <2>4
<1>8. ASSUME NEW s \in Sessions, VoidLicence(s) PROVE Claim(o, k)'
  <2>1. PICK j \in Keys, row \in LicenceRow :
            /\ db[Licence(j)] # Absent
            /\ Write(s, Licence(j), row) /\ UNCHANGED db
    BY <1>8, Written
  <2>2. pc[s] = "void" /\ UNCHANGED job /\ (o # s => pc'[o] = pc[o])
    BY <1>8 DEF VoidLicence, Goto, SessionsOK
  <2>3. Licence(j) \in Rows /\ (Licence(k) = Licence(j) => k = j) /\ Purchase(k) # Licence(j)
    BY <1>b, RowNames
  <2>4. /\ draft'[o][Licence(k)] = IF o = s /\ Licence(k) = Licence(j) THEN row
                                   ELSE draft[o][Licence(k)]
        /\ draft'[o][Purchase(k)] = draft[o][Purchase(k)]
    BY <1>b, <2>1, <2>3, WriteEffect
  <2>5. QED
    BY <1>a, <2>1, <2>2, <2>3, <2>4
<1>9. ASSUME NEW s \in Sessions, Leave(s), draft' = [draft EXCEPT ![s] = Blank],
             db'[Licence(k)] = Absent => db[Licence(k)] = Absent
      PROVE  Claim(o, k)'
  <2>1. \A j \in Rows : draft'[o][j] = IF o = s THEN Unwritten ELSE draft[o][j]
    BY <1>9, BlankEffect
  <2>2. o # s => pc'[o] = pc[o] /\ job'[o] = job[o]
    BY <1>9 DEF Leave, Goto, SessionsOK
  <2>3. QED
    BY <1>9, <1>a, <1>b, <2>1, <2>2
<1>10. db'[Licence(k)] = Absent => db[Licence(k)] = Absent
  BY <1>b, RowsStay
<1>11. ASSUME NEW s \in Sessions, Clash(s) \/ Abort(s) \/ Commit(s) PROVE Claim(o, k)'
  BY <1>9, <1>10, <1>11 DEF Clash, DiscardRows, Abort, Commit, CommitRows
<1>12. ASSUME ExpireJob PROVE Claim(o, k)'
  BY <1>10, <1>12, <1>a DEF ExpireJob, sessionVars
<1>13. ASSUME Tick PROVE Claim(o, k)'
  BY <1>13, <1>a, <1>b, TickEffect DEF Tick
<1>14. ASSUME UNCHANGED vars PROVE Claim(o, k)'
  BY <1>14, <1>a DEF vars, tableVars, sessionVars
<1>15. QED
  BY NextCases, <1>1, <1>2, <1>3, <1>4, <1>5, <1>6, <1>7, <1>8, <1>11, <1>12, <1>13, <1>14

LEMMA TypeInvInit == Init => TypeInv
<1> SUFFICES ASSUME Init PROVE TypeInv
  OBVIOUS
<1>1. TablesOK
  BY BlankTable, RowNames DEF Init, TablesOK, IsTable
<1>2. SessionsOK
  BY DEF Init, SessionsOK, Steps, Ends
<1>3. JobsOK
  BY DEF Init, JobsOK
<1>4. Paired /\ Claims /\ Exclusive
  BY RowNames DEF Init, Paired, Claims, Exclusive, Blank
<1>5. QED
  BY <1>1, <1>2, <1>3, <1>4 DEF TypeInv

LEMMA TypeInvKept == TypeInv /\ [Next]_vars => TypeInv'
BY TablesTyped, SessionsTyped, JobsKept, PairedKept, ClaimsKept, ExclusiveKept DEF TypeInv

LEMMA TypeInvHolds == Spec => []TypeInv
<1>1. QED
  BY TypeInvInit, TypeInvKept, PTL DEF Spec

\* Every row keeps the type of its table and every session its own, whatever is in flight: in
\* particular no revocation meets a licence without its subscription.
THEOREM TypeCorrect == Spec => []TypeOK
<1>1. TypeInv => TypeOK
  BY DEF TypeInv, TablesOK, SessionsOK, TypeOK
<1>2. QED
  BY <1>1, TypeInvHolds, PTL

-----------------------------------------------------------------------------
(***************************************************************************)
(* One active subscription.  The index looks at committed rows and at what *)
(* others have written; for that to be enough, at most one transaction may *)
(* be about to make a subscription of the user active, and no session may  *)
(* see two.                                                                *)
(***************************************************************************)
OneCommitted ==
    \A u \in Users, i, j \in Subscriptions :
        IsActive(db[i], u) /\ IsActive(db[j], u) => i = j

OneSeen ==
    \A s \in Sessions, u \in Users, i, j \in Subscriptions :
        IsActive(Seen(s, i), u) /\ IsActive(Seen(s, j), u) => i = j

OneWriter ==
    \A s, o \in Sessions, u \in Users, i, j \in Subscriptions :
        IsActive(draft[s][i], u) /\ IsActive(draft[o][j], u) => s = o

ActiveInv == OneCommitted /\ OneSeen /\ OneWriter

LEMMA ActiveInvInit == Init => ActiveInv
<1> SUFFICES ASSUME Init PROVE ActiveInv
  OBVIOUS
<1>1. \A i \in Subscriptions, s \in Sessions, u \in Users :
         ~IsActive(db[i], u) /\ ~IsActive(draft[s][i], u) /\ ~IsActive(Seen(s, i), u)
  BY RowNames, ActiveRows DEF Init, Blank, Seen
<1>2. OneWriter
  BY <1>1 DEF OneWriter
<1>3. OneCommitted
  BY <1>1, RowNames, ActiveRows DEF OneCommitted, Init
<1>4. OneSeen
  BY <1>1 DEF OneSeen
<1>5. QED
  BY <1>2, <1>3, <1>4 DEF ActiveInv

\* Writes that make nothing active leave fewer active rows in every view.
LEMMA FewerActive ==
    ASSUME ActiveInv,
           \A i \in Subscriptions, u \in Users : IsActive(db'[i], u) => IsActive(db[i], u),
           \A s \in Sessions, i \in Subscriptions, u \in Users :
               /\ IsActive(draft'[s][i], u) => IsActive(draft[s][i], u)
               /\ IsActive(Seen(s, i)', u) => IsActive(Seen(s, i), u)
    PROVE  ActiveInv'
BY DEF ActiveInv, OneCommitted, OneSeen, OneWriter

LEMMA CancelKeepsActive ==
    ASSUME TypeInv, ActiveInv, NEW s \in Sessions, Cancel(s)
    PROVE  ActiveInv'
<1>1. PICK row \in Subscription :
          /\ row.status = "cancelled" /\ found[s] \in Subscriptions
          /\ Write(s, found[s], row) /\ UNCHANGED db
  BY Written
<1>2. \A u : ~IsActive(row, u)
  BY <1>1, ActiveRows
<1>3. \A o \in Sessions, j \in Rows :
         draft'[o][j] = IF o = s /\ j = found[s] THEN row ELSE draft[o][j]
  BY <1>1, WriteEffect, RowNames DEF TypeInv
<1>4. row # Unwritten
  BY RowsAreReal
<1>5. QED
  BY <1>1, <1>2, <1>3, <1>4, FewerActive, RowNames DEF Seen

LEMMA LicenceWriteKeepsActive ==
    ASSUME TypeInv, ActiveInv, NEW s \in Sessions, NEW k \in Keys, NEW row,
           Write(s, Licence(k), row), UNCHANGED db
    PROVE  ActiveInv'
<1>1. \A o \in Sessions, j \in Subscriptions : draft'[o][j] = draft[o][j]
  BY WriteEffect, RowNames DEF TypeInv
<1>2. QED
  BY <1>1, FewerActive DEF Seen

LEMMA InsertKeepsActive ==
    ASSUME TypeInv, ActiveInv, NEW s \in Sessions, InsertSubscription(s)
    PROVE  ActiveInv'
<1> DEFINE t == job[s].target
           v == job[s].user
<1>1. PICK row \in Subscription :
          /\ t \in Subscriptions /\ row.user = v
          /\ Write(s, t, row) /\ UNCHANGED db
  BY Written
<1>2. \A u : IsActive(row, u) => u = v
  BY <1>1, ActiveRows
<1>3. \A o \in Sessions, j \in Rows :
         draft'[o][j] = IF o = s /\ j = t THEN row ELSE draft[o][j]
  BY <1>1, WriteEffect, RowNames DEF TypeInv
<1>4. \A j \in Subscriptions : ~IsActive(Seen(s, j), v)
  BY DEF InsertSubscription, InsertClashes
<1>5. \A o \in Sessions, j \in Subscriptions : o # s => ~IsActive(draft[o][j], v)
  BY ActiveRows DEF InsertSubscription, InsertWaits
<1>6. \A j \in Subscriptions : ~IsActive(draft[s][j], v)
  BY <1>4, ActiveRows DEF Seen
<1>7. OneCommitted'
  <2>1. db' = db
    BY <1>1
  <2>2. OneCommitted
    BY DEF ActiveInv
  <2>3. QED
    BY <2>1, <2>2 DEF OneCommitted
<1>8. OneWriter'
  BY <1>2, <1>3, <1>5, <1>6, RowNames DEF ActiveInv, OneWriter
<1>9. OneSeen'
  <2> SUFFICES ASSUME NEW o \in Sessions, NEW u \in Users,
                      NEW i \in Subscriptions, NEW j \in Subscriptions,
                      IsActive(Seen(o, i)', u), IsActive(Seen(o, j)', u)
               PROVE  i = j
    BY DEF OneSeen
  <2>1. row # Unwritten
    BY RowsAreReal
  <2>2. \A n \in Subscriptions : Seen(o, n)' = IF o = s /\ n = t THEN row ELSE Seen(o, n)
    BY <1>1, <1>3, <2>1, RowNames DEF Seen
  <2>3. CASE o = s /\ u = v
    BY <1>4, <2>2, <2>3
  <2>4. CASE ~(o = s /\ u = v)
    BY <1>2, <2>2, <2>4 DEF ActiveInv, OneSeen
  <2>5. QED
    BY <2>3, <2>4
<1>10. QED
  BY <1>7, <1>8, <1>9 DEF ActiveInv

LEMMA DiscardKeepsActive ==
    ASSUME TypeInv, ActiveInv, NEW s \in Sessions,
           draft' = [draft EXCEPT ![s] = Blank], UNCHANGED db
    PROVE  ActiveInv'
<1>1. \A o \in Sessions, j \in Rows :
         draft'[o][j] = IF o = s THEN Unwritten ELSE draft[o][j]
  BY BlankEffect DEF TypeInv
<1>2. OneCommitted'
  BY DEF ActiveInv, OneCommitted
<1>3. OneWriter'
  BY <1>1, ActiveRows, RowNames DEF ActiveInv, OneWriter
<1>4. \A o \in Sessions, j \in Subscriptions :
         Seen(o, j)' = IF o = s THEN db[j] ELSE Seen(o, j)
  BY <1>1, RowNames DEF Seen
<1>5. OneSeen'
  BY <1>4 DEF ActiveInv, OneSeen, OneCommitted
<1>6. QED
  BY <1>2, <1>3, <1>5 DEF ActiveInv

LEMMA CommitKeepsActive ==
    ASSUME TypeInv, ActiveInv, NEW s \in Sessions, CommitRows(s)
    PROVE  ActiveInv'
<1>1. \A o \in Sessions, j \in Rows :
         draft'[o][j] = IF o = s THEN Unwritten ELSE draft[o][j]
  BY BlankEffect DEF TypeInv, CommitRows
<1>2. \A j \in Subscriptions : db'[j] = Seen(s, j)
  BY RowNames DEF CommitRows
<1>3. OneCommitted'
  BY <1>2 DEF ActiveInv, OneCommitted, OneSeen
<1>4. OneWriter'
  BY <1>1, ActiveRows, RowNames DEF ActiveInv, OneWriter
<1>5. OneSeen'
  <2> SUFFICES ASSUME NEW o \in Sessions, NEW u \in Users,
                      NEW i \in Subscriptions, NEW j \in Subscriptions,
                      IsActive(Seen(o, i)', u), IsActive(Seen(o, j)', u)
               PROVE  i = j
    BY DEF OneSeen
  <2>1. \A n \in Subscriptions :
           Seen(o, n)' = IF o = s \/ draft[o][n] = Unwritten THEN Seen(s, n) ELSE draft[o][n]
    BY <1>1, <1>2, RowNames DEF Seen
  <2>2. CASE \E n \in Subscriptions : o # s /\ IsActive(draft[o][n], u)
    <3>1. \A n \in Subscriptions : ~IsActive(draft[s][n], u)
      BY <2>2 DEF ActiveInv, OneWriter
    <3>2. \A n \in Subscriptions :
             IsActive(Seen(s, n), u) => Seen(s, n) = db[n]
      BY <3>1 DEF Seen
    <3>3. \A n \in Subscriptions : IsActive(Seen(o, n)', u) => IsActive(Seen(o, n), u)
      BY <2>1, <2>2, <3>2 DEF Seen
    <3>4. QED
      BY <3>3 DEF ActiveInv, OneSeen
  <2>3. CASE ~(\E n \in Subscriptions : o # s /\ IsActive(draft[o][n], u))
    <3>1. \A n \in Subscriptions : IsActive(Seen(o, n)', u) => IsActive(Seen(s, n), u)
      BY <2>1, <2>3
    <3>2. QED
      BY <3>1 DEF ActiveInv, OneSeen
  <2>4. QED
    BY <2>2, <2>3
<1>6. QED
  BY <1>3, <1>4, <1>5 DEF ActiveInv

LEMMA SweepKeepsActive ==
    ASSUME TypeInv, ActiveInv, ExpireJob
    PROVE  ActiveInv'
<1>1. ASSUME NEW i \in Subscriptions, NEW u \in Users, IsActive(db'[i], u)
      PROVE  i \notin Overdue
  <2>1. SUFFICES ASSUME i \in Overdue PROVE FALSE
    OBVIOUS
  <2>2. db[i] \in Subscription
    BY <2>1 DEF Overdue, TypeInv, TablesOK, IsTable
  <2>3. db'[i] = [db[i] EXCEPT !.status = "expired"]
    BY <2>1, RowNames DEF ExpireJob
  <2>4. db'[i] \in Subscription /\ db'[i].status = "expired"
    BY <2>2, <2>3, ExpiredRow
  <2>5. db'[i].status = "active"
    BY <1>1, <2>4, ActiveRows
  <2>6. QED
    BY <2>4, <2>5
<1>2. \A i \in Subscriptions, u \in Users : IsActive(db'[i], u) => db'[i] = db[i]
  BY <1>1, RowNames DEF ExpireJob
<1>3. draft' = draft
  BY DEF ExpireJob
<1>4. QED
  BY <1>2, <1>3, FewerActive DEF Seen

LEMMA TickKeepsActive ==
    ASSUME TypeInv, ActiveInv, Tick
    PROVE  ActiveInv'
<1>1. ASSUME NEW i \in Subscriptions, NEW u \in Users
      PROVE  /\ IsActive(db'[i], u) => IsActive(db[i], u)
             /\ \A s \in Sessions :
                   /\ IsActive(draft'[s][i], u) => IsActive(draft[s][i], u)
                   /\ draft'[s][i] = Unwritten <=> draft[s][i] = Unwritten
  <2>1. db[i] \in Subscription \cup {Absent} /\ db'[i] = OlderRow(i, db[i])
    BY TickEffect, RowNames DEF TypeInv, TablesOK, IsTable
  <2>2. ASSUME NEW s \in Sessions
        PROVE  /\ draft[s][i] \in Subscription \cup {Unwritten}
               /\ draft'[s][i] = OlderRow(i, draft[s][i])
               /\ draft'[s][i] = Unwritten <=> draft[s][i] = Unwritten
    BY TickEffect, RowNames DEF TypeInv, TablesOK, IsTable
  <2>3. QED
    BY <2>1, <2>2, ActiveRows
<1>2. QED
  BY <1>1, FewerActive DEF Seen

LEMMA ActiveInvKept ==
    ASSUME TypeInv, ActiveInv, [Next]_vars
    PROVE  ActiveInv'
<1>1. ASSUME UNCHANGED tableVars PROVE ActiveInv'
  <2>1. db' = db /\ draft' = draft
    BY <1>1 DEF tableVars
  <2>2. QED
    BY <2>1, FewerActive DEF Seen
<1>2. ASSUME NEW s \in Sessions, Cancel(s) PROVE ActiveInv'
  BY <1>2, CancelKeepsActive
<1>3. ASSUME NEW s \in Sessions, ClaimKey(s) PROVE ActiveInv'
  BY <1>3, Written, LicenceWriteKeepsActive
<1>4. ASSUME NEW s \in Sessions, InsertSubscription(s) PROVE ActiveInv'
  BY <1>4, InsertKeepsActive
<1>5. ASSUME NEW s \in Sessions, VoidLicence(s) PROVE ActiveInv'
  BY <1>5, Written, LicenceWriteKeepsActive
<1>6. ASSUME NEW s \in Sessions, draft' = [draft EXCEPT ![s] = Blank], UNCHANGED db, Leave(s)
      PROVE  ActiveInv'
  BY <1>6, DiscardKeepsActive
<1>7. ASSUME NEW s \in Sessions, Commit(s) PROVE ActiveInv'
  BY <1>7, CommitKeepsActive DEF Commit
<1>8. ASSUME ExpireJob PROVE ActiveInv'
  BY <1>8, SweepKeepsActive
<1>9. ASSUME Tick PROVE ActiveInv'
  BY <1>9, TickKeepsActive
<1>10. QED
  BY TableSteps, <1>1, <1>2, <1>3, <1>4, <1>5, <1>6, <1>7, <1>8, <1>9

LEMMA ActiveInvHolds == Spec => []ActiveInv
<1>1. TypeInv /\ TypeInv' /\ ActiveInv /\ [Next]_vars => ActiveInv'
  BY ActiveInvKept
<1>2. QED
  BY <1>1, ActiveInvInit, TypeInvHolds, PTL DEF Spec

\* No user ever has two active subscriptions, however many requests, admins and jobs race:
\* activation, trial and grant may rely on "one or none" (scalar_one_or_none).
THEOREM AtMostOneActive == Spec => []OneActive
<1>1. OneCommitted => OneActive
  <2> SUFFICES ASSUME OneCommitted, NEW u \in Users PROVE Cardinality(ActiveIn(db, u)) <= 1
    BY DEF OneActive
  <2>1. CASE ActiveIn(db, u) = {}
    BY <2>1, FS_EmptySet
  <2>2. CASE ActiveIn(db, u) # {}
    <3>1. PICK i \in ActiveIn(db, u) : TRUE
      BY <2>2
    <3>2. ActiveIn(db, u) = {i}
      BY <3>1 DEF OneCommitted, ActiveIn
    <3>3. QED
      BY <3>2, FS_Singleton
  <2>3. QED
    BY <2>1, <2>2
<1>2. ActiveInv => OneActive
  BY <1>1 DEF ActiveInv
<1>3. QED
  BY <1>2, ActiveInvHolds, PTL

-----------------------------------------------------------------------------
(***************************************************************************)
(* What a transaction has read and written.  It writes only the active     *)
(* subscription it found, which it cancels, and its own target, which is   *)
(* in no committed row until it commits; and when it commits it has        *)
(* written both.                                                           *)
(***************************************************************************)
Inserting == {"activate", "trial", "grant"}
Revoking == {"revoke", "revalidate"}

\* A licence and its subscription are committed together, for one user.
PairsOK ==
    \A k \in Keys :
        /\ db[Licence(k)] # Absent <=> db[Purchase(k)] # Absent
        /\ db[Licence(k)] # Absent => db[Licence(k)].user = db[Purchase(k)].user

\* Who activates or tries holds the lock of its user, from its first read to its end.
UnderLock(s) ==
    /\ pc[s] \in {"eligible", "running", "read", "cancel", "claim", "insert", "commit"}
    /\ job[s].op \in {"activate", "trial"}

LocksOK ==
    /\ \A s \in Sessions : UnderLock(s) => lock[job[s].user] = s
    /\ \A s \in Sessions, u \in Users : lock[u] = s => UnderLock(s) /\ job[s].user = u

\* The subscription that was found is one of the user's, and stays.
FoundOK ==
    \A s \in Sessions : found[s] # NoRow =>
        /\ pc[s] \in {"cancel", "claim", "insert", "commit"}
        /\ job[s].op # "trial"
        /\ db[found[s]] # Absent /\ db[found[s]].user = job[s].user
        /\ job[s].op \in Revoking => found[s] = job[s].target

\* What a trial, a grant and a revocation are about.
TrialOK(s) ==
    job[s].op = "trial" =>
        /\ job[s].target = Trial(job[s].user)
        /\ pc[s] \in {"running", "insert", "commit"} => db[Trial(job[s].user)] = Absent

GrantOK(s) ==
    job[s].op = "grant" =>
        /\ \E g \in Grants : job[s].target = Granted(g)
        /\ db[job[s].target] = Absent
        /\ \A o \in Sessions : o # s /\ pc[o] # "idle" => job[o].target # job[s].target

RevokeOK(s) ==
    job[s].op \in Revoking =>
        \E k \in Keys :
            /\ job[s].target = Purchase(k)
            /\ db[Licence(k)] # Absent /\ db[Licence(k)].user = job[s].user
            /\ pc[s] = "commit" /\ found[s] = NoRow => db[Purchase(k)].status # "active"

TargetsOK == \A s \in Sessions : pc[s] # "idle" => TrialOK(s) /\ GrantOK(s) /\ RevokeOK(s)

\* Everything a session has written ...
Cancelled(s, i) ==
    /\ i = found[s] /\ pc[s] \in {"claim", "insert", "commit"}
    /\ draft[s][i].status = "cancelled" /\ draft[s][i].user = job[s].user

Inserted(s, i) ==
    /\ i = job[s].target /\ pc[s] = "commit" /\ job[s].op \in Inserting
    /\ db[i] = Absent
    /\ draft[s][i] = [user |-> job[s].user, plan |-> job[s].plan,
                      status |-> "active", ends |-> until[s]]

Claimed(s, k) ==
    /\ job[s].op = "activate" /\ pc[s] \in {"insert", "commit"}
    /\ db[Licence(k)] = Absent
    /\ draft[s][Licence(k)] = [user |-> job[s].user, status |-> "active"]

VoidedBy(s, k) ==
    /\ job[s].op \in Revoking /\ pc[s] \in {"readOwn", "cancel", "commit"}
    /\ db[Licence(k)] # Absent
    /\ draft[s][Licence(k)] = [user |-> job[s].user, status |-> "revoked"]

DraftOK(s) ==
    /\ \A i \in Subscriptions : draft[s][i] # Unwritten => Cancelled(s, i) \/ Inserted(s, i)
    /\ \A k \in Keys : draft[s][Licence(k)] # Unwritten =>
          job[s].target = Purchase(k) /\ (Claimed(s, k) \/ VoidedBy(s, k))

DraftsOK == \A s \in Sessions : DraftOK(s)

\* ... and everything it must have written by then.
WrittenBy(s) ==
    /\ pc[s] \in {"claim", "insert", "commit"} /\ found[s] # NoRow =>
          draft[s][found[s]] # Unwritten
    /\ pc[s] = "commit" /\ job[s].op \in Inserting => draft[s][job[s].target] # Unwritten
    /\ pc[s] \in {"insert", "commit"} /\ job[s].op = "activate" =>
          draft[s][LicenceOf(job[s].target)] # Unwritten
    /\ pc[s] \in {"readOwn", "cancel", "commit"} /\ job[s].op \in Revoking =>
          draft[s][LicenceOf(job[s].target)] # Unwritten

WrittenOK == \A s \in Sessions : WrittenBy(s)

WorkInv == PairsOK /\ LocksOK /\ FoundOK /\ TargetsOK /\ DraftsOK /\ WrittenOK

\* The end an activation computed still continues the term it found.
Continues(s) ==
    LET row == db[found[s]]
    IN  found[s] # NoRow /\ row.status = "active" /\ row.plan = job[s].plan
        /\ row.ends # Never /\ row.ends > 0 =>
            until[s] = IF Term[row.plan] = Never THEN Never ELSE row.ends + Term[row.plan]

EndsInv == \A s \in Sessions : pc[s] # "idle" /\ job[s].op = "activate" => Continues(s)

DraftInv == WorkInv /\ EndsInv

\* Nothing written yet, and nothing read.
LEMMA DraftInvInit == Init => DraftInv
<1> SUFFICES ASSUME Init PROVE DraftInv
  OBVIOUS
<1>1. \A s \in Sessions, i \in Rows : draft[s][i] = Unwritten
  BY DEF Init, Blank
<1>2. PairsOK
  BY RowNames DEF Init, PairsOK
<1>3. LocksOK
  BY BillingAssumption DEF Init, LocksOK, UnderLock
<1>4. FoundOK /\ TargetsOK /\ WrittenOK
  BY DEF Init, FoundOK, TargetsOK, WrittenOK, WrittenBy
<1>5. DraftsOK
  BY <1>1, RowNames DEF DraftsOK, DraftOK
<1>6. EndsInv
  BY DEF Init, EndsInv
<1>7. QED
  BY <1>2, <1>3, <1>4, <1>5, <1>6 DEF DraftInv, WorkInv

\* Names of rows of one kind are not names of another.
LEMMA NamesApart ==
    /\ \A k \in Keys : /\ \A u \in Users : Purchase(k) # Trial(u)
                      /\ \A g \in Grants : Purchase(k) # Granted(g)
    /\ \A u \in Users, g \in Grants : Trial(u) # Granted(g)
    /\ \A k, j \in Keys : Purchase(k) = Purchase(j) => k = j
    /\ \A u, v \in Users : Trial(u) = Trial(v) => u = v
BY DEF Purchase, Trial, Granted

-----------------------------------------------------------------------------
(* What a commit does to the tables, and what no step does to them. *)

\* The row an operation inserts.
NewRow(s) == [user |-> job[s].user, plan |-> job[s].plan, status |-> "active", ends |-> until[s]]

LEMMA CommitEffect ==
    ASSUME TypeInv, WorkInv, NEW s \in Sessions, Commit(s)
    PROVE  /\ \A i \in Subscriptions :
                 \/ db'[i] = db[i]
                 \/ /\ i = found[s] /\ db[i] # Absent
                    /\ db'[i].status = "cancelled" /\ db'[i].user = db[i].user
                 \/ /\ i = job[s].target /\ job[s].op \in Inserting
                    /\ db[i] = Absent /\ db'[i] = NewRow(s)
           /\ found[s] # NoRow => db'[found[s]].status = "cancelled"
           /\ job[s].op \in Inserting =>
                 db[job[s].target] = Absent /\ db'[job[s].target] = NewRow(s)
           /\ \A k \in Keys :
                 \/ db'[Licence(k)] = db[Licence(k)]
                 \/ /\ job[s].op = "activate" /\ job[s].target = Purchase(k)
                    /\ db[Licence(k)] = Absent
                    /\ db'[Licence(k)] = [user |-> job[s].user, status |-> "active"]
                 \/ /\ job[s].op \in Revoking /\ job[s].target = Purchase(k)
                    /\ db[Licence(k)] # Absent /\ db[Licence(k)].user = job[s].user
                    /\ db'[Licence(k)] = [user |-> job[s].user, status |-> "revoked"]
           /\ job[s].op = "activate" =>
                 \E k \in Keys :
                    /\ job[s].target = Purchase(k) /\ db[Licence(k)] = Absent
                    /\ db'[Licence(k)] = [user |-> job[s].user, status |-> "active"]
           /\ job[s].op \in Revoking =>
                 \E k \in Keys :
                    /\ job[s].target = Purchase(k) /\ db[Licence(k)] # Absent
                    /\ db'[Licence(k)] = [user |-> job[s].user, status |-> "revoked"]
<1> USE DEF TypeInv, WorkInv
<1>0. pc[s] = "commit" /\ JobOK(s) /\ TargetsOK /\ RevokeOK(s)
  BY DEF Commit, JobsOK, TargetsOK
<1>1. \A i \in Rows : db'[i] = Seen(s, i)
  BY DEF Commit, CommitRows
<1>2. ASSUME NEW i \in Subscriptions
      PROVE  \/ db'[i] = db[i]
             \/ /\ i = found[s] /\ db[i] # Absent
                /\ db'[i].status = "cancelled" /\ db'[i].user = db[i].user
             \/ /\ i = job[s].target /\ job[s].op \in Inserting
                /\ db[i] = Absent /\ db'[i] = NewRow(s)
  <2>1. CASE draft[s][i] = Unwritten
    BY <1>1, <2>1, RowNames DEF Seen
  <2>2. CASE draft[s][i] # Unwritten
    <3>1. db'[i] = draft[s][i]
      BY <1>1, <2>2, RowNames DEF Seen
    <3>2. CASE Cancelled(s, i)
      BY <3>1, <3>2, RowNames DEF Cancelled, FoundOK
    <3>3. CASE Inserted(s, i)
      BY <3>1, <3>3 DEF Inserted, NewRow
    <3>4. QED
      BY <2>2, <3>2, <3>3 DEF DraftsOK, DraftOK
  <2>3. QED
    BY <2>1, <2>2
<1>3. ASSUME found[s] # NoRow PROVE db'[found[s]].status = "cancelled"
  <2>1. found[s] \in Subscriptions /\ draft[s][found[s]] # Unwritten /\ db[found[s]] # Absent
    BY <1>0, <1>3 DEF WrittenOK, WrittenBy, SessionsOK, FoundOK
  <2>2. db'[found[s]] = draft[s][found[s]]
    BY <1>1, <2>1, RowNames DEF Seen
  <2>3. QED
    BY <2>1, <2>2 DEF DraftsOK, DraftOK, Cancelled, Inserted
<1>4. ASSUME job[s].op \in Inserting
      PROVE  db[job[s].target] = Absent /\ db'[job[s].target] = NewRow(s)
  <2>1. job[s].target \in Subscriptions
    BY <1>0, <1>4, RowNames DEF JobOK, Inserting
  <2>2. draft[s][job[s].target] # Unwritten
    BY <1>0, <1>4 DEF WrittenOK, WrittenBy
  <2>3. db'[job[s].target] = draft[s][job[s].target]
    BY <1>1, <2>1, <2>2, RowNames DEF Seen
  <2>4. CASE Inserted(s, job[s].target)
    BY <2>3, <2>4 DEF Inserted, NewRow
  <2>5. ~Cancelled(s, job[s].target)
    <3>1. SUFFICES ASSUME job[s].target = found[s] PROVE FALSE
      BY DEF Cancelled
    <3>2. db[job[s].target] # Absent /\ job[s].op \in {"activate", "grant"}
      BY <2>1, <1>4, <3>1, RowNames DEF FoundOK, Inserting
    <3>3. job[s].op = "activate"
      BY <1>0, <3>2 DEF TargetsOK, GrantOK
    <3>4. PICK k \in Keys : job[s].target = Purchase(k)
      BY <1>0, <3>3 DEF JobOK
    <3>5. draft[s][Licence(k)] # Unwritten
      BY <1>0, <3>3, <3>4, RowNames DEF WrittenOK, WrittenBy
    <3>6. db[Licence(k)] = Absent
      BY <3>3, <3>5 DEF DraftsOK, DraftOK, Claimed, VoidedBy, Revoking
    <3>7. QED
      BY <3>2, <3>4, <3>6 DEF PairsOK
  <2>6. QED
    BY <2>1, <2>2, <2>4, <2>5 DEF DraftsOK, DraftOK
<1>5. ASSUME NEW k \in Keys
      PROVE  \/ db'[Licence(k)] = db[Licence(k)]
             \/ /\ job[s].op = "activate" /\ job[s].target = Purchase(k)
                /\ db[Licence(k)] = Absent
                /\ db'[Licence(k)] = [user |-> job[s].user, status |-> "active"]
             \/ /\ job[s].op \in Revoking /\ job[s].target = Purchase(k)
                /\ db[Licence(k)] # Absent /\ db[Licence(k)].user = job[s].user
                /\ db'[Licence(k)] = [user |-> job[s].user, status |-> "revoked"]
  <2>1. CASE draft[s][Licence(k)] = Unwritten
    BY <1>1, <2>1, RowNames DEF Seen
  <2>2. CASE draft[s][Licence(k)] # Unwritten
    <3>1. db'[Licence(k)] = draft[s][Licence(k)]
      BY <1>1, <2>2, RowNames DEF Seen
    <3>2. job[s].target = Purchase(k) /\ (Claimed(s, k) \/ VoidedBy(s, k))
      BY <2>2 DEF DraftsOK, DraftOK
    <3>3. CASE Claimed(s, k)
      BY <3>1, <3>2, <3>3 DEF Claimed
    <3>4. CASE VoidedBy(s, k)
      <4>1. job[s].op \in Revoking
        BY <3>4 DEF VoidedBy
      <4>2. PICK j \in Keys : job[s].target = Purchase(j) /\ db[Licence(j)].user = job[s].user
        BY <1>0, <4>1 DEF RevokeOK
      <4>3. j = k
        BY <3>2, <4>2, NamesApart
      <4>4. QED
        BY <3>1, <3>2, <3>4, <4>2, <4>3 DEF VoidedBy
    <3>5. QED
      BY <3>2, <3>3, <3>4
  <2>3. QED
    BY <2>1, <2>2
<1>6. ASSUME job[s].op = "activate"
      PROVE  \E k \in Keys :
                /\ job[s].target = Purchase(k) /\ db[Licence(k)] = Absent
                /\ db'[Licence(k)] = [user |-> job[s].user, status |-> "active"]
  <2>1. PICK k \in Keys : job[s].target = Purchase(k)
    BY <1>0, <1>6 DEF JobOK
  <2>2. draft[s][Licence(k)] # Unwritten
    BY <1>0, <1>6, <2>1, RowNames DEF WrittenOK, WrittenBy
  <2>3. Claimed(s, k)
    BY <1>6, <2>2 DEF DraftsOK, DraftOK, VoidedBy, Revoking
  <2>4. db'[Licence(k)] = draft[s][Licence(k)]
    BY <1>1, <2>2, RowNames DEF Seen
  <2>5. QED
    BY <2>1, <2>3, <2>4 DEF Claimed
<1>7. ASSUME job[s].op \in Revoking
      PROVE  \E k \in Keys :
                /\ job[s].target = Purchase(k) /\ db[Licence(k)] # Absent
                /\ db'[Licence(k)] = [user |-> job[s].user, status |-> "revoked"]
  <2>1. PICK k \in Keys : job[s].target = Purchase(k)
    BY <1>0, <1>7 DEF RevokeOK
  <2>2. draft[s][Licence(k)] # Unwritten
    BY <1>0, <1>7, <2>1, RowNames DEF WrittenOK, WrittenBy
  <2>3. VoidedBy(s, k)
    BY <1>7, <2>2 DEF DraftsOK, DraftOK, Claimed, Revoking
  <2>4. db'[Licence(k)] = draft[s][Licence(k)]
    BY <1>1, <2>2, RowNames DEF Seen
  <2>5. QED
    BY <2>1, <2>3, <2>4 DEF VoidedBy
<1>8. QED
  BY <1>2, <1>3, <1>4, <1>5, <1>6, <1>7

\* No step changes whose a row is, or makes a row active that was not.
LEMMA RowsKeepOwner ==
    ASSUME TypeInv, WorkInv, [Next]_vars
    PROVE  /\ \A i \in Subscriptions : db[i] # Absent =>
                 /\ db'[i].user = db[i].user
                 /\ db[i].status # "active" => db'[i].status # "active"
           /\ \A k \in Keys : db[Licence(k)] # Absent =>
                 db'[Licence(k)].user = db[Licence(k)].user
<1> DEFINE Goal == /\ \A i \in Subscriptions : db[i] # Absent =>
                         /\ db'[i].user = db[i].user
                         /\ db[i].status # "active" => db'[i].status # "active"
                   /\ \A k \in Keys : db[Licence(k)] # Absent =>
                         db'[Licence(k)].user = db[Licence(k)].user
<1> SUFFICES Goal
  OBVIOUS
<1>1. ASSUME UNCHANGED db PROVE Goal
  BY <1>1
<1>2. ASSUME NEW s \in Sessions, Commit(s) PROVE Goal
  <2>1. ASSUME NEW i \in Subscriptions, db[i] # Absent
        PROVE  db'[i].user = db[i].user /\ (db[i].status # "active" => db'[i].status # "active")
    <3>1. db'[i] = db[i] \/ (db'[i].status = "cancelled" /\ db'[i].user = db[i].user)
      BY <1>2, <2>1, CommitEffect
    <3>2. QED
      BY <3>1
  <2>2. ASSUME NEW k \in Keys, db[Licence(k)] # Absent
        PROVE  db'[Licence(k)].user = db[Licence(k)].user
    <3>1. \/ db'[Licence(k)] = db[Licence(k)]
          \/ /\ db[Licence(k)].user = job[s].user
             /\ db'[Licence(k)] = [user |-> job[s].user, status |-> "revoked"]
      BY <1>2, <2>2, CommitEffect
    <3>2. QED
      BY <3>1
  <2>3. QED
    BY <2>1, <2>2
<1>3. ASSUME ExpireJob PROVE Goal
  <2>1. ASSUME NEW i \in Subscriptions, db[i] # Absent
        PROVE  db'[i].user = db[i].user /\ (db[i].status # "active" => db'[i].status # "active")
    <3>1. CASE i \in Overdue
      <4>1. db[i] \in Subscription /\ db'[i] = [db[i] EXCEPT !.status = "expired"]
        BY <1>3, <2>1, <3>1, RowNames DEF ExpireJob, TypeInv, TablesOK, IsTable
      <4>2. QED
        BY <4>1 DEF Subscription
    <3>2. CASE i \notin Overdue
      BY <1>3, <3>2, RowNames DEF ExpireJob
    <3>3. QED
      BY <3>1, <3>2
  <2>2. \A k \in Keys : db'[Licence(k)] = db[Licence(k)]
    BY <1>3, RowNames DEF ExpireJob, Overdue
  <2>3. QED
    BY <2>1, <2>2
<1>4. ASSUME Tick PROVE Goal
  <2>1. ASSUME NEW i \in Subscriptions, db[i] # Absent
        PROVE  db'[i].user = db[i].user /\ db'[i].status = db[i].status
    <3>1. db[i] \in Subscription /\ db'[i] = OlderRow(i, db[i])
      BY <1>4, <2>1, TickEffect, RowNames DEF TypeInv, TablesOK, IsTable
    <3>2. QED
      BY <3>1, OlderRowType
  <2>2. \A k \in Keys : db'[Licence(k)] = db[Licence(k)]
    BY <1>4, TickEffect, OlderRowType, RowNames DEF TypeInv
  <2>3. QED
    BY <2>1, <2>2
<1>5. QED
  BY TableSteps, <1>1, <1>2, <1>3, <1>4
     DEF tableVars, Cancel, ClaimKey, InsertSubscription, VoidLicence

\* A row comes into being only when the operation commits whose row it is.
LEMMA RowsBegin ==
    ASSUME TypeInv, WorkInv, [Next]_vars
    PROVE  /\ \A i \in Subscriptions : db[i] = Absent /\ db'[i] # Absent =>
                 \E s \in Sessions :
                     Commit(s) /\ i = job[s].target /\ job[s].op \in Inserting
           /\ \A k \in Keys : db[Licence(k)] = Absent /\ db'[Licence(k)] # Absent =>
                 \E s \in Sessions :
                     Commit(s) /\ Purchase(k) = job[s].target /\ job[s].op = "activate"
<1> DEFINE Goal == /\ \A i \in Subscriptions : db[i] = Absent /\ db'[i] # Absent =>
                         \E s \in Sessions :
                             Commit(s) /\ i = job[s].target /\ job[s].op \in Inserting
                   /\ \A k \in Keys : db[Licence(k)] = Absent /\ db'[Licence(k)] # Absent =>
                         \E s \in Sessions :
                             Commit(s) /\ Purchase(k) = job[s].target /\ job[s].op = "activate"
<1> SUFFICES Goal
  OBVIOUS
<1>1. ASSUME UNCHANGED db PROVE Goal
  BY <1>1
<1>2. ASSUME NEW s \in Sessions, Commit(s) PROVE Goal
  BY <1>2, CommitEffect
<1>3. ASSUME ExpireJob PROVE Goal
  BY <1>3, RowNames DEF ExpireJob, Overdue
<1>4. ASSUME Tick PROVE Goal
  BY <1>4, TickEffect, RowNames DEF TypeInv
<1>5. QED
  BY TableSteps, <1>1, <1>2, <1>3, <1>4
     DEF tableVars, Cancel, ClaimKey, InsertSubscription, VoidLicence

\* What a session has written and nobody has committed stays so until it commits itself.
LEMMA WrittenStaysAbsent ==
    ASSUME TypeInv, [Next]_vars, NEW s \in Sessions, ~Commit(s),
           NEW i \in Rows, draft[s][i] # Unwritten, db[i] = Absent
    PROVE  db'[i] = Absent
<1>1. ASSUME UNCHANGED db PROVE db'[i] = Absent
  BY <1>1
<1>2. ASSUME NEW o \in Sessions, Commit(o) PROVE db'[i] = Absent
  <2>1. draft[o][i] = Unwritten
    BY <1>2 DEF TypeInv, Exclusive
  <2>2. QED
    BY <1>2, <2>1 DEF Commit, CommitRows, Seen
<1>3. ASSUME ExpireJob PROVE db'[i] = Absent
  BY <1>3 DEF ExpireJob, Overdue
<1>4. ASSUME Tick PROVE db'[i] = Absent
  BY <1>4, TickEffect DEF TypeInv
<1>5. QED
  BY TableSteps, <1>1, <1>2, <1>3, <1>4
     DEF tableVars, Cancel, ClaimKey, InsertSubscription, VoidLicence

LEMMA PairsKept ==
    ASSUME TypeInv, WorkInv, [Next]_vars
    PROVE  PairsOK'
<1> USE DEF TypeInv, WorkInv
<1> SUFFICES ASSUME NEW k \in Keys
             PROVE  /\ db'[Licence(k)] # Absent <=> db'[Purchase(k)] # Absent
                    /\ db'[Licence(k)] # Absent =>
                          db'[Licence(k)].user = db'[Purchase(k)].user
  BY DEF PairsOK
<1>0. Licence(k) \in Rows /\ Purchase(k) \in Rows /\ Purchase(k) \in Subscriptions
  BY RowNames
<1>1. CASE db[Licence(k)] # Absent
  <2>1. db[Purchase(k)] # Absent /\ db[Licence(k)].user = db[Purchase(k)].user
    BY <1>1 DEF PairsOK
  <2>2. db'[Licence(k)] # Absent /\ db'[Purchase(k)] # Absent
    BY <1>0, <1>1, <2>1, RowsStay
  <2>3. QED
    BY <1>0, <1>1, <2>1, <2>2, RowsKeepOwner
<1>2. CASE db[Licence(k)] = Absent
  <2>1. db[Purchase(k)] = Absent
    BY <1>2 DEF PairsOK
  <2>2. CASE db'[Licence(k)] = Absent /\ db'[Purchase(k)] = Absent
    BY <2>2
  <2>3. CASE \E s \in Sessions :
                Commit(s) /\ Purchase(k) = job[s].target /\ job[s].op = "activate"
    <3>1. PICK s \in Sessions :
              Commit(s) /\ Purchase(k) = job[s].target /\ job[s].op = "activate"
      BY <2>3
    <3>2. PICK j \in Keys :
              /\ job[s].target = Purchase(j)
              /\ db'[Licence(j)] = [user |-> job[s].user, status |-> "active"]
      BY <3>1, CommitEffect
    <3>3. j = k
      BY <3>1, <3>2, NamesApart
    <3>4. db'[Purchase(k)] = NewRow(s)
      BY <3>1, CommitEffect DEF Inserting
    <3>5. db'[Licence(k)] \in LicenceRow /\ db'[Purchase(k)] \in Subscription
      <4>1. job[s] \in Job /\ until[s] \in Ends
        BY <3>1 DEF Commit, JobsOK, JobOK, SessionsOK
      <4>2. QED
        BY <3>2, <3>3, <3>4, <4>1 DEF Job, LicenceRow, Subscription, NewRow
    <3>6. QED
      BY <3>2, <3>3, <3>4, <3>5, RowsAreReal DEF NewRow
  <2>4. CASE db'[Purchase(k)] # Absent
    <3>1. PICK s \in Sessions :
              Commit(s) /\ Purchase(k) = job[s].target /\ job[s].op \in Inserting
      BY <1>0, <2>1, <2>4, RowsBegin
    <3>2. JobOK(s) /\ TrialOK(s) /\ GrantOK(s)
      BY <3>1 DEF Commit, JobsOK, TargetsOK
    <3>3. job[s].op # "trial"
      BY <3>1, <3>2, NamesApart DEF TrialOK, JobOK, Job
    <3>4. job[s].op # "grant"
      BY <3>1, <3>2, NamesApart DEF GrantOK
    <3>5. QED
      BY <2>3, <3>1, <3>3, <3>4 DEF Inserting
  <2>5. CASE db'[Licence(k)] # Absent
    BY <1>2, <2>3, <2>5, RowsBegin
  <2>6. QED
    BY <2>2, <2>4, <2>5
<1>3. QED
  BY <1>1, <1>2

-----------------------------------------------------------------------------
(* The advisory lock. *)

\* Leaving gives up the lock and takes nobody else's.
LEMMA LeaveKeepsLocks ==
    ASSUME SessionsOK, JobsOK, LocksOK, NEW s \in Sessions, Leave(s)
    PROVE  LocksOK'
<1>1. \A o \in Sessions : UnderLock(o) => job[o].user \in Users
  BY DEF UnderLock, JobsOK, JobOK, Job
<1>2. ~UnderLock(s)' /\ \A o \in Sessions : o # s => job'[o] = job[o] /\ (UnderLock(o)' <=> UnderLock(o))
  BY DEF SessionsOK, UnderLock, Leave, Goto
<1>3. \A u \in Users : lock'[u] = IF lock[u] = s THEN NoOne ELSE lock[u]
  BY DEF Leave
<1>4. QED
  BY <1>1, <1>2, <1>3, BillingAssumption DEF LocksOK

\* A step inside or outside the locked section changes no lock.
LEMMA MoveKeepsLocks ==
    ASSUME SessionsOK, LocksOK, NEW s \in Sessions, NEW step, Goto(s, step), UNCHANGED <<lock, job>>,
           UnderLock(s)' <=> UnderLock(s)
    PROVE  LocksOK'
<1>1. \A o \in Sessions : o # s => (UnderLock(o)' <=> UnderLock(o))
  BY DEF SessionsOK, Goto, UnderLock
<1>2. QED
  BY <1>1 DEF LocksOK

LEMMA BeginKeepsLocks ==
    ASSUME SessionsOK, LocksOK, NEW s \in Sessions, NEW step, NEW op, NEW u, NEW i, NEW p,
           Begin(s, step, op, u, i, p),
           step = "read" => op \in {"grant", "drop"},
           step \in {"verify", "lock", "read", "void", "recheck"}
    PROVE  LocksOK'
<1>1. ~UnderLock(s) /\ ~UnderLock(s)'
  BY DEF SessionsOK, Begin, Goto, UnderLock
<1>2. \A o \in Sessions : o # s => job'[o] = job[o] /\ (UnderLock(o)' <=> UnderLock(o))
  BY DEF SessionsOK, Begin, Goto, UnderLock
<1>3. QED
  BY <1>1, <1>2 DEF LocksOK, Begin

LEMMA LocksKept ==
    ASSUME TypeInv, WorkInv, [Next]_vars
    PROVE  LocksOK'
<1> USE DEF TypeInv, WorkInv
<1>j. \A s \in Sessions : pc[s] # "idle" => JobOK(s)
  BY DEF JobsOK
<1>1. ASSUME NEW s \in Sessions, Activate(s) PROVE LocksOK'
  BY <1>1, BeginKeepsLocks DEF Activate
<1>2. ASSUME NEW s \in Sessions, StartTrial(s) PROVE LocksOK'
  BY <1>2, BeginKeepsLocks DEF StartTrial
<1>3. ASSUME NEW s \in Sessions, AdminGrant(s) PROVE LocksOK'
  BY <1>3, BeginKeepsLocks DEF AdminGrant
<1>4. ASSUME NEW s \in Sessions, AdminRevoke(s) PROVE LocksOK'
  BY <1>4, BeginKeepsLocks DEF AdminRevoke
<1>5. ASSUME NEW s \in Sessions, RevokeLicence(s) PROVE LocksOK'
  BY <1>5, BeginKeepsLocks DEF RevokeLicence
<1>6. ASSUME NEW s \in Sessions, Revalidate(s) PROVE LocksOK'
  BY <1>6, BeginKeepsLocks DEF Revalidate
<1>7. ASSUME NEW s \in Sessions, Verified(s) PROVE LocksOK'
  BY <1>7, MoveKeepsLocks DEF Verified, Goto, UnderLock, SessionsOK
<1>8. ASSUME NEW s \in Sessions, Rechecked(s) PROVE LocksOK'
  BY <1>8, MoveKeepsLocks DEF Rechecked, Goto, UnderLock, SessionsOK
<1>9. ASSUME NEW s \in Sessions, Dismissed(s) \/ Clash(s) \/ Commit(s) \/ Abort(s) PROVE LocksOK'
  BY <1>9, LeaveKeepsLocks DEF Dismissed, Clash, Commit, Abort
<1>10. ASSUME NEW s \in Sessions, LockUser(s) PROVE LocksOK'
  <2>1. pc[s] = "lock" /\ JobOK(s) /\ job[s].op \in {"activate", "trial"} /\ job[s].user \in Users
    BY <1>10, <1>j DEF LockUser, JobOK, Job
  <2>2. /\ UnderLock(s)' /\ ~UnderLock(s) /\ job' = job
        /\ \A o \in Sessions : o # s => (UnderLock(o)' <=> UnderLock(o))
        /\ lock[job[s].user] = NoOne
        /\ \A u \in Users : lock'[u] = IF u = job[s].user THEN s ELSE lock[u]
    BY <1>10, <2>1 DEF LockUser, Goto, UnderLock, SessionsOK
  <2>3. QED
    BY <2>1, <2>2, BillingAssumption DEF LocksOK, UnderLock, JobsOK, JobOK, Job
<1>11. ASSUME NEW s \in Sessions, Eligible(s) PROVE LocksOK'
  <2>1. CASE TrialUnused(job[s].user)
    BY <1>11, <2>1, MoveKeepsLocks DEF Eligible, Goto, UnderLock, SessionsOK
  <2>2. CASE ~TrialUnused(job[s].user)
    BY <1>11, <2>2, LeaveKeepsLocks DEF Eligible
  <2>3. QED
    BY <2>1, <2>2
<1>12. ASSUME NEW s \in Sessions, NothingRunning(s) PROVE LocksOK'
  <2>1. CASE \E i \in ActiveIn(db, job[s].user) : Unended(db[i].ends)
    BY <1>12, <2>1, LeaveKeepsLocks DEF NothingRunning
  <2>2. CASE ~(\E i \in ActiveIn(db, job[s].user) : Unended(db[i].ends))
    BY <1>12, <2>2, MoveKeepsLocks DEF NothingRunning, Goto, UnderLock, SessionsOK
  <2>3. QED
    BY <2>1, <2>2
<1>13. ASSUME NEW s \in Sessions, ReadActive(s) PROVE LocksOK'
  <2>1. /\ UNCHANGED <<lock, job>> /\ pc[s] = "read"
        /\ \E step \in {"claim", "insert", "commit", "cancel"} : Goto(s, step)
    BY <1>13 DEF ReadActive, AfterCancel
  <2>2. UnderLock(s)' <=> UnderLock(s)
    BY <2>1 DEF UnderLock, Goto, SessionsOK
  <2>3. QED
    BY <2>1, <2>2, MoveKeepsLocks
<1>14. ASSUME NEW s \in Sessions, Cancel(s) PROVE LocksOK'
  BY <1>14, MoveKeepsLocks DEF Cancel, AfterCancel, Goto, UnderLock, SessionsOK
<1>15. ASSUME NEW s \in Sessions, ClaimKey(s) PROVE LocksOK'
  BY <1>15, MoveKeepsLocks DEF ClaimKey, Goto, UnderLock, SessionsOK
<1>16. ASSUME NEW s \in Sessions, InsertSubscription(s) PROVE LocksOK'
  BY <1>16, MoveKeepsLocks DEF InsertSubscription, Goto, UnderLock, SessionsOK
<1>17. ASSUME NEW s \in Sessions, VoidLicence(s) PROVE LocksOK'
  BY <1>17, <1>j, MoveKeepsLocks DEF VoidLicence, Goto, UnderLock, SessionsOK, JobOK
<1>18. ASSUME NEW s \in Sessions, ReadOwn(s) PROVE LocksOK'
  <2>1. /\ UNCHANGED <<lock, job>> /\ pc[s] = "readOwn"
        /\ \E step \in {"commit", "cancel"} : Goto(s, step)
    BY <1>18 DEF ReadOwn
  <2>2. job[s].op \in {"revoke", "revalidate"}
    BY <1>j, <2>1 DEF JobOK
  <2>3. UnderLock(s)' <=> UnderLock(s)
    BY <2>1, <2>2 DEF UnderLock, Goto, SessionsOK
  <2>4. QED
    BY <2>1, <2>3, MoveKeepsLocks
<1>19. ASSUME ExpireJob \/ Tick \/ UNCHANGED vars PROVE LocksOK'
  BY <1>19 DEF ExpireJob, Tick, vars, sessionVars, LocksOK, UnderLock
<1>20. QED
  BY NextCases, <1>1, <1>2, <1>3, <1>4, <1>5, <1>6, <1>7, <1>8, <1>9, <1>10, <1>11, <1>12,
     <1>13, <1>14, <1>15, <1>16, <1>17, <1>18, <1>19

-----------------------------------------------------------------------------
(* The subscription that was found. *)

LEMMA FoundKept ==
    ASSUME TypeInv, WorkInv, [Next]_vars
    PROVE  FoundOK'
<1> USE DEF TypeInv, WorkInv
<1> DEFINE At(p) == p \in {"cancel", "claim", "insert", "commit"}
           Goal(s) == found'[s] # NoRow =>
                         /\ At(pc'[s]) /\ job'[s].op # "trial"
                         /\ db'[found'[s]] # Absent /\ db'[found'[s]].user = job'[s].user
                         /\ job'[s].op \in Revoking => found'[s] = job'[s].target
<1> SUFFICES ASSUME NEW s \in Sessions PROVE Goal(s)
  BY DEF FoundOK
<1>a. found[s] \in Subscriptions \cup {NoRow} /\ (found[s] # NoRow => At(pc[s]))
  BY DEF SessionsOK, FoundOK
<1>k. ASSUME found'[s] = found[s], job'[s] = job[s], At(pc[s]) => At(pc'[s]) PROVE Goal(s)
  <2>1. SUFFICES ASSUME found[s] # NoRow PROVE Goal(s)
    BY <1>k
  <2>2. /\ found[s] \in Subscriptions /\ db[found[s]] # Absent
        /\ db[found[s]].user = job[s].user /\ job[s].op # "trial"
        /\ job[s].op \in Revoking => found[s] = job[s].target
    BY <1>a, <2>1 DEF FoundOK
  <2>3. db'[found[s]] # Absent /\ db'[found[s]].user = job[s].user
    BY <2>2, RowsStay, RowsKeepOwner, RowNames
  <2>4. QED
    BY <1>a, <1>k, <2>1, <2>2, <2>3
<1>m. ASSUME found'[s] = NoRow PROVE Goal(s)
  BY <1>m
<1>f. At(pc[s]) \/ found[s] = NoRow
  BY <1>a
<1>1. ASSUME NEW o \in Sessions, NEW step, NEW op, NEW u, NEW i, NEW p, Begin(o, step, op, u, i, p)
      PROVE  Goal(s)
  <2>1. found' = found /\ (o # s => pc'[s] = pc[s] /\ job'[s] = job[s]) /\ pc[o] = "idle"
    BY <1>1 DEF Begin, Goto, SessionsOK
  <2>2. CASE o = s
    BY <1>f, <1>m, <2>1, <2>2
  <2>3. CASE o # s
    BY <1>k, <2>1, <2>3
  <2>4. QED
    BY <2>2, <2>3
<1>2. ASSUME NEW o \in Sessions,
             Activate(o) \/ StartTrial(o) \/ AdminGrant(o) \/ AdminRevoke(o)
                \/ RevokeLicence(o) \/ Revalidate(o)
      PROVE  Goal(s)
  BY <1>1, <1>2 DEF Activate, StartTrial, AdminGrant, AdminRevoke, RevokeLicence, Revalidate
<1>l. ASSUME NEW o \in Sessions, Leave(o) PROVE Goal(s)
  <2>1. CASE o = s
    BY <1>l, <1>m, <2>1 DEF Leave, SessionsOK
  <2>2. CASE o # s
    BY <1>l, <1>k, <2>2 DEF Leave, Goto, SessionsOK
  <2>3. QED
    BY <2>1, <2>2
\* A step of a session that keeps what it found moves on, or has found nothing yet.
<1>n. ASSUME NEW o \in Sessions, NEW step, Goto(o, step), UNCHANGED <<job, found>>,
             At(pc[o]) => At(step)
      PROVE  Goal(s)
  BY <1>k, <1>n DEF Goto, SessionsOK
<1>3. ASSUME NEW o \in Sessions, Verified(o) \/ Rechecked(o) PROVE Goal(s)
  BY <1>3, <1>n DEF Verified, Rechecked
<1>4. ASSUME NEW o \in Sessions, LockUser(o) PROVE Goal(s)
  <2>1. pc[o] = "lock" /\ UNCHANGED <<job, found>> /\ \E step : Goto(o, step)
    BY <1>4 DEF LockUser
  <2>2. QED
    BY <1>n, <2>1
<1>5. ASSUME NEW o \in Sessions, Eligible(o) PROVE Goal(s)
  BY <1>5, <1>l, <1>n DEF Eligible
<1>6. ASSUME NEW o \in Sessions, NothingRunning(o) PROVE Goal(s)
  BY <1>6, <1>l, <1>n DEF NothingRunning
<1>7. ASSUME NEW o \in Sessions, ReadActive(o) PROVE Goal(s)
  <2>1. CASE o = s
    <3>1. pc[s] = "read" /\ JobOK(s) /\ UNCHANGED <<db, job>>
      BY <1>7, <2>1 DEF ReadActive, JobsOK, tableVars
    <3>2. PICK i \in IF ActiveIn(db, job[s].user) = {} THEN {NoRow}
                     ELSE ActiveIn(db, job[s].user) :
              found' = [found EXCEPT ![s] = i]
      BY <1>7, <2>1 DEF ReadActive
    <3>3. found'[s] = i
      BY <3>2 DEF SessionsOK
    <3>4. SUFFICES ASSUME i # NoRow PROVE Goal(s)
      BY <1>m, <3>3
    <3>5. i \in ActiveIn(db, job[s].user) /\ ActiveIn(db, job[s].user) # {}
      BY <3>2, <3>4
    <3>6. pc'[s] = "cancel"
      BY <1>7, <2>1, <3>5 DEF ReadActive, Goto, SessionsOK
    <3>7. db[i] # Absent /\ db[i].user = job[s].user
      BY <3>5 DEF ActiveIn, IsActive
    <3>8. QED
      BY <3>1, <3>3, <3>6, <3>7 DEF JobOK, Revoking
  <2>2. CASE o # s
    <3>1. found'[s] = found[s] /\ job'[s] = job[s] /\ pc'[s] = pc[s]
      BY <1>7, <2>2 DEF ReadActive, Goto, SessionsOK
    <3>2. QED
      BY <1>k, <3>1
  <2>3. QED
    BY <2>1, <2>2
<1>8. ASSUME NEW o \in Sessions, Cancel(o) PROVE Goal(s)
  <2>1. UNCHANGED <<job, found>> /\ \E step \in {"claim", "insert", "commit"} : Goto(o, step)
    BY <1>8 DEF Cancel, AfterCancel
  <2>2. QED
    BY <1>n, <2>1
<1>9. ASSUME NEW o \in Sessions, ClaimKey(o) \/ InsertSubscription(o) PROVE Goal(s)
  BY <1>9, <1>n DEF ClaimKey, InsertSubscription
<1>10. ASSUME NEW o \in Sessions, VoidLicence(o) PROVE Goal(s)
  BY <1>10, <1>n DEF VoidLicence
<1>11. ASSUME NEW o \in Sessions, ReadOwn(o) PROVE Goal(s)
  <2>1. CASE db[job[o].target].status = "active" /\ o = s
    <3>1. pc[s] = "readOwn" /\ RevokeOK(s) /\ job[s].op \in Revoking /\ UNCHANGED <<db, job>>
          /\ pc'[s] = "cancel" /\ found'[s] = job[s].target
      BY <1>11, <2>1
         DEF ReadOwn, JobsOK, JobOK, TargetsOK, Goto, SessionsOK, Revoking, tableVars
    <3>2. PICK k \in Keys : job[s].target = Purchase(k) /\ db[Licence(k)] # Absent
                            /\ db[Licence(k)].user = job[s].user
      BY <3>1 DEF RevokeOK
    <3>3. db[Purchase(k)] # Absent /\ db[Purchase(k)].user = job[s].user
      BY <3>2 DEF PairsOK
    <3>4. QED
      BY <3>1, <3>2, <3>3 DEF Revoking
  <2>2. CASE o # s
    <3>1. found'[s] = found[s] /\ job'[s] = job[s] /\ pc'[s] = pc[s]
      BY <1>11, <2>2 DEF ReadOwn, Goto, SessionsOK
    <3>2. QED
      BY <1>k, <3>1
  <2>3. CASE db[job[o].target].status # "active"
    BY <1>11, <1>n, <2>3 DEF ReadOwn
  <2>4. QED
    BY <2>1, <2>2, <2>3
<1>12. ASSUME ExpireJob \/ Tick \/ UNCHANGED vars PROVE Goal(s)
  BY <1>12, <1>k DEF ExpireJob, Tick, vars, sessionVars
<1>13. QED
  BY NextCases, <1>l, <1>2, <1>3, <1>4, <1>5, <1>6, <1>7, <1>8, <1>9, <1>10, <1>11, <1>12
     DEF Dismissed, Clash, Commit, Abort

-----------------------------------------------------------------------------
(* What a trial, a grant and a revocation are about. *)

\* The row a trial or a grant will insert stays absent until it does.
LEMMA TargetStaysAbsent ==
    ASSUME TypeInv, WorkInv, [Next]_vars, NEW s \in Sessions, pc[s] # "idle", ~Commit(s),
           db[job[s].target] = Absent,
           \/ job[s].op = "grant"
           \/ job[s].op = "trial" /\ UnderLock(s)
    PROVE  db'[job[s].target] = Absent
<1> USE DEF TypeInv, WorkInv
<1>1. JobOK(s) /\ TrialOK(s) /\ GrantOK(s) /\ job[s].target \in Subscriptions
  BY DEF JobsOK, JobOK, TargetsOK
<1>2. SUFFICES ASSUME NEW o \in Sessions, Commit(o), job[s].target = job[o].target,
                      job[o].op \in Inserting
               PROVE  FALSE
  BY <1>1, RowsBegin
<1>3. pc[o] = "commit" /\ JobOK(o) /\ TrialOK(o) /\ GrantOK(o) /\ o # s
  BY <1>2 DEF Commit, JobsOK, TargetsOK
<1>4. CASE job[s].op = "grant"
  BY <1>1, <1>2, <1>3, <1>4 DEF GrantOK
<1>5. CASE job[s].op = "trial" /\ UnderLock(s)
  <2>1. job[s].user \in Users /\ job[s].target = Trial(job[s].user)
    BY <1>1, <1>5 DEF TrialOK, JobOK, Job
  <2>2. job[o].op = "trial"
    BY <1>2, <1>3, <2>1, NamesApart DEF JobOK, GrantOK, Inserting
  <2>3. job[o].user = job[s].user
    BY <1>2, <1>3, <2>1, <2>2, NamesApart DEF TrialOK, JobOK, Job
  <2>4. UnderLock(o)
    BY <1>3, <2>2 DEF UnderLock
  <2>5. QED
    BY <1>3, <1>5, <2>3, <2>4 DEF LocksOK
<1>6. QED
  BY <1>4, <1>5

\* How a session takes up a job ...
Taken(s) ==
    /\ db' = db /\ draft' = draft /\ lock' = lock /\ found' = found /\ until' = until
    /\ \A o \in Sessions : o # s => pc'[o] = pc[o] /\ job'[o] = job[o]
    /\ \/ /\ job'[s].op = "activate" /\ pc'[s] = "verify"
          /\ \E k \in Keys : job'[s].target = Purchase(k)
       \/ /\ job'[s].op = "trial" /\ pc'[s] = "lock"
          /\ job'[s].target = Trial(job'[s].user) /\ job'[s].user \in Users
       \/ /\ job'[s].op = "grant" /\ pc'[s] = "read"
          /\ \E g \in Grants :
                /\ job'[s].target = Granted(g) /\ db[Granted(g)] = Absent
                /\ \A o \in Sessions : pc[o] # "idle" => job[o].target # Granted(g)
       \/ job'[s].op = "drop" /\ pc'[s] = "read" /\ job'[s].target = NoRow
       \/ /\ job'[s].op \in Revoking /\ pc'[s] \in {"void", "recheck"}
          /\ \E k \in Keys :
                /\ job'[s].target = Purchase(k) /\ db[Licence(k)] # Absent
                /\ db[Licence(k)].user = job'[s].user

LEMMA TakesUp ==
    ASSUME TypeInv, [Next]_vars, NEW s \in Sessions, pc[s] = "idle", pc'[s] # "idle"
    PROVE  Taken(s)
<1> USE DEF TypeInv
<1>b. ASSUME NEW o \in Sessions, NEW step, NEW op, NEW u, NEW i, NEW p, Begin(o, step, op, u, i, p)
      PROVE  /\ db' = db /\ draft' = draft /\ lock' = lock /\ found' = found /\ until' = until
             /\ \A n \in Sessions : n # s => pc'[n] = pc[n] /\ job'[n] = job[n]
             /\ pc'[s] = step /\ job'[s] = [op |-> op, user |-> u, target |-> i, plan |-> p]
  <2>1. o = s
    BY <1>b DEF Begin, Goto, SessionsOK
  <2>2. QED
    BY <1>b, <2>1 DEF Begin, Goto, SessionsOK, tableVars
<1>1. ASSUME NEW o \in Sessions, Activate(o) PROVE Taken(s)
  <2>1. PICK u \in Users, k \in Keys, p \in Sold : Begin(o, "verify", "activate", u, Purchase(k), p)
    BY <1>1 DEF Activate
  <2>2. db' = db /\ draft' = draft /\ lock' = lock /\ found' = found /\ until' = until
    BY <1>b, <2>1
  <2>3. \A n \in Sessions : n # s => pc'[n] = pc[n] /\ job'[n] = job[n]
    BY <1>b, <2>1
  <2>4. pc'[s] = "verify"
    BY <1>b, <2>1
  <2>5. job'[s] =
            [op |-> "activate", user |-> u, target |-> Purchase(k), plan |-> p]
    BY <1>b, <2>1
  <2>6. QED
    BY <2>1, <2>2, <2>3, <2>4, <2>5 DEF Taken
<1>2. ASSUME NEW o \in Sessions, StartTrial(o) PROVE Taken(s)
  <2>1. PICK u \in Users, p \in Plans : Begin(o, "lock", "trial", u, Trial(u), p)
    BY <1>2 DEF StartTrial
  <2>2. db' = db /\ draft' = draft /\ lock' = lock /\ found' = found /\ until' = until
    BY <1>b, <2>1
  <2>3. \A n \in Sessions : n # s => pc'[n] = pc[n] /\ job'[n] = job[n]
    BY <1>b, <2>1
  <2>4. pc'[s] = "lock"
    BY <1>b, <2>1
  <2>5. job'[s] =
            [op |-> "trial", user |-> u, target |-> Trial(u), plan |-> p]
    BY <1>b, <2>1
  <2>6. QED
    BY <2>1, <2>2, <2>3, <2>4, <2>5 DEF Taken
<1>3. ASSUME NEW o \in Sessions, AdminGrant(o) PROVE Taken(s)
  <2>1. PICK u \in Users, g \in Grants, p \in Plans :
            /\ db[Granted(g)] = Absent
            /\ \A n \in Sessions : pc[n] # "idle" => job[n].target # Granted(g)
            /\ Begin(o, "read", "grant", u, Granted(g), p)
    BY <1>3 DEF AdminGrant
  <2>2. db' = db /\ draft' = draft /\ lock' = lock /\ found' = found /\ until' = until
    BY <1>b, <2>1
  <2>3. \A n \in Sessions : n # s => pc'[n] = pc[n] /\ job'[n] = job[n]
    BY <1>b, <2>1
  <2>4. pc'[s] = "read"
    BY <1>b, <2>1
  <2>5. job'[s] =
            [op |-> "grant", user |-> u, target |-> Granted(g), plan |-> p]
    BY <1>b, <2>1
  <2>6. QED
    BY <2>1, <2>2, <2>3, <2>4, <2>5 DEF Taken
<1>4. ASSUME NEW o \in Sessions, AdminRevoke(o) PROVE Taken(s)
  <2>1. PICK u, p : Begin(o, "read", "drop", u, NoRow, p)
    BY <1>4 DEF AdminRevoke
  <2>2. db' = db /\ draft' = draft /\ lock' = lock /\ found' = found /\ until' = until
    BY <1>b, <2>1
  <2>3. \A n \in Sessions : n # s => pc'[n] = pc[n] /\ job'[n] = job[n]
    BY <1>b, <2>1
  <2>4. pc'[s] = "read"
    BY <1>b, <2>1
  <2>5. job'[s] =
            [op |-> "drop", user |-> u, target |-> NoRow, plan |-> p]
    BY <1>b, <2>1
  <2>6. QED
    BY <2>1, <2>2, <2>3, <2>4, <2>5 DEF Taken
<1>5. ASSUME NEW o \in Sessions, RevokeLicence(o) PROVE Taken(s)
  <2>1. PICK k \in Keys :
            /\ db[Licence(k)] # Absent
            /\ Begin(o, "void", "revoke", db[Licence(k)].user, Purchase(k), db[Purchase(k)].plan)
    BY <1>5 DEF RevokeLicence
  <2>2. db' = db /\ draft' = draft /\ lock' = lock /\ found' = found /\ until' = until
    BY <1>b, <2>1
  <2>3. \A n \in Sessions : n # s => pc'[n] = pc[n] /\ job'[n] = job[n]
    BY <1>b, <2>1
  <2>4. pc'[s] = "void"
    BY <1>b, <2>1
  <2>5. job'[s] =
            [op |-> "revoke", user |-> db[Licence(k)].user, target |-> Purchase(k),
                 plan |-> db[Purchase(k)].plan]
    BY <1>b, <2>1
  <2>6. QED
    BY <2>1, <2>2, <2>3, <2>4, <2>5 DEF Taken, Revoking
<1>6. ASSUME NEW o \in Sessions, Revalidate(o) PROVE Taken(s)
  <2>1. PICK k \in Keys :
            /\ db[Licence(k)] # Absent
            /\ Begin(o, "recheck", "revalidate", db[Licence(k)].user, Purchase(k),
                     db[Purchase(k)].plan)
    BY <1>6 DEF Revalidate
  <2>2. db' = db /\ draft' = draft /\ lock' = lock /\ found' = found /\ until' = until
    BY <1>b, <2>1
  <2>3. \A n \in Sessions : n # s => pc'[n] = pc[n] /\ job'[n] = job[n]
    BY <1>b, <2>1
  <2>4. pc'[s] = "recheck"
    BY <1>b, <2>1
  <2>5. job'[s] =
            [op |-> "revalidate", user |-> db[Licence(k)].user, target |-> Purchase(k),
                 plan |-> db[Purchase(k)].plan]
    BY <1>b, <2>1
  <2>6. QED
    BY <2>1, <2>2, <2>3, <2>4, <2>5 DEF Taken, Revoking
<1>7. ASSUME NEW o \in Sessions, Leave(o) PROVE FALSE
  BY <1>7 DEF Leave, Goto, SessionsOK
<1>8. ASSUME NEW o \in Sessions, NEW step, Goto(o, step), pc[o] # "idle" PROVE FALSE
  BY <1>8 DEF Goto, SessionsOK
<1>9. ASSUME NEW o \in Sessions,
             Verified(o) \/ Rechecked(o) \/ LockUser(o) \/ ReadActive(o) \/ Cancel(o)
                \/ ClaimKey(o) \/ InsertSubscription(o) \/ VoidLicence(o) \/ ReadOwn(o)
      PROVE  FALSE
  <2>1. pc[o] # "idle" /\ \E step : Goto(o, step)
    BY <1>9 DEF Verified, Rechecked, LockUser, ReadActive, Cancel, ClaimKey, InsertSubscription,
                VoidLicence, ReadOwn
  <2>2. QED
    BY <1>8, <2>1
<1>10. ASSUME NEW o \in Sessions, Eligible(o) \/ NothingRunning(o) PROVE FALSE
  BY <1>7, <1>8, <1>10 DEF Eligible, NothingRunning
<1>11. ASSUME ExpireJob \/ Tick \/ UNCHANGED vars PROVE FALSE
  BY <1>11 DEF ExpireJob, Tick, vars, sessionVars
<1>12. QED
  BY NextCases, <1>1, <1>2, <1>3, <1>4, <1>5, <1>6, <1>7, <1>9, <1>10, <1>11
     DEF Dismissed, Clash, Commit, Abort

\* ... and how it goes on with it.
Went(s) ==
    /\ ~Commit(s) /\ job'[s] = job[s]
    /\ \/ pc'[s] = pc[s] /\ found'[s] = found[s]
       \/ /\ pc'[s] \in {"read", "eligible", "lock", "void", "claim", "readOwn"}
          /\ found'[s] = found[s] \/ pc[s] = "read"
       \/ UNCHANGED db /\ Eligible(s) /\ TrialUnused(job[s].user)
       \/ pc[s] = "running" /\ pc'[s] = "insert" /\ found'[s] = found[s]
       \/ pc[s] = "read" /\ UNCHANGED <<db, draft>> /\ ReadActive(s)
       \/ pc[s] \in {"cancel", "claim", "insert"} /\ found'[s] = found[s]
       \/ pc[s] = "readOwn" /\ UNCHANGED <<db, draft>> /\ ReadOwn(s)

LEMMA GoesOn ==
    ASSUME TypeInv, [Next]_vars, NEW s \in Sessions, pc[s] # "idle", pc'[s] # "idle"
    PROVE  Went(s)
<1> USE DEF TypeInv, Went
<1>c. ~Commit(s)
  BY DEF Commit, Leave, Goto, SessionsOK
<1>1. ASSUME NEW o \in Sessions,
             Activate(o) \/ StartTrial(o) \/ AdminGrant(o) \/ AdminRevoke(o)
                \/ RevokeLicence(o) \/ Revalidate(o)
      PROVE  Went(s)
  <2>1. \E step, op, u, i, p : Begin(o, step, op, u, i, p)
    BY <1>1 DEF Activate, StartTrial, AdminGrant, AdminRevoke, RevokeLicence, Revalidate
  <2>2. pc'[s] = pc[s] /\ found'[s] = found[s] /\ job'[s] = job[s]
    BY <2>1 DEF Begin, Goto, SessionsOK
  <2>3. QED
    BY <1>c, <2>2
<1>2. ASSUME NEW o \in Sessions, Leave(o) PROVE Went(s)
  <2>1. pc'[s] = pc[s] /\ found'[s] = found[s] /\ job'[s] = job[s]
    BY <1>2 DEF Leave, Goto, SessionsOK
  <2>2. QED
    BY <1>c, <2>1
<1>3. ASSUME NEW o \in Sessions, o # s,
             Verified(o) \/ Rechecked(o) \/ LockUser(o) \/ Cancel(o)
                \/ ClaimKey(o) \/ InsertSubscription(o) \/ VoidLicence(o)
      PROVE  Went(s)
  <2>1. pc'[s] = pc[s] /\ found'[s] = found[s] /\ job'[s] = job[s]
    BY <1>3 DEF Verified, Rechecked, LockUser, Cancel, ClaimKey, InsertSubscription, VoidLicence,
                Goto, SessionsOK
  <2>2. QED
    BY <1>c, <2>1
<1>4. ASSUME NEW o \in Sessions, o # s, ReadActive(o) \/ ReadOwn(o) PROVE Went(s)
  <2>1. pc'[s] = pc[s] /\ found'[s] = found[s] /\ job'[s] = job[s]
    BY <1>4 DEF ReadActive, ReadOwn, Goto, SessionsOK
  <2>2. QED
    BY <1>c, <2>1
<1>5. ASSUME NEW o \in Sessions, o # s, Eligible(o) \/ NothingRunning(o) PROVE Went(s)
  <2>1. (\E step : Goto(o, step) /\ UNCHANGED <<job, found>>) \/ Leave(o)
    BY <1>5 DEF Eligible, NothingRunning
  <2>2. CASE \E step : Goto(o, step) /\ UNCHANGED <<job, found>>
    <3>1. pc'[s] = pc[s] /\ found'[s] = found[s] /\ job'[s] = job[s]
      BY <1>5, <2>2 DEF Goto, SessionsOK
    <3>2. QED
      BY <1>c, <3>1
  <2>3. QED
    BY <1>2, <2>1, <2>2
<1>6. ASSUME Verified(s) \/ Rechecked(s) \/ LockUser(s) \/ VoidLicence(s) PROVE Went(s)
  <2>1. /\ pc'[s] \in {"read", "eligible", "lock", "void", "readOwn"}
        /\ found'[s] = found[s] /\ job'[s] = job[s]
    BY <1>6 DEF Verified, Rechecked, LockUser, VoidLicence, Goto, SessionsOK
  <2>2. QED
    BY <1>c, <2>1
<1>7. ASSUME Cancel(s) \/ ClaimKey(s) \/ InsertSubscription(s) PROVE Went(s)
  <2>1. pc[s] \in {"cancel", "claim", "insert"} /\ found'[s] = found[s] /\ job'[s] = job[s]
    BY <1>7 DEF Cancel, ClaimKey, InsertSubscription
  <2>2. QED
    BY <1>c, <2>1
<1>8. ASSUME Eligible(s) PROVE Went(s)
  <2>1. TrialUnused(job[s].user) /\ UNCHANGED <<db, job>>
    BY <1>8 DEF Eligible, Leave, Goto, SessionsOK, tableVars
  <2>2. QED
    BY <1>c, <1>8, <2>1
<1>9. ASSUME NothingRunning(s) PROVE Went(s)
  <2>1. pc[s] = "running" /\ pc'[s] = "insert" /\ found'[s] = found[s] /\ job'[s] = job[s]
    BY <1>9 DEF NothingRunning, Leave, Goto, SessionsOK
  <2>2. QED
    BY <1>c, <2>1
<1>10. ASSUME ReadActive(s) PROVE Went(s)
  BY <1>c, <1>10 DEF ReadActive, tableVars
<1>11. ASSUME ReadOwn(s) PROVE Went(s)
  BY <1>c, <1>11 DEF ReadOwn, tableVars
<1>12. ASSUME ExpireJob \/ Tick \/ UNCHANGED vars PROVE Went(s)
  BY <1>c, <1>12 DEF ExpireJob, Tick, vars, sessionVars
<1>13. QED
  BY NextCases, <1>1, <1>2, <1>3, <1>4, <1>5, <1>6, <1>7, <1>8, <1>9, <1>10, <1>11, <1>12
     DEF Dismissed, Clash, Commit, Abort

LEMMA TargetsKept ==
    ASSUME TypeInv, WorkInv, [Next]_vars
    PROVE  TargetsOK'
<1> USE DEF TypeInv, WorkInv
<1> SUFFICES ASSUME NEW s \in Sessions, pc'[s] # "idle"
             PROVE  TrialOK(s)' /\ GrantOK(s)' /\ RevokeOK(s)'
  BY DEF TargetsOK
\* A job just taken up.
<1>1. CASE pc[s] = "idle"
  <2>2. TrialOK(s)'
    BY <1>1, TakesUp DEF Taken, TrialOK, Revoking
  <2>3. GrantOK(s)'
    <3>1. SUFFICES ASSUME job'[s].op = "grant" PROVE GrantOK(s)'
      BY DEF GrantOK
    <3>2. PICK g \in Grants :
              /\ job'[s].target = Granted(g) /\ db[Granted(g)] = Absent
              /\ \A o \in Sessions : pc[o] # "idle" => job[o].target # Granted(g)
      BY <1>1, <3>1, TakesUp DEF Taken, Revoking
    <3>3. db' = db /\ \A o \in Sessions : o # s => pc'[o] = pc[o] /\ job'[o] = job[o]
      BY <1>1, TakesUp DEF Taken
    <3>4. QED
      BY <3>2, <3>3 DEF GrantOK
  <2>4. RevokeOK(s)'
    <3>1. SUFFICES ASSUME job'[s].op \in Revoking PROVE RevokeOK(s)'
      BY DEF RevokeOK
    <3>2. PICK k \in Keys :
              /\ job'[s].target = Purchase(k) /\ db[Licence(k)] # Absent
              /\ db[Licence(k)].user = job'[s].user
      BY <1>1, <3>1, TakesUp DEF Taken, Revoking
    <3>3. db' = db /\ pc'[s] # "commit"
      BY <1>1, TakesUp DEF Taken
    <3>4. QED
      BY <3>2, <3>3 DEF RevokeOK
  <2>5. QED
    BY <2>2, <2>3, <2>4
\* A job that goes on.
<1>2. CASE pc[s] # "idle"
  <2>0. /\ ~Commit(s) /\ job'[s] = job[s] /\ JobOK(s) /\ TargetThere(s)
        /\ TrialOK(s) /\ GrantOK(s) /\ RevokeOK(s)
    BY <1>2, GoesOn DEF Went, JobsOK, TargetsOK
  <2>1. TrialOK(s)'
    <3>1. SUFFICES ASSUME job[s].op = "trial", pc'[s] \in {"running", "insert", "commit"}
                   PROVE  db'[Trial(job[s].user)] = Absent
      BY <2>0 DEF TrialOK
    <3>2. CASE pc[s] \in {"running", "insert", "commit"}
      <4>1. UnderLock(s) /\ job[s].target = Trial(job[s].user) /\ db[job[s].target] = Absent
        BY <2>0, <3>1, <3>2 DEF UnderLock, TrialOK
      <4>2. QED
        BY <1>2, <2>0, <3>1, <4>1, TargetStaysAbsent
    <3>3. CASE UNCHANGED db /\ TrialUnused(job[s].user)
      BY <2>0, <3>3 DEF TrialUnused, JobOK, Job
    <3>4. pc[s] \notin {"read", "claim", "readOwn", "cancel"}
      BY <2>0, <3>1 DEF JobOK
    <3>5. QED
      BY <1>2, <3>1, <3>2, <3>3, <3>4, GoesOn DEF Went
  <2>2. GrantOK(s)'
    <3>1. SUFFICES ASSUME job[s].op = "grant" PROVE GrantOK(s)'
      BY <2>0 DEF GrantOK
    <3>2. PICK g \in Grants : job[s].target = Granted(g)
      BY <2>0, <3>1 DEF GrantOK
    <3>3. db'[job[s].target] = Absent
      BY <1>2, <2>0, <3>1, TargetStaysAbsent DEF GrantOK
    <3>4. ASSUME NEW o \in Sessions, o # s, pc'[o] # "idle"
          PROVE  job'[o].target # job[s].target
      <4>1. CASE pc[o] # "idle"
        BY <2>0, <3>1, <3>4, <4>1, GoesOn DEF Went, GrantOK
      <4>2. CASE pc[o] = "idle"
        <5>1. NoRow # Granted(g)
          BY RowNames
        <5>2. QED
          BY <1>2, <3>2, <3>4, <4>2, <5>1, TakesUp, NamesApart DEF Taken, Revoking
      <4>3. QED
        BY <4>1, <4>2
    <3>5. QED
      BY <2>0, <3>2, <3>3, <3>4 DEF GrantOK
  <2>3. RevokeOK(s)'
    <3>1. SUFFICES ASSUME job[s].op \in Revoking PROVE RevokeOK(s)'
      BY <2>0 DEF RevokeOK
    <3>2. PICK k \in Keys :
            /\ job[s].target = Purchase(k)
            /\ db[Licence(k)] # Absent /\ db[Licence(k)].user = job[s].user
            /\ pc[s] = "commit" /\ found[s] = NoRow => db[Purchase(k)].status # "active"
      BY <2>0, <3>1 DEF RevokeOK
    <3>3. db[Purchase(k)] # Absent
      BY <3>2 DEF PairsOK
    <3>4. db'[Licence(k)] # Absent /\ db'[Licence(k)].user = job[s].user
      BY <3>2, RowsStay, RowsKeepOwner, RowNames
    <3>5. ASSUME pc'[s] = "commit", found'[s] = NoRow PROVE db'[Purchase(k)].status # "active"
      <4>1. CASE pc[s] = "commit" /\ found[s] = NoRow
        BY <3>2, <3>3, <4>1, RowsKeepOwner, RowNames
      <4>2. CASE UNCHANGED db /\ ReadOwn(s)
        BY <3>2, <3>5, <4>2 DEF ReadOwn, Goto, SessionsOK
      <4>3. pc[s] \notin {"claim", "insert", "running", "read", "eligible"}
        BY <2>0, <3>1 DEF JobOK, Revoking
      <4>4. pc[s] = "cancel" => found[s] # NoRow
        BY <2>0, RowNames DEF TargetThere
      <4>5. QED
        BY <1>2, <3>5, <4>1, <4>2, <4>3, <4>4, GoesOn DEF Went, Eligible
    <3>6. QED
      BY <2>0, <3>2, <3>4, <3>5 DEF RevokeOK
  <2>4. QED
    BY <2>1, <2>2, <2>3
<1>3. QED
  BY <1>1, <1>2

-----------------------------------------------------------------------------
(* What a session has written. *)

\* Who has not begun to write has written nothing.
LEMMA CleanDraft ==
    ASSUME DraftsOK, NEW s \in Sessions,
           pc[s] \notin {"claim", "insert", "commit", "readOwn", "cancel"}
    PROVE  /\ \A i \in Subscriptions : draft[s][i] = Unwritten
           /\ \A k \in Keys : draft[s][Licence(k)] = Unwritten
BY DEF DraftsOK, DraftOK, Cancelled, Inserted, Claimed, VoidedBy

\* Whoever does not move keeps its writes, whatever others commit.
LEMMA UnmovedDraft ==
    ASSUME TypeInv, WorkInv, [Next]_vars, NEW s \in Sessions,
           pc'[s] = pc[s], job'[s] = job[s], found'[s] = found[s], until'[s] = until[s],
           \A i \in Rows : draft'[s][i] = draft[s][i]
    PROVE  DraftOK(s)' /\ WrittenBy(s)'
<1> USE DEF TypeInv, WorkInv
<1>1. DraftOK(s) /\ WrittenBy(s)
  BY DEF DraftsOK, WrittenOK
<1>2. pc[s] # "idle" => ~Commit(s)
  BY DEF Commit, Leave, Goto, SessionsOK
<1>3. ASSUME NEW i \in Subscriptions, draft'[s][i] # Unwritten
      PROVE  Cancelled(s, i)' \/ Inserted(s, i)'
  <2>1. draft'[s][i] = draft[s][i]
    BY RowNames
  <2>2. CASE Cancelled(s, i)
    BY <2>1, <2>2 DEF Cancelled
  <2>3. CASE Inserted(s, i)
    <3>1. db'[i] = Absent
      BY <1>2, <1>3, <2>1, <2>3, WrittenStaysAbsent, RowNames DEF Inserted
    <3>2. QED
      BY <2>1, <2>3, <3>1 DEF Inserted
  <2>4. QED
    BY <1>1, <1>3, <2>1, <2>2, <2>3 DEF DraftOK
<1>4. ASSUME NEW k \in Keys, draft'[s][Licence(k)] # Unwritten
      PROVE  job'[s].target = Purchase(k) /\ (Claimed(s, k)' \/ VoidedBy(s, k)')
  <2>0. Licence(k) \in Rows
    BY RowNames
  <2>1. draft'[s][Licence(k)] = draft[s][Licence(k)]
    BY <2>0
  <2>2. CASE Claimed(s, k)
    <3>1. db'[Licence(k)] = Absent
      BY <1>2, <1>4, <2>0, <2>1, <2>2, WrittenStaysAbsent DEF Claimed
    <3>2. QED
      BY <1>1, <1>4, <2>1, <2>2, <3>1 DEF Claimed, DraftOK
  <2>3. CASE VoidedBy(s, k)
    <3>1. db'[Licence(k)] # Absent
      BY <2>0, <2>3, RowsStay DEF VoidedBy
    <3>2. QED
      BY <1>1, <1>4, <2>1, <2>3, <3>1 DEF VoidedBy, DraftOK
  <2>4. QED
    BY <1>1, <1>4, <2>1, <2>2, <2>3 DEF DraftOK
<1>5. WrittenBy(s)'
  <2>1. found[s] # NoRow => found[s] \in Rows
    BY RowNames DEF SessionsOK
  <2>2. pc[s] # "idle" /\ job[s].op \in Inserting => job[s].target \in Rows
    BY RowNames DEF JobsOK, JobOK, Inserting
  <2>3. pc[s] # "idle" /\ job[s].op \in Revoking \cup {"activate"} =>
           LicenceOf(job[s].target) \in Rows
    BY RowNames DEF JobsOK, TargetThere, JobOK, Revoking
  <2>4. QED
    BY <1>1, <2>1, <2>2, <2>3 DEF WrittenBy
<1>6. QED
  BY <1>3, <1>4, <1>5 DEF DraftOK

\* Time passes over what is written as over what will be.
LEMMA TickDraft ==
    ASSUME TypeInv, WorkInv, Tick, NEW s \in Sessions
    PROVE  DraftOK(s)' /\ WrittenBy(s)'
<1> USE DEF TypeInv, WorkInv
<1>1. DraftOK(s) /\ WrittenBy(s)
  BY DEF DraftsOK, WrittenOK
<1>2. UNCHANGED <<pc, job, found>> /\ until'[s] = Older(until[s])
  BY DEF Tick
<1>3. ASSUME NEW i \in Subscriptions, draft'[s][i] # Unwritten
      PROVE  Cancelled(s, i)' \/ Inserted(s, i)'
  <2>1. /\ draft'[s][i] = OlderRow(i, draft[s][i]) /\ draft[s][i] # Unwritten
        /\ db'[i] = Absent <=> db[i] = Absent
    BY <1>3, TickEffect, RowNames
  <2>2. draft[s][i] \in Subscription
    BY <2>1 DEF TablesOK, IsTable
  <2>3. CASE Cancelled(s, i)
    BY <1>2, <2>1, <2>2, <2>3, OlderRowType DEF Cancelled
  <2>4. CASE Inserted(s, i)
    <3>1. draft[s][i] = [user |-> job[s].user, plan |-> job[s].plan,
                         status |-> "active", ends |-> until[s]]
      BY <2>4 DEF Inserted
    <3>2. draft'[s][i] = [draft[s][i] EXCEPT !.ends = Older(until[s])]
      BY <2>1, <2>2, <3>1, RowNames, RowsAreReal DEF OlderRow
    <3>3. QED
      BY <1>2, <2>1, <2>4, <3>1, <3>2 DEF Inserted
  <2>5. QED
    BY <1>1, <2>1, <2>3, <2>4 DEF DraftOK
<1>4. ASSUME NEW k \in Keys, draft'[s][Licence(k)] # Unwritten
      PROVE  job'[s].target = Purchase(k) /\ (Claimed(s, k)' \/ VoidedBy(s, k)')
  <2>1. /\ draft'[s][Licence(k)] = draft[s][Licence(k)]
        /\ db'[Licence(k)] = Absent <=> db[Licence(k)] = Absent
    BY TickEffect, OlderRowType, RowNames
  <2>2. QED
    BY <1>1, <1>2, <1>4, <2>1 DEF DraftOK, Claimed, VoidedBy
<1>5. WrittenBy(s)'
  <2>1. found[s] # NoRow => found[s] \in Rows
    BY RowNames DEF SessionsOK
  <2>2. pc[s] # "idle" /\ job[s].op \in Inserting => job[s].target \in Rows
    BY RowNames DEF JobsOK, JobOK, Inserting
  <2>3. pc[s] # "idle" /\ job[s].op \in Revoking \cup {"activate"} =>
           LicenceOf(job[s].target) \in Rows
    BY RowNames DEF JobsOK, TargetThere, JobOK, Revoking
  <2>4. QED
    BY <1>1, <1>2, <2>1, <2>2, <2>3, TickEffect DEF WrittenBy
<1>6. QED
  BY <1>3, <1>4, <1>5 DEF DraftOK

LEMMA CancelDraft ==
    ASSUME TypeInv, WorkInv, NEW s \in Sessions, Cancel(s)
    PROVE  DraftOK(s)' /\ WrittenBy(s)'
<1> USE DEF TypeInv, WorkInv
<1> DEFINE i == found[s]
           row == [Seen(s, i) EXCEPT !.status = "cancelled", !.ends = 0]
<1>0. /\ pc[s] = "cancel" /\ JobOK(s) /\ TargetThere(s) /\ DraftOK(s) /\ WrittenBy(s)
      /\ UNCHANGED <<db, job, found, until>>
  BY DEF Cancel, JobsOK, DraftsOK, WrittenOK
<1>1. i \in Subscriptions /\ i # NoRow /\ db[i].user = job[s].user
  BY <1>0, RowNames DEF TargetThere, FoundOK
<1>2. Seen(s, i) = db[i] /\ db[i] \in Subscription
  <2>1. draft[s][i] = Unwritten
    BY <1>0, <1>1 DEF DraftOK, Cancelled, Inserted
  <2>2. db[i] # Absent
    BY <1>0 DEF TargetThere
  <2>3. QED
    BY <1>1, <2>1, <2>2 DEF Seen, TablesOK, IsTable
<1>3. row.status = "cancelled" /\ row.user = job[s].user /\ row # Unwritten
  <2>1. row \in Subscription /\ row.status = "cancelled"
    BY <1>2, CancelledRow
  <2>2. row.user = db[i].user
    BY <1>2 DEF Subscription
  <2>3. QED
    BY <1>1, <2>1, <2>2, RowsAreReal
<1>4. \A j \in Rows : draft'[s][j] = IF j = i THEN row ELSE draft[s][j]
  BY <1>1, WriteEffect, RowNames DEF Cancel
<1>5. pc'[s] = AfterCancel(job[s].op)
  BY DEF Cancel, Goto, SessionsOK
<1> HIDE DEF row
<1>6. DraftOK(s)'
  <2>1. ASSUME NEW j \in Subscriptions, draft'[s][j] # Unwritten
        PROVE  Cancelled(s, j)'
    <3>1. draft[s][j] = Unwritten
      BY <1>0, <2>1 DEF DraftOK, Cancelled, Inserted
    <3>2. j = i /\ draft'[s][j] = row
      BY <1>4, <2>1, <3>1, RowNames
    <3>3. pc'[s] \in {"claim", "insert", "commit"}
      BY <1>5 DEF AfterCancel
    <3>4. QED
      BY <1>0, <1>3, <3>2, <3>3 DEF Cancelled
  <2>2. ASSUME NEW k \in Keys, draft'[s][Licence(k)] # Unwritten
        PROVE  job'[s].target = Purchase(k) /\ VoidedBy(s, k)'
    <3>1. draft'[s][Licence(k)] = draft[s][Licence(k)]
      BY <1>1, <1>4, RowNames
    <3>2. job[s].target = Purchase(k) /\ VoidedBy(s, k)
      BY <1>0, <2>2, <3>1 DEF DraftOK, Claimed
    <3>3. pc'[s] = "commit"
      BY <1>5, <3>2 DEF AfterCancel, VoidedBy, Revoking
    <3>4. QED
      BY <1>0, <3>1, <3>2, <3>3 DEF VoidedBy
  <2>3. QED
    BY <2>1, <2>2 DEF DraftOK
<1>7. WrittenBy(s)'
  <2>1. draft'[s][i] # Unwritten
    BY <1>1, <1>3, <1>4, RowNames
  <2>2. job[s].op \in Revoking => draft'[s][LicenceOf(job[s].target)] # Unwritten
    <3>1. SUFFICES ASSUME job[s].op \in Revoking
                   PROVE  draft'[s][LicenceOf(job[s].target)] # Unwritten
      OBVIOUS
    <3>2. LicenceOf(job[s].target) \in LicenceRows
      BY <1>0, <3>1, RowNames DEF TargetThere, Revoking
    <3>3. QED
      BY <1>0, <1>1, <1>4, <3>1, <3>2, RowNames DEF WrittenBy
  <2>3. pc'[s] = "commit" => job[s].op \notin Inserting
    BY <1>0, <1>5 DEF AfterCancel, JobOK, Inserting
  <2>4. job[s].op = "activate" => pc'[s] = "claim"
    BY <1>5 DEF AfterCancel
  <2>5. QED
    BY <1>0, <2>1, <2>2, <2>3, <2>4 DEF WrittenBy
<1>8. QED
  BY <1>6, <1>7

LEMMA ClaimDraft ==
    ASSUME TypeInv, WorkInv, NEW s \in Sessions, ClaimKey(s)
    PROVE  DraftOK(s)' /\ WrittenBy(s)'
<1> USE DEF TypeInv, WorkInv
<1>0. /\ pc[s] = "claim" /\ JobOK(s) /\ DraftOK(s) /\ WrittenBy(s) /\ job[s].op = "activate"
      /\ UNCHANGED <<db, job, found, until>> /\ pc'[s] = "insert"
  BY DEF ClaimKey, JobsOK, JobOK, DraftsOK, WrittenOK, Goto, SessionsOK
<1>1. PICK k \in Keys : job[s].target = Purchase(k)
  BY <1>0 DEF JobOK
<1>2. KeyOf(s) = k /\ Licence(k) \in LicenceRows /\ LicenceOf(job[s].target) = Licence(k)
  BY <1>1, RowNames DEF KeyOf
<1>3. db[Licence(k)] = Absent
  BY <1>2 DEF ClaimKey, KeyClashes
<1>4. \A j \in Rows : draft'[s][j] = IF j = Licence(k)
                                     THEN [user |-> job[s].user, status |-> "active"]
                                     ELSE draft[s][j]
  BY <1>2, WriteEffect, RowNames DEF ClaimKey
<1>5. [user |-> job[s].user, status |-> "active"] # Unwritten
  <2>1. [user |-> job[s].user, status |-> "active"] \in LicenceRow
    BY <1>0 DEF JobOK, Job, LicenceRow
  <2>2. QED
    BY <2>1, RowsAreReal
<1>6. DraftOK(s)'
  <2>1. ASSUME NEW j \in Subscriptions, draft'[s][j] # Unwritten
        PROVE  Cancelled(s, j)'
    <3>1. draft'[s][j] = draft[s][j]
      BY <1>2, <1>4, RowNames
    <3>2. Cancelled(s, j)
      BY <1>0, <2>1, <3>1 DEF DraftOK, Inserted
    <3>3. QED
      BY <1>0, <3>1, <3>2 DEF Cancelled
  <2>2. ASSUME NEW j \in Keys, draft'[s][Licence(j)] # Unwritten
        PROVE  job'[s].target = Purchase(j) /\ Claimed(s, j)'
    <3>1. CASE j = k
      <4>1. draft'[s][Licence(k)] = [user |-> job[s].user, status |-> "active"]
        BY <1>2, <1>4, RowNames
      <4>2. QED
        BY <1>0, <1>1, <1>3, <3>1, <4>1 DEF Claimed
    <3>2. CASE j # k
      <4>1. draft'[s][Licence(j)] = draft[s][Licence(j)]
        BY <1>4, <3>2, RowNames
      <4>2. QED
        BY <1>0, <2>2, <4>1 DEF DraftOK, Claimed, VoidedBy
    <3>3. QED
      BY <3>1, <3>2
  <2>3. QED
    BY <2>1, <2>2 DEF DraftOK
<1>7. WrittenBy(s)'
  <2>1. found[s] # NoRow => draft'[s][found[s]] # Unwritten
    <3>1. found[s] # NoRow => found[s] \in Subscriptions
      BY DEF SessionsOK
    <3>2. QED
      BY <1>0, <1>2, <1>4, <3>1, RowNames DEF WrittenBy
  <2>2. draft'[s][LicenceOf(job[s].target)] # Unwritten
    BY <1>2, <1>4, <1>5, RowNames
  <2>3. QED
    BY <1>0, <2>1, <2>2 DEF WrittenBy
<1>8. QED
  BY <1>6, <1>7

\* What is to be inserted is in no committed row.
LEMMA TargetIsNew ==
    ASSUME TypeInv, WorkInv, NEW s \in Sessions, pc[s] = "insert"
    PROVE  job[s].target \in Subscriptions /\ db[job[s].target] = Absent
<1> USE DEF TypeInv, WorkInv
<1> DEFINE t == job[s].target
<1>0. /\ JobOK(s) /\ DraftOK(s) /\ WrittenBy(s) /\ TrialOK(s) /\ GrantOK(s)
      /\ job[s].op \in Inserting
  BY DEF JobsOK, JobOK, DraftsOK, WrittenOK, TargetsOK, Inserting
<1>1. t \in Subscriptions
  BY <1>0, RowNames DEF JobOK, Inserting
<1>2. db[t] = Absent
  <2>1. CASE job[s].op = "activate"
    <3>1. PICK k \in Keys : t = Purchase(k)
      BY <1>0, <2>1 DEF JobOK
    <3>2. draft[s][Licence(k)] # Unwritten
      BY <1>0, <2>1, <3>1, RowNames DEF WrittenBy
    <3>3. db[Licence(k)] = Absent
      BY <1>0, <3>2 DEF DraftOK, Claimed, VoidedBy
    <3>4. QED
      BY <3>1, <3>3 DEF PairsOK
  <2>2. CASE job[s].op = "trial"
    BY <1>0, <2>2 DEF TrialOK
  <2>3. CASE job[s].op = "grant"
    BY <1>0, <2>3 DEF GrantOK
  <2>4. QED
    BY <1>0, <2>1, <2>2, <2>3 DEF Inserting
<1>3. QED
  BY <1>1, <1>2

LEMMA InsertDraft ==
    ASSUME TypeInv, WorkInv, NEW s \in Sessions, InsertSubscription(s)
    PROVE  DraftOK(s)' /\ WrittenBy(s)'
<1> USE DEF TypeInv, WorkInv
<1> DEFINE t == job[s].target
<1>0. /\ pc[s] = "insert" /\ JobOK(s) /\ DraftOK(s) /\ WrittenBy(s) /\ TrialOK(s) /\ GrantOK(s)
      /\ job[s].op \in Inserting
      /\ UNCHANGED <<db, job, found, until>> /\ pc'[s] = "commit"
  BY DEF InsertSubscription, JobsOK, JobOK, DraftsOK, WrittenOK, TargetsOK, Goto, SessionsOK,
         Inserting
<1>1. t \in Subscriptions /\ NewRow(s) \in Subscription /\ NewRow(s) # Unwritten
      /\ Write(s, t, NewRow(s))
  <2>1. t \in Subscriptions /\ NewRow(s) \in Subscription /\ Write(s, t, NewRow(s))
    BY Written DEF NewRow
  <2>2. QED
    BY <2>1, RowsAreReal
<1>2. \A j \in Rows : draft'[s][j] = IF j = t THEN NewRow(s) ELSE draft[s][j]
  BY <1>1, WriteEffect, RowNames
<1>3. db[t] = Absent
  BY <1>0, TargetIsNew
<1>4. t # found[s]
  BY <1>1, <1>3, RowNames DEF FoundOK
<1>5. DraftOK(s)'
  <2>1. ASSUME NEW j \in Subscriptions, draft'[s][j] # Unwritten
        PROVE  Cancelled(s, j)' \/ Inserted(s, j)'
    <3>1. CASE j = t
      <4>1. draft'[s][j] = NewRow(s)
        BY <1>2, <3>1, RowNames
      <4>2. QED
        BY <1>0, <1>3, <3>1, <4>1 DEF Inserted, NewRow
    <3>2. CASE j # t
      <4>1. draft'[s][j] = draft[s][j]
        BY <1>2, <3>2, RowNames
      <4>2. Cancelled(s, j)
        BY <1>0, <2>1, <4>1 DEF DraftOK, Inserted
      <4>3. QED
        BY <1>0, <4>1, <4>2 DEF Cancelled
    <3>3. QED
      BY <3>1, <3>2
  <2>2. ASSUME NEW k \in Keys, draft'[s][Licence(k)] # Unwritten
        PROVE  job'[s].target = Purchase(k) /\ Claimed(s, k)'
    <3>1. draft'[s][Licence(k)] = draft[s][Licence(k)]
      BY <1>1, <1>2, RowNames
    <3>2. job[s].target = Purchase(k) /\ Claimed(s, k)
      BY <1>0, <2>2, <3>1 DEF DraftOK, VoidedBy
    <3>3. QED
      BY <1>0, <3>1, <3>2 DEF Claimed
  <2>3. QED
    BY <2>1, <2>2 DEF DraftOK
<1>6. WrittenBy(s)'
  <2>1. found[s] # NoRow => draft'[s][found[s]] # Unwritten
    <3>1. found[s] # NoRow => found[s] \in Subscriptions
      BY DEF SessionsOK
    <3>2. QED
      BY <1>0, <1>2, <1>4, <3>1, RowNames DEF WrittenBy
  <2>2. draft'[s][t] # Unwritten
    BY <1>1, <1>2, RowNames
  <2>3. job[s].op = "activate" => draft'[s][LicenceOf(t)] # Unwritten
    <3>1. job[s].op = "activate" => LicenceOf(t) \in LicenceRows
      BY <1>0, RowNames DEF JobOK
    <3>2. QED
      BY <1>0, <1>1, <1>2, <3>1, RowNames DEF WrittenBy
  <2>4. QED
    BY <1>0, <2>1, <2>2, <2>3 DEF WrittenBy, Inserting, Revoking
<1>7. QED
  BY <1>5, <1>6

LEMMA VoidDraft ==
    ASSUME TypeInv, WorkInv, NEW s \in Sessions, VoidLicence(s)
    PROVE  DraftOK(s)' /\ WrittenBy(s)'
<1> USE DEF TypeInv, WorkInv
<1>0. /\ pc[s] = "void" /\ JobOK(s) /\ job[s].op \in Revoking /\ RevokeOK(s)
      /\ UNCHANGED <<db, job, found, until>> /\ pc'[s] = "readOwn"
  BY DEF VoidLicence, JobsOK, JobOK, TargetsOK, Goto, SessionsOK, Revoking
<1>1. PICK k \in Keys : /\ job[s].target = Purchase(k) /\ db[Licence(k)] # Absent
                        /\ db[Licence(k)].user = job[s].user
  BY <1>0 DEF RevokeOK
<1>2. Licence(k) \in LicenceRows /\ LicenceOf(job[s].target) = Licence(k)
  BY <1>1, RowNames
<1>3. (\A i \in Subscriptions : draft[s][i] = Unwritten)
      /\ (\A j \in Keys : draft[s][Licence(j)] = Unwritten)
  BY <1>0, CleanDraft
<1>4. Seen(s, Licence(k)) = db[Licence(k)] /\ db[Licence(k)] \in LicenceRow
  BY <1>1, <1>2, <1>3 DEF Seen, TablesOK, IsTable
<1>5. Voided(Seen(s, Licence(k))) = [user |-> job[s].user, status |-> "revoked"]
      /\ Voided(Seen(s, Licence(k))) # Unwritten
  <2>1. Voided(Seen(s, Licence(k))) = [user |-> job[s].user, status |-> "revoked"]
    BY <1>1, <1>4 DEF Voided, LicenceRow
  <2>2. QED
    BY <1>4, <2>1, VoidedRow, RowsAreReal
<1>6. \A j \in Rows : draft'[s][j] = IF j = Licence(k)
                                     THEN [user |-> job[s].user, status |-> "revoked"]
                                     ELSE draft[s][j]
  BY <1>2, <1>5, WriteEffect, RowNames DEF VoidLicence
<1>7. DraftOK(s)'
  <2>1. \A j \in Subscriptions : draft'[s][j] = Unwritten
    BY <1>2, <1>3, <1>6, RowNames
  <2>2. ASSUME NEW j \in Keys, draft'[s][Licence(j)] # Unwritten
        PROVE  job'[s].target = Purchase(j) /\ VoidedBy(s, j)'
    <3>1. j = k
      BY <1>3, <1>6, <2>2, RowNames
    <3>2. draft'[s][Licence(k)] = [user |-> job[s].user, status |-> "revoked"]
      BY <1>2, <1>6, RowNames
    <3>3. QED
      BY <1>0, <1>1, <3>1, <3>2 DEF VoidedBy
  <2>3. QED
    BY <2>1, <2>2 DEF DraftOK
<1>8. WrittenBy(s)'
  <2>1. draft'[s][LicenceOf(job[s].target)] # Unwritten
    BY <1>2, <1>5, <1>6, RowNames
  <2>2. QED
    BY <1>0, <2>1 DEF WrittenBy
<1>9. QED
  BY <1>7, <1>8

LEMMA ReadOwnDraft ==
    ASSUME TypeInv, WorkInv, NEW s \in Sessions, ReadOwn(s)
    PROVE  DraftOK(s)' /\ WrittenBy(s)'
<1> USE DEF TypeInv, WorkInv
<1>0. /\ pc[s] = "readOwn" /\ JobOK(s) /\ job[s].op \in Revoking
      /\ DraftOK(s) /\ WrittenBy(s)
      /\ UNCHANGED <<db, draft, job, until>>
      /\ \/ pc'[s] = "cancel"
         \/ pc'[s] = "commit" /\ found'[s] = NoRow
  <2>1. found[s] = NoRow
    BY DEF ReadOwn, FoundOK
  <2>2. QED
    BY <2>1 DEF ReadOwn, JobsOK, JobOK, DraftsOK, WrittenOK, Goto, SessionsOK, Revoking, tableVars
<1>1. DraftOK(s)'
  <2>1. \A j \in Subscriptions : draft'[s][j] = Unwritten
    BY <1>0 DEF DraftOK, Cancelled, Inserted
  <2>2. \A k \in Keys : draft'[s][Licence(k)] # Unwritten =>
            job'[s].target = Purchase(k) /\ VoidedBy(s, k)'
    BY <1>0 DEF DraftOK, Claimed, VoidedBy
  <2>3. QED
    BY <2>1, <2>2 DEF DraftOK
<1>2. WrittenBy(s)'
  BY <1>0 DEF WrittenBy, Inserting, Revoking
<1>3. QED
  BY <1>1, <1>2

\* Who is at a step where nothing is written, before and after, has nothing to account for.
LEMMA NothingWritten ==
    ASSUME DraftsOK, NEW s \in Sessions,
           pc[s] \notin {"claim", "insert", "commit", "readOwn", "cancel"},
           draft' = draft,
           \/ pc'[s] \notin {"claim", "insert", "commit", "readOwn", "cancel"}
           \/ /\ pc'[s] \in {"cancel", "claim", "insert", "commit"}
              /\ pc'[s] # "cancel" => found'[s] = NoRow
              /\ pc'[s] \in {"insert", "commit"} => job'[s].op # "activate"
              /\ pc'[s] = "commit" => job'[s].op = "drop"
              /\ job'[s].op \notin Revoking
    PROVE  DraftOK(s)' /\ WrittenBy(s)'
BY CleanDraft DEF DraftOK, WrittenBy, Inserting, Revoking

LEMMA BlankDraft ==
    ASSUME TypeInv, NEW s \in Sessions, draft' = [draft EXCEPT ![s] = Blank], pc'[s] = "idle"
    PROVE  DraftOK(s)' /\ WrittenBy(s)'
<1>0. TablesOK
  BY DEF TypeInv
<1>1. \A j \in Rows : draft'[s][j] = Unwritten
  BY <1>0 DEF TablesOK, Blank
<1>2. QED
  BY <1>1, RowNames DEF DraftOK, WrittenBy

LEMMA DraftsKept ==
    ASSUME TypeInv, WorkInv, [Next]_vars
    PROVE  DraftsOK' /\ WrittenOK'
<1> USE DEF TypeInv, WorkInv
<1> DEFINE Still(s) == /\ pc'[s] = pc[s] /\ job'[s] = job[s]
                       /\ found'[s] = found[s] /\ until'[s] = until[s]
                       /\ \A i \in Rows : draft'[s][i] = draft[s][i]
           Goal(s) == DraftOK(s)' /\ WrittenBy(s)'
           Writing == {"claim", "insert", "commit", "readOwn", "cancel"}
<1> SUFFICES ASSUME NEW s \in Sessions PROVE Goal(s)
  BY DEF DraftsOK, WrittenOK
<1>k. ASSUME Still(s) PROVE Goal(s)
  BY <1>k, UnmovedDraft
<1>b. ASSUME NEW o \in Sessions, NEW step, NEW op, NEW u, NEW i, NEW p, Begin(o, step, op, u, i, p),
             step \notin Writing
      PROVE  Goal(s)
  <2>1. CASE o = s
    <3>1. draft' = draft /\ pc[s] = "idle" /\ pc'[s] = step
      BY <1>b, <2>1 DEF Begin, Goto, SessionsOK, tableVars
    <3>2. QED
      BY <1>b, <3>1, NothingWritten
  <2>2. CASE o # s
    BY <1>b, <1>k, <2>2 DEF Begin, Goto, SessionsOK, tableVars
  <2>3. QED
    BY <2>1, <2>2
<1>1. ASSUME NEW o \in Sessions,
             Activate(o) \/ StartTrial(o) \/ AdminGrant(o) \/ AdminRevoke(o)
                \/ RevokeLicence(o) \/ Revalidate(o)
      PROVE  Goal(s)
  BY <1>1, <1>b DEF Activate, StartTrial, AdminGrant, AdminRevoke, RevokeLicence, Revalidate
\* The transaction ends.
<1>l. ASSUME NEW o \in Sessions, Leave(o), draft' = [draft EXCEPT ![o] = Blank] PROVE Goal(s)
  <2>1. CASE o = s
    BY <1>l, <2>1, BlankDraft DEF Leave, Goto, SessionsOK
  <2>2. CASE o # s
    <3>1. \A i \in Rows : draft'[s][i] = draft[s][i]
      BY <1>l, <2>2, BlankEffect
    <3>2. QED
      BY <1>k, <1>l, <2>2, <3>1 DEF Leave, Goto, SessionsOK
  <2>3. QED
    BY <2>1, <2>2
<1>m. ASSUME NEW o \in Sessions, Leave(o), UNCHANGED tableVars, pc[o] \notin Writing
      PROVE  Goal(s)
  <2>1. CASE o = s
    <3>1. pc'[s] = "idle" /\ draft' = draft
      BY <1>m, <2>1 DEF Leave, Goto, SessionsOK, tableVars
    <3>2. QED
      BY <1>m, <2>1, <3>1, NothingWritten
  <2>2. CASE o # s
    BY <1>k, <1>m, <2>2 DEF Leave, Goto, SessionsOK, tableVars
  <2>3. QED
    BY <2>1, <2>2
<1>2. ASSUME NEW o \in Sessions, Clash(o) \/ Abort(o) \/ Commit(o) PROVE Goal(s)
  BY <1>2, <1>l DEF Clash, DiscardRows, Abort, Commit, CommitRows
<1>3. ASSUME NEW o \in Sessions, Dismissed(o) PROVE Goal(s)
  BY <1>3, <1>m DEF Dismissed
\* It goes on, without writing ...
<1>n. ASSUME NEW o \in Sessions, NEW step, Goto(o, step), UNCHANGED <<tableVars, job, found, until>>,
             pc[o] \notin Writing, step \notin Writing
      PROVE  Goal(s)
  <2>1. CASE o = s
    <3>1. pc'[s] = step /\ draft' = draft
      BY <1>n, <2>1 DEF Goto, SessionsOK, tableVars
    <3>2. QED
      BY <1>n, <2>1, <3>1, NothingWritten
  <2>2. CASE o # s
    BY <1>k, <1>n, <2>2 DEF Goto, SessionsOK, tableVars
  <2>3. QED
    BY <2>1, <2>2
<1>4. ASSUME NEW o \in Sessions, Verified(o) PROVE Goal(s)
  BY <1>4, <1>n DEF Verified, tableVars
<1>5. ASSUME NEW o \in Sessions, Rechecked(o) PROVE Goal(s)
  BY <1>5, <1>n DEF Rechecked, tableVars
<1>6. ASSUME NEW o \in Sessions, LockUser(o) PROVE Goal(s)
  <2>1. /\ pc[o] = "lock" /\ UNCHANGED <<tableVars, job, found, until>>
        /\ \E step \in {"eligible", "read"} : Goto(o, step)
    BY <1>6 DEF LockUser, tableVars
  <2>2. QED
    BY <1>n, <2>1
<1>7. ASSUME NEW o \in Sessions, Eligible(o) PROVE Goal(s)
  <2>1. CASE TrialUnused(job[o].user)
    BY <1>7, <1>n, <2>1 DEF Eligible, tableVars
  <2>2. CASE ~TrialUnused(job[o].user)
    BY <1>7, <1>m, <2>2 DEF Eligible, tableVars
  <2>3. QED
    BY <2>1, <2>2
<1>8. ASSUME NEW o \in Sessions, NothingRunning(o) PROVE Goal(s)
  <2>1. CASE \E i \in ActiveIn(db, job[o].user) : Unended(db[i].ends)
    BY <1>8, <1>m, <2>1 DEF NothingRunning, tableVars
  <2>2. CASE ~(\E i \in ActiveIn(db, job[o].user) : Unended(db[i].ends)) /\ o = s
    <3>1. /\ pc[s] = "running" /\ pc'[s] = "insert" /\ draft' = draft
          /\ job'[s] = job[s] /\ found'[s] = found[s]
      BY <1>8, <2>2 DEF NothingRunning, Goto, SessionsOK, tableVars
    <3>2. job[s].op = "trial" /\ found[s] = NoRow
      BY <3>1 DEF JobsOK, JobOK, FoundOK
    <3>3. QED
      BY <3>1, <3>2, NothingWritten DEF Revoking
  <2>3. CASE ~(\E i \in ActiveIn(db, job[o].user) : Unended(db[i].ends)) /\ o # s
    <3>1. Still(s)
      BY <1>8, <2>3 DEF NothingRunning, Goto, SessionsOK, tableVars
    <3>2. QED
      BY <1>k, <3>1
  <2>4. QED
    BY <2>1, <2>2, <2>3
<1>9. ASSUME NEW o \in Sessions, ReadActive(o) PROVE Goal(s)
  <2>1. CASE o = s
    <3>1. /\ pc[s] = "read" /\ draft' = draft /\ job'[s] = job[s] /\ JobOK(s)
          /\ pc'[s] = IF ActiveIn(db, job[s].user) = {} THEN AfterCancel(job[s].op) ELSE "cancel"
      BY <1>9, <2>1 DEF ReadActive, Goto, SessionsOK, JobsOK, tableVars
    <3>2. PICK i \in IF ActiveIn(db, job[s].user) = {} THEN {NoRow}
                     ELSE ActiveIn(db, job[s].user) :
              found' = [found EXCEPT ![s] = i]
      BY <1>9, <2>1 DEF ReadActive
    <3>3. ActiveIn(db, job[s].user) = {} => found'[s] = NoRow
      BY <3>2 DEF SessionsOK
    <3>4. job[s].op \in {"activate", "grant", "drop"}
      BY <3>1 DEF JobOK
    <3>5. CASE ActiveIn(db, job[s].user) = {}
      BY <3>1, <3>3, <3>4, <3>5, NothingWritten DEF AfterCancel, Revoking
    <3>6. CASE ActiveIn(db, job[s].user) # {}
      BY <3>1, <3>4, <3>6, NothingWritten DEF Revoking
    <3>7. QED
      BY <3>5, <3>6
  <2>2. CASE o # s
    <3>1. Still(s)
      BY <1>9, <2>2 DEF ReadActive, Goto, SessionsOK, tableVars
    <3>2. QED
      BY <1>k, <3>1
  <2>3. QED
    BY <2>1, <2>2
<1>10. ASSUME NEW o \in Sessions, ReadOwn(o) PROVE Goal(s)
  <2>1. CASE o # s
    <3>1. Still(s)
      BY <1>10, <2>1 DEF ReadOwn, Goto, SessionsOK, tableVars
    <3>2. QED
      BY <1>k, <3>1
  <2>2. QED
    BY <1>10, <2>1, ReadOwnDraft
\* ... or with a write to its own draft.
<1>w. ASSUME NEW o \in Sessions, o # s, NEW i \in Rows, NEW row, Write(o, i, row), NEW step,
             Goto(o, step), UNCHANGED <<job, found, until>>
      PROVE  Goal(s)
  <2>1. \A j \in Rows : draft'[s][j] = draft[s][j]
    BY <1>w, WriteEffect
  <2>2. QED
    BY <1>k, <1>w, <2>1 DEF Goto, SessionsOK
<1>11. ASSUME NEW o \in Sessions, Cancel(o) PROVE Goal(s)
  <2>1. CASE o # s
    <3>1. PICK i, row : i \in Subscriptions /\ Write(o, i, row)
      BY <1>11, Written
    <3>2. (\E step : Goto(o, step)) /\ UNCHANGED <<job, found, until>>
      BY <1>11 DEF Cancel
    <3>3. QED
      BY <1>w, <2>1, <3>1, <3>2, RowNames
  <2>2. QED
    BY <1>11, <2>1, CancelDraft
<1>12. ASSUME NEW o \in Sessions, ClaimKey(o) PROVE Goal(s)
  <2>1. CASE o # s
    <3>1. PICK k, row : k \in Keys /\ Write(o, Licence(k), row)
      BY <1>12, Written
    <3>2. Goto(o, "insert") /\ UNCHANGED <<job, found, until>>
      BY <1>12 DEF ClaimKey
    <3>3. QED
      BY <1>w, <2>1, <3>1, <3>2, RowNames
  <2>2. QED
    BY <1>12, <2>1, ClaimDraft
<1>13. ASSUME NEW o \in Sessions, InsertSubscription(o) PROVE Goal(s)
  <2>1. CASE o # s
    <3>1. PICK i, row : i \in Subscriptions /\ Write(o, i, row)
      BY <1>13, Written
    <3>2. Goto(o, "commit") /\ UNCHANGED <<job, found, until>>
      BY <1>13 DEF InsertSubscription
    <3>3. QED
      BY <1>w, <2>1, <3>1, <3>2, RowNames
  <2>2. QED
    BY <1>13, <2>1, InsertDraft
<1>14. ASSUME NEW o \in Sessions, VoidLicence(o) PROVE Goal(s)
  <2>1. CASE o # s
    <3>1. PICK k, row : k \in Keys /\ Write(o, Licence(k), row)
      BY <1>14, Written
    <3>2. Goto(o, "readOwn") /\ UNCHANGED <<job, found, until>>
      BY <1>14 DEF VoidLicence
    <3>3. QED
      BY <1>w, <2>1, <3>1, <3>2, RowNames
  <2>2. QED
    BY <1>14, <2>1, VoidDraft
<1>15. ASSUME ExpireJob \/ UNCHANGED vars PROVE Goal(s)
  BY <1>15, <1>k DEF ExpireJob, vars, sessionVars, tableVars
<1>16. ASSUME Tick PROVE Goal(s)
  BY <1>16, TickDraft
<1>17. QED
  BY NextCases, <1>1, <1>2, <1>3, <1>4, <1>5, <1>6, <1>7, <1>8, <1>9, <1>10, <1>11, <1>12,
     <1>13, <1>14, <1>15, <1>16

LEMMA WorkInvKept ==
    ASSUME TypeInv, WorkInv, [Next]_vars
    PROVE  WorkInv'
BY PairsKept, LocksKept, FoundKept, TargetsKept, DraftsKept DEF WorkInv

LEMMA WorkInvHolds == Spec => []WorkInv
<1>1. Init => WorkInv
  BY DraftInvInit DEF DraftInv
<1>2. TypeInv /\ TypeInv' /\ WorkInv /\ [Next]_vars => WorkInv'
  BY WorkInvKept
<1>3. QED
  BY <1>1, <1>2, TypeInvHolds, PTL DEF Spec

-----------------------------------------------------------------------------
(* The end that an activation computes. *)

\* A committed subscription changes only by ending, and with time.
LEMMA RowsOnlyEnd ==
    ASSUME TypeInv, WorkInv, [Next]_vars, NEW i \in Subscriptions, db[i] # Absent
    PROVE  Tick \/ db'[i] = db[i] \/ db'[i].status # "active"
<1>1. ASSUME NEW s \in Sessions, Commit(s)
      PROVE  db'[i] = db[i] \/ db'[i].status # "active"
  <2>1. db'[i] = db[i] \/ db'[i].status = "cancelled"
    BY <1>1, CommitEffect
  <2>2. QED
    BY <2>1
<1>2. ASSUME ExpireJob
      PROVE  db'[i] = db[i] \/ db'[i].status # "active"
  <2>1. CASE i \in Overdue
    <3>1. db[i] \in Subscription /\ db'[i] = [db[i] EXCEPT !.status = "expired"]
      BY <1>2, <2>1, RowNames DEF ExpireJob, TypeInv, TablesOK, IsTable
    <3>2. QED
      BY <3>1, ExpiredRow
  <2>2. CASE i \notin Overdue
    BY <1>2, <2>2, RowNames DEF ExpireJob
  <2>3. QED
    BY <2>1, <2>2
<1>3. QED
  BY TableSteps, <1>1, <1>2
     DEF tableVars, Cancel, ClaimKey, InsertSubscription, VoidLicence

\* An activation computes its end once.
LEMMA EndIsKept ==
    ASSUME TypeInv, [Next]_vars, NEW s \in Sessions, pc[s] # "idle", pc'[s] # "idle",
           job[s].op = "activate"
    PROVE  Tick \/ ReadActive(s) \/ (found'[s] = found[s] /\ until'[s] = until[s])
<1> USE DEF TypeInv
<1> DEFINE Goal == found'[s] = found[s] /\ until'[s] = until[s]
<1>1. ASSUME NEW o \in Sessions,
             Activate(o) \/ StartTrial(o) \/ AdminGrant(o) \/ AdminRevoke(o)
                \/ RevokeLicence(o) \/ Revalidate(o)
      PROVE  Goal
  BY <1>1 DEF Activate, StartTrial, AdminGrant, AdminRevoke, RevokeLicence, Revalidate, Begin
<1>2. ASSUME NEW o \in Sessions, Leave(o) PROVE Goal
  BY <1>2 DEF Leave, Goto, SessionsOK
<1>3. ASSUME NEW o \in Sessions,
             Verified(o) \/ Rechecked(o) \/ LockUser(o) \/ Cancel(o) \/ ClaimKey(o)
                \/ InsertSubscription(o) \/ VoidLicence(o)
      PROVE  Goal
  BY <1>3 DEF Verified, Rechecked, LockUser, Cancel, ClaimKey, InsertSubscription, VoidLicence
<1>4. ASSUME NEW o \in Sessions, Eligible(o) PROVE Goal
  BY <1>2, <1>4 DEF Eligible
<1>5. ASSUME NEW o \in Sessions, NothingRunning(o) PROVE Goal
  <2>1. CASE \E i \in ActiveIn(db, job[o].user) : Unended(db[i].ends)
    BY <1>2, <1>5, <2>1 DEF NothingRunning
  <2>2. CASE ~(\E i \in ActiveIn(db, job[o].user) : Unended(db[i].ends))
    <3>1. job[o].op = "trial"
      BY <1>5 DEF NothingRunning, JobsOK, JobOK
    <3>2. QED
      BY <1>5, <2>2, <3>1 DEF NothingRunning, SessionsOK
  <2>3. QED
    BY <2>1, <2>2
<1>6. ASSUME NEW o \in Sessions, o # s, ReadActive(o) PROVE Goal
  BY <1>6 DEF ReadActive, SessionsOK
<1>7. ASSUME NEW o \in Sessions, ReadOwn(o) PROVE Goal
  <2>1. o # s
    BY <1>7 DEF ReadOwn, JobsOK, JobOK
  <2>2. QED
    BY <1>7, <2>1 DEF ReadOwn, SessionsOK
<1>8. ASSUME ExpireJob \/ UNCHANGED vars PROVE Goal
  BY <1>8 DEF ExpireJob, vars, sessionVars
<1>9. QED
  BY NextCases, <1>1, <1>2, <1>3, <1>4, <1>5, <1>6, <1>7, <1>8
     DEF Dismissed, Clash, Commit, Abort

\* Where one subscription is active, compute_expiry() stacks on that one.
LEMMA NewEndStacks ==
    ASSUME TypeInv, ActiveInv, NEW u \in Users, NEW i \in ActiveIn(db, u),
           db[i].ends # Never, db[i].ends > 0
    PROVE  NewEnd(u, db[i].plan) =
               IF Term[db[i].plan] = Never THEN Never ELSE db[i].ends + Term[db[i].plan]
<1> DEFINE p == db[i].plan
           stacked == {j \in ActiveIn(db, u) :
                          db[j].plan = p /\ db[j].ends # Never /\ db[j].ends > 0}
<1>1. stacked = {i}
  BY DEF ActiveInv, OneCommitted, ActiveIn
<1>2. {db[j].ends : j \in stacked} = {db[i].ends}
  BY <1>1
<1>3. (CHOOSE e \in {db[j].ends : j \in stacked} : TRUE) = db[i].ends
  BY <1>2
<1>4. QED
  BY <1>1, <1>3 DEF NewEnd

LEMMA EndsKept ==
    ASSUME TypeInv, WorkInv, ActiveInv, EndsInv, [Next]_vars, SessionsOK'
    PROVE  EndsInv'
<1> USE DEF TypeInv, WorkInv
<1> SUFFICES ASSUME NEW s \in Sessions, pc'[s] # "idle", job'[s].op = "activate"
             PROVE  Continues(s)'
  BY DEF EndsInv
<1>1. CASE pc[s] = "idle"
  <2>1. found[s] = NoRow /\ found'[s] = found[s]
    BY <1>1, TakesUp DEF Taken, FoundOK
  <2>2. QED
    BY <2>1 DEF Continues
<1>2. CASE pc[s] # "idle"
  <2>0. job'[s] = job[s] /\ JobOK(s) /\ Continues(s) /\ job[s].op = "activate"
    BY <1>2, GoesOn DEF Went, JobsOK, EndsInv
  <2>1. CASE Tick
    <3>1. found' = found /\ job' = job /\ until'[s] = Older(until[s])
      BY <2>1 DEF Tick
    <3>2. SUFFICES ASSUME found[s] # NoRow PROVE Continues(s)'
      BY <3>1 DEF Continues
    <3>3. PICK i : i = found[s]
      OBVIOUS
    <3>4. i \in Subscriptions /\ db[i] \in Subscription /\ db'[i] = OlderRow(i, db[i])
      <4>1. i \in Subscriptions /\ db[i] # Absent
        BY <3>2, <3>3 DEF FoundOK, SessionsOK
      <4>2. db'[i] = OlderRow(i, db[i])
        BY <2>1, <4>1, TickEffect, RowNames
      <4>3. QED
        BY <4>1, <4>2 DEF TablesOK, IsTable
    <3>5. db'[i] = [db[i] EXCEPT !.ends = Older(db[i].ends)]
      BY <3>4, RowNames, RowsAreReal DEF OlderRow
    <3>6. /\ db'[i].status = db[i].status /\ db'[i].plan = db[i].plan
          /\ db'[i].ends = Older(db[i].ends) /\ db[i].ends \in Ends
          /\ db[i].plan \in Plans /\ Term[db[i].plan] \in (Nat \ {0}) \cup {Never}
      BY <3>4, <3>5, BillingAssumption DEF Subscription
    <3>7. SUFFICES ASSUME db[i].status = "active", db[i].plan = job[s].plan,
                          Older(db[i].ends) # Never, Older(db[i].ends) > 0
                   PROVE  Older(until[s]) = IF Term[db[i].plan] = Never THEN Never
                                            ELSE Older(db[i].ends) + Term[db[i].plan]
      BY <3>1, <3>3, <3>6 DEF Continues
    <3>8. db[i].ends \in Nat /\ db[i].ends > 0 /\ db[i].ends # Never
          /\ Older(db[i].ends) = db[i].ends - 1
      BY <3>6, <3>7, BillingAssumption DEF Older, Ends
    <3>9. until[s] = IF Term[db[i].plan] = Never THEN Never ELSE db[i].ends + Term[db[i].plan]
      BY <2>0, <3>2, <3>3, <3>7, <3>8 DEF Continues
    <3>10. CASE Term[db[i].plan] = Never
      BY <3>9, <3>10 DEF Older
    <3>11. CASE Term[db[i].plan] # Never
      <4>1. until[s] \in Nat /\ until[s] > 0 /\ until[s] # Never
        BY <3>6, <3>8, <3>9, <3>11, BillingAssumption
      <4>2. QED
        BY <3>6, <3>8, <3>9, <3>11, <4>1 DEF Older
    <3>12. QED
      BY <3>10, <3>11
  <2>2. CASE ReadActive(s)
    <3>1. UNCHANGED db /\ job[s] \in Job /\ job[s].user \in Users
      BY <2>0, <2>2 DEF ReadActive, tableVars, JobOK, Job
    <3>2. PICK i \in IF ActiveIn(db, job[s].user) = {} THEN {NoRow}
                     ELSE ActiveIn(db, job[s].user) :
              found' = [found EXCEPT ![s] = i]
      BY <2>2 DEF ReadActive
    <3>3. found'[s] = i
      BY <3>2 DEF SessionsOK
    <3>4. until'[s] = NewEnd(job[s].user, job[s].plan)
      BY <2>0, <2>2 DEF ReadActive, SessionsOK
    <3>5. i # NoRow => i \in ActiveIn(db, job[s].user)
      BY <3>2
    <3>6. QED
      BY <2>0, <3>1, <3>3, <3>4, <3>5, NewEndStacks DEF Continues
  <2>3. CASE found'[s] = found[s] /\ until'[s] = until[s] /\ ~Tick
    <3>1. SUFFICES ASSUME found[s] # NoRow PROVE Continues(s)'
      BY <2>3 DEF Continues
    <3>2. found[s] \in Subscriptions /\ db[found[s]] # Absent
      BY <3>1 DEF FoundOK, SessionsOK
    <3>3. PICK i \in Subscriptions : i = found[s]
      BY <3>2
    <3>4. db'[i] = db[i] \/ db'[i].status # "active"
      BY <2>3, <3>2, <3>3, RowsOnlyEnd
    <3>5. QED
      BY <2>0, <2>3, <3>3, <3>4 DEF Continues
  <2>4. QED
    BY <1>2, <2>0, <2>1, <2>2, <2>3, EndIsKept
<1>3. QED
  BY <1>1, <1>2

LEMMA EndsInvHolds == Spec => []EndsInv
<1>1. Init => EndsInv
  BY DraftInvInit DEF DraftInv
<1>2. TypeInv /\ TypeInv' /\ WorkInv /\ ActiveInv /\ EndsInv /\ [Next]_vars => EndsInv'
  BY EndsKept DEF TypeInv
<1>3. QED
  BY <1>1, <1>2, TypeInvHolds, WorkInvHolds, ActiveInvHolds, PTL DEF Spec

-----------------------------------------------------------------------------
(* Plans end only for a reason, and renewals add up. *)

\* When an activation, a trial or a grant commits, what was active for its user is the
\* subscription it found, and its own is active afterwards.
LEMMA ReplacesWhatItFound ==
    ASSUME TypeInv, WorkInv, ActiveInv, NEW s \in Sessions, Commit(s), job[s].op \in Inserting
    PROVE  /\ \A i \in ActiveIn(db, job[s].user) : i = found[s]
           /\ job[s].target \in ActiveIn(db', job[s].user)
<1> USE DEF TypeInv, WorkInv
<1>1. pc[s] = "commit" /\ JobOK(s) /\ WrittenBy(s) /\ DraftOK(s)
  BY DEF Commit, JobsOK, WrittenOK, DraftsOK
<1>2. job[s].target \in Subscriptions /\ draft[s][job[s].target] # Unwritten
  BY <1>1, RowNames DEF JobOK, WrittenBy, Inserting
<1>3. db[job[s].target] = Absent /\ db'[job[s].target] = NewRow(s)
  BY CommitEffect
<1>4. NewRow(s) \in Subscription /\ NewRow(s).user = job[s].user /\ NewRow(s).status = "active"
  <2>1. job[s] \in Job /\ until[s] \in Ends
    BY <1>1 DEF JobOK, SessionsOK
  <2>2. QED
    BY <2>1 DEF Job, Subscription, NewRow
<1>5. IsActive(NewRow(s), job[s].user)
  BY <1>4, ActiveRows
<1>6. Seen(s, job[s].target) = NewRow(s)
  BY <1>2, <1>3, RowNames DEF Commit, CommitRows
<1>7. ASSUME NEW i \in ActiveIn(db, job[s].user) PROVE i = found[s]
  <2>1. i \in Subscriptions /\ IsActive(db[i], job[s].user) /\ db[i] # Absent
    BY DEF ActiveIn, IsActive
  <2>2. i # job[s].target
    BY <1>3, <2>1
  <2>3. draft[s][i] # Unwritten
    <3>1. SUFFICES ASSUME draft[s][i] = Unwritten PROVE FALSE
      OBVIOUS
    <3>2. Seen(s, i) = db[i]
      BY <3>1 DEF Seen
    <3>3. job[s].user \in Users
      BY <1>1 DEF JobOK, Job
    <3>4. QED
      BY <1>2, <1>5, <1>6, <2>1, <2>2, <3>2, <3>3 DEF ActiveInv, OneSeen
  <2>4. QED
    BY <1>1, <2>1, <2>2, <2>3 DEF DraftOK, Cancelled, Inserted
<1>8. QED
  BY <1>2, <1>3, <1>5, <1>7 DEF ActiveIn

\* A running plan is lost only to a committed revocation, in every interleaving: whatever
\* cancels it for a new plan has put the new one in its place.
THEOREM PlansOnlyEndForAReason == Spec => PlansEndForAReason
<1> DEFINE Lost(u) == (\E i \in ActiveIn(db, u) : Unended(db[i].ends)) /\ ActiveIn(db, u)' = {}
           Revoked == \E s \in Sessions :
                          Commit(s) /\ job[s].op \in {"drop", "revoke", "revalidate"}
<1>1. ASSUME TypeInv, WorkInv, ActiveInv, [Next]_vars, NEW u \in Users, Lost(u)
      PROVE  Revoked
  <2> USE DEF TypeInv, WorkInv
  <2>0. PICK i \in ActiveIn(db, u) : Unended(db[i].ends)
    BY <1>1
  <2>1. /\ i \in Subscriptions /\ db[i] \in Subscription /\ db[i].status = "active"
        /\ db[i].user = u /\ IsActive(db[i], u)
    BY <1>1 DEF ActiveIn, IsActive, TablesOK, IsTable
  <2>2. ~IsActive(db'[i], u)
    BY <1>1, <2>1 DEF ActiveIn
  <2>3. ASSUME NEW s \in Sessions, Commit(s) PROVE Revoked
    <3>1. SUFFICES ASSUME job[s].op \in Inserting PROVE FALSE
      BY <1>1, <2>3 DEF Commit, JobsOK, JobOK, Job, Operations, Inserting
    <3>2. job[s].target \in ActiveIn(db', job[s].user)
      BY <1>1, <2>3, <3>1, ReplacesWhatItFound
    <3>3. job[s].user # u
      BY <1>1, <3>2 DEF ActiveIn
    <3>4. db'[i] # db[i] /\ db[i] # Absent
      BY <2>1, <2>2, RowsAreReal
    <3>5. i = found[s]
      BY <1>1, <2>1, <2>3, <3>4, CommitEffect
    <3>6. db[i].user = job[s].user
      BY <1>1, <2>1, <3>5, RowNames DEF FoundOK
    <3>7. QED
      BY <2>1, <3>3, <3>6
  <2>4. ASSUME ExpireJob PROVE FALSE
    <3>1. i \notin Overdue
      BY <1>1, <2>0, <2>1, BillingAssumption DEF Overdue, Unended
    <3>2. db'[i] = db[i]
      BY <2>1, <2>4, <3>1, RowNames DEF ExpireJob
    <3>3. QED
      BY <2>1, <2>2, <3>2
  <2>5. ASSUME Tick PROVE FALSE
    <3>1. db'[i] = OlderRow(i, db[i])
      BY <1>1, <2>1, <2>5, TickEffect, RowNames
    <3>2. QED
      BY <2>1, <2>2, <3>1, ActiveRows
  <2>6. ASSUME UNCHANGED db PROVE FALSE
    BY <2>1, <2>2, <2>6
  <2>7. QED
    BY <1>1, TableSteps, <2>3, <2>4, <2>5, <2>6
       DEF tableVars, Cancel, ClaimKey, InsertSubscription, VoidLicence
<1>2. TypeInv /\ WorkInv /\ ActiveInv /\ [Next]_vars =>
         [\A u \in Users : Lost(u) => Revoked]_vars
  BY <1>1
<1>3. QED
  BY <1>2, TypeInvHolds, WorkInvHolds, ActiveInvHolds, PTL DEF Spec, PlansEndForAReason

\* A renewal never costs time: the end committed is the end of the running term at that very
\* moment plus the plan's own, whatever ran between the computation and the commit.
THEOREM RenewalsAlwaysAddTheirTerm == Spec => RenewalsAddTheirTerm
<1> DEFINE Adds(s) ==
               pc[s] = "commit" /\ job[s].op = "activate" /\ Commit(s) =>
                   \A i \in ActiveIn(db, job[s].user) :
                       db[i].plan = job[s].plan /\ db[i].ends # Never /\ db[i].ends > 0 =>
                           db'[job[s].target].ends =
                               IF Term[db[i].plan] = Never THEN Never
                               ELSE db[i].ends + Term[db[i].plan]
<1>1. ASSUME TypeInv, WorkInv, ActiveInv, EndsInv, NEW s \in Sessions
      PROVE  Adds(s)
  <2>1. SUFFICES ASSUME pc[s] = "commit", job[s].op = "activate", Commit(s),
                        NEW i \in ActiveIn(db, job[s].user),
                        db[i].plan = job[s].plan, db[i].ends # Never, db[i].ends > 0
                 PROVE  db'[job[s].target].ends =
                            IF Term[db[i].plan] = Never THEN Never
                            ELSE db[i].ends + Term[db[i].plan]
    OBVIOUS
  <2>2. i = found[s] /\ i \in Subscriptions /\ db[i].status = "active"
    BY <1>1, <2>1, ReplacesWhatItFound DEF Inserting, ActiveIn, IsActive
  <2>3. db'[job[s].target] = NewRow(s)
    BY <1>1, <2>1, CommitEffect DEF Inserting
  <2>4. db'[job[s].target].ends = until[s]
    BY <2>3 DEF NewRow
  <2>5. until[s] = IF Term[db[i].plan] = Never THEN Never ELSE db[i].ends + Term[db[i].plan]
    BY <1>1, <2>1, <2>2, RowNames DEF EndsInv, Continues
  <2>6. QED
    BY <2>4, <2>5
<1>2. TypeInv /\ WorkInv /\ ActiveInv /\ EndsInv /\ [Next]_vars =>
         [\A s \in Sessions : Adds(s)]_vars
  BY <1>1
<1>3. QED
  BY <1>2, TypeInvHolds, WorkInvHolds, ActiveInvHolds, EndsInvHolds, PTL
     DEF Spec, RenewalsAddTheirTerm

-----------------------------------------------------------------------------
(***************************************************************************)
(* Deadlock.  Suppose everybody waits, and no revocation for a row that is *)
(* to be cancelled.  Advisory locks are held by sessions that wait for     *)
(* rows, rows by sessions that are about to claim or to insert, a key by   *)
(* one about to insert; so somebody is about to insert.  It waits for one  *)
(* of the same user that cancelled the user's only active subscription.    *)
(* Were that one inserting too, it would wait for another that cancelled   *)
(* the same row.  So it is claiming a key, which one of another user holds *)
(* that is inserting, and waits in the same way for one of its own user    *)
(* that is claiming: but both hold the advisory lock of that user.         *)
(***************************************************************************)
LEMMA NoOtherDeadlock ==
    ASSUME TypeInv, WorkInv, ActiveInv
    PROVE  DeadlockTakesARevocation
<1> USE DEF TypeInv, WorkInv
<1> SUFFICES ASSUME Busy # {}, \A s \in Busy : Waiting(s),
                    \A s \in Busy : ~(pc[s] = "cancel" /\ job[s].op \in Revoking)
             PROVE  FALSE
  BY DEF DeadlockTakesARevocation, Revoking
<1>1. ASSUME NEW s \in Sessions, pc[s] # "idle"
      PROVE  /\ JobOK(s) /\ TargetThere(s) /\ RevokeOK(s)
             /\ Waiting(s) /\ pc[s] \in {"lock", "cancel", "claim", "insert", "void"}
  BY <1>1 DEF Busy, Waiting, JobsOK, TargetsOK
\* Whom one waits for.
<1>2. ASSUME NEW o \in Sessions, NEW j \in Subscriptions, draft[o][j] # Unwritten
      PROVE  /\ pc[o] \in {"claim", "insert"} /\ j = found[o] /\ draft[o][j].status = "cancelled"
             /\ db[j] # Absent /\ db[j].user = job[o].user
  <2>1. Cancelled(o, j) \/ Inserted(o, j)
    BY <1>2 DEF DraftsOK, DraftOK
  <2>2. Cancelled(o, j) /\ pc[o] \in {"claim", "insert"}
    BY <1>1, <2>1 DEF Cancelled, Inserted
  <2>3. QED
    BY <2>2, RowNames DEF Cancelled, FoundOK
<1>3. ASSUME NEW o \in Sessions, NEW k \in Keys, draft[o][Licence(k)] # Unwritten
      PROVE  pc[o] = "insert" /\ job[o].op = "activate"
  <2>1. Claimed(o, k) \/ VoidedBy(o, k)
    BY <1>3 DEF DraftsOK, DraftOK
  <2>2. ~VoidedBy(o, k)
    BY <1>1 DEF VoidedBy, Busy
  <2>3. QED
    BY <1>1, <2>1, <2>2 DEF Claimed
<1>4. ASSUME NEW s \in Sessions, pc[s] = "claim"
      PROVE  \E o \in Sessions : pc[o] = "insert" /\ job[o].op = "activate"
  <2>1. PICK k \in Keys : job[s].target = Purchase(k)
    BY <1>1, <1>4 DEF JobOK
  <2>2. KeyOf(s) = k
    BY <2>1, RowNames DEF KeyOf
  <2>3. ~Writable(s, Licence(k))
    BY <1>1, <1>4, <2>2 DEF Waiting
  <2>4. QED
    BY <1>3, <2>3 DEF Writable
<1>5. ASSUME NEW s \in Sessions, pc[s] = "insert"
      PROVE  \E o \in Sessions :
                 /\ o # s /\ pc[o] \in {"claim", "insert"} /\ job[o].user = job[s].user
                 /\ found[o] \in Subscriptions /\ draft[o][found[o]] # Unwritten
                 /\ IsActive(db[found[o]], job[s].user)
  <2>1. InsertWaits(s, job[s].user, job[s].target)
    BY <1>1, <1>5 DEF Waiting
  <2>2. job[s].target \in Subscriptions /\ db[job[s].target] = Absent
    BY <1>5, TargetIsNew
  <2>3. Writable(s, job[s].target)
    BY <1>2, <2>2 DEF Writable
  <2>4. PICK o \in Sessions \ {s}, j \in Subscriptions :
            /\ draft[o][j] # Unwritten
            /\ IsActive(draft[o][j], job[s].user) \/ IsActive(db[j], job[s].user)
    BY <2>1, <2>3 DEF InsertWaits
  <2>5. /\ pc[o] \in {"claim", "insert"} /\ j = found[o] /\ draft[o][j].status = "cancelled"
        /\ db[j] # Absent /\ db[j].user = job[o].user
    BY <1>2, <2>4
  <2>6. IsActive(db[j], job[s].user)
    BY <2>4, <2>5 DEF IsActive
  <2>7. db[j].user = job[s].user
    BY <2>6 DEF IsActive
  <2>8. QED
    BY <2>4, <2>5, <2>6, <2>7
\* Somebody is about to insert.
<1>6. PICK s \in Sessions : pc[s] = "insert"
  <2>1. PICK a \in Sessions : pc[a] # "idle"
    BY DEF Busy
  <2>2. ASSUME NEW b \in Sessions, pc[b] \in {"claim", "insert"}
        PROVE  \E o \in Sessions : pc[o] = "insert"
    BY <1>4, <2>2
  <2>3. ASSUME NEW b \in Sessions, pc[b] = "cancel"
        PROVE  \E o \in Sessions : pc[o] = "insert"
    <3>1. found[b] \in Subscriptions /\ ~Writable(b, found[b])
      BY <1>1, <2>3 DEF Waiting, TargetThere
    <3>2. PICK o \in Sessions : draft[o][found[b]] # Unwritten
      BY <3>1 DEF Writable
    <3>3. QED
      BY <1>2, <2>2, <3>1, <3>2
  <2>4. ASSUME NEW b \in Sessions, pc[b] = "lock"
        PROVE  \E o \in Sessions : pc[o] = "insert"
    <3>1. lock[job[b].user] # NoOne /\ job[b].user \in Users
      BY <1>1, <2>4 DEF Waiting, JobOK, Job
    <3>2. PICK o \in Sessions : lock[job[b].user] = o
      BY <3>1 DEF SessionsOK
    <3>3. UnderLock(o)
      BY <3>1, <3>2 DEF LocksOK
    <3>4. pc[o] \in {"cancel", "claim", "insert"}
      BY <1>1, <3>3 DEF UnderLock
    <3>5. QED
      BY <2>2, <2>3, <3>4
  <2>5. ASSUME NEW b \in Sessions, pc[b] = "void"
        PROVE  \E o \in Sessions : pc[o] = "insert"
    <3>1. PICK k \in Keys : job[b].target = Purchase(k)
      BY <1>1, <2>5 DEF JobOK, RevokeOK, Revoking
    <3>2. ~Writable(b, Licence(k))
      BY <1>1, <2>5, <3>1, RowNames DEF Waiting
    <3>3. QED
      BY <1>3, <3>2 DEF Writable
  <2>6. QED
    BY <1>1, <2>1, <2>2, <2>3, <2>4, <2>5
\* Whoever blocks an insertion is claiming a key.
<1>7. ASSUME NEW b \in Sessions, pc[b] = "insert"
      PROVE  \E o \in Sessions : o # b /\ pc[o] = "claim" /\ job[o].user = job[b].user
  <2>1. PICK o \in Sessions :
            /\ o # b /\ pc[o] \in {"claim", "insert"} /\ job[o].user = job[b].user
            /\ found[o] \in Subscriptions /\ draft[o][found[o]] # Unwritten
            /\ IsActive(db[found[o]], job[b].user)
    BY <1>5, <1>7
  <2>2. SUFFICES ASSUME pc[o] = "insert" PROVE FALSE
    BY <2>1
  <2>3. PICK c \in Sessions :
            /\ c # o /\ pc[c] \in {"claim", "insert"}
            /\ found[c] \in Subscriptions /\ draft[c][found[c]] # Unwritten
            /\ IsActive(db[found[c]], job[o].user)
    BY <1>5, <2>2
  <2>4. job[o].user \in Users
    BY <1>1, <2>2 DEF JobOK, Job
  <2>5. found[c] = found[o]
    BY <2>1, <2>3, <2>4 DEF ActiveInv, OneCommitted
  <2>6. QED
    BY <2>1, <2>3, <2>5, RowNames DEF Exclusive
<1>8. PICK b \in Sessions : pc[b] = "claim"
  BY <1>6, <1>7
<1>9. PICK o \in Sessions : pc[o] = "insert" /\ job[o].op = "activate"
  BY <1>4, <1>8
<1>10. PICK c \in Sessions : c # o /\ pc[c] = "claim" /\ job[c].user = job[o].user
  BY <1>7, <1>9
<1>11. job[c].op = "activate"
  BY <1>1, <1>10 DEF JobOK
<1>12. UnderLock(o) /\ UnderLock(c)
  BY <1>9, <1>10, <1>11 DEF UnderLock
<1>13. lock[job[o].user] = o /\ lock[job[c].user] = c
  BY <1>12 DEF LocksOK
<1>14. QED
  BY <1>10, <1>13

\* The advisory lock, the rows and the waits on the unique indexes are taken in one order by
\* any number of activations, trials, grants and plan revocations: every circle of waiting
\* sessions goes through the revocation of a licence.
THEOREM DeadlockAlwaysTakesARevocation == Spec => []DeadlockTakesARevocation
<1>1. QED
  BY NoOtherDeadlock, TypeInvHolds, WorkInvHolds, ActiveInvHolds, PTL

-----------------------------------------------------------------------------
(***************************************************************************)
(* Billing implements PlanHolding.  What the tables show of licences and   *)
(* plans changes in a commit, in the sweep and not otherwise; and a commit *)
(* changes as much of it as one step of PlanHolding does.                  *)
(***************************************************************************)
Bought == {Purchase(k) : k \in Keys}
Gifts == {Trial(u) : u \in Users} \cup {Granted(g) : g \in Grants}

OwnerMap == [i \in Bought |-> Owner(i[2])]
RevokedKeys == {i \in Bought : db[LicenceOf(i)] # Absent /\ db[LicenceOf(i)].status = "revoked"}
GivenOut == {i \in Subscriptions \ Bought : db[i] # Absent}
HoldingMap == [u \in Users |-> Holding(u)]

Mapped == <<OwnerMap, RevokedKeys, GivenOut, HoldingMap>>

\* The steps of PlanHolding, of the tables.
LEMMA MapsToEnd ==
    ASSUME NEW ended \in SUBSET Users,
           HoldingMap' = [u \in Users |-> IF u \in ended THEN NoRow ELSE HoldingMap[u]],
           OwnerMap' = OwnerMap, RevokedKeys' = RevokedKeys, GivenOut' = GivenOut
    PROVE  Holdings!Next
BY DEF Holdings!Next, Holdings!End, OwnerMap, RevokedKeys, GivenOut, HoldingMap, Bought

LEMMA MapsToRevoke ==
    ASSUME NEW i \in Bought, OwnerMap[i] # NoOne, RevokedKeys' = RevokedKeys \cup {i},
           HoldingMap' = [u \in Users |-> IF HoldingMap[u] = i THEN NoRow ELSE HoldingMap[u]],
           OwnerMap' = OwnerMap, GivenOut' = GivenOut
    PROVE  Holdings!Next
BY DEF Holdings!Next, Holdings!Revoke, OwnerMap, RevokedKeys, GivenOut, HoldingMap, Bought

LEMMA MapsToClaim ==
    ASSUME NEW u \in Users, NEW i \in Bought, OwnerMap[i] = NoOne,
           OwnerMap' = [OwnerMap EXCEPT ![i] = u],
           HoldingMap' = [HoldingMap EXCEPT ![u] = i],
           RevokedKeys' = RevokedKeys, GivenOut' = GivenOut
    PROVE  Holdings!Next
BY DEF Holdings!Next, Holdings!Claim, OwnerMap, RevokedKeys, GivenOut, HoldingMap, Bought

LEMMA MapsToGive ==
    ASSUME NEW u \in Users, NEW i \in Gifts, i \notin GivenOut,
           GivenOut' = GivenOut \cup {i},
           HoldingMap' = [HoldingMap EXCEPT ![u] = i],
           OwnerMap' = OwnerMap, RevokedKeys' = RevokedKeys
    PROVE  Holdings!Next
BY DEF Holdings!Next, Holdings!Give, OwnerMap, RevokedKeys, GivenOut, HoldingMap, Bought, Gifts

LEMMA MapsToStutter ==
    ASSUME UNCHANGED Mapped
    PROVE  UNCHANGED Holdings!holdingVars
BY DEF Holdings!holdingVars, Mapped, OwnerMap, RevokedKeys, GivenOut, HoldingMap, Bought

-----------------------------------------------------------------------------
(* What the changes of the tables are to the mapped state. *)

HoldingIn(rows, u) ==
    IF ActiveIn(rows, u) = {} THEN NoRow ELSE CHOOSE i \in ActiveIn(rows, u) : TRUE

LEMMA HoldingIs ==
    ASSUME NEW rows, NEW u
    PROVE  /\ ActiveIn(rows, u) = {} => HoldingIn(rows, u) = NoRow
           /\ \A i : ActiveIn(rows, u) = {i} => HoldingIn(rows, u) = i
BY DEF HoldingIn

LEMMA HoldingNow ==
    ASSUME NEW u
    PROVE  Holding(u) = HoldingIn(db, u) /\ Holding(u)' = HoldingIn(db', u)
BY DEF Holding, HoldingIn

\* Users hold what is active ...
LEMMA HoldsWhatIsActive ==
    ASSUME OneCommitted, NEW u \in Users
    PROVE  /\ ActiveIn(db, u) = {} <=> Holding(u) = NoRow
           /\ Holding(u) # NoRow => ActiveIn(db, u) = {Holding(u)}
           /\ Holding(u) \in Subscriptions \cup {NoRow}
<1>1. CASE ActiveIn(db, u) = {}
  BY <1>1, HoldingIs, HoldingNow
<1>2. ASSUME NEW i \in ActiveIn(db, u)
      PROVE  ActiveIn(db, u) = {i} /\ Holding(u) = i /\ i \in Subscriptions
  <2>1. ActiveIn(db, u) = {i} /\ i \in Subscriptions
    BY DEF OneCommitted, ActiveIn
  <2>2. QED
    BY <2>1, HoldingIs, HoldingNow
<1>3. QED
  BY <1>1, <1>2, RowNames

\* ... and until it ends.
LEMMA HoldingEnds ==
    ASSUME NEW ended \in SUBSET Subscriptions, OneCommitted,
           \A u \in Users, i \in Subscriptions :
               IsActive(db'[i], u) <=> IsActive(db[i], u) /\ i \notin ended
    PROVE  \A u \in Users : Holding(u)' = IF Holding(u) \in ended THEN NoRow ELSE Holding(u)
<1> SUFFICES ASSUME NEW u \in Users
             PROVE  Holding(u)' = IF Holding(u) \in ended THEN NoRow ELSE Holding(u)
  OBVIOUS
<1>1. ActiveIn(db', u) = ActiveIn(db, u) \ ended
  BY DEF ActiveIn
<1>2. CASE Holding(u) = NoRow
  <2>1. ActiveIn(db', u) = {}
    BY <1>1, <1>2, HoldsWhatIsActive
  <2>2. Holding(u)' = NoRow
    BY <2>1, HoldingIs, HoldingNow
  <2>3. QED
    BY <1>2, <2>2
<1>3. CASE Holding(u) # NoRow
  <2>1. PICK i : i = Holding(u)
    OBVIOUS
  <2>2. ActiveIn(db', u) = {i} \ ended
    BY <1>1, <1>3, <2>1, HoldsWhatIsActive
  <2>3. CASE i \in ended
    <3>1. ActiveIn(db', u) = {}
      BY <2>2, <2>3
    <3>2. QED
      BY <2>1, <2>3, <3>1, HoldingIs, HoldingNow
  <2>4. CASE i \notin ended
    <3>1. ActiveIn(db', u) = {i}
      BY <2>2, <2>4
    <3>2. QED
      BY <2>1, <2>4, <3>1, HoldingIs, HoldingNow
  <2>5. QED
    BY <2>3, <2>4
<1>4. QED
  BY <1>2, <1>3

\* A new plan takes the place of the old one.
LEMMA HoldingReplaced ==
    ASSUME NEW u \in Users, NEW i \in ActiveIn(db', u), OneCommitted',
           \A v \in Users \ {u}, j \in Subscriptions : IsActive(db'[j], v) <=> IsActive(db[j], v)
    PROVE  HoldingMap' = [HoldingMap EXCEPT ![u] = i]
<1>1. ActiveIn(db', u) = {i}
  BY DEF OneCommitted, ActiveIn
<1>2. Holding(u)' = i
  BY <1>1, HoldingIs, HoldingNow
<1>3. ASSUME NEW v \in Users \ {u} PROVE Holding(v)' = Holding(v)
  <2>1. ActiveIn(db', v) = ActiveIn(db, v)
    BY DEF ActiveIn
  <2>2. QED
    BY <2>1, HoldingNow DEF HoldingIn
<1>4. HoldingMap' = [v \in Users |-> Holding(v)']
  BY DEF HoldingMap
<1>5. HoldingMap = [v \in Users |-> Holding(v)]
  BY DEF HoldingMap
<1>6. QED
  BY <1>2, <1>3, <1>4, <1>5

\* Licences, trials and grants.
LEMMA LicencesStay ==
    ASSUME \A k \in Keys : db'[Licence(k)] = db[Licence(k)]
    PROVE  OwnerMap' = OwnerMap /\ RevokedKeys' = RevokedKeys
<1>1. \A i \in Bought : i[2] \in Keys /\ LicenceOf(i) = Licence(i[2])
  BY RowNames DEF Bought, LicenceOf
<1>2. \A k \in Keys : Owner(k)' = Owner(k)
  BY DEF Owner
<1>3. OwnerMap' = [i \in Bought |-> Owner(i[2])']
  BY DEF OwnerMap, Bought
<1>4. OwnerMap' = OwnerMap
  BY <1>1, <1>2, <1>3 DEF OwnerMap
<1>5. QED
  BY <1>1, <1>4 DEF RevokedKeys

LEMMA GiftsStay ==
    ASSUME \A i \in Subscriptions : db'[i] = Absent <=> db[i] = Absent
    PROVE  GivenOut' = GivenOut
BY DEF GivenOut

-----------------------------------------------------------------------------
(* The steps. *)

\* A commit of a user's new plan moves nobody else's.
LEMMA OnlyItsUserMoves ==
    ASSUME TypeInv, WorkInv, NEW s \in Sessions, Commit(s)
    PROVE  \A v \in Users \ {job[s].user}, i \in Subscriptions :
               IsActive(db'[i], v) <=> IsActive(db[i], v)
<1> USE DEF TypeInv, WorkInv
<1> SUFFICES ASSUME NEW v \in Users \ {job[s].user}, NEW i \in Subscriptions
             PROVE  IsActive(db'[i], v) <=> IsActive(db[i], v)
  OBVIOUS
<1>1. CASE db'[i] = db[i]
  BY <1>1
<1>2. CASE i = found[s] /\ db[i] # Absent /\ db'[i].status = "cancelled"
  <2>1. db[i].user = job[s].user
    BY <1>2, RowNames DEF FoundOK
  <2>2. QED
    BY <1>2, <2>1 DEF IsActive
<1>3. CASE db[i] = Absent /\ db'[i] = NewRow(s)
  BY <1>3 DEF IsActive, NewRow
<1>4. QED
  BY <1>1, <1>2, <1>3, CommitEffect

\* A commit creates its target and no other subscription, and takes none away.
LEMMA OnlyItsTargetBegins ==
    ASSUME TypeInv, WorkInv, NEW s \in Sessions, Commit(s), NEW i \in Subscriptions,
           i # job[s].target \/ job[s].op \notin Inserting
    PROVE  db'[i] = Absent <=> db[i] = Absent
<1>1. db[i] # Absent => db'[i] # Absent
  BY SeenType, RowNames DEF Commit, CommitRows, TypeInv
<1>2. db[i] = Absent => db'[i] = db[i]
  BY CommitEffect
<1>3. QED
  BY <1>1, <1>2

LEMMA ActivationClaims ==
    ASSUME TypeInv, WorkInv, ActiveInv, ActiveInv', NEW s \in Sessions, Commit(s),
           job[s].op = "activate"
    PROVE  Holdings!Next
<1>1. PICK k \in Keys :
          /\ job[s].target = Purchase(k) /\ db[Licence(k)] = Absent
          /\ db'[Licence(k)] = [user |-> job[s].user, status |-> "active"]
  BY CommitEffect
<1>2. PICK u \in Users : u = job[s].user
  BY DEF Commit, TypeInv, JobsOK, JobOK, Job
<1>3. PICK i \in Bought : i = Purchase(k)
  BY DEF Bought
<1>4. i[2] = k /\ LicenceOf(i) = Licence(k)
  BY <1>3, RowNames
<1>5. \A j \in Bought : j[2] \in Keys /\ LicenceOf(j) = Licence(j[2]) /\ (j[2] = k <=> j = i)
  BY <1>3, RowNames DEF Bought
<1>6. db'[Licence(k)] # Absent /\ db'[Licence(k)].user = u /\ db'[Licence(k)].status = "active"
  <2>1. db'[Licence(k)] \in LicenceRow
    BY <1>1, <1>2 DEF LicenceRow
  <2>2. QED
    BY <1>1, <1>2, <2>1, RowsAreReal
<1>7. \A j \in Keys \ {k} : db'[Licence(j)] = db[Licence(j)]
  <2>1. \A j \in Keys \ {k} : job[s].target # Purchase(j)
    BY <1>1, RowNames
  <2>2. QED
    BY <2>1, CommitEffect
<1>8. OwnerMap[i] = NoOne
  BY <1>1, <1>4 DEF OwnerMap, Owner
<1>9. OwnerMap' = [OwnerMap EXCEPT ![i] = u]
  <2>1. OwnerMap' = [j \in Bought |-> Owner(j[2])']
    BY DEF OwnerMap, Bought
  <2>2. Owner(i[2])' = u
    BY <1>4, <1>6 DEF Owner
  <2>3. \A j \in Bought \ {i} : Owner(j[2])' = Owner(j[2])
    BY <1>5, <1>7 DEF Owner
  <2>4. QED
    BY <2>1, <2>2, <2>3 DEF OwnerMap
<1>10. RevokedKeys' = RevokedKeys
  <2>1. \A j \in Bought \ {i} : j \in RevokedKeys' <=> j \in RevokedKeys
    BY <1>5, <1>7 DEF RevokedKeys, Bought
  <2>2. i \notin RevokedKeys' /\ i \notin RevokedKeys
    BY <1>1, <1>4, <1>6 DEF RevokedKeys
  <2>3. RevokedKeys \subseteq Bought /\ RevokedKeys' \subseteq Bought
    BY DEF RevokedKeys, Bought
  <2>4. QED
    BY <2>1, <2>2, <2>3
<1>11. GivenOut' = GivenOut
  <2>1. \A j \in Subscriptions \ Bought : db'[j] = Absent <=> db[j] = Absent
    BY <1>1, <1>3, OnlyItsTargetBegins
  <2>2. QED
    BY <2>1 DEF GivenOut, Bought
<1>12. HoldingMap' = [HoldingMap EXCEPT ![u] = i]
  <2>1. i \in ActiveIn(db', u)
    BY <1>1, <1>2, <1>3, ReplacesWhatItFound DEF Inserting
  <2>2. QED
    BY <1>2, <2>1, OnlyItsUserMoves, HoldingReplaced DEF ActiveInv
<1>13. QED
  BY <1>8, <1>9, <1>10, <1>11, <1>12, MapsToClaim

LEMMA TrialOrGrantGives ==
    ASSUME TypeInv, WorkInv, ActiveInv, ActiveInv', NEW s \in Sessions, Commit(s),
           job[s].op \in {"trial", "grant"}
    PROVE  Holdings!Next
<1>1. PICK u \in Users : u = job[s].user
  BY DEF Commit, TypeInv, JobsOK, JobOK, Job
<1>2. PICK i \in Gifts : i = job[s].target
  <2>1. TrialOK(s) /\ GrantOK(s)
    BY DEF Commit, WorkInv, TargetsOK
  <2>2. QED
    BY <1>1, <2>1 DEF TrialOK, GrantOK, Gifts
<1>3. i \in Subscriptions \ Bought
  BY <1>2, NamesApart DEF Subscriptions, Bought, Gifts
<1>4. db[i] = Absent /\ db'[i] = NewRow(s)
  BY <1>2, CommitEffect DEF Inserting
<1>5. \A k \in Keys : db'[Licence(k)] = db[Licence(k)]
  BY CommitEffect DEF Revoking
<1>6. GivenOut' = GivenOut \cup {i}
  <2>1. db'[i] # Absent
    <3>1. i \in ActiveIn(db', u)
      BY <1>1, <1>2, ReplacesWhatItFound DEF Inserting
    <3>2. QED
      BY <3>1 DEF ActiveIn, IsActive
  <2>2. \A j \in Subscriptions \ {i} : db'[j] = Absent <=> db[j] = Absent
    BY <1>2, OnlyItsTargetBegins
  <2>3. \A j \in Subscriptions \ Bought : j \in GivenOut' <=> j \in GivenOut \/ j = i
    BY <1>4, <2>1, <2>2 DEF GivenOut, Bought
  <2>4. GivenOut \subseteq Subscriptions \ Bought /\ GivenOut' \subseteq Subscriptions \ Bought
    BY DEF GivenOut, Bought
  <2>5. QED
    BY <1>3, <2>3, <2>4
<1>7. i \notin GivenOut
  BY <1>4 DEF GivenOut
<1>8. HoldingMap' = [HoldingMap EXCEPT ![u] = i]
  <2>1. i \in ActiveIn(db', u)
    BY <1>1, <1>2, ReplacesWhatItFound DEF Inserting
  <2>2. QED
    BY <1>1, <2>1, OnlyItsUserMoves, HoldingReplaced DEF ActiveInv
<1>9. QED
  BY <1>5, <1>6, <1>7, <1>8, LicencesStay, MapsToGive

\* What a commit ends: at most the subscription it found.
LEMMA CommitEndsWhatItFound ==
    ASSUME TypeInv, WorkInv, NEW s \in Sessions, Commit(s), job[s].op \notin Inserting
    PROVE  /\ \A i \in Subscriptions :
                 /\ db'[i] = Absent <=> db[i] = Absent
                 /\ \A u \in Users : IsActive(db'[i], u) <=> IsActive(db[i], u) /\ i # found[s]
<1> SUFFICES ASSUME NEW i \in Subscriptions, NEW u \in Users
             PROVE  IsActive(db'[i], u) <=> IsActive(db[i], u) /\ i # found[s]
  BY OnlyItsTargetBegins
<1>1. CASE i = found[s]
  <2>1. db'[i].status = "cancelled"
    BY <1>1, RowNames, CommitEffect
  <2>2. QED
    BY <1>1, <2>1 DEF IsActive
<1>2. CASE i # found[s]
  <2>1. db'[i] = db[i]
    BY <1>2, CommitEffect
  <2>2. QED
    BY <1>2, <2>1
<1>3. QED
  BY <1>1, <1>2

LEMMA DropEnds ==
    ASSUME TypeInv, WorkInv, ActiveInv, NEW s \in Sessions, Commit(s), job[s].op = "drop"
    PROVE  Holdings!Next
<1> DEFINE gone == {i \in Subscriptions : i = found[s]}
           ended == {u \in Users : Holding(u) \in gone}
<1>1. \A u \in Users : Holding(u)' = IF Holding(u) \in gone THEN NoRow ELSE Holding(u)
  <2>1. \A u \in Users, i \in Subscriptions :
           IsActive(db'[i], u) <=> IsActive(db[i], u) /\ i \notin gone
    BY CommitEndsWhatItFound DEF Inserting
  <2>2. QED
    BY <2>1, HoldingEnds DEF ActiveInv
<1>2. ended \in SUBSET Users
  OBVIOUS
<1>3. PICK e \in SUBSET Users : e = ended
  BY <1>2
<1>4. HoldingMap' = [u \in Users |-> IF u \in e THEN NoRow ELSE HoldingMap[u]]
  <2>1. HoldingMap' = [u \in Users |-> Holding(u)']
    BY DEF HoldingMap
  <2>2. QED
    BY <1>1, <1>3, <2>1 DEF HoldingMap
<1>5. \A k \in Keys : db'[Licence(k)] = db[Licence(k)]
  BY CommitEffect DEF Revoking
<1>6. GivenOut' = GivenOut
  BY CommitEndsWhatItFound, GiftsStay DEF Inserting
<1>7. QED
  BY <1>4, <1>5, <1>6, LicencesStay, MapsToEnd

\* The licence a revocation voids is committed, so its key is claimed; and the plan that it
\* carries is the one the revocation found, unless that has ended or been replaced before.
LEMMA RevocationRevokes ==
    ASSUME TypeInv, WorkInv, ActiveInv, NEW s \in Sessions, Commit(s), job[s].op \in Revoking
    PROVE  Holdings!Next
<1>0. JobOK(s) /\ RevokeOK(s) /\ pc[s] = "commit"
  BY DEF Commit, TypeInv, JobsOK, WorkInv, TargetsOK
<1>1. PICK k \in Keys :
          /\ job[s].target = Purchase(k)
          /\ db[Licence(k)] # Absent /\ db[Licence(k)].user = job[s].user
          /\ pc[s] = "commit" /\ found[s] = NoRow => db[Purchase(k)].status # "active"
  BY <1>0 DEF RevokeOK
<1>2. PICK i \in Bought : i = Purchase(k)
  BY DEF Bought
<1>3. i \in Subscriptions /\ i[2] = k /\ LicenceOf(i) = Licence(k)
  BY <1>2, RowNames
<1>4. db[Licence(k)].user \in Users
  BY <1>0, <1>1 DEF JobOK, Job
<1>5. OwnerMap[i] # NoOne
  BY <1>1, <1>3, <1>4, BillingAssumption DEF OwnerMap, Owner
<1>6. /\ db'[Licence(k)] = [user |-> db[Licence(k)].user, status |-> "revoked"]
      /\ \A j \in Keys \ {k} : db'[Licence(j)] = db[Licence(j)]
  <2>1. \A j \in Keys : job[s].target = Purchase(j) <=> j = k
    BY <1>1, RowNames
  <2>2. QED
    BY <1>1, <2>1, CommitEffect DEF Inserting, Revoking
<1>7. /\ db'[Licence(k)] # Absent /\ db'[Licence(k)].user = db[Licence(k)].user
      /\ db'[Licence(k)].status = "revoked"
  <2>1. db'[Licence(k)] \in LicenceRow
    BY <1>4, <1>6 DEF LicenceRow
  <2>2. QED
    BY <1>6, <2>1, RowsAreReal
<1>8. \A j \in Bought : j[2] \in Keys /\ LicenceOf(j) = Licence(j[2]) /\ (j[2] = k <=> j = i)
  BY <1>2, RowNames DEF Bought
<1>9. OwnerMap' = OwnerMap
  <2>1. OwnerMap' = [j \in Bought |-> Owner(j[2])']
    BY DEF OwnerMap, Bought
  <2>2. \A j \in Keys : Owner(j)' = Owner(j)
    BY <1>1, <1>6, <1>7 DEF Owner
  <2>3. QED
    BY <1>8, <2>1, <2>2 DEF OwnerMap
<1>10. RevokedKeys' = RevokedKeys \cup {i}
  <2>1. \A j \in Bought \ {i} : j \in RevokedKeys' <=> j \in RevokedKeys
    BY <1>6, <1>8 DEF RevokedKeys, Bought
  <2>2. i \in RevokedKeys'
    BY <1>3, <1>7 DEF RevokedKeys, Bought
  <2>3. RevokedKeys \subseteq Bought /\ RevokedKeys' \subseteq Bought
    BY DEF RevokedKeys, Bought
  <2>4. QED
    BY <2>1, <2>2, <2>3
<1>11. GivenOut' = GivenOut
  BY CommitEndsWhatItFound, GiftsStay DEF Inserting, Revoking
<1>12. \A u \in Users : Holding(u)' = IF Holding(u) = i THEN NoRow ELSE Holding(u)
  <2>1. \A u \in Users, j \in Subscriptions :
           IsActive(db'[j], u) <=> IsActive(db[j], u) /\ j \notin {i}
    <3>1. CASE found[s] = NoRow
      <4>1. \A u \in Users : ~IsActive(db[i], u)
        BY <1>0, <1>1, <1>2, <3>1 DEF IsActive
      <4>2. \A j \in Subscriptions : j # found[s]
        BY <3>1, RowNames
      <4>3. QED
        BY <4>1, <4>2, CommitEndsWhatItFound DEF Inserting, Revoking
    <3>2. CASE found[s] # NoRow
      <4>1. found[s] = i
        BY <1>1, <1>2, <3>2 DEF WorkInv, FoundOK
      <4>2. QED
        BY <4>1, CommitEndsWhatItFound DEF Inserting, Revoking
    <3>3. QED
      BY <3>1, <3>2
  <2>2. QED
    BY <1>3, <2>1, HoldingEnds DEF ActiveInv
<1>13. HoldingMap' = [u \in Users |-> IF HoldingMap[u] = i THEN NoRow ELSE HoldingMap[u]]
  <2>1. HoldingMap' = [u \in Users |-> Holding(u)']
    BY DEF HoldingMap
  <2>2. QED
    BY <1>12, <2>1 DEF HoldingMap
<1>14. QED
  BY <1>5, <1>9, <1>10, <1>11, <1>13, MapsToRevoke

LEMMA SweepEnds ==
    ASSUME TypeInv, ActiveInv, ExpireJob
    PROVE  Holdings!Next
<1> DEFINE ended == {u \in Users : Holding(u) \in Overdue}
<1>1. ASSUME NEW i \in Subscriptions
      PROVE  /\ db'[i] = Absent <=> db[i] = Absent
             /\ \A u \in Users : IsActive(db'[i], u) <=> IsActive(db[i], u) /\ i \notin Overdue
  <2>1. CASE i \in Overdue
    <3>1. db[i] \in Subscription /\ db'[i] = [db[i] EXCEPT !.status = "expired"]
      BY <2>1, RowNames DEF ExpireJob, Overdue, TypeInv, TablesOK, IsTable
    <3>2. db'[i] \in Subscription /\ db'[i].status = "expired"
      BY <3>1, ExpiredRow DEF Subscription
    <3>3. QED
      BY <2>1, <3>1, <3>2, RowsAreReal DEF IsActive
  <2>2. CASE i \notin Overdue
    BY <2>2, RowNames DEF ExpireJob
  <2>3. QED
    BY <2>1, <2>2
<1>2. \A u \in Users : Holding(u)' = IF Holding(u) \in Overdue THEN NoRow ELSE Holding(u)
  <2>1. Overdue \in SUBSET Subscriptions
    BY DEF Overdue
  <2>2. PICK o \in SUBSET Subscriptions : o = Overdue
    BY <2>1
  <2>3. QED
    BY <1>1, <2>2, HoldingEnds DEF ActiveInv
<1>3. PICK e \in SUBSET Users : e = ended
  OBVIOUS
<1>4. HoldingMap' = [u \in Users |-> IF u \in e THEN NoRow ELSE HoldingMap[u]]
  <2>1. HoldingMap' = [u \in Users |-> Holding(u)']
    BY DEF HoldingMap
  <2>2. QED
    BY <1>2, <1>3, <2>1 DEF HoldingMap
<1>5. \A k \in Keys : db'[Licence(k)] = db[Licence(k)]
  BY RowNames DEF ExpireJob, Overdue
<1>6. QED
  BY <1>1, <1>4, <1>5, LicencesStay, GiftsStay, MapsToEnd

\* Time only brings the ends closer.
LEMMA TickShowsNothing ==
    ASSUME TypeInv, Tick
    PROVE  UNCHANGED Mapped
<1>1. \A k \in Keys : db'[Licence(k)] = db[Licence(k)]
  BY TickEffect, OlderRowType, RowNames DEF TypeInv
<1>2. \A i \in Subscriptions : db'[i] = Absent <=> db[i] = Absent
  BY TickEffect, RowNames DEF TypeInv
<1>3. ASSUME NEW u \in Users PROVE Holding(u)' = Holding(u)
  <2>1. ASSUME NEW i \in Subscriptions PROVE IsActive(db'[i], u) <=> IsActive(db[i], u)
    <3>1. db'[i] = OlderRow(i, db[i])
      BY TickEffect, RowNames DEF TypeInv
    <3>2. db[i] \in Subscription \cup {Absent, Unwritten}
      BY DEF TypeInv, TablesOK, IsTable
    <3>3. QED
      BY <3>1, <3>2, ActiveRows
  <2>2. ActiveIn(db', u) = ActiveIn(db, u)
    BY <2>1 DEF ActiveIn
  <2>3. QED
    BY <2>2, HoldingNow DEF HoldingIn
<1>4. HoldingMap' = HoldingMap
  <2>1. HoldingMap' = [u \in Users |-> Holding(u)']
    BY DEF HoldingMap
  <2>2. QED
    BY <1>3, <2>1 DEF HoldingMap
<1>5. QED
  BY <1>1, <1>2, <1>4, LicencesStay, GiftsStay DEF Mapped

LEMMA SameTablesShowNothing ==
    ASSUME UNCHANGED db
    PROVE  UNCHANGED Mapped
BY DEF Mapped, OwnerMap, RevokedKeys, GivenOut, HoldingMap, Owner, Holding, ActiveIn

LEMMA MappedInit == Init => Holdings!Init
<1> SUFFICES ASSUME Init PROVE Holdings!Init
  OBVIOUS
<1>1. \A i \in Rows : db[i] = Absent
  BY DEF Init
<1>2. \A k \in Keys : Owner(k) = NoOne
  BY <1>1, RowNames DEF Owner
<1>3. \A i \in Bought : i[2] \in Keys /\ LicenceOf(i) = Licence(i[2]) /\ i \in Subscriptions
  BY RowNames DEF Bought, LicenceOf
<1>4. OwnerMap = [i \in Bought |-> NoOne]
  BY <1>2, <1>3 DEF OwnerMap
<1>5. RevokedKeys = {} /\ GivenOut = {}
  BY <1>1, <1>3, RowNames DEF RevokedKeys, GivenOut
<1>6. \A u \in Users : Holding(u) = NoRow
  BY <1>1, RowNames, HoldingIs, HoldingNow DEF ActiveIn, IsActive
<1>7. HoldingMap \in [Users -> {NoRow}]
  BY <1>6 DEF HoldingMap
<1>8. QED
  BY <1>4, <1>5, <1>7
     DEF Holdings!Init, OwnerMap, RevokedKeys, GivenOut, HoldingMap, Bought

LEMMA MappedStep ==
    ASSUME TypeInv, WorkInv, ActiveInv, ActiveInv', [Next]_vars
    PROVE  [Holdings!Next]_(Holdings!holdingVars)
<1>1. ASSUME UNCHANGED db PROVE UNCHANGED Holdings!holdingVars
  BY <1>1, SameTablesShowNothing, MapsToStutter
<1>2. ASSUME NEW s \in Sessions, Commit(s) PROVE Holdings!Next
  <2>1. job[s].op \in Operations
    BY <1>2 DEF Commit, TypeInv, JobsOK, JobOK, Job
  <2>2. QED
    BY <1>2, <2>1, ActivationClaims, TrialOrGrantGives, DropEnds, RevocationRevokes
       DEF Operations, Revoking
<1>3. ASSUME ExpireJob PROVE Holdings!Next
  BY <1>3, SweepEnds
<1>4. ASSUME Tick PROVE UNCHANGED Holdings!holdingVars
  BY <1>4, TickShowsNothing, MapsToStutter
<1>5. QED
  BY TableSteps, <1>1, <1>2, <1>3, <1>4
     DEF tableVars, Cancel, ClaimKey, InsertSubscription, VoidLicence

\* With any number of sessions racing for them, keys are claimed once and with the plan they
\* buy, trials and grants given once, and plans lost only to another plan, to their expiry or
\* to a revocation: every step of the tables is a step of PlanHolding, or is not seen.
THEOREM BillingImplementsPlanHolding == Spec => ImplementsHolding
<1>1. TypeInv /\ WorkInv /\ ActiveInv /\ ActiveInv' /\ [Next]_vars =>
         [Holdings!Next]_(Holdings!holdingVars)
  BY MappedStep
<1>2. QED
  BY <1>1, MappedInit, TypeInvHolds, WorkInvHolds, ActiveInvHolds, PTL
     DEF Spec, ImplementsHolding, Holdings!Spec

=============================================================================
