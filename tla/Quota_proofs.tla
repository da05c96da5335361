----------------------------- MODULE Quota_proofs -----------------------------
(***************************************************************************)
(* Proofs about Quota.  TypeCorrect and DurableExactness hold for every    *)
(* instance: any number of windows, any Redis faults.  The gate's own      *)
(* guarantees need what the finding runs show to be necessary: one window, *)
(* and for NoOveruse no Redis fault.                                       *)
(***************************************************************************)
EXTENDS Quota, FiniteSetTheorems, TLAPS

\* Every action of Quota, for a step-by-step case split.
LEMMA NextCases ==
    ASSUME NEW P, [Next]_vars,
           ASSUME NEW r \in Requests, Start(r) PROVE P,
           ASSUME NEW r \in Requests, EvalGrants(r) PROVE P,
           ASSUME NEW r \in Requests, EvalAnswerLost(r) PROVE P,
           ASSUME NEW r \in Requests, EvalDenies(r) PROVE P,
           ASSUME NEW r \in Requests, EvalMissing(r) PROVE P,
           ASSUME NEW r \in Requests, ConsumeRedisFails(r) PROVE P,
           ASSUME NEW r \in Requests, UsedReads(r) PROVE P,
           ASSUME NEW r \in Requests, UsedRedisFails(r) PROVE P,
           ASSUME NEW r \in Requests, SeedRead(r) PROVE P,
           ASSUME NEW r \in Requests, SeedSet(r) PROVE P,
           ASSUME NEW r \in Requests, UpsertUnit(r) PROVE P,
           ASSUME NEW r \in Requests, DbConsume(r) PROVE P,
           ASSUME NEW r \in Requests, DbDenies(r) PROVE P,
           ASSUME NEW r \in Requests, Commit(r) PROVE P,
           ASSUME NEW r \in Requests, WorkFails(r) PROVE P,
           ASSUME NEW r \in Requests, Release(r) PROVE P,
           ASSUME NEW r \in Requests, ReleaseRedisFails(r) PROVE P,
           ASSUME NEW r \in Requests, UndoRow(r) PROVE P,
           ASSUME NEW r \in Requests, Rollback(r) PROVE P,
           ASSUME RedisOutage, UNCHANGED <<requestVars, performed, leaked>> PROVE P,
           ASSUME Rollover, UNCHANGED <<requestVars, performed, leaked>> PROVE P,
           ASSUME LoseCounter PROVE P,
           ASSUME UNCHANGED vars PROVE P
    PROVE  P
BY DEF Next, Proceed, Evaluate

-----------------------------------------------------------------------------
(* What the operators the actions are built from do to the types. *)

LEMMA GotoType ==
    ASSUME TypeOK, NEW r \in Requests, NEW step \in Steps, Goto(r, step)
    PROVE  pc' \in [Requests -> Steps] /\ asked' \in [Requests -> Windows]
<1>1. now \in Windows /\ 0 \in Windows
  BY StoreAssumption DEF TypeOK, StoreTypeOK, Windows
<1>2. QED
  BY <1>1 DEF TypeOK, Goto

LEMMA UpsertType ==
    ASSUME TypeOK, NEW r \in Requests, NEW w \in Windows, NEW delta \in Int,
           Upsert(r, w, delta)
    PROVE  /\ draft' \in [Windows -> Nat]
           /\ lock' \in [Windows -> Requests \cup {NoRequest}]
<1>1. RowSeenBy(r, w) + delta \in Int
  BY DEF TypeOK, StoreTypeOK, RowSeenBy
<1>2. Greatest0(RowSeenBy(r, w) + delta) \in Nat
  BY <1>1 DEF Greatest0
<1>3. QED
  BY <1>2 DEF TypeOK, StoreTypeOK, Upsert

LEMMA RollbackType ==
    ASSUME TypeOK, NEW r \in Requests, RollbackTx(r)
    PROVE  /\ usage' \in [Windows -> Nat]
           /\ draft' \in [Windows -> Nat]
           /\ lock' \in [Windows -> Requests \cup {NoRequest}]
BY DEF TypeOK, StoreTypeOK, RollbackTx, Unlocked

LEMMA CommitType ==
    ASSUME TypeOK, NEW r \in Requests, CommitTx(r)
    PROVE  /\ usage' \in [Windows -> Nat]
           /\ draft' \in [Windows -> Nat]
           /\ lock' \in [Windows -> Requests \cup {NoRequest}]
BY DEF TypeOK, StoreTypeOK, CommitTx, Unlocked, RowSeenBy

LEMMA DropUnitType ==
    ASSUME TypeOK, NEW r \in Requests, DropUnit(r)
    PROVE  /\ unit' \in [Requests -> Windows \cup {NoWindow}]
           /\ row' \in [Requests -> Windows \cup {NoWindow}]
BY DEF TypeOK, DropUnit

\* Counting one more in a window, or in none if it is NoWindow, keeps a counter a counter.
LEMMA CountType ==
    ASSUME NEW f \in [Windows -> Nat], NEW w \in Windows \cup {NoWindow}
    PROVE  [f EXCEPT ![w] = @ + 1] \in [Windows -> Nat]
<1>1. CASE w \in Windows
  BY <1>1
<1>2. CASE w \notin Windows
  <2>1. [f EXCEPT ![w] = @ + 1] = f
    BY <1>2
  <2>2. QED
    BY <2>1
<1>3. QED
  BY <1>1, <1>2

LEMMA LeakUnitType ==
    ASSUME TypeOK, NEW r \in Requests, LeakUnit(r)
    PROVE  leaked' \in [Windows -> Nat]
<1>1. unit[r] \in Windows \cup {NoWindow} /\ leaked \in [Windows -> Nat]
  BY DEF TypeOK
<1>2. [leaked EXCEPT ![unit[r]] = @ + 1] \in [Windows -> Nat]
  BY <1>1, CountType
<1>3. QED
  BY <1>1, <1>2 DEF LeakUnit

LEMMA GrantType ==
    ASSUME TypeOK, NEW w \in Windows, redis[w] # Missing
    PROVE  [redis EXCEPT ![w] = @ + 1] \in [Windows -> Nat \cup {Missing}]
<1>1. redis \in [Windows -> Nat \cup {Missing}] /\ redis[w] + 1 \in Nat
  BY DEF TypeOK, StoreTypeOK
<1>2. QED
  BY <1>1

LEMMA ReleaseLuaType ==
    ASSUME TypeOK, NEW w \in Windows
    PROVE  ReleaseLua(w) \in [Windows -> Nat \cup {Missing}]
<1>1. redis \in [Windows -> Nat \cup {Missing}]
  BY DEF TypeOK, StoreTypeOK
<1>2. redis[w] # Missing => (IF redis[w] > 0 THEN redis[w] - 1 ELSE 0) \in Nat
  BY <1>1
<1>3. QED
  BY <1>1, <1>2 DEF ReleaseLua

-----------------------------------------------------------------------------
LEMMA InitType == Init => TypeOK
BY StoreAssumption, QuotaAssumption
   DEF TypeOK, StoreTypeOK, Init, StartUsage, Windows, Steps, Unlimited

LEMMA TypeStep == TypeOK /\ [Next]_vars => TypeOK'
<1> SUFFICES ASSUME TypeOK, [Next]_vars PROVE TypeOK'
  OBVIOUS
<1> USE DEF storeVars, requestVars, vars
<1>1. ASSUME NEW r \in Requests, Start(r) PROVE TypeOK'
  <2>1. pc' \in [Requests -> Steps] /\ asked' \in [Requests -> Windows]
    BY <1>1, GotoType DEF Start, Steps
  <2>2. QED
    BY <1>1, <2>1 DEF TypeOK, StoreTypeOK, Start
<1>2. ASSUME NEW r \in Requests, EvalGrants(r) PROVE TypeOK'
  <2>1. pc' \in [Requests -> Steps] /\ asked' \in [Requests -> Windows]
    BY <1>2, GotoType DEF EvalGrants, Steps
  <2>2. key[r] \in Windows
    BY DEF TypeOK
  <2>3. redis' \in [Windows -> Nat \cup {Missing}]
    BY <1>2, <2>2, GrantType DEF EvalGrants
  <2>4. QED
    BY <1>2, <2>1, <2>2, <2>3 DEF TypeOK, StoreTypeOK, EvalGrants
<1>3. ASSUME NEW r \in Requests, EvalAnswerLost(r) PROVE TypeOK'
  <2>1. pc' \in [Requests -> Steps] /\ asked' \in [Requests -> Windows]
    BY <1>3, GotoType DEF EvalAnswerLost, Steps
  <2>2. key[r] \in Windows
    BY DEF TypeOK
  <2>3. redis' \in [Windows -> Nat \cup {Missing}]
    BY <1>3, <2>2, GrantType DEF EvalAnswerLost
  <2>4. QED
    BY <1>3, <2>1, <2>2, <2>3 DEF TypeOK, StoreTypeOK, EvalAnswerLost
<1>4. ASSUME NEW r \in Requests, EvalDenies(r) PROVE TypeOK'
  <2>1. pc' \in [Requests -> Steps] /\ asked' \in [Requests -> Windows]
    BY <1>4, GotoType DEF EvalDenies, Steps
  <2>2. QED
    BY <1>4, <2>1 DEF TypeOK, StoreTypeOK, EvalDenies
<1>5. ASSUME NEW r \in Requests, EvalMissing(r) PROVE TypeOK'
  <2>1. pc' \in [Requests -> Steps] /\ asked' \in [Requests -> Windows]
    BY <1>5, GotoType DEF EvalMissing, Steps, AfterMissing
  <2>2. QED
    BY <1>5, <2>1 DEF TypeOK, StoreTypeOK, EvalMissing
<1>6. ASSUME NEW r \in Requests, ConsumeRedisFails(r) PROVE TypeOK'
  <2>1. pc' \in [Requests -> Steps] /\ asked' \in [Requests -> Windows]
    BY <1>6, GotoType DEF ConsumeRedisFails, Steps
  <2>2. QED
    BY <1>6, <2>1 DEF TypeOK, StoreTypeOK, ConsumeRedisFails
<1>7. ASSUME NEW r \in Requests, UsedReads(r) PROVE TypeOK'
  <2>1. pc' \in [Requests -> Steps] /\ asked' \in [Requests -> Windows]
    BY <1>7, GotoType DEF UsedReads, Steps
  <2>2. QED
    BY <1>7, <2>1 DEF TypeOK, StoreTypeOK, UsedReads
<1>8. ASSUME NEW r \in Requests, UsedRedisFails(r) PROVE TypeOK'
  <2>1. pc' \in [Requests -> Steps] /\ asked' \in [Requests -> Windows]
    BY <1>8, GotoType DEF UsedRedisFails, Steps
  <2>2. QED
    BY <1>8, <2>1 DEF TypeOK, StoreTypeOK, UsedRedisFails
<1>9. ASSUME NEW r \in Requests, SeedRead(r) PROVE TypeOK'
  <2>1. pc' \in [Requests -> Steps] /\ asked' \in [Requests -> Windows]
    BY <1>9, GotoType DEF SeedRead, Steps
  <2>2. QED
    <3>1. RowSeenBy(r, asked[r]) \in Nat
      BY DEF TypeOK, StoreTypeOK, RowSeenBy
    <3>2. QED
      BY <1>9, <2>1, <3>1 DEF TypeOK, StoreTypeOK, SeedRead
<1>10. ASSUME NEW r \in Requests, SeedSet(r) PROVE TypeOK'
  <2>1. pc' \in [Requests -> Steps] /\ asked' \in [Requests -> Windows]
    BY <1>10, GotoType DEF SeedSet, AfterSeed, Steps
  <2>2. QED
    BY <1>10, <2>1 DEF TypeOK, StoreTypeOK, SeedSet, SetNX
<1>11. ASSUME NEW r \in Requests, UpsertUnit(r) PROVE TypeOK'
  <2>1. pc' \in [Requests -> Steps] /\ asked' \in [Requests -> Windows]
    BY <1>11, GotoType DEF UpsertUnit, Steps
  <2>2. PICK w \in Windows : w = asked[r]
    BY DEF TypeOK
  <2>3. Upsert(r, w, 1)
    BY <1>11, <2>2 DEF UpsertUnit, Upsert, RowSeenBy
  <2>4. 1 \in Int
    OBVIOUS
  <2>5. draft' \in [Windows -> Nat] /\ lock' \in [Windows -> Requests \cup {NoRequest}]
    BY <2>3, <2>4, UpsertType
  <2>6. QED
    BY <1>11, <2>1, <2>2, <2>5 DEF TypeOK, StoreTypeOK, UpsertUnit
<1>12. ASSUME NEW r \in Requests, DbConsume(r) PROVE TypeOK'
  <2>1. pc' \in [Requests -> Steps] /\ asked' \in [Requests -> Windows]
    BY <1>12, GotoType DEF DbConsume, Steps
  <2>2. PICK w \in Windows : w = asked[r]
    BY DEF TypeOK
  <2>3. Upsert(r, w, 1)
    BY <1>12, <2>2 DEF DbConsume, Upsert, RowSeenBy
  <2>4. 1 \in Int
    OBVIOUS
  <2>5. draft' \in [Windows -> Nat] /\ lock' \in [Windows -> Requests \cup {NoRequest}]
    BY <2>3, <2>4, UpsertType
  <2>6. QED
    BY <1>12, <2>1, <2>2, <2>5 DEF TypeOK, StoreTypeOK, DbConsume
<1>13. ASSUME NEW r \in Requests, DbDenies(r) PROVE TypeOK'
  <2>1. pc' \in [Requests -> Steps] /\ asked' \in [Requests -> Windows]
    BY <1>13, GotoType DEF DbDenies, Steps
  <2>2. /\ usage' \in [Windows -> Nat] /\ draft' \in [Windows -> Nat]
       /\ lock' \in [Windows -> Requests \cup {NoRequest}]
    BY <1>13, RollbackType DEF DbDenies
  <2>3. /\ unit' \in [Requests -> Windows \cup {NoWindow}]
       /\ row' \in [Requests -> Windows \cup {NoWindow}]
    BY <1>13, DropUnitType DEF DbDenies
  <2>4. leaked' \in [Windows -> Nat]
    BY <1>13, LeakUnitType DEF DbDenies
  <2>5. QED
    BY <1>13, <2>1, <2>2, <2>3, <2>4 DEF TypeOK, StoreTypeOK, DbDenies
<1>14. ASSUME NEW r \in Requests, Commit(r) PROVE TypeOK'
  <2>1. pc' \in [Requests -> Steps] /\ asked' \in [Requests -> Windows]
    BY <1>14, GotoType DEF Commit, Steps
  <2>2. /\ usage' \in [Windows -> Nat] /\ draft' \in [Windows -> Nat]
       /\ lock' \in [Windows -> Requests \cup {NoRequest}]
    BY <1>14, CommitType DEF Commit
  <2>3. /\ unit' \in [Requests -> Windows \cup {NoWindow}]
       /\ row' \in [Requests -> Windows \cup {NoWindow}]
    BY <1>14, DropUnitType DEF Commit
  <2>4. row[r] \in Windows \cup {NoWindow} /\ performed \in [Windows -> Nat]
    BY DEF TypeOK
  <2>5. performed' \in [Windows -> Nat]
    BY <1>14, <2>4, CountType DEF Commit
  <2>6. QED
    BY <1>14, <2>1, <2>2, <2>3, <2>4, <2>5 DEF TypeOK, StoreTypeOK, Commit
<1>15. ASSUME NEW r \in Requests, WorkFails(r) PROVE TypeOK'
  <2>1. pc' \in [Requests -> Steps] /\ asked' \in [Requests -> Windows]
    BY <1>15, GotoType DEF WorkFails, Steps
  <2>2. QED
    BY <1>15, <2>1 DEF TypeOK, StoreTypeOK, WorkFails
<1>16. ASSUME NEW r \in Requests, Release(r) PROVE TypeOK'
  <2>1. pc' \in [Requests -> Steps] /\ asked' \in [Requests -> Windows]
    BY <1>16, GotoType DEF Release, Steps
  <2>2. asked[r] \in Windows
    BY DEF TypeOK
  <2>3. redis' \in [Windows -> Nat \cup {Missing}]
    BY <1>16, <2>2, ReleaseLuaType DEF Release
  <2>4. leaked' \in [Windows -> Nat]
    BY <1>16, LeakUnitType DEF Release, TypeOK
  <2>5. QED
    BY <1>16, <2>1, <2>2, <2>3, <2>4 DEF TypeOK, StoreTypeOK, Release
<1>17. ASSUME NEW r \in Requests, ReleaseRedisFails(r) PROVE TypeOK'
  <2>1. pc' \in [Requests -> Steps] /\ asked' \in [Requests -> Windows]
    BY <1>17, GotoType DEF ReleaseRedisFails, Steps
  <2>2. leaked' \in [Windows -> Nat]
    BY <1>17, LeakUnitType DEF ReleaseRedisFails
  <2>3. QED
    BY <1>17, <2>1, <2>2 DEF TypeOK, StoreTypeOK, ReleaseRedisFails
<1>18. ASSUME NEW r \in Requests, UndoRow(r) PROVE TypeOK'
  <2>1. pc' \in [Requests -> Steps] /\ asked' \in [Requests -> Windows]
    BY <1>18, GotoType DEF UndoRow, Steps
  <2>2. PICK w \in Windows : w = asked[r]
    BY DEF TypeOK
  <2>3. Upsert(r, w, -1)
    BY <1>18, <2>2 DEF UndoRow, Upsert, RowSeenBy
  <2>4. -1 \in Int
    OBVIOUS
  <2>5. draft' \in [Windows -> Nat] /\ lock' \in [Windows -> Requests \cup {NoRequest}]
    BY <2>3, <2>4, UpsertType
  <2>6. QED
    BY <1>18, <2>1, <2>2, <2>5 DEF TypeOK, StoreTypeOK, UndoRow
<1>19. ASSUME NEW r \in Requests, Rollback(r) PROVE TypeOK'
  <2>1. pc' \in [Requests -> Steps] /\ asked' \in [Requests -> Windows]
    BY <1>19, GotoType DEF Rollback, Steps
  <2>2. /\ usage' \in [Windows -> Nat] /\ draft' \in [Windows -> Nat]
       /\ lock' \in [Windows -> Requests \cup {NoRequest}]
    BY <1>19, RollbackType DEF Rollback
  <2>3. /\ unit' \in [Requests -> Windows \cup {NoWindow}]
       /\ row' \in [Requests -> Windows \cup {NoWindow}]
    BY <1>19, DropUnitType DEF Rollback
  <2>4. leaked' \in [Windows -> Nat]
    BY <1>19, LeakUnitType DEF Rollback
  <2>5. QED
    BY <1>19, <2>1, <2>2, <2>3, <2>4 DEF TypeOK, StoreTypeOK, Rollback
<1>20. ASSUME RedisOutage, UNCHANGED <<requestVars, performed, leaked>> PROVE TypeOK'
  BY <1>20 DEF RedisOutage, TypeOK, StoreTypeOK
<1>21. ASSUME Rollover, UNCHANGED <<requestVars, performed, leaked>> PROVE TypeOK'
  <2>1. now' \in Windows
    BY <1>21, StoreAssumption DEF Rollover, TypeOK, StoreTypeOK, Windows
  <2>2. QED
    BY <1>21, <2>1 DEF Rollover, TypeOK, StoreTypeOK
<1>22. ASSUME LoseCounter PROVE TypeOK'
  BY <1>22 DEF LoseCounter, RedisLoss, TypeOK, StoreTypeOK
<1>23. ASSUME UNCHANGED vars PROVE TypeOK'
  BY <1>23 DEF TypeOK, StoreTypeOK
<1>24. QED
  BY <1>1, <1>2, <1>3, <1>4, <1>5, <1>6, <1>7, <1>8, <1>9, <1>10, <1>11, <1>12,
     <1>13, <1>14, <1>15, <1>16, <1>17, <1>18, <1>19, <1>20, <1>21, <1>22, <1>23,
     NextCases

\* Every variable stays in its type, whatever the limit, the windows and the faults.
THEOREM TypeCorrect == Spec => []TypeOK
BY InitType, TypeStep, PTL DEF Spec

-----------------------------------------------------------------------------
(***************************************************************************)
(* The durable row.  A request holds a row lock only between its upsert    *)
(* and the end of its transaction; while it works, the row it locked is    *)
(* the one it counted on, one above the committed value.  So a commit      *)
(* adds exactly one to what is committed at that moment.                   *)
(***************************************************************************)
InTransaction == {"work", "release", "undo", "rollback"}

LockedByOwner ==
    \A r \in Requests, w \in Windows : lock[w] = r =>
        pc[r] \in InTransaction /\ (pc[r] # "rollback" => row[r] = w)

WorkingOnRow ==
    \A r \in Requests : pc[r] = "work" =>
        row[r] \in Windows /\ lock[row[r]] = r /\ draft[row[r]] = usage[row[r]] + 1

DurableInv == TypeOK /\ LockedByOwner /\ WorkingOnRow /\ DurableExact

\* A step that leaves the rows alone and keeps an open transaction open.
LEMMA DurableQuiet ==
    ASSUME DurableInv, TypeOK', NEW r \in Requests, NEW step \in Steps, Goto(r, step),
           UNCHANGED <<usage, draft, lock, row, performed>>,
           step # "work", pc[r] # "rollback",
           pc[r] \in InTransaction => step \in {"release", "undo"}
    PROVE  DurableInv'
<1>1. LockedByOwner'
  BY DEF DurableInv, TypeOK, LockedByOwner, Goto, InTransaction
<1>2. WorkingOnRow'
  BY DEF DurableInv, TypeOK, WorkingOnRow, Goto
<1>3. DurableExact'
  BY DEF DurableInv, DurableExact
<1>4. QED
  BY <1>1, <1>2, <1>3 DEF DurableInv

LEMMA DurableStutter ==
    ASSUME DurableInv, TypeOK', UNCHANGED <<usage, draft, lock, row, performed, pc>>
    PROVE  DurableInv'
BY DEF DurableInv, LockedByOwner, WorkingOnRow, DurableExact

LEMMA DurableAcquire ==
    ASSUME DurableInv, TypeOK', NEW r \in Requests, NEW w \in Windows,
           pc[r] \notin InTransaction, Upsert(r, w, 1), Goto(r, "work"),
           row' = [row EXCEPT ![r] = w], UNCHANGED <<usage, performed>>
    PROVE  DurableInv'
<1> USE DEF DurableInv
<1>1. lock[w] = NoRequest
  BY DEF LockedByOwner, Upsert
<1>2. draft' = [draft EXCEPT ![w] = usage[w] + 1] /\ lock' = [lock EXCEPT ![w] = r]
  <2>1. RowSeenBy(r, w) = usage[w]
    BY <1>1, StoreAssumption DEF RowSeenBy
  <2>2. usage[w] \in Nat
    BY DEF TypeOK, StoreTypeOK
  <2>3. Greatest0(usage[w] + 1) = usage[w] + 1
    BY <2>2 DEF Greatest0
  <2>4. QED
    BY <2>1, <2>3 DEF Upsert
<1>3. LockedByOwner'
  BY <1>2 DEF LockedByOwner, Goto, InTransaction, TypeOK, StoreTypeOK
<1>4. WorkingOnRow'
  <2> SUFFICES ASSUME NEW s \in Requests, pc'[s] = "work"
               PROVE  row'[s] \in Windows /\ lock'[row'[s]] = s
                      /\ draft'[row'[s]] = usage'[row'[s]] + 1
    BY DEF WorkingOnRow
  <2>1. CASE s = r
    BY <2>1, <1>2 DEF TypeOK, StoreTypeOK
  <2>2. CASE s # r
    <3>1. pc[s] = "work" /\ row'[s] = row[s]
      BY <2>2 DEF Goto, TypeOK
    <3>2. row[s] \in Windows /\ lock[row[s]] = s /\ draft[row[s]] = usage[row[s]] + 1
      BY <3>1 DEF WorkingOnRow
    <3>3. row[s] # w
      BY <3>2, <1>1, StoreAssumption
    <3>4. QED
      BY <3>1, <3>2, <3>3, <1>2 DEF TypeOK, StoreTypeOK
  <2>3. QED
    BY <2>1, <2>2
<1>5. DurableExact'
  BY DEF DurableExact
<1>6. QED
  BY <1>3, <1>4, <1>5

LEMMA DurableRollback ==
    ASSUME DurableInv, TypeOK', NEW r \in Requests, RollbackTx(r), Goto(r, "idle"),
           row' = [row EXCEPT ![r] = NoWindow], UNCHANGED performed
    PROVE  DurableInv'
<1> USE DEF DurableInv
<1>1. LockedByOwner'
  BY StoreAssumption DEF LockedByOwner, RollbackTx, Unlocked, Goto, TypeOK, StoreTypeOK
<1>2. WorkingOnRow'
  <2> SUFFICES ASSUME NEW s \in Requests, pc'[s] = "work"
               PROVE  row'[s] \in Windows /\ lock'[row'[s]] = s
                      /\ draft'[row'[s]] = usage'[row'[s]] + 1
    BY DEF WorkingOnRow
  <2>1. s # r /\ pc[s] = "work" /\ row'[s] = row[s]
    BY DEF Goto, TypeOK
  <2>2. row[s] \in Windows /\ lock[row[s]] = s /\ draft[row[s]] = usage[row[s]] + 1
    BY <2>1 DEF WorkingOnRow
  <2>3. QED
    BY <2>1, <2>2 DEF RollbackTx, Unlocked
<1>3. DurableExact'
  BY DEF DurableExact, RollbackTx
<1>4. QED
  BY <1>1, <1>2, <1>3

LEMMA DurableCommit ==
    ASSUME DurableInv, TypeOK', NEW r \in Requests, Commit(r)
    PROVE  DurableInv'
<1> USE DEF DurableInv
<1>1. row[r] \in Windows /\ lock[row[r]] = r /\ draft[row[r]] = usage[row[r]] + 1
  BY DEF WorkingOnRow, Commit
<1>2. usage' = [usage EXCEPT ![row[r]] = @ + 1]
  BY <1>1 DEF Commit, CommitTx, RowSeenBy, LockedByOwner, TypeOK, StoreTypeOK
<1>3. LockedByOwner'
  BY StoreAssumption
     DEF LockedByOwner, Commit, CommitTx, Unlocked, DropUnit, Goto, TypeOK, StoreTypeOK
<1>4. WorkingOnRow'
  <2> SUFFICES ASSUME NEW s \in Requests, pc'[s] = "work"
               PROVE  row'[s] \in Windows /\ lock'[row'[s]] = s
                      /\ draft'[row'[s]] = usage'[row'[s]] + 1
    BY DEF WorkingOnRow
  <2>1. s # r /\ pc[s] = "work" /\ row'[s] = row[s]
    BY DEF Commit, DropUnit, Goto, TypeOK
  <2>2. row[s] \in Windows /\ lock[row[s]] = s /\ draft[row[s]] = usage[row[s]] + 1
    BY <2>1 DEF WorkingOnRow
  <2>3. row[s] # row[r]
    BY <2>1, <2>2, <1>1
  <2>4. QED
    BY <2>1, <2>2, <2>3, <1>2 DEF Commit, CommitTx, Unlocked, TypeOK, StoreTypeOK
<1>5. DurableExact'
  BY <1>1, <1>2 DEF DurableExact, Commit, TypeOK, StoreTypeOK
<1>6. QED
  BY <1>3, <1>4, <1>5

\* release()'s compensation touches a row only in a transaction that will roll back.
LEMMA DurableUndo ==
    ASSUME DurableInv, TypeOK', NEW r \in Requests, NEW w \in Windows,
           pc[r] = "undo", Upsert(r, w, -1), Goto(r, "rollback"),
           UNCHANGED <<usage, row, performed>>
    PROVE  DurableInv'
<1> USE DEF DurableInv
<1>1. lock' = [lock EXCEPT ![w] = r] /\ lock[w] \in {NoRequest, r}
  BY DEF Upsert
<1>2. \A v \in Windows \ {w} : draft'[v] = draft[v]
  BY DEF Upsert, TypeOK, StoreTypeOK
<1>3. LockedByOwner'
  BY <1>1 DEF LockedByOwner, Goto, InTransaction, TypeOK, StoreTypeOK
<1>4. WorkingOnRow'
  <2> SUFFICES ASSUME NEW s \in Requests, pc'[s] = "work"
               PROVE  row'[s] \in Windows /\ lock'[row'[s]] = s
                      /\ draft'[row'[s]] = usage'[row'[s]] + 1
    BY DEF WorkingOnRow
  <2>1. s # r /\ pc[s] = "work"
    BY DEF Goto, TypeOK
  <2>2. row[s] \in Windows /\ lock[row[s]] = s /\ draft[row[s]] = usage[row[s]] + 1
    BY <2>1 DEF WorkingOnRow
  <2>3. row[s] # w
    BY <2>1, <2>2, <1>1, StoreAssumption
  <2>4. QED
    BY <2>2, <2>3, <1>1, <1>2 DEF TypeOK, StoreTypeOK
<1>5. DurableExact'
  BY DEF DurableExact
<1>6. QED
  BY <1>3, <1>4, <1>5

LEMMA DurableStep == DurableInv /\ [Next]_vars => DurableInv'
<1> SUFFICES ASSUME DurableInv, [Next]_vars PROVE DurableInv'
  OBVIOUS
<1> USE DEF InTransaction
<1>0. TypeOK /\ TypeOK'
  BY TypeStep DEF DurableInv
<1>1. ASSUME NEW r \in Requests, Start(r) PROVE DurableInv'
  BY <1>1, <1>0, DurableQuiet DEF Start, Steps, storeVars
<1>2. ASSUME NEW r \in Requests, EvalGrants(r) PROVE DurableInv'
  BY <1>2, <1>0, DurableQuiet DEF EvalGrants, Steps, storeVars
<1>3. ASSUME NEW r \in Requests, EvalAnswerLost(r) PROVE DurableInv'
  BY <1>3, <1>0, DurableQuiet DEF EvalAnswerLost, Steps, storeVars
<1>4. ASSUME NEW r \in Requests, EvalDenies(r) PROVE DurableInv'
  BY <1>4, <1>0, DurableQuiet DEF EvalDenies, Steps, storeVars
<1>5. ASSUME NEW r \in Requests, EvalMissing(r) PROVE DurableInv'
  BY <1>5, <1>0, DurableQuiet DEF EvalMissing, AfterMissing, Steps, storeVars
<1>6. ASSUME NEW r \in Requests, ConsumeRedisFails(r) PROVE DurableInv'
  BY <1>6, <1>0, DurableQuiet DEF ConsumeRedisFails, Steps, storeVars
<1>7. ASSUME NEW r \in Requests, UsedReads(r) PROVE DurableInv'
  BY <1>7, <1>0, DurableQuiet DEF UsedReads, Steps, storeVars
<1>8. ASSUME NEW r \in Requests, UsedRedisFails(r) PROVE DurableInv'
  BY <1>8, <1>0, DurableQuiet DEF UsedRedisFails, Steps, storeVars
<1>9. ASSUME NEW r \in Requests, SeedRead(r) PROVE DurableInv'
  BY <1>9, <1>0, DurableQuiet DEF SeedRead, Steps, storeVars
<1>10. ASSUME NEW r \in Requests, SeedSet(r) PROVE DurableInv'
  BY <1>10, <1>0, DurableQuiet DEF SeedSet, AfterSeed, Steps, storeVars
<1>11. ASSUME NEW r \in Requests, WorkFails(r) PROVE DurableInv'
  BY <1>11, <1>0, DurableQuiet DEF WorkFails, Steps, storeVars
<1>12. ASSUME NEW r \in Requests, Release(r) PROVE DurableInv'
  BY <1>12, <1>0, DurableQuiet DEF Release, Steps, storeVars
<1>13. ASSUME NEW r \in Requests, ReleaseRedisFails(r) PROVE DurableInv'
  BY <1>13, <1>0, DurableQuiet DEF ReleaseRedisFails, Steps, storeVars
<1>14. ASSUME NEW r \in Requests, UpsertUnit(r) PROVE DurableInv'
  <2>1. PICK w \in Windows : w = asked[r]
    BY <1>0 DEF TypeOK
  <2>2. Upsert(r, w, 1)
    BY <1>14, <2>1 DEF UpsertUnit, Upsert, RowSeenBy
  <2>3. QED
    BY <1>14, <1>0, <2>1, <2>2, DurableAcquire DEF UpsertUnit
<1>15. ASSUME NEW r \in Requests, DbConsume(r) PROVE DurableInv'
  <2>1. PICK w \in Windows : w = asked[r]
    BY <1>0 DEF TypeOK
  <2>2. Upsert(r, w, 1)
    BY <1>15, <2>1 DEF DbConsume, Upsert, RowSeenBy
  <2>3. QED
    BY <1>15, <1>0, <2>1, <2>2, DurableAcquire DEF DbConsume
<1>16. ASSUME NEW r \in Requests, UndoRow(r) PROVE DurableInv'
  <2>1. PICK w \in Windows : w = asked[r]
    BY <1>0 DEF TypeOK
  <2>2. Upsert(r, w, -1)
    BY <1>16, <2>1 DEF UndoRow, Upsert, RowSeenBy
  <2>3. QED
    BY <1>16, <1>0, <2>1, <2>2, DurableUndo DEF UndoRow
<1>17. ASSUME NEW r \in Requests, Commit(r) PROVE DurableInv'
  BY <1>17, <1>0, DurableCommit
<1>18. ASSUME NEW r \in Requests, DbDenies(r) PROVE DurableInv'
  BY <1>18, <1>0, DurableRollback DEF DbDenies, DropUnit
<1>19. ASSUME NEW r \in Requests, Rollback(r) PROVE DurableInv'
  BY <1>19, <1>0, DurableRollback DEF Rollback, DropUnit
<1>20. ASSUME RedisOutage, UNCHANGED <<requestVars, performed, leaked>> PROVE DurableInv'
  BY <1>20, <1>0, DurableStutter DEF RedisOutage, requestVars
<1>21. ASSUME Rollover, UNCHANGED <<requestVars, performed, leaked>> PROVE DurableInv'
  BY <1>21, <1>0, DurableStutter DEF Rollover, requestVars
<1>22. ASSUME LoseCounter PROVE DurableInv'
  BY <1>22, <1>0, DurableStutter DEF LoseCounter, RedisLoss
<1>23. ASSUME UNCHANGED vars PROVE DurableInv'
  BY <1>23, <1>0, DurableStutter DEF vars, storeVars, requestVars
<1>24. QED
  BY <1>1, <1>2, <1>3, <1>4, <1>5, <1>6, <1>7, <1>8, <1>9, <1>10, <1>11, <1>12,
     <1>13, <1>14, <1>15, <1>16, <1>17, <1>18, <1>19, <1>20, <1>21, <1>22, <1>23,
     NextCases

LEMMA InitDurable == Init => DurableInv
<1>1. Init => TypeOK
  BY InitType
<1>2. QED
  BY <1>1, StoreAssumption
     DEF Init, DurableInv, LockedByOwner, WorkingOnRow, DurableExact

\* The durable row counts exactly the performed actions: for every plan, any number of
\* requests and windows, and whatever happens to Redis.
THEOREM DurableExactness == Spec => []DurableExact
<1>1. DurableInv => DurableExact
  BY DEF DurableInv
<1>2. QED
  BY <1>1, InitDurable, DurableStep, PTL DEF Spec

-----------------------------------------------------------------------------
(***************************************************************************)
(* The Redis gate, when the quota's window never turns (a lifetime quota,  *)
(* or one window of the others).  Backing is all that justifies a unit in  *)
(* the counter: committed, in flight, or left by a request that died.      *)
(***************************************************************************)
Backing == usage[0] + Cardinality(Reserved(0)) + leaked[0]

UnitHolders ==
    \A r \in Requests : unit[r] # NoWindow =>
        pc[r] \in {"upsert", "dbConsume", "work", "release"}

\* What a request read to seed the counter was committed, and stays so.
SeenIsDurable ==
    \A r \in Requests : pc[r] \in {"seedSet", "reseedSet"} => seen[r] <= usage[0]

GateNotAbove == redis[0] # Missing => redis[0] <= Backing

OverchargeInv == DurableInv /\ UnitHolders /\ SeenIsDurable /\ GateNotAbove

LEMMA OneWindow ==
    ASSUME LastWindow = 0
    PROVE  Windows = {0} /\ 0 # NoWindow
BY QuotaAssumption DEF Windows

LEMMA ReservedCount == Cardinality(Reserved(0)) \in Nat /\ IsFiniteSet(Reserved(0))
<1>1. Reserved(0) \in SUBSET Requests
  BY DEF Reserved
<1>2. QED
  BY <1>1, QuotaAssumption, FS_Subset, FS_CardinalityType

LEMMA ReservedSame ==
    ASSUME UNCHANGED unit
    PROVE  Reserved(0)' = Reserved(0)
BY DEF Reserved

LEMMA ReservedAdd ==
    ASSUME TypeOK, LastWindow = 0, NEW r \in Requests, unit[r] = NoWindow,
           unit' = [unit EXCEPT ![r] = 0]
    PROVE  /\ Cardinality(Reserved(0)) \in Nat
           /\ Cardinality(Reserved(0))' = Cardinality(Reserved(0)) + 1
<1>1. Reserved(0)' = Reserved(0) \cup {r} /\ r \notin Reserved(0)
  BY OneWindow DEF Reserved, TypeOK
<1>2. QED
  BY <1>1, ReservedCount, FS_AddElement

LEMMA ReservedDrop ==
    ASSUME TypeOK, LastWindow = 0, NEW r \in Requests,
           unit' = [unit EXCEPT ![r] = NoWindow]
    PROVE  /\ Cardinality(Reserved(0)) \in Nat /\ Cardinality(Reserved(0))' \in Nat
           /\ Cardinality(Reserved(0))' >= Cardinality(Reserved(0)) - 1
           /\ unit[r] = 0 =>
                Cardinality(Reserved(0))' = Cardinality(Reserved(0)) - 1
           /\ unit[r] # 0 => Cardinality(Reserved(0))' = Cardinality(Reserved(0))
<1>1. Reserved(0)' = Reserved(0) \ {r}
  BY OneWindow DEF Reserved, TypeOK
<1>2. r \in Reserved(0) <=> unit[r] = 0
  BY DEF Reserved
<1>3. Cardinality(Reserved(0) \ {r}) \in Nat
  BY ReservedCount, FS_RemoveElement, FS_CardinalityType
<1>4. Cardinality(Reserved(0) \ {r}) =
        IF r \in Reserved(0) THEN Cardinality(Reserved(0)) - 1 ELSE Cardinality(Reserved(0))
  BY ReservedCount, FS_RemoveElement
<1>5. Cardinality(Reserved(0)) \in Nat
  BY ReservedCount
<1>6. Cardinality(Reserved(0))' = Cardinality(Reserved(0) \ {r})
  BY <1>1
<1>7. QED
  BY <1>2, <1>3, <1>4, <1>5, <1>6

LEMMA BackingType ==
    ASSUME TypeOK, LastWindow = 0
    PROVE  /\ usage[0] \in Nat /\ leaked[0] \in Nat /\ Backing \in Nat
           /\ redis[0] \in Nat \cup {Missing}
<1>1. usage[0] \in Nat /\ leaked[0] \in Nat /\ redis[0] \in Nat \cup {Missing}
  BY OneWindow DEF TypeOK, StoreTypeOK
<1>2. QED
  BY <1>1, ReservedCount DEF Backing

\* A unit that is leaked moves from the units in flight to the leaked ones.
LEMMA BackingLeak ==
    ASSUME TypeOK, LastWindow = 0, NEW r \in Requests, LeakUnit(r),
           unit' = [unit EXCEPT ![r] = NoWindow], UNCHANGED usage
    PROVE  Backing' = Backing
<1>1. unit[r] \in {0, NoWindow}
  BY OneWindow DEF TypeOK
<1>2. CASE unit[r] = 0
  <2>1. leaked'[0] = leaked[0] + 1
    BY <1>2, OneWindow DEF LeakUnit, TypeOK
  <2>2. Cardinality(Reserved(0))' = Cardinality(Reserved(0)) - 1
    BY <1>2, ReservedDrop
  <2>3. QED
    BY <2>1, <2>2, BackingType, ReservedCount DEF Backing
<1>3. CASE unit[r] = NoWindow
  <2>1. leaked' = leaked
    BY <1>3 DEF LeakUnit
  <2>2. Cardinality(Reserved(0))' = Cardinality(Reserved(0))
    BY <1>3, ReservedDrop, OneWindow
  <2>3. QED
    BY <2>1, <2>2 DEF Backing
<1>4. QED
  BY <1>1, <1>2, <1>3

LEMMA BackingSame ==
    ASSUME UNCHANGED <<usage, unit, leaked>>
    PROVE  Backing' = Backing
BY ReservedSame DEF Backing

\* A step that moves no unit and no durable count, and takes no new seed.
LEMMA OverchargeQuiet ==
    ASSUME OverchargeInv, LastWindow = 0, DurableInv', NEW r \in Requests,
           NEW step \in Steps, Goto(r, step), step \notin {"seedSet", "reseedSet"},
           unit[r] # NoWindow => step \in {"upsert", "dbConsume", "work", "release"},
           UNCHANGED <<redis, usage, unit, leaked, seen>>
    PROVE  OverchargeInv'
<1> USE DEF OverchargeInv
<1>1. UnitHolders'
  BY DEF UnitHolders, Goto, DurableInv, TypeOK
<1>2. SeenIsDurable'
  BY DEF SeenIsDurable, Goto, DurableInv, TypeOK
<1>3. GateNotAbove'
  BY BackingSame DEF GateNotAbove
<1>4. QED
  BY <1>1, <1>2, <1>3

\* A step that ends r's transaction, or its hold on the unit, by leaking the unit.
LEMMA OverchargeLeak ==
    ASSUME OverchargeInv, LastWindow = 0, DurableInv', NEW r \in Requests,
           NEW step \in {"idle", "undo"}, Goto(r, step), LeakUnit(r),
           unit' = [unit EXCEPT ![r] = NoWindow], UNCHANGED <<redis, usage, seen>>
    PROVE  OverchargeInv'
<1> USE DEF OverchargeInv
<1>1. UnitHolders'
  BY DEF UnitHolders, Goto, DurableInv, TypeOK
<1>2. SeenIsDurable'
  BY DEF SeenIsDurable, Goto, DurableInv, TypeOK
<1>3. GateNotAbove'
  BY BackingLeak DEF GateNotAbove, DurableInv
<1>4. QED
  BY <1>1, <1>2, <1>3

LEMMA OverchargeGrant ==
    ASSUME OverchargeInv, LastWindow = 0, DurableInv', NEW r \in Requests,
           NEW step \in {"upsert", "dbConsume"}, Goto(r, step),
           pc[r] \in {"eval", "evalAgain"}, redis[key[r]] # Missing,
           redis' = [redis EXCEPT ![key[r]] = @ + 1],
           unit' = [unit EXCEPT ![r] = key[r]], UNCHANGED <<usage, leaked, seen>>
    PROVE  OverchargeInv'
<1> USE DEF OverchargeInv
<1>1. key[r] = 0 /\ unit[r] = NoWindow
  BY OneWindow DEF DurableInv, TypeOK, UnitHolders
<1>2. UnitHolders'
  BY DEF UnitHolders, Goto, DurableInv, TypeOK
<1>3. SeenIsDurable'
  BY DEF SeenIsDurable, Goto, DurableInv, TypeOK
<1>4. GateNotAbove'
  <2>1. redis'[0] = redis[0] + 1
    BY <1>1, OneWindow DEF DurableInv, TypeOK, StoreTypeOK
  <2>2. Backing' = Backing + 1
    <3>1. Cardinality(Reserved(0))' = Cardinality(Reserved(0)) + 1
      BY <1>1, ReservedAdd DEF DurableInv
    <3>2. QED
      BY <3>1, ReservedCount, BackingType DEF Backing, DurableInv
  <2>3. QED
    BY <1>1, <2>1, <2>2, BackingType DEF GateNotAbove, DurableInv
<1>5. QED
  BY <1>2, <1>3, <1>4

LEMMA OverchargeSeedSet ==
    ASSUME OverchargeInv, LastWindow = 0, DurableInv', NEW r \in Requests, SeedSet(r)
    PROVE  OverchargeInv'
<1> USE DEF OverchargeInv
<1>1. UnitHolders'
  BY DEF UnitHolders, SeedSet, AfterSeed, Goto, DurableInv, TypeOK
<1>2. SeenIsDurable'
  BY DEF SeenIsDurable, SeedSet, AfterSeed, Goto, DurableInv, TypeOK
<1>3. GateNotAbove'
  <2>1. asked[r] = 0 /\ seen[r] \in Nat /\ seen[r] <= usage[0]
    BY OneWindow DEF SeenIsDurable, SeedSet, DurableInv, TypeOK, StoreTypeOK
  <2>2. Backing' = Backing
    BY BackingSame DEF SeedSet
  <2>3. usage[0] <= Backing
    BY BackingType, ReservedCount DEF Backing, DurableInv
  <2>4. CASE redis[0] # Missing
    BY <2>1, <2>2, <2>4 DEF GateNotAbove, SeedSet, SetNX
  <2>5. CASE redis[0] = Missing
    <3>1. redis'[0] = seen[r]
      BY <2>1, <2>5, OneWindow DEF SeedSet, SetNX, DurableInv, TypeOK, StoreTypeOK
    <3>2. QED
      BY <3>1, <2>1, <2>2, <2>3, BackingType DEF GateNotAbove, DurableInv
  <2>6. QED
    BY <2>4, <2>5
<1>4. QED
  BY <1>1, <1>2, <1>3

LEMMA OverchargeCommit ==
    ASSUME OverchargeInv, LastWindow = 0, DurableInv', NEW r \in Requests, Commit(r)
    PROVE  OverchargeInv'
<1> USE DEF OverchargeInv
<1>1. usage'[0] = usage[0] + 1
  <2>1. row[r] = 0 /\ lock[0] = r /\ draft[0] = usage[0] + 1
    BY OneWindow DEF DurableInv, WorkingOnRow, Commit
  <2>2. QED
    BY <2>1, OneWindow DEF Commit, CommitTx, RowSeenBy
<1>2. UnitHolders'
  BY DEF UnitHolders, Commit, DropUnit, Goto, DurableInv, TypeOK
<1>3. SeenIsDurable'
  BY <1>1, BackingType DEF SeenIsDurable, Commit, Goto, DurableInv, TypeOK
<1>4. GateNotAbove'
  <2>1. /\ Cardinality(Reserved(0))' \in Nat
        /\ Cardinality(Reserved(0))' >= Cardinality(Reserved(0)) - 1
    <3>1. unit' = [unit EXCEPT ![r] = NoWindow]
      BY DEF Commit, DropUnit
    <3>2. QED
      BY <3>1, ReservedDrop DEF DurableInv
  <2>2. Backing' \in Nat /\ Backing' >= Backing
    BY <1>1, <2>1, ReservedCount, BackingType DEF Backing, Commit, DurableInv
  <2>3. QED
    BY <2>2, BackingType DEF GateNotAbove, Commit, DurableInv
<1>5. QED
  BY <1>2, <1>3, <1>4

LEMMA OverchargeRelease ==
    ASSUME OverchargeInv, LastWindow = 0, DurableInv', NEW r \in Requests, Release(r)
    PROVE  OverchargeInv'
<1> USE DEF OverchargeInv
<1>1. UnitHolders'
  BY DEF UnitHolders, Release, Goto, DurableInv, TypeOK
<1>2. SeenIsDurable'
  BY DEF SeenIsDurable, Release, Goto, DurableInv, TypeOK
<1>3. GateNotAbove'
  <2>1. asked[r] = 0 /\ unit[r] \in {0, NoWindow}
    BY OneWindow DEF DurableInv, TypeOK, StoreTypeOK
  <2>2. leaked' = leaked
    BY <2>1 DEF Release, LeakUnit
  <2>3. /\ Cardinality(Reserved(0))' \in Nat
        /\ Cardinality(Reserved(0))' >= Cardinality(Reserved(0)) - 1
    <3>1. unit' = [unit EXCEPT ![r] = NoWindow]
      BY DEF Release
    <3>2. QED
      BY <3>1, ReservedDrop DEF DurableInv
  <2>4. CASE redis[0] = Missing
    BY <2>1, <2>4 DEF GateNotAbove, Release, ReleaseLua
  <2>5. CASE redis[0] # Missing
    <3>1. redis'[0] = IF redis[0] > 0 THEN redis[0] - 1 ELSE 0
      BY <2>1, <2>5, OneWindow DEF Release, ReleaseLua, DurableInv, TypeOK, StoreTypeOK
    <3>2. Backing' \in Nat /\ Backing' >= Backing - 1
      BY <2>2, <2>3, ReservedCount, BackingType DEF Backing, Release, DurableInv
    <3>3. QED
      BY <2>5, <3>1, <3>2, BackingType DEF GateNotAbove, DurableInv
  <2>6. QED
    BY <2>4, <2>5
<1>4. QED
  BY <1>1, <1>2, <1>3

LEMMA OverchargeSeedRead ==
    ASSUME OverchargeInv, LastWindow = 0, DurableInv', NEW r \in Requests, SeedRead(r)
    PROVE  OverchargeInv'
<1> USE DEF OverchargeInv
<1>1. UnitHolders'
  BY DEF UnitHolders, SeedRead, Goto, DurableInv, TypeOK
<1>2. RowSeenBy(r, asked[r]) = usage[0]
  BY OneWindow DEF RowSeenBy, SeedRead, DurableInv, LockedByOwner, InTransaction,
                   TypeOK, StoreTypeOK
<1>3. SeenIsDurable'
  BY <1>2, BackingType DEF SeenIsDurable, SeedRead, Goto, DurableInv, TypeOK, storeVars
<1>4. GateNotAbove'
  BY BackingSame DEF GateNotAbove, SeedRead, storeVars
<1>5. QED
  BY <1>1, <1>3, <1>4

LEMMA OverchargeLoss ==
    ASSUME OverchargeInv, LastWindow = 0, DurableInv', LoseCounter
    PROVE  OverchargeInv'
<1> USE DEF OverchargeInv
<1>1. UnitHolders'
  BY DEF UnitHolders, LoseCounter, DurableInv, TypeOK
<1>2. SeenIsDurable'
  BY DEF SeenIsDurable, LoseCounter, RedisLoss
<1>3. redis'[0] = Missing
  BY OneWindow DEF LoseCounter, RedisLoss, DurableInv, TypeOK, StoreTypeOK
<1>4. QED
  BY <1>1, <1>2, <1>3 DEF GateNotAbove

LEMMA OverchargeStep ==
    ASSUME LastWindow = 0
    PROVE  OverchargeInv /\ [Next]_vars => OverchargeInv'
<1> SUFFICES ASSUME OverchargeInv, [Next]_vars PROVE OverchargeInv'
  OBVIOUS
<1>0. DurableInv /\ DurableInv' /\ TypeOK
  BY DurableStep DEF OverchargeInv, DurableInv
<1>1. ASSUME NEW r \in Requests, Start(r) PROVE OverchargeInv'
  BY <1>1, <1>0, OverchargeQuiet DEF Start, Steps, storeVars, OverchargeInv, UnitHolders
<1>2. ASSUME NEW r \in Requests, EvalDenies(r) PROVE OverchargeInv'
  BY <1>2, <1>0, OverchargeQuiet DEF EvalDenies, Steps, storeVars, OverchargeInv, UnitHolders
<1>3. ASSUME NEW r \in Requests, EvalMissing(r) PROVE OverchargeInv'
  <2>1. CASE pc[r] = "evalAgain"
    BY <1>3, <2>1, <1>0, OverchargeQuiet DEF EvalMissing, AfterMissing, Steps, storeVars, OverchargeInv, UnitHolders
  <2>2. CASE pc[r] = "eval"
    BY <1>3, <2>2, <1>0, OverchargeQuiet DEF EvalMissing, AfterMissing, Steps, storeVars, OverchargeInv, UnitHolders
  <2>3. QED
    BY <1>3, <2>1, <2>2 DEF EvalMissing
<1>4. ASSUME NEW r \in Requests, ConsumeRedisFails(r) PROVE OverchargeInv'
  BY <1>4, <1>0, OverchargeQuiet DEF ConsumeRedisFails, Steps, storeVars, OverchargeInv, UnitHolders
<1>5. ASSUME NEW r \in Requests, UsedReads(r) PROVE OverchargeInv'
  BY <1>5, <1>0, OverchargeQuiet DEF UsedReads, Steps, storeVars, OverchargeInv, UnitHolders
<1>6. ASSUME NEW r \in Requests, UsedRedisFails(r) PROVE OverchargeInv'
  BY <1>6, <1>0, OverchargeQuiet DEF UsedRedisFails, Steps, storeVars, OverchargeInv, UnitHolders
<1>7. ASSUME NEW r \in Requests, WorkFails(r) PROVE OverchargeInv'
  BY <1>7, <1>0, OverchargeQuiet DEF WorkFails, Steps, storeVars, OverchargeInv, UnitHolders
<1>8. ASSUME NEW r \in Requests, UpsertUnit(r) PROVE OverchargeInv'
  BY <1>8, <1>0, OverchargeQuiet DEF UpsertUnit, Steps, storeVars, OverchargeInv, UnitHolders
<1>9. ASSUME NEW r \in Requests, DbConsume(r) PROVE OverchargeInv'
  BY <1>9, <1>0, OverchargeQuiet DEF DbConsume, Steps, storeVars, OverchargeInv, UnitHolders
<1>10. ASSUME NEW r \in Requests, UndoRow(r) PROVE OverchargeInv'
  BY <1>10, <1>0, OverchargeQuiet DEF UndoRow, Steps, storeVars, OverchargeInv, UnitHolders
<1>11. ASSUME NEW r \in Requests, EvalGrants(r) PROVE OverchargeInv'
  BY <1>11, <1>0, OverchargeGrant DEF EvalGrants
<1>12. ASSUME NEW r \in Requests, EvalAnswerLost(r) PROVE OverchargeInv'
  BY <1>12, <1>0, OverchargeGrant DEF EvalAnswerLost
<1>13. ASSUME NEW r \in Requests, SeedRead(r) PROVE OverchargeInv'
  BY <1>13, <1>0, OverchargeSeedRead
<1>14. ASSUME NEW r \in Requests, SeedSet(r) PROVE OverchargeInv'
  BY <1>14, <1>0, OverchargeSeedSet
<1>15. ASSUME NEW r \in Requests, Commit(r) PROVE OverchargeInv'
  BY <1>15, <1>0, OverchargeCommit
<1>16. ASSUME NEW r \in Requests, Release(r) PROVE OverchargeInv'
  BY <1>16, <1>0, OverchargeRelease
<1>17. ASSUME NEW r \in Requests, ReleaseRedisFails(r) PROVE OverchargeInv'
  BY <1>17, <1>0, OverchargeLeak DEF ReleaseRedisFails, storeVars
<1>18. ASSUME NEW r \in Requests, DbDenies(r) PROVE OverchargeInv'
  BY <1>18, <1>0, OverchargeLeak DEF DbDenies, DropUnit, RollbackTx
<1>19. ASSUME NEW r \in Requests, Rollback(r) PROVE OverchargeInv'
  BY <1>19, <1>0, OverchargeLeak DEF Rollback, DropUnit, RollbackTx
<1>20. ASSUME RedisOutage, UNCHANGED <<requestVars, performed, leaked>> PROVE OverchargeInv'
  BY <1>20, <1>0, BackingSame DEF RedisOutage, requestVars,
     UnitHolders, SeenIsDurable, GateNotAbove, OverchargeInv
<1>21. ASSUME Rollover, UNCHANGED <<requestVars, performed, leaked>> PROVE OverchargeInv'
  BY <1>21, <1>0, BackingSame DEF Rollover, requestVars,
     UnitHolders, SeenIsDurable, GateNotAbove, OverchargeInv
<1>22. ASSUME UNCHANGED vars PROVE OverchargeInv'
  BY <1>22, <1>0, BackingSame DEF vars, storeVars, requestVars,
     UnitHolders, SeenIsDurable, GateNotAbove, OverchargeInv
<1>23. ASSUME LoseCounter PROVE OverchargeInv'
  BY <1>23, <1>0, OverchargeLoss
<1>24. QED
  BY <1>1, <1>2, <1>3, <1>4, <1>5, <1>6, <1>7, <1>8, <1>9, <1>10, <1>11, <1>12,
     <1>13, <1>14, <1>15, <1>16, <1>17, <1>18, <1>19, <1>20, <1>21, <1>22, <1>23,
     NextCases

\* While the window does not turn, the gate never counts more than what is committed, in
\* flight or left by dead requests: for every plan, and whatever outages and losses Redis
\* suffers, it denies no one a unit that nothing accounts for.
THEOREM NoOverchargeInOneWindow ==
    ASSUME LastWindow = 0
    PROVE  Spec => []NoOvercharge
<1>1. Init => OverchargeInv
  <2>1. Init => DurableInv
    BY InitDurable
  <2>2. QED
    BY <2>1, OneWindow
       DEF Init, OverchargeInv, UnitHolders, SeenIsDurable, GateNotAbove
<1>2. OverchargeInv => NoOvercharge
  BY OneWindow DEF OverchargeInv, GateNotAbove, NoOvercharge, Backing
<1>3. QED
  BY <1>1, <1>2, OverchargeStep, PTL DEF Spec

-----------------------------------------------------------------------------
(***************************************************************************)
(* The gate without Redis faults: Redis answers throughout or never does.  *)
(* While it answers, each reservation holds its unit in the counter, so    *)
(* the counter covers all of Backing, and it never passes the limit; when  *)
(* it never answers, the row lock lets one request at a time check and     *)
(* commit.                                                                 *)
(***************************************************************************)
WithinLimit(n) == Limit = Unlimited \/ n <= Limit

\* Redis answers: no request falls back, and every reservation is in the counter.
GateInUse ==
    RedisUp => \A r \in Requests :
        /\ pc[r] \notin {"dbConsume", "reseedRead", "reseedSet"}
        /\ pc[r] = "evalAgain" => redis[0] # Missing
        /\ pc[r] \in {"upsert", "work", "release"} => unit[r] = 0

\* Redis never answers: there is no counter, and who works was admitted under the lock.
GateUnused ==
    ~RedisUp =>
        /\ redis[0] = Missing
        /\ \A r \in Requests :
            /\ pc[r] \notin {"upsert", "seedRead", "seedSet", "evalAgain", "reseedRead", "reseedSet"}
            /\ unit[r] = NoWindow
            /\ pc[r] = "work" => Admits(usage[0])

\* Before the first seed, nothing but the committed row counts.
BeforeSeed ==
    redis[0] = Missing =>
        /\ leaked[0] = 0
        /\ \A r \in Requests : unit[r] = NoWindow /\ (pc[r] = "seedSet" => seen[r] = usage[0])

GateNotBelow == redis[0] # Missing => redis[0] >= Backing /\ WithinLimit(redis[0])

GateInv == /\ OverchargeInv /\ GateInUse /\ GateUnused /\ BeforeSeed /\ GateNotBelow
           /\ WithinLimit(usage[0])

\* A step of r that moves no unit, no durable count and no key.
LEMMA GateQuiet ==
    ASSUME GateInv, LastWindow = 0, OverchargeInv', NEW r \in Requests,
           NEW step \in Steps, Goto(r, step),
           UNCHANGED <<redis, redisState, usage, unit, leaked, seen>>,
           step \in {"idle", "eval", "get", "release", "rollback"}
             \/ (step = "seedRead" /\ RedisUp)
             \/ (step = "dbConsume" /\ ~RedisUp)
             \/ (step = "work" /\ (pc[r] = "upsert" \/ (~RedisUp /\ Admits(usage[0])))),
           step = "release" => pc[r] = "work"
    PROVE  GateInv'
<1> USE DEF GateInv
<1>1. GateInUse'
  BY DEF GateInUse, GateUnused, Goto, RedisUp, OverchargeInv, DurableInv, TypeOK
<1>2. GateUnused'
  BY DEF GateUnused, Goto, RedisUp, Admits, OverchargeInv, DurableInv, TypeOK
<1>3. BeforeSeed'
  BY DEF BeforeSeed, Goto, OverchargeInv, DurableInv, TypeOK
<1>4. GateNotBelow' /\ WithinLimit(usage[0])'
  BY BackingSame DEF GateNotBelow, WithinLimit
<1>5. QED
  BY <1>1, <1>2, <1>3, <1>4

LEMMA GateGrant ==
    ASSUME GateInv, LastWindow = 0, OverchargeInv', NEW r \in Requests, EvalGrants(r)
    PROVE  GateInv'
<1> USE DEF GateInv
<1>1. key[r] = 0 /\ unit[r] = NoWindow /\ redis[0] \in Nat /\ RedisUp /\ Admits(redis[0])
  BY OneWindow, BackingType
     DEF EvalGrants, OverchargeInv, UnitHolders, DurableInv, TypeOK
<1>2. redis'[0] = redis[0] + 1 /\ unit' = [unit EXCEPT ![r] = 0]
  BY <1>1, OneWindow DEF EvalGrants, OverchargeInv, DurableInv, TypeOK, StoreTypeOK
<1>3. GateInUse'
  BY <1>1, <1>2, StoreAssumption
     DEF GateInUse, EvalGrants, Goto, RedisUp, OverchargeInv, DurableInv, TypeOK
<1>4. GateUnused'
  BY <1>1 DEF GateUnused, EvalGrants, RedisUp
<1>5. redis'[0] # Missing
  BY <1>1, <1>2, StoreAssumption
<1>6. BeforeSeed'
  BY <1>5 DEF BeforeSeed
<1>7. GateNotBelow'
  <2>1. Backing' = Backing + 1
    <3>1. Cardinality(Reserved(0))' = Cardinality(Reserved(0)) + 1
      BY <1>1, <1>2, ReservedAdd DEF OverchargeInv, DurableInv
    <3>2. QED
      BY <3>1, ReservedCount, BackingType DEF Backing, EvalGrants, OverchargeInv, DurableInv
  <2>2. redis[0] >= Backing /\ Backing \in Nat
    BY <1>1, StoreAssumption, BackingType DEF GateNotBelow, OverchargeInv, DurableInv
  <2>3. WithinLimit(redis'[0])
    BY <1>1, <1>2 DEF WithinLimit, Admits
  <2>4. QED
    BY <1>1, <1>2, <2>1, <2>2, <2>3 DEF GateNotBelow, WithinLimit
<1>8. WithinLimit(usage[0])'
  BY DEF WithinLimit, EvalGrants
<1>9. QED
  BY <1>3, <1>4, <1>6, <1>7, <1>8

LEMMA GateSeedRead ==
    ASSUME GateInv, LastWindow = 0, OverchargeInv', NEW r \in Requests, SeedRead(r)
    PROVE  GateInv'
<1> USE DEF GateInv
<1>1. RowSeenBy(r, asked[r]) = usage[0]
  BY OneWindow DEF RowSeenBy, SeedRead, OverchargeInv, DurableInv, LockedByOwner,
                   InTransaction, TypeOK, StoreTypeOK
<1>2. RedisUp
  BY DEF GateUnused, SeedRead
<1>3. GateInUse'
  BY DEF GateInUse, SeedRead, Goto, RedisUp, storeVars, OverchargeInv, DurableInv, TypeOK
<1>4. GateUnused'
  BY <1>2 DEF GateUnused, SeedRead, RedisUp, storeVars
<1>5. BeforeSeed'
  BY <1>1 DEF BeforeSeed, SeedRead, Goto, storeVars, OverchargeInv, DurableInv, TypeOK
<1>6. GateNotBelow' /\ WithinLimit(usage[0])'
  BY BackingSame DEF GateNotBelow, WithinLimit, SeedRead, storeVars
<1>7. QED
  BY <1>3, <1>4, <1>5, <1>6

LEMMA GateSeedSet ==
    ASSUME GateInv, LastWindow = 0, OverchargeInv', NEW r \in Requests, SeedSet(r)
    PROVE  GateInv'
<1> USE DEF GateInv
<1>1. asked[r] = 0 /\ seen[r] \in Nat /\ usage[0] \in Nat
  BY OneWindow, BackingType DEF OverchargeInv, DurableInv, TypeOK, StoreTypeOK
<1>2. redis'[0] = IF redis[0] = Missing THEN seen[r] ELSE redis[0]
  BY <1>1, OneWindow DEF SeedSet, SetNX, OverchargeInv, DurableInv, TypeOK, StoreTypeOK
<1>3. redis'[0] # Missing
  BY <1>1, <1>2, StoreAssumption
<1>4. GateInUse'
  BY <1>3 DEF GateInUse, GateUnused, SeedSet, AfterSeed, Goto, RedisUp, OverchargeInv, DurableInv, TypeOK
<1>5. GateUnused'
  BY DEF GateUnused, SeedSet, RedisUp
<1>6. BeforeSeed'
  BY <1>3 DEF BeforeSeed
<1>7. GateNotBelow'
  <2>1. Backing' = Backing
    BY BackingSame DEF SeedSet
  <2>2. CASE redis[0] # Missing
    BY <2>1, <2>2, <1>2 DEF GateNotBelow, WithinLimit
  <2>3. CASE redis[0] = Missing
    <3>1. seen[r] = usage[0] /\ leaked[0] = 0 /\ \A s \in Requests : unit[s] = NoWindow
      BY <2>3 DEF BeforeSeed, SeedSet, GateInUse, GateUnused
    <3>2. Reserved(0) = {}
      BY <3>1, OneWindow DEF Reserved
    <3>3. Backing = usage[0]
      BY <3>1, <3>2, <1>1, FS_EmptySet DEF Backing
    <3>4. QED
      BY <2>1, <2>3, <3>1, <3>3, <1>1, <1>2 DEF GateNotBelow, WithinLimit
  <2>4. QED
    BY <2>2, <2>3
<1>8. WithinLimit(usage[0])'
  BY DEF WithinLimit, SeedSet
<1>9. QED
  BY <1>4, <1>5, <1>6, <1>7, <1>8

\* Under the limit after the commit: in use, the unit was in the counter, which is under
\* it; unused, the unit was admitted under the row lock the request still holds.
LEMMA GateCommit ==
    ASSUME GateInv, LastWindow = 0, OverchargeInv', NEW r \in Requests, Commit(r)
    PROVE  GateInv'
<1> USE DEF GateInv
<1>0. TypeOK
  BY DEF OverchargeInv, DurableInv
<1>1. row[r] = 0 /\ lock[0] = r /\ usage'[0] = usage[0] + 1
  <2>1. row[r] = 0 /\ lock[0] = r /\ draft[0] = usage[0] + 1
    BY OneWindow DEF OverchargeInv, DurableInv, WorkingOnRow, Commit
  <2>2. QED
    BY <2>1, OneWindow DEF Commit, CommitTx, RowSeenBy
<1>2. UNCHANGED <<redis, redisState, leaked, seen>> /\ unit' = [unit EXCEPT ![r] = NoWindow]
  BY DEF Commit, DropUnit
<1>3. GateInUse'
  BY <1>0, <1>2 DEF GateInUse, Commit, Goto, RedisUp, TypeOK
<1>4. CASE RedisUp
  <2>1. unit[r] = 0
    BY <1>4 DEF GateInUse, Commit
  <2>2. redis[0] # Missing
    BY <2>1, OneWindow DEF BeforeSeed
  <2>3. GateUnused' /\ BeforeSeed'
    BY <1>2, <1>4, <2>2 DEF GateUnused, BeforeSeed, RedisUp
  <2>4. Cardinality(Reserved(0))' = Cardinality(Reserved(0)) - 1
        /\ Cardinality(Reserved(0))' \in Nat
    BY <1>0, <1>2, <2>1, ReservedDrop
  <2>5. Backing' = Backing
    BY <1>0, <1>1, <1>2, <2>4, ReservedCount, BackingType DEF Backing
  <2>6. GateNotBelow'
    BY <1>2, <2>5 DEF GateNotBelow, WithinLimit
  <2>7. usage[0] + 1 <= redis[0]
    BY <1>0, <2>2, <2>4, ReservedCount, BackingType DEF GateNotBelow, Backing
  <2>8. WithinLimit(usage[0])'
    BY <1>0, <1>1, <2>2, <2>7, BackingType, QuotaAssumption DEF GateNotBelow, WithinLimit, Unlimited
  <2>9. QED
    BY <1>3, <2>3, <2>6, <2>8
<1>5. CASE ~RedisUp
  <2>1. redis[0] = Missing /\ Admits(usage[0])
    BY <1>5 DEF GateUnused, Commit
  <2>2. \A s \in Requests \ {r} : pc[s] # "work"
    BY <1>1, OneWindow DEF OverchargeInv, DurableInv, WorkingOnRow
  <2>3. GateUnused'
    BY <1>0, <1>2, <1>5, <2>1, <2>2 DEF GateUnused, Commit, Goto, RedisUp, TypeOK
  <2>4. BeforeSeed'
    BY <1>0, <1>2, <1>5, <2>1 DEF BeforeSeed, GateUnused, Commit, Goto, TypeOK
  <2>5. GateNotBelow'
    BY <1>2, <2>1 DEF GateNotBelow
  <2>6. WithinLimit(usage[0])'
    BY <1>1, <2>1 DEF WithinLimit, Admits
  <2>7. QED
    BY <1>3, <2>3, <2>4, <2>5, <2>6
<1>6. QED
  BY <1>4, <1>5

LEMMA GateRelease ==
    ASSUME GateInv, LastWindow = 0, OverchargeInv', NEW r \in Requests, Release(r)
    PROVE  GateInv'
<1> USE DEF GateInv
<1>0. TypeOK
  BY DEF OverchargeInv, DurableInv
<1>1. asked[r] = 0 /\ unit[r] = 0 /\ RedisUp
  BY <1>0, OneWindow DEF TypeOK, StoreTypeOK, GateInUse, Release
<1>2. UNCHANGED <<redisState, usage, leaked, seen>> /\ unit' = [unit EXCEPT ![r] = NoWindow]
  BY <1>1 DEF Release
<1>3. redis[0] # Missing
  BY <1>1, OneWindow DEF BeforeSeed
<1>4. Cardinality(Reserved(0))' = Cardinality(Reserved(0)) - 1
      /\ Cardinality(Reserved(0))' \in Nat /\ Cardinality(Reserved(0)) \in Nat
  BY <1>0, <1>1, <1>2, ReservedDrop
<1>5. Backing' = Backing - 1
  BY <1>0, <1>2, <1>4, BackingType DEF Backing
<1>6. redis[0] \in Nat /\ redis[0] >= Backing /\ Backing >= 1
  BY <1>0, <1>3, <1>4, BackingType DEF GateNotBelow, Backing
<1>7. redis'[0] = redis[0] - 1
  BY <1>0, <1>1, <1>3, <1>6, BackingType, OneWindow
     DEF Release, ReleaseLua, TypeOK, StoreTypeOK
<1>8. redis'[0] \in Nat /\ redis'[0] # Missing
  BY <1>0, <1>6, <1>7, BackingType, StoreAssumption
<1>9. GateNotBelow'
  BY <1>0, <1>3, <1>5, <1>6, <1>7, BackingType, QuotaAssumption
     DEF GateNotBelow, WithinLimit, Unlimited
<1>10. GateInUse'
  BY <1>0, <1>2, <1>8 DEF GateInUse, Release, Goto, RedisUp, TypeOK
<1>11. GateUnused' /\ BeforeSeed'
  BY <1>1, <1>2, <1>8 DEF GateUnused, BeforeSeed, RedisUp
<1>12. WithinLimit(usage[0])'
  BY <1>2 DEF WithinLimit
<1>13. QED
  BY <1>9, <1>10, <1>11, <1>12

LEMMA GateLeak ==
    ASSUME GateInv, LastWindow = 0, OverchargeInv', NEW r \in Requests,
           NEW step \in {"idle", "undo"}, Goto(r, step), LeakUnit(r),
           unit' = [unit EXCEPT ![r] = NoWindow],
           UNCHANGED <<redis, redisState, usage, seen>>
    PROVE  GateInv'
<1> USE DEF GateInv
<1>0. TypeOK
  BY DEF OverchargeInv, DurableInv
<1>1. GateInUse' /\ GateUnused'
  BY <1>0 DEF GateInUse, GateUnused, Goto, RedisUp, Admits, TypeOK
<1>2. BeforeSeed'
  BY <1>0 DEF BeforeSeed, LeakUnit, Goto, TypeOK
<1>3. GateNotBelow' /\ WithinLimit(usage[0])'
  BY <1>0, BackingLeak DEF GateNotBelow, WithinLimit
<1>4. QED
  BY <1>1, <1>2, <1>3

LEMMA GateStep ==
    ASSUME LastWindow = 0, Faults = {}
    PROVE  GateInv /\ [Next]_vars => GateInv'
<1> SUFFICES ASSUME GateInv, [Next]_vars PROVE GateInv'
  OBVIOUS
<1>0. OverchargeInv /\ OverchargeInv' /\ TypeOK
  BY OverchargeStep DEF GateInv, OverchargeInv, DurableInv
<1>1. ASSUME NEW r \in Requests, Start(r) PROVE GateInv'
  BY <1>1, <1>0, GateQuiet DEF Start, Steps, storeVars
<1>2. ASSUME NEW r \in Requests, EvalDenies(r) PROVE GateInv'
  BY <1>2, <1>0, GateQuiet DEF EvalDenies, Steps, storeVars
<1>3. ASSUME NEW r \in Requests, EvalMissing(r) PROVE GateInv'
  <2>1. key[r] = 0
    BY <1>0, OneWindow DEF TypeOK
  <2>2. pc[r] = "eval"
    BY <1>3, <2>1 DEF EvalMissing, GateInv, GateInUse
  <2>3. QED
    BY <1>3, <2>2, <1>0, GateQuiet DEF EvalMissing, AfterMissing, Steps, storeVars
<1>4. ASSUME NEW r \in Requests, ConsumeRedisFails(r) PROVE GateInv'
  BY <1>4, <1>0, GateQuiet DEF ConsumeRedisFails, Steps, storeVars
<1>5. ASSUME NEW r \in Requests, UsedReads(r) PROVE GateInv'
  <2>1. CASE RedisUp /\ redis[key[r]] = Missing
    BY <1>5, <2>1, <1>0, GateQuiet DEF UsedReads, Steps, storeVars
  <2>2. CASE ~(RedisUp /\ redis[key[r]] = Missing)
    BY <1>5, <2>2, <1>0, GateQuiet DEF UsedReads, Steps, storeVars
  <2>3. QED
    BY <2>1, <2>2
<1>6. ASSUME NEW r \in Requests, UsedRedisFails(r) PROVE GateInv'
  BY <1>6, <1>0, GateQuiet DEF UsedRedisFails, Steps, storeVars
<1>7. ASSUME NEW r \in Requests, WorkFails(r) PROVE GateInv'
  BY <1>7, <1>0, GateQuiet DEF WorkFails, Steps, storeVars
<1>8. ASSUME NEW r \in Requests, UpsertUnit(r) PROVE GateInv'
  BY <1>8, <1>0, GateQuiet DEF UpsertUnit, Steps
<1>9. ASSUME NEW r \in Requests, DbConsume(r) PROVE GateInv'
  <2>1. ~RedisUp
    BY <1>9 DEF DbConsume, GateInv, GateInUse
  <2>2. asked[r] = 0
    BY <1>0, OneWindow DEF TypeOK
  <2>3. RowSeenBy(r, 0) = usage[0]
    BY <1>9, <2>2, OneWindow DEF DbConsume, Upsert, RowSeenBy, GateInv, OverchargeInv,
       DurableInv, LockedByOwner, InTransaction
  <2>4. Admits(usage[0])
    BY <1>9, <2>2, <2>3 DEF DbConsume
  <2>5. QED
    BY <1>9, <2>1, <2>4, <1>0, GateQuiet DEF DbConsume, Steps
<1>10. ASSUME NEW r \in Requests, UndoRow(r) PROVE GateInv'
  BY <1>10, <1>0, GateQuiet DEF UndoRow, Steps
<1>11. ASSUME NEW r \in Requests, EvalGrants(r) PROVE GateInv'
  BY <1>11, <1>0, GateGrant
<1>12. ASSUME NEW r \in Requests, EvalAnswerLost(r) PROVE GateInv'
  BY <1>12 DEF EvalAnswerLost
<1>13. ASSUME NEW r \in Requests, SeedRead(r) PROVE GateInv'
  BY <1>13, <1>0, GateSeedRead
<1>14. ASSUME NEW r \in Requests, SeedSet(r) PROVE GateInv'
  BY <1>14, <1>0, GateSeedSet
<1>15. ASSUME NEW r \in Requests, Commit(r) PROVE GateInv'
  BY <1>15, <1>0, GateCommit
<1>16. ASSUME NEW r \in Requests, Release(r) PROVE GateInv'
  BY <1>16, <1>0, GateRelease
<1>17. ASSUME NEW r \in Requests, ReleaseRedisFails(r) PROVE GateInv'
  BY <1>17, <1>0, GateLeak DEF ReleaseRedisFails, storeVars
<1>18. ASSUME NEW r \in Requests, DbDenies(r) PROVE GateInv'
  BY <1>18, <1>0, GateLeak DEF DbDenies, DropUnit, RollbackTx
<1>19. ASSUME NEW r \in Requests, Rollback(r) PROVE GateInv'
  BY <1>19, <1>0, GateLeak DEF Rollback, DropUnit, RollbackTx
<1>20. ASSUME RedisOutage, UNCHANGED <<requestVars, performed, leaked>> PROVE GateInv'
  BY <1>20 DEF RedisOutage
<1>21. ASSUME Rollover, UNCHANGED <<requestVars, performed, leaked>> PROVE GateInv'
  BY <1>21, <1>0, OneWindow DEF Rollover, TypeOK, StoreTypeOK
<1>22. ASSUME UNCHANGED vars PROVE GateInv'
  BY <1>22, <1>0, BackingSame DEF vars, storeVars, requestVars, GateInv, GateInUse, GateUnused,
     BeforeSeed, GateNotBelow, WithinLimit, RedisUp, Admits
<1>23. ASSUME LoseCounter PROVE GateInv'
  BY <1>23 DEF LoseCounter, RedisLoss
<1>24. QED
  BY <1>1, <1>2, <1>3, <1>4, <1>5, <1>6, <1>7, <1>8, <1>9, <1>10, <1>11, <1>12,
     <1>13, <1>14, <1>15, <1>16, <1>17, <1>18, <1>19, <1>20, <1>21, <1>22, <1>23,
     NextCases

LEMMA InitGate ==
    ASSUME LastWindow = 0
    PROVE  Init => GateInv
<1> SUFFICES ASSUME Init PROVE GateInv
  OBVIOUS
<1>1. OverchargeInv
  BY InitDurable, OneWindow
     DEF Init, OverchargeInv, UnitHolders, SeenIsDurable, GateNotAbove
<1>2. redis[0] = Missing /\ leaked[0] = 0
  BY OneWindow DEF Init
<1>3. \A r \in Requests : pc[r] = "idle" /\ unit[r] = NoWindow
  BY DEF Init
<1>4. GateInUse /\ GateUnused /\ BeforeSeed /\ GateNotBelow
  BY <1>2, <1>3 DEF GateInUse, GateUnused, BeforeSeed, GateNotBelow
<1>5. WithinLimit(usage[0])
  BY OneWindow, QuotaAssumption DEF Init, StartUsage, WithinLimit, Unlimited
<1>6. QED
  BY <1>1, <1>4, <1>5 DEF GateInv

\* While Redis keeps its state and the window does not turn, no interleaving of requests,
\* failures and rollbacks performs more actions than the plan allows: with the Redis gate,
\* with the row lock when Redis never answers, for any number of requests and any limit.
THEOREM NoOveruseWithoutFaults ==
    ASSUME LastWindow = 0, Faults = {}
    PROVE  Spec => []NoOveruse
<1>1. GateInv => NoOveruse
  BY OneWindow DEF GateInv, WithinLimit, NoOveruse, OverchargeInv, DurableInv, DurableExact
<1>2. QED
  BY <1>1, InitGate, GateStep, PTL DEF Spec

\* Under the same conditions the counter never counts less than what is committed, in
\* flight or left behind: a seed never misses a unit, a release never takes two.
THEOREM GateCoversWithoutFaults ==
    ASSUME LastWindow = 0, Faults = {}
    PROVE  Spec => []GateCovers
<1>1. GateInv => GateCovers
  BY OneWindow DEF GateInv, GateNotBelow, GateCovers, Backing
<1>2. QED
  BY <1>1, InitGate, GateStep, PTL DEF Spec

-----------------------------------------------------------------------------
(***************************************************************************)
(* Quota implements QuotaLedger, in one window and without Redis faults.   *)
(* While Redis answers, the holders of the ledger are the reservations in  *)
(* the counter, so all that is booked is Backing, and the counter is equal *)
(* to it.  When it never answers, the only holder is the request with the  *)
(* row lock: it keeps that lock while it works and while it gives up.      *)
(***************************************************************************)
RowHeld ==
    \A r \in Requests : pc[r] \in {"work", "release"} => row[r] = 0 /\ lock[0] = r

LedgerInv == GateInv /\ RowHeld

\* The end of r's transaction frees no row another request has locked.
LEMMA OthersKeepTheirLock ==
    ASSUME TypeOK, LastWindow = 0, RowHeld, NEW r \in Requests, NEW step \in Steps,
           Goto(r, step), step \notin {"work", "release"},
           lock' = Unlocked(r) \/ UNCHANGED lock,
           \A s \in Requests \ {r} : row'[s] = row[s]
    PROVE  RowHeld'
<1> SUFFICES ASSUME NEW s \in Requests, pc'[s] \in {"work", "release"}
             PROVE  row'[s] = 0 /\ lock'[0] = s
  BY DEF RowHeld
<1>1. s # r /\ pc'[s] = pc[s]
  BY DEF Goto, TypeOK
<1>2. row[s] = 0 /\ lock[0] = s
  BY <1>1 DEF RowHeld
<1>3. lock'[0] = s
  BY <1>1, <1>2, OneWindow DEF Unlocked
<1>4. QED
  BY <1>1, <1>2, <1>3

\* Who gets the row finds nobody working on it.
LEMMA RowIsTaken ==
    ASSUME TypeOK, LastWindow = 0, RowHeld, NEW r \in Requests, NEW delta, NEW step \in Steps,
           Upsert(r, asked[r], delta), Goto(r, step),
           \/ step \notin {"work", "release"} /\ pc[r] \notin {"work", "release"} /\ UNCHANGED row
           \/ row' = [row EXCEPT ![r] = asked[r]]
    PROVE  RowHeld' /\ (\A s \in Requests \ {r} : pc[s] \notin {"work", "release"})
<1>1. asked[r] = 0 /\ lock[0] \in {NoRequest, r}
  BY OneWindow DEF TypeOK, Upsert
<1>2. lock'[0] = r
  BY <1>1, OneWindow DEF Upsert, TypeOK, StoreTypeOK
<1>3. ASSUME NEW s \in Requests \ {r} PROVE pc[s] \notin {"work", "release"} /\ pc'[s] = pc[s]
  <2>1. lock[0] # s
    BY <1>1, StoreAssumption
  <2>2. QED
    BY <2>1 DEF RowHeld, Goto, TypeOK
<1>4. pc'[r] \in {"work", "release"} => row'[r] = 0
  BY <1>1 DEF Goto, TypeOK
<1>5. QED
  BY <1>2, <1>3, <1>4 DEF RowHeld

LEMMA RowHeldStep ==
    ASSUME LastWindow = 0, TypeOK, RowHeld, [Next]_vars
    PROVE  RowHeld'
<1>1. ASSUME NEW r \in Requests,
             \/ Start(r) \/ EvalGrants(r) \/ EvalAnswerLost(r) \/ EvalDenies(r)
             \/ EvalMissing(r) \/ ConsumeRedisFails(r) \/ UsedReads(r) \/ UsedRedisFails(r)
             \/ SeedRead(r) \/ SeedSet(r) \/ Release(r) \/ ReleaseRedisFails(r)
      PROVE  RowHeld'
  <2>1. \E step \in Steps : Goto(r, step) /\ step \notin {"work", "release"}
    BY <1>1 DEF Start, EvalGrants, EvalAnswerLost, EvalDenies, EvalMissing, AfterMissing,
                ConsumeRedisFails, UsedReads, UsedRedisFails, SeedRead, SeedSet, AfterSeed,
                Release, ReleaseRedisFails, Steps
  <2>2. UNCHANGED <<lock, row>>
    BY <1>1 DEF Start, EvalGrants, EvalAnswerLost, EvalDenies, EvalMissing,
                ConsumeRedisFails, UsedReads, UsedRedisFails, SeedRead, SeedSet,
                Release, ReleaseRedisFails, storeVars
  <2>3. QED
    BY <2>1, <2>2, OthersKeepTheirLock
<1>2. ASSUME NEW r \in Requests, DbDenies(r) \/ Commit(r) \/ Rollback(r) PROVE RowHeld'
  <2>1. Goto(r, "idle") /\ lock' = Unlocked(r) /\ DropUnit(r) /\ "idle" \in Steps
    BY <1>2 DEF DbDenies, Commit, Rollback, CommitTx, RollbackTx, Steps
  <2>2. \A s \in Requests \ {r} : row'[s] = row[s]
    BY <2>1 DEF DropUnit, TypeOK
  <2>3. QED
    BY <2>1, <2>2, OthersKeepTheirLock
<1>3. ASSUME NEW r \in Requests, UpsertUnit(r) \/ DbConsume(r) PROVE RowHeld'
  BY <1>3, RowIsTaken DEF UpsertUnit, DbConsume, Steps
<1>4. ASSUME NEW r \in Requests, UndoRow(r) PROVE RowHeld'
  BY <1>4, RowIsTaken DEF UndoRow, Steps
<1>5. ASSUME NEW r \in Requests, WorkFails(r) PROVE RowHeld'
  BY <1>5 DEF WorkFails, Goto, RowHeld, TypeOK, storeVars
<1>6. ASSUME RedisOutage, UNCHANGED <<requestVars, performed, leaked>> PROVE RowHeld'
  BY <1>6 DEF RedisOutage, requestVars, RowHeld
<1>7. ASSUME Rollover, UNCHANGED <<requestVars, performed, leaked>> PROVE RowHeld'
  BY <1>7 DEF Rollover, requestVars, RowHeld
<1>8. ASSUME LoseCounter PROVE RowHeld'
  BY <1>8 DEF LoseCounter, RedisLoss, RowHeld
<1>9. ASSUME UNCHANGED vars PROVE RowHeld'
  BY <1>9 DEF vars, storeVars, requestVars, RowHeld
<1>10. QED
  BY NextCases, <1>1, <1>2, <1>3, <1>4, <1>5, <1>6, <1>7, <1>8, <1>9

LEMMA LedgerInvHolds ==
    ASSUME LastWindow = 0, Faults = {}
    PROVE  Spec => []LedgerInv
<1>1. Init => LedgerInv
  BY InitGate DEF Init, LedgerInv, RowHeld
<1>2. LedgerInv /\ [Next]_vars => LedgerInv'
  BY GateStep, RowHeldStep DEF LedgerInv, GateInv, OverchargeInv, DurableInv
<1>3. QED
  BY <1>1, <1>2, PTL DEF Spec

-----------------------------------------------------------------------------
(* The steps of QuotaLedger, of the counters. *)

Holds(r) == unit[r] # NoWindow \/ (row[r] # NoWindow /\ pc[r] \in {"work", "release"})

LEMMA MapsToBook ==
    ASSUME NEW r \in Requests, r \notin Granted, Granted' = Granted \cup {r},
           Limit = Unlimited \/ performed[0] + Cardinality(Granted) + leaked[0] < Limit,
           UNCHANGED <<performed, leaked>>
    PROVE  Ledger!Next
<1>1. Limit = -1 \/ Ledger!Booked < Limit
  BY Zenon DEF Ledger!Booked, Ledger!Cardinality, Cardinality, Unlimited
<1>2. Ledger!Book(r)
  BY <1>1 DEF Ledger!Book
<1>3. QED
  BY <1>2 DEF Ledger!Next

LEMMA MapsToPerform ==
    ASSUME NEW r \in Requests, r \in Granted, Granted' = Granted \ {r},
           performed'[0] = performed[0] + 1, UNCHANGED leaked
    PROVE  Ledger!Next
BY DEF Ledger!Next, Ledger!Perform

LEMMA MapsToGiveBack ==
    ASSUME NEW r \in Requests, r \in Granted, Granted' = Granted \ {r},
           UNCHANGED <<performed, leaked>>
    PROVE  Ledger!Next
BY DEF Ledger!Next, Ledger!GiveBack

LEMMA MapsToBurn ==
    ASSUME NEW r \in Requests, r \in Granted, Granted' = Granted \ {r},
           leaked'[0] = leaked[0] + 1, UNCHANGED performed
    PROVE  Ledger!Next
BY DEF Ledger!Next, Ledger!Burn

LEMMA MapsToStutter ==
    ASSUME Granted' = Granted, UNCHANGED <<performed, leaked>>
    PROVE  UNCHANGED Ledger!ledgerVars
BY DEF Ledger!ledgerVars

\* A step of r decides only whether r holds a unit.
LEMMA GrantedMoves ==
    ASSUME NEW r \in Requests,
           \A s \in Requests \ {r} : pc'[s] = pc[s] /\ unit'[s] = unit[s] /\ row'[s] = row[s]
    PROVE  /\ Holds(r)' => Granted' = Granted \cup {r}
           /\ ~Holds(r)' => Granted' = Granted \ {r}
           /\ r \in Granted <=> Holds(r)
<1>1. \A s \in Requests : s \in Granted <=> Holds(s)
  BY DEF Granted, Holds
<1>2. \A s \in Requests : s \in Granted' <=> Holds(s)'
  BY DEF Granted, Holds
<1>3. \A s \in Requests \ {r} : Holds(s)' <=> Holds(s)
  BY DEF Holds
<1>4. Granted \subseteq Requests /\ Granted' \subseteq Requests
  BY DEF Granted
<1>5. QED
  BY <1>1, <1>2, <1>3, <1>4

\* A step of r alone that leaves its unit and its row, and neither begins nor ends its work.
LEMMA GrantedStays ==
    ASSUME TypeOK, NEW r \in Requests, NEW step \in Steps, Goto(r, step),
           UNCHANGED <<unit, row, performed, leaked>>,
           Holds(r)' <=> Holds(r)
    PROVE  UNCHANGED Ledger!ledgerVars
<1>1. \A s \in Requests \ {r} : pc'[s] = pc[s] /\ unit'[s] = unit[s] /\ row'[s] = row[s]
  BY DEF Goto, TypeOK
<1>2. Granted' = Granted
  BY <1>1, GrantedMoves
<1>3. QED
  BY <1>2, MapsToStutter

\* Redis answers: who holds a unit holds it in the counter, and all of it is Backing.
LEMMA HoldersAreReserved ==
    ASSUME LedgerInv, LastWindow = 0, RedisUp
    PROVE  /\ \A r \in Requests : Holds(r) <=> unit[r] = 0
           /\ Granted = Reserved(0)
           /\ performed[0] + Cardinality(Granted) + leaked[0] = Backing
<1> USE DEF LedgerInv, GateInv, OverchargeInv, DurableInv
<1>1. ASSUME NEW r \in Requests PROVE Holds(r) <=> unit[r] = 0
  BY OneWindow DEF Holds, GateInUse, TypeOK
<1>2. Granted = Reserved(0)
  BY <1>1 DEF Granted, Holds, Reserved
<1>3. performed[0] = usage[0]
  BY OneWindow DEF DurableExact
<1>4. QED
  BY <1>1, <1>2, <1>3 DEF Backing

\* Redis never answers: who holds a unit works under the row lock, and nothing is burned.
LEMMA HoldersHaveTheRow ==
    ASSUME LedgerInv, LastWindow = 0, ~RedisUp
    PROVE  /\ \A r \in Requests : Holds(r) <=> pc[r] \in {"work", "release"}
           /\ leaked[0] = 0
<1> USE DEF LedgerInv, GateInv, OverchargeInv, DurableInv
<1>1. redis[0] = Missing /\ \A r \in Requests : unit[r] = NoWindow
  BY DEF GateUnused
<1>2. \A r \in Requests : Holds(r) <=> pc[r] \in {"work", "release"}
  BY <1>1, OneWindow DEF Holds, RowHeld
<1>3. QED
  BY <1>1, <1>2 DEF BeforeSeed

-----------------------------------------------------------------------------
(* The steps. *)

\* The script grants only what the ledger has left: the counter is all that is booked.
LEMMA GrantBooks ==
    ASSUME LedgerInv, LastWindow = 0, NEW r \in Requests, EvalGrants(r)
    PROVE  Ledger!Next
<1> USE DEF LedgerInv, GateInv, OverchargeInv, DurableInv
<1>1. key[r] = 0 /\ unit[r] = NoWindow /\ redis[0] \in Nat /\ RedisUp /\ Admits(redis[0])
  BY OneWindow, BackingType DEF EvalGrants, UnitHolders, TypeOK
<1>2. redis[0] # Missing /\ redis[0] >= Backing /\ Backing \in Nat
  BY <1>1, StoreAssumption, BackingType DEF GateNotBelow
<1>3. Limit = Unlimited \/ Backing < Limit
  BY <1>1, <1>2, QuotaAssumption DEF Admits, Unlimited
<1>4. Limit = Unlimited \/ performed[0] + Cardinality(Granted) + leaked[0] < Limit
  BY <1>1, <1>3, HoldersAreReserved
<1>5. /\ unit' = [unit EXCEPT ![r] = 0] /\ Goto(r, "upsert")
      /\ UNCHANGED <<row, performed, leaked>>
  BY <1>1 DEF EvalGrants
<1>6. \A s \in Requests \ {r} : pc'[s] = pc[s] /\ unit'[s] = unit[s] /\ row'[s] = row[s]
  BY <1>5 DEF Goto, TypeOK
<1>7. ~Holds(r)
  BY <1>1, HoldersAreReserved, OneWindow
<1>8. unit'[r] = 0 /\ Holds(r)'
  BY <1>5, OneWindow DEF Holds, TypeOK
<1>9. r \notin Granted /\ Granted' = Granted \cup {r}
  BY <1>6, <1>7, <1>8, GrantedMoves
<1>10. QED
  BY <1>4, <1>5, <1>9, MapsToBook

\* Under the row lock nobody else holds a unit, so the committed row is all that is booked.
LEMMA RowBooks ==
    ASSUME LedgerInv, LastWindow = 0, NEW r \in Requests, DbConsume(r)
    PROVE  Ledger!Next
<1> USE DEF LedgerInv, GateInv, OverchargeInv, DurableInv
<1>1. ~RedisUp /\ asked[r] = 0
  BY OneWindow DEF DbConsume, GateInUse, TypeOK
<1>2. RowSeenBy(r, 0) = usage[0]
  BY <1>1, OneWindow DEF DbConsume, Upsert, RowSeenBy, LockedByOwner, InTransaction
<1>3. Admits(usage[0]) /\ Upsert(r, asked[r], 1) /\ Goto(r, "work")
      /\ row' = [row EXCEPT ![r] = asked[r]] /\ UNCHANGED <<unit, performed, leaked>>
  BY <1>1, <1>2 DEF DbConsume
<1>4. \A s \in Requests \ {r} : pc[s] \notin {"work", "release"}
  BY <1>3, RowIsTaken DEF Steps
<1>5. pc[r] \notin {"work", "release"}
  BY DEF DbConsume
<1>6. Granted = {} /\ leaked[0] = 0
  BY <1>1, <1>4, <1>5, HoldersHaveTheRow DEF Granted, Holds
<1>7. performed[0] = usage[0] /\ usage[0] \in Nat
  BY OneWindow, BackingType DEF DurableExact
<1>8. Limit = Unlimited \/ performed[0] + Cardinality(Granted) + leaked[0] < Limit
  <2>1. Cardinality(Granted) = 0
    BY <1>6, FS_EmptySet
  <2>2. performed[0] + Cardinality(Granted) + leaked[0] = usage[0]
    BY <1>6, <1>7, <2>1
  <2>3. QED
    BY <1>3, <1>7, <2>2, QuotaAssumption DEF Admits, Unlimited
<1>9. \A s \in Requests \ {r} : pc'[s] = pc[s] /\ unit'[s] = unit[s] /\ row'[s] = row[s]
  BY <1>3 DEF Goto, TypeOK
<1>10. Holds(r)'
  BY <1>1, <1>3, OneWindow DEF Holds, Goto, TypeOK
<1>11. r \notin Granted /\ Granted' = Granted \cup {r}
  BY <1>6, <1>9, <1>10, GrantedMoves
<1>12. QED
  BY <1>3, <1>8, <1>11, MapsToBook

LEMMA CommitPerforms ==
    ASSUME LedgerInv, LastWindow = 0, NEW r \in Requests, Commit(r)
    PROVE  Ledger!Next
<1> USE DEF LedgerInv, GateInv, OverchargeInv, DurableInv
<1>1. /\ pc[r] = "work" /\ row[r] = 0 /\ DropUnit(r) /\ Goto(r, "idle")
      /\ performed' = [performed EXCEPT ![row[r]] = @ + 1] /\ UNCHANGED leaked
  BY DEF Commit, RowHeld
<1>2. performed'[0] = performed[0] + 1
  BY <1>1, OneWindow DEF TypeOK
<1>3. \A s \in Requests \ {r} : pc'[s] = pc[s] /\ unit'[s] = unit[s] /\ row'[s] = row[s]
  BY <1>1 DEF Goto, DropUnit, TypeOK
<1>4. Holds(r)
  BY <1>1, OneWindow DEF Holds
<1>5. ~Holds(r)'
  BY <1>1 DEF Holds, Goto, DropUnit, TypeOK
<1>6. r \in Granted /\ Granted' = Granted \ {r}
  BY <1>3, <1>4, <1>5, GrantedMoves
<1>7. QED
  BY <1>1, <1>2, <1>6, MapsToPerform

\* The release of a unit that is in the counter of this window burns nothing.
LEMMA ReleaseGivesBack ==
    ASSUME LedgerInv, LastWindow = 0, NEW r \in Requests, Release(r) \/ ReleaseRedisFails(r)
    PROVE  Ledger!Next
<1> USE DEF LedgerInv, GateInv, OverchargeInv, DurableInv
<1>1. /\ pc[r] = "release" /\ row[r] = 0 /\ unit' = [unit EXCEPT ![r] = NoWindow]
      /\ Goto(r, "undo") /\ UNCHANGED <<row, performed>>
  BY DEF Release, ReleaseRedisFails, RowHeld
<1>2. leaked' = leaked
  <2>1. CASE Release(r)
    <3>1. asked[r] = 0 /\ unit[r] = 0
      BY <2>1, OneWindow DEF Release, GateInUse, TypeOK
    <3>2. QED
      BY <2>1, <3>1 DEF Release
  <2>2. CASE ReleaseRedisFails(r)
    <3>1. unit[r] = NoWindow
      BY <2>2 DEF ReleaseRedisFails, GateUnused
    <3>2. QED
      BY <2>2, <3>1 DEF ReleaseRedisFails, LeakUnit
  <2>3. QED
    BY <2>1, <2>2
<1>3. \A s \in Requests \ {r} : pc'[s] = pc[s] /\ unit'[s] = unit[s] /\ row'[s] = row[s]
  BY <1>1 DEF Goto, TypeOK
<1>4. Holds(r)
  BY <1>1, OneWindow DEF Holds
<1>5. ~Holds(r)'
  BY <1>1 DEF Holds, Goto, TypeOK
<1>6. r \in Granted /\ Granted' = Granted \ {r}
  BY <1>3, <1>4, <1>5, GrantedMoves
<1>7. QED
  BY <1>1, <1>2, <1>6, MapsToGiveBack

\* A transaction that ends without its action burns the unit it has in the counter, gives
\* back the one it has under the row lock alone, and is not seen if it has none.
LEMMA EndBurnsOrGivesBack ==
    ASSUME LedgerInv, LastWindow = 0, NEW r \in Requests, DbDenies(r) \/ Rollback(r)
    PROVE  Ledger!Next \/ UNCHANGED Ledger!ledgerVars
<1> USE DEF LedgerInv, GateInv, OverchargeInv, DurableInv
<1>1. DropUnit(r) /\ LeakUnit(r) /\ Goto(r, "idle") /\ UNCHANGED performed
  BY DEF DbDenies, Rollback
<1>2. \A s \in Requests \ {r} : pc'[s] = pc[s] /\ unit'[s] = unit[s] /\ row'[s] = row[s]
  BY <1>1 DEF Goto, DropUnit, TypeOK
<1>3. ~Holds(r)'
  BY <1>1 DEF Holds, Goto, DropUnit, TypeOK
<1>4. Granted' = Granted \ {r} /\ (r \in Granted <=> Holds(r))
  BY <1>2, <1>3, GrantedMoves
<1>5. CASE unit[r] # NoWindow
  <2>1. unit[r] = 0
    BY <1>5, OneWindow DEF TypeOK
  <2>2. leaked'[0] = leaked[0] + 1
    BY <1>1, <2>1, OneWindow DEF LeakUnit, TypeOK
  <2>3. r \in Granted
    BY <1>4, <1>5 DEF Holds
  <2>4. QED
    BY <1>1, <1>4, <2>2, <2>3, MapsToBurn
<1>6. CASE unit[r] = NoWindow
  <2>1. leaked' = leaked
    BY <1>1, <1>6 DEF LeakUnit
  <2>2. CASE Holds(r)
    BY <1>1, <1>4, <2>1, <2>2, MapsToGiveBack
  <2>3. CASE ~Holds(r)
    <3>1. Granted' = Granted
      BY <1>4, <2>3
    <3>2. QED
      BY <1>1, <2>1, <3>1, MapsToStutter
  <2>4. QED
    BY <2>2, <2>3
<1>7. QED
  BY <1>5, <1>6

\* The other steps show the ledger nothing.
LEMMA CountingIsNotSeen ==
    ASSUME LedgerInv, LastWindow = 0, NEW r \in Requests, UpsertUnit(r)
    PROVE  UNCHANGED Ledger!ledgerVars
<1> USE DEF LedgerInv, GateInv, OverchargeInv, DurableInv
<1>1. RedisUp /\ unit[r] = 0 /\ Goto(r, "work") /\ UNCHANGED <<unit, performed, leaked>>
      /\ row' = [row EXCEPT ![r] = asked[r]]
  BY DEF UpsertUnit, GateInUse, GateUnused
<1>2. \A s \in Requests \ {r} : pc'[s] = pc[s] /\ unit'[s] = unit[s] /\ row'[s] = row[s]
  BY <1>1 DEF Goto, TypeOK
<1>3. Holds(r) /\ Holds(r)'
  BY <1>1, OneWindow DEF Holds
<1>4. Granted' = Granted
  <2>1. r \in Granted /\ Granted' = Granted \cup {r}
    BY <1>2, <1>3, GrantedMoves
  <2>2. QED
    BY <2>1
<1>5. QED
  BY <1>1, <1>4, MapsToStutter

LEMMA QuietIsNotSeen ==
    ASSUME TypeOK, NEW r \in Requests,
           \/ Start(r) \/ EvalDenies(r) \/ EvalMissing(r) \/ ConsumeRedisFails(r)
           \/ UsedReads(r) \/ UsedRedisFails(r) \/ SeedRead(r) \/ SeedSet(r)
           \/ WorkFails(r) \/ UndoRow(r)
    PROVE  UNCHANGED Ledger!ledgerVars
<1>1. CASE WorkFails(r)
  <2>1. pc[r] = "work" /\ Goto(r, "release") /\ UNCHANGED <<unit, row, performed, leaked>>
    BY <1>1 DEF WorkFails, storeVars
  <2>2. Holds(r)' <=> Holds(r)
    BY <2>1 DEF Holds, Goto, TypeOK
  <2>3. QED
    BY <2>1, <2>2, GrantedStays DEF Steps
<1>2. CASE ~WorkFails(r)
  <2>1. \E step \in Steps \ {"work", "release"} : Goto(r, step)
    BY <1>2 DEF Start, EvalDenies, EvalMissing, AfterMissing, ConsumeRedisFails, UsedReads,
                UsedRedisFails, SeedRead, SeedSet, AfterSeed, UndoRow, Steps
  <2>2. pc[r] \notin {"work", "release"} /\ UNCHANGED <<unit, row, performed, leaked>>
    BY <1>2 DEF Start, EvalDenies, EvalMissing, ConsumeRedisFails, UsedReads, UsedRedisFails,
                SeedRead, SeedSet, UndoRow
  <2>3. PICK step \in Steps \ {"work", "release"} : Goto(r, step)
    BY <2>1
  <2>4. Holds(r)' <=> Holds(r)
    BY <2>2, <2>3 DEF Holds, Goto, TypeOK
  <2>5. QED
    BY <2>2, <2>3, <2>4, GrantedStays
<1>3. QED
  BY <1>1, <1>2

LEMMA LedgerStep ==
    ASSUME LastWindow = 0, Faults = {}, LedgerInv, [Next]_vars
    PROVE  [Ledger!Next]_(Ledger!ledgerVars)
<1>0. TypeOK
  BY DEF LedgerInv, GateInv, OverchargeInv, DurableInv
<1>1. ASSUME NEW r \in Requests,
             \/ Start(r) \/ EvalDenies(r) \/ EvalMissing(r) \/ ConsumeRedisFails(r)
             \/ UsedReads(r) \/ UsedRedisFails(r) \/ SeedRead(r) \/ SeedSet(r)
             \/ WorkFails(r) \/ UndoRow(r)
      PROVE  UNCHANGED Ledger!ledgerVars
  BY <1>0, <1>1, QuietIsNotSeen
<1>2. ASSUME NEW r \in Requests, DbDenies(r) \/ Rollback(r)
      PROVE  Ledger!Next \/ UNCHANGED Ledger!ledgerVars
  BY <1>2, EndBurnsOrGivesBack
<1>3. ASSUME NEW r \in Requests, EvalAnswerLost(r) PROVE FALSE
  BY <1>3 DEF EvalAnswerLost
<1>4. ASSUME RedisOutage \/ LoseCounter PROVE FALSE
  BY <1>4 DEF RedisOutage, LoseCounter, RedisLoss
<1>5. ASSUME UNCHANGED <<requestVars, performed, leaked>>
      PROVE  UNCHANGED Ledger!ledgerVars
  <2>1. Granted' = Granted
    BY <1>5 DEF requestVars, Granted
  <2>2. QED
    BY <1>5, <2>1, MapsToStutter
<1>6. QED
  BY NextCases, <1>1, <1>2, <1>3, <1>4, <1>5, GrantBooks, RowBooks, CommitPerforms,
     ReleaseGivesBack, CountingIsNotSeen
     DEF vars

LEMMA LedgerInit == Init /\ LastWindow = 0 => Ledger!Init
<1> SUFFICES ASSUME Init, LastWindow = 0 PROVE Ledger!Init
  OBVIOUS
<1>1. Granted = {}
  BY DEF Init, Granted
<1>2. performed[0] \in StartUsage /\ leaked[0] = 0
  BY OneWindow DEF Init
<1>3. QED
  BY <1>1, <1>2 DEF Ledger!Init, StartUsage, Unlimited

\* While Redis keeps its state and the window does not turn, the two gates are one ledger:
\* whatever runs between a check and a count, a unit is booked only while all that is
\* booked is under the limit, and is then performed, given back or burned, once.
THEOREM QuotaImplementsLedger ==
    ASSUME LastWindow = 0, Faults = {}
    PROVE  Spec => ImplementsLedger
<1>1. Init => Ledger!Init
  BY LedgerInit
<1>2. LedgerInv /\ [Next]_vars => [Ledger!Next]_(Ledger!ledgerVars)
  BY LedgerStep
<1>3. QED
  BY <1>1, <1>2, LedgerInvHolds, PTL DEF Spec, ImplementsLedger, Ledger!Spec

=============================================================================
