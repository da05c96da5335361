-------------------------------- MODULE Quota --------------------------------
(***************************************************************************)
(* Flow quotas: services/quota_service.py, QuotaService.consume, release   *)
(* and used, called by the requests that spend a unit (a chat, a meeting,  *)
(* a publish).  A request reserves a unit through the Redis script, counts *)
(* it on the Postgres row in its own transaction, does its work, and then  *)
(* commits, releases the unit and rolls back, or dies and rolls back.      *)
(*                                                                         *)
(* When Redis fails, the reservation falls back to a check under the       *)
(* Postgres row lock.  The clock may enter a new window between any two    *)
(* steps: each helper computes period_key() anew, when it makes its call.  *)
(***************************************************************************)
EXTENDS QuotaStore

CONSTANTS
    Limit,     \* the plan's limit for the feature
    NoWindow,  \* no window: the request holds nothing
    MaxUnits   \* bound: no request consumes once this many units are spent

Unlimited == -1

ASSUME QuotaAssumption ==
    /\ Limit \in Nat \cup {Unlimited}
    /\ NoWindow \notin Int
    /\ IsFiniteSet(Requests)
    /\ MaxUnits \in Nat

VARIABLES
    pc,         \* where each request is
    mode,       \* what it does: consume a unit, or only read the counter
    key,        \* the window of the Redis key it computed when it started
    asked,      \* the window in the call it is waiting for, computed when it made the call
    seen,       \* the durable count it read to seed a missing key
    unit,       \* the window whose Redis counter carries its unit
    row,        \* the window whose durable row carries its unit
    performed,  \* history: performed[w], the actions that took place in w
    leaked      \* history: leaked[w], the units in Redis that nothing backs

requestVars == <<pc, mode, key, asked, seen, unit, row>>
vars == <<storeVars, requestVars, performed, leaked>>

Steps == {"idle", "eval", "seedRead", "seedSet", "evalAgain", "reseedRead", "reseedSet",
          "dbConsume", "upsert", "get", "work", "release", "undo", "rollback"}

\* What an idle database may hold, all of it durable.
StartUsage == IF Limit = Unlimited THEN {0} ELSE 0..Limit

-----------------------------------------------------------------------------
TypeOK ==
    /\ StoreTypeOK
    /\ pc \in [Requests -> Steps]
    /\ mode \in [Requests -> {"consume", "used"}]
    /\ key \in [Requests -> Windows]
    /\ asked \in [Requests -> Windows]
    /\ seen \in [Requests -> Nat]
    /\ unit \in [Requests -> Windows \cup {NoWindow}]
    /\ row \in [Requests -> Windows \cup {NoWindow}]
    /\ performed \in [Windows -> Nat]
    /\ leaked \in [Windows -> Nat]

Init ==
    /\ usage \in [Windows -> StartUsage]
    /\ \A w \in Windows : w > 0 => usage[w] = 0
    /\ redis = [w \in Windows |-> Missing]
    /\ redisState \in {"up", "down"}
    /\ draft = usage
    /\ lock = [w \in Windows |-> NoRequest]
    /\ now = 0
    /\ pc = [r \in Requests |-> "idle"]
    /\ mode = [r \in Requests |-> "consume"]
    /\ key = [r \in Requests |-> 0]
    /\ asked = [r \in Requests |-> 0]
    /\ seen = [r \in Requests |-> 0]
    /\ unit = [r \in Requests |-> NoWindow]
    /\ row = [r \in Requests |-> NoWindow]
    /\ performed = usage
    /\ leaked = [w \in Windows |-> 0]

-----------------------------------------------------------------------------
\* The request goes on to its next call, with the window the clock shows.
Goto(r, step) ==
    /\ pc' = [pc EXCEPT ![r] = step]
    /\ asked' = [asked EXCEPT ![r] = IF step = "idle" THEN 0 ELSE now]

\* The check both gates make before adding one unit to what they count.
Admits_OffByOne(count) == Limit = Unlimited \/ count <= Limit

Admits(count) == Limit = Unlimited \/ count + 1 <= Limit

\* A missing key is seeded.  When the script finds it missing a second time it is seeded
\* once more, and then comes a RuntimeError, which consume() treats like a dead Redis.
AfterMissing(r) == IF pc[r] = "eval" THEN "seedRead" ELSE "reseedRead"

AfterSeed(r) ==
    CASE mode[r] = "used" -> "idle"
      [] pc[r] = "seedSet" -> "evalAgain"
      [] OTHER -> "dbConsume"

\* consume() or used() begins: the entitlements are resolved and _key() is computed.
Start(r) ==
    /\ pc[r] = "idle"
    /\ \/ /\ performed[now] + leaked[now] < MaxUnits
          /\ mode' = [mode EXCEPT ![r] = "consume"] /\ Goto(r, "eval")
       \/ mode' = [mode EXCEPT ![r] = "used"] /\ Goto(r, "get")
    /\ key' = [key EXCEPT ![r] = now]
    /\ UNCHANGED <<storeVars, seen, unit, row, performed, leaked>>

\* The script grants a unit: check and increment are one step.
EvalGrants(r) ==
    /\ pc[r] \in {"eval", "evalAgain"} /\ RedisUp
    /\ redis[key[r]] # Missing /\ Admits(redis[key[r]])
    /\ redis' = [redis EXCEPT ![key[r]] = @ + 1]
    /\ unit' = [unit EXCEPT ![r] = key[r]]
    /\ Goto(r, "upsert")
    /\ UNCHANGED <<redisState, usage, draft, lock, now, mode, key, seen, row,
                   performed, leaked>>

\* The same, but Redis dies before its answer arrives: consume() sees an exception.
EvalAnswerLost(r) ==
    /\ pc[r] \in {"eval", "evalAgain"} /\ RedisUp /\ "outage" \in Faults
    /\ redis[key[r]] # Missing /\ Admits(redis[key[r]])
    /\ redis' = [redis EXCEPT ![key[r]] = @ + 1]
    /\ unit' = [unit EXCEPT ![r] = key[r]]
    /\ redisState' = "down"
    /\ Goto(r, "dbConsume")
    /\ UNCHANGED <<usage, draft, lock, now, mode, key, seen, row, performed, leaked>>

\* The script denies: LimitReachedError, before anything was written.
EvalDenies(r) ==
    /\ pc[r] \in {"eval", "evalAgain"} /\ RedisUp
    /\ redis[key[r]] # Missing /\ ~Admits(redis[key[r]])
    /\ Goto(r, "idle")
    /\ UNCHANGED <<storeVars, mode, key, seen, unit, row, performed, leaked>>

EvalMissing(r) ==
    /\ pc[r] \in {"eval", "evalAgain"} /\ RedisUp
    /\ redis[key[r]] = Missing
    /\ Goto(r, AfterMissing(r))
    /\ UNCHANGED <<storeVars, mode, key, seen, unit, row, performed, leaked>>

\* Redis does not answer the script or the seed.
ConsumeRedisFails(r) ==
    /\ pc[r] \in {"eval", "evalAgain", "seedSet", "reseedSet"}
    /\ mode[r] = "consume" /\ ~RedisUp
    /\ Goto(r, "dbConsume")
    /\ UNCHANGED <<storeVars, mode, key, seen, unit, row, performed, leaked>>

\* used(): a counter that is there is returned; without Redis the row is read instead.
UsedReads(r) ==
    /\ pc[r] = "get"
    /\ IF RedisUp /\ redis[key[r]] = Missing THEN Goto(r, "seedRead") ELSE Goto(r, "idle")
    /\ UNCHANGED <<storeVars, mode, key, seen, unit, row, performed, leaked>>

UsedRedisFails(r) ==
    /\ pc[r] = "seedSet" /\ mode[r] = "used" /\ ~RedisUp
    /\ Goto(r, "idle")
    /\ UNCHANGED <<storeVars, mode, key, seen, unit, row, performed, leaked>>

\* _seed() reads the durable row of the current window ...
SeedRead(r) ==
    /\ pc[r] \in {"seedRead", "reseedRead"}
    /\ seen' = [seen EXCEPT ![r] = RowSeenBy(r, asked[r])]
    /\ Goto(r, IF pc[r] = "seedRead" THEN "seedSet" ELSE "reseedSet")
    /\ UNCHANGED <<storeVars, mode, key, unit, row, performed, leaked>>

\* ... and creates the key of the current window from it, unless a racer just did.
SeedSet(r) ==
    /\ pc[r] \in {"seedSet", "reseedSet"} /\ RedisUp
    /\ redis' = SetNX(asked[r], seen[r])
    /\ Goto(r, AfterSeed(r))
    /\ UNCHANGED <<redisState, usage, draft, lock, now, mode, key, seen, unit, row,
                   performed, leaked>>

\* consume() counts the granted unit on the durable row, in the request's transaction.
UpsertUnit(r) ==
    /\ pc[r] = "upsert"
    /\ Upsert(r, asked[r], 1)
    /\ row' = [row EXCEPT ![r] = asked[r]]
    /\ Goto(r, "work")
    /\ UNCHANGED <<redis, redisState, usage, now, mode, key, seen, unit, performed, leaked>>

\* _db_consume() locks the row (an upsert of 0, then FOR UPDATE), checks and counts.
DbConsume(r) ==
    /\ pc[r] = "dbConsume"
    /\ Admits(RowSeenBy(r, asked[r]))
    /\ Upsert(r, asked[r], 1)
    /\ row' = [row EXCEPT ![r] = asked[r]]
    /\ Goto(r, "work")
    /\ UNCHANGED <<redis, redisState, usage, now, mode, key, seen, unit, performed, leaked>>

\* The transaction of r is over, and with it the unit it held.
DropUnit(r) ==
    /\ unit' = [unit EXCEPT ![r] = NoWindow]
    /\ row' = [row EXCEPT ![r] = NoWindow]

\* A unit left in Redis by a request that did not perform its action.
LeakUnit(r) ==
    leaked' = IF unit[r] = NoWindow THEN leaked ELSE [leaked EXCEPT ![unit[r]] = @ + 1]

\* LimitReachedError under the row lock: the request's transaction is rolled back.
DbDenies(r) ==
    /\ pc[r] = "dbConsume"
    /\ lock[asked[r]] \in {NoRequest, r} /\ ~Admits(RowSeenBy(r, asked[r]))
    /\ RollbackTx(r)
    /\ LeakUnit(r) /\ DropUnit(r)
    /\ Goto(r, "idle")
    /\ UNCHANGED <<redis, redisState, now, mode, key, seen, performed>>

\* The action succeeded: the session commits, and the row lock goes.
Commit(r) ==
    /\ pc[r] = "work"
    /\ CommitTx(r)
    /\ performed' = [performed EXCEPT ![row[r]] = @ + 1]
    /\ DropUnit(r)
    /\ Goto(r, "idle")
    /\ UNCHANGED <<redis, redisState, now, mode, key, seen, leaked>>

\* The action failed in a way its caller handles: the LLM, Google or the flush raised.
WorkFails(r) ==
    /\ pc[r] = "work"
    /\ Goto(r, "release")
    /\ UNCHANGED <<storeVars, mode, key, seen, unit, row, performed, leaked>>

\* release() gives the unit back to the Redis counter of the current window ...
Release(r) ==
    /\ pc[r] = "release" /\ RedisUp
    /\ redis' = ReleaseLua(asked[r])
    /\ unit' = [unit EXCEPT ![r] = NoWindow]
    /\ IF unit[r] = asked[r] THEN UNCHANGED leaked ELSE LeakUnit(r)
    /\ Goto(r, "undo")
    /\ UNCHANGED <<redisState, usage, draft, lock, now, mode, key, seen, row, performed>>

ReleaseRedisFails(r) ==
    /\ pc[r] = "release" /\ ~RedisUp
    /\ LeakUnit(r)
    /\ unit' = [unit EXCEPT ![r] = NoWindow]
    /\ Goto(r, "undo")
    /\ UNCHANGED <<storeVars, mode, key, seen, row, performed>>

\* ... and takes it off the durable row, in the transaction the caller's error rolls back.
UndoRow(r) ==
    /\ pc[r] = "undo"
    /\ Upsert(r, asked[r], -1)
    /\ Goto(r, "rollback")
    /\ UNCHANGED <<redis, redisState, usage, now, mode, key, seen, unit, row,
                   performed, leaked>>

\* get_db_session() rolls back: after a handled failure, or because the request was
\* cancelled, its process died or its commit failed.  No release runs for the latter.
Rollback(r) ==
    /\ pc[r] # "idle"
    /\ RollbackTx(r)
    /\ LeakUnit(r) /\ DropUnit(r)
    /\ Goto(r, "idle")
    /\ UNCHANGED <<redis, redisState, now, mode, key, seen, performed>>

\* A lost counter takes the units it carried with it.
LoseCounter ==
    /\ RedisLoss
    /\ unit' = [r \in Requests |->
                   IF unit[r] # NoWindow /\ redis'[unit[r]] = Missing THEN NoWindow
                   ELSE unit[r]]
    /\ leaked' = [w \in Windows |-> IF redis'[w] = Missing THEN 0 ELSE leaked[w]]
    /\ UNCHANGED <<pc, mode, key, asked, seen, row, performed>>

-----------------------------------------------------------------------------
Evaluate(r) == EvalGrants(r) \/ EvalAnswerLost(r) \/ EvalDenies(r) \/ EvalMissing(r)

\* What a request does by itself once it runs.
Proceed(r) ==
    \/ Evaluate(r) \/ ConsumeRedisFails(r)
    \/ UsedReads(r) \/ UsedRedisFails(r)
    \/ SeedRead(r) \/ SeedSet(r)
    \/ UpsertUnit(r) \/ DbConsume(r) \/ DbDenies(r)
    \/ Commit(r) \/ WorkFails(r)
    \/ Release(r) \/ ReleaseRedisFails(r) \/ UndoRow(r)

Next ==
    \/ \E r \in Requests : Start(r) \/ Proceed(r) \/ Rollback(r)
    \/ (RedisOutage \/ Rollover) /\ UNCHANGED <<requestVars, performed, leaked>>
    \/ LoseCounter

Spec == Init /\ [][Next]_vars

\* The event loop resumes every request whose reply has come; a request waiting for the
\* row is granted it in turn, however many others pass (Postgres queues the waiters).
Fairness ==
    \A r \in Requests :
        /\ WF_vars(Proceed(r) \/ (pc[r] = "rollback" /\ Rollback(r)))
        /\ SF_vars(UpsertUnit(r) \/ DbConsume(r) \/ DbDenies(r) \/ UndoRow(r))

FairSpec == Spec /\ Fairness

-----------------------------------------------------------------------------
(* Properties *)

\* The requests whose unit the Redis counter of window w carries.
Reserved(w) == {r \in Requests : unit[r] = w}

\* The plan's limit: never more actions than the limit are performed in a window
\* (the check in _CONSUME_LUA and in _db_consume, against every interleaving).
NoOveruse == Limit # Unlimited => \A w \in Windows : performed[w] <= Limit

\* The durable row counts exactly the actions whose transaction committed: no increment
\* is lost between two transactions and no compensation outlives its rollback (_upsert).
DurableExact == \A w \in Windows : usage[w] = performed[w]

\* The Redis gate never counts less than the durable row and the units in flight
\* together, so it cannot grant a unit twice (_seed with NX, _RELEASE_LUA).
GateCovers ==
    \A w \in Windows : redis[w] # Missing =>
        redis[w] >= usage[w] + Cardinality(Reserved(w)) + leaked[w]

\* The gate never counts more than the durable row, the units in flight and the units of
\* requests that died: nothing else can make it deny a user who has quota left.
NoOvercharge ==
    \A w \in Windows : redis[w] # Missing =>
        redis[w] <= usage[w] + Cardinality(Reserved(w)) + leaked[w]

\* The requests that were granted a unit and have not used it up or given it back.
Granted ==
    {r \in Requests : unit[r] # NoWindow \/ (row[r] # NoWindow /\ pc[r] \in {"work", "release"})}

Ledger == INSTANCE QuotaLedger
              WITH holders <- Granted, done <- performed[0], burned <- leaked[0]

\* As long as Redis keeps its state and the window does not turn, both gates implement the
\* ledger: a unit is booked under the limit and used up once (QuotaService's contract).
ImplementsLedger == Ledger!Spec

\* A request that started ends, whatever the others do with the row lock.
EveryRequestEnds == \A r \in Requests : pc[r] # "idle" ~> pc[r] = "idle"
=============================================================================
