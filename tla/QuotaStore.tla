------------------------------ MODULE QuotaStore ------------------------------
(***************************************************************************)
(* The two counters behind one user's quota for one feature, and the       *)
(* elementary operations services/quota_service.py runs on them:           *)
(*                                                                         *)
(*   - a Redis counter per window (key q:<user>:<feature>:<period_key>),   *)
(*     which may be missing, unreachable or lost;                          *)
(*   - a Postgres row per window (models.billing.UsageCounter), written    *)
(*     inside the request's transaction and row-locked until it ends.      *)
(*                                                                         *)
(* One action of a client is one round trip to Redis or Postgres: any      *)
(* other request may run between two of them.  Every caller reserves one   *)
(* unit at a time (the `amount` parameter keeps its default 1).            *)
(***************************************************************************)
EXTENDS Integers, FiniteSets

CONSTANTS
    Requests,    \* the concurrent requests that spend or read the quota
    NoRequest,   \* no request: the row lock is free
    Missing,     \* a Redis key that does not exist
    LastWindow,  \* bound: the calendar windows of a behaviour are 0..LastWindow
    Faults       \* which Redis faults may happen: a subset of {"outage", "loss"}

ASSUME StoreAssumption ==
    /\ NoRequest \notin Requests
    /\ Missing \notin Int
    /\ LastWindow \in Nat
    /\ Faults \subseteq {"outage", "loss"}

VARIABLES
    redis,       \* redis[w]: the Redis counter of window w, or Missing
    redisState,  \* whether Redis answers: "up" or "down"
    usage,       \* usage[w]: the committed value of the usage_counters row
    draft,       \* draft[w]: the row as the transaction holding its lock left it,
                 \*           the committed row when nobody holds it
    lock,        \* lock[w]: the request whose open transaction locks the row
    now          \* the window the clock is in

storeVars == <<redis, redisState, usage, draft, lock, now>>

Windows == 0..LastWindow

RedisUp == redisState = "up"

StoreTypeOK ==
    /\ redis \in [Windows -> Nat \cup {Missing}]
    /\ redisState \in {"up", "down"}
    /\ usage \in [Windows -> Nat]
    /\ draft \in [Windows -> Nat]
    /\ lock \in [Windows -> Requests \cup {NoRequest}]
    /\ now \in Windows

-----------------------------------------------------------------------------
(* Redis *)

\* SET key value NX: never clobbers a racer that created the key first.
SetNX_Clobbers(w, value) == [redis EXCEPT ![w] = value]

SetNX(w, value) == IF redis[w] = Missing THEN [redis EXCEPT ![w] = value] ELSE redis

\* The decrement of _RELEASE_LUA: clamped at zero, and nothing if the key is missing.
ReleaseLua_Forgotten(w) == redis

ReleaseLua_Unclamped(w) ==
    IF redis[w] = Missing THEN redis ELSE [redis EXCEPT ![w] = @ - 1]

ReleaseLua(w) ==
    IF redis[w] = Missing THEN redis ELSE [redis EXCEPT ![w] = IF @ > 0 THEN @ - 1 ELSE 0]

-----------------------------------------------------------------------------
(* Postgres, READ COMMITTED *)

Greatest0(n) == IF n < 0 THEN 0 ELSE n

\* The row a statement of r sees: its own uncommitted write, else the committed value.
RowSeenBy(r, w) == IF lock[w] = r THEN draft[w] ELSE usage[w]

\* An upsert waits for the transaction that wrote the row last, then adds to what that
\* transaction committed, and keeps the row locked until its own transaction ends.
Upsert_WithoutLock(r, w, delta) ==
    /\ lock' = [lock EXCEPT ![w] = r]
    /\ draft' = [draft EXCEPT ![w] = Greatest0(RowSeenBy(r, w) + delta)]

Upsert(r, w, delta) ==
    /\ lock[w] \in {NoRequest, r}
    /\ lock' = [lock EXCEPT ![w] = r]
    /\ draft' = [draft EXCEPT ![w] = Greatest0(RowSeenBy(r, w) + delta)]

Unlocked(r) == [w \in Windows |-> IF lock[w] = r THEN NoRequest ELSE lock[w]]

CommitTx(r) ==
    /\ usage' = [w \in Windows |-> RowSeenBy(r, w)]
    /\ lock' = Unlocked(r)
    /\ UNCHANGED draft

RollbackTx_KeepsLock(r) == UNCHANGED <<usage, draft, lock>>

RollbackTx(r) ==
    /\ draft' = [w \in Windows |-> IF lock[w] = r THEN usage[w] ELSE draft[w]]
    /\ lock' = Unlocked(r)
    /\ UNCHANGED usage

-----------------------------------------------------------------------------
(* The environment *)

\* Redis stops answering, or answers again with the keys it had.
RedisOutage ==
    /\ "outage" \in Faults
    /\ redisState' = IF RedisUp THEN "down" ELSE "up"
    /\ UNCHANGED <<redis, usage, draft, lock, now>>

\* Redis loses a counter: an eviction, a restart or a flush.
RedisLoss ==
    /\ "loss" \in Faults
    /\ \E w \in Windows :
        /\ redis[w] # Missing
        /\ redis' = [redis EXCEPT ![w] = Missing]
    /\ UNCHANGED <<redisState, usage, draft, lock, now>>

\* The clock enters the next day or month, and period_key() changes.
Rollover ==
    /\ now < LastWindow
    /\ now' = now + 1
    /\ UNCHANGED <<redis, redisState, usage, draft, lock>>
=============================================================================
