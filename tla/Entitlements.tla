----------------------------- MODULE Entitlements -----------------------------
(***************************************************************************)
(* What a user may do, and the Redis cache in front of it:                 *)
(* services/entitlement_service.py (EntitlementService.get, _resolve),     *)
(* entitlements/cache.py (EntitlementCache) and the writers that change    *)
(* the answer: an admin's grant, revoke or override for the user           *)
(* (_commit_and_invalidate), an admin's edit of the plans                  *)
(* (_commit_and_bump).                                                     *)
(*                                                                         *)
(* The module follows one user: the keys of two users never meet, and an   *)
(* edit of the plans concerns each of them alike.  One action of a request *)
(* or of a writer is one round trip.  _user_key() reads the catalogue      *)
(* version anew for every cache call, so a call is two round trips.        *)
(*                                                                         *)
(* Times are relative to the present: a date is the number of ticks until  *)
(* it, and Tick brings everything one tick closer.                         *)
(***************************************************************************)
EXTENDS Integers, FiniteSets

CONSTANTS
    Requests,  \* the concurrent requests that ask for the user's entitlements
    Writers,   \* the concurrent admin or billing operations
    Catalogs,  \* the contents the plans' features can have
    Values,    \* what a subscription or an override can say
    NoValue,   \* nothing: no subscription, no override, plans not read yet
    Never,     \* the expiry of what does not expire
    NoEntry,   \* a key that is not in the cache
    Terms,     \* how many ticks a subscription or an override is given
    TTL,       \* ENTITLEMENT_TTL_SECONDS, in ticks
    MaxAge,    \* bound: the ticks a request takes at most
    MaxEdits,  \* bound: how many times the database is edited
    Faults     \* which faults may happen: a subset of {"redis", "crash", "evict"}

ASSUME EntitlementsAssumption ==
    /\ NoValue \notin Values \cup Catalogs
    /\ Never \notin Int
    /\ IsFiniteSet(Writers)
    /\ Terms \subseteq Nat \ {0}
    /\ TTL \in Nat \ {0}
    /\ MaxAge \in Nat
    /\ MaxEdits \in Nat
    /\ Faults \subseteq {"redis", "crash", "evict"}

VARIABLES
    catalog,       \* Postgres: the features of the plans
    subscription,  \* Postgres: the user's ACTIVE subscription, expired or not
    override,      \* Postgres: the user's override, expired or not
    version,       \* Redis: the key ent:catalog_ver
    cache,         \* Redis: cache[v], the key ent:v<v>:<user>
    pc,            \* where each request is
    age,           \* the ticks since the request read its clock
    at,            \* the version it read for its current cache call
    snap,          \* what it has read from the database so far
    wpc,           \* where each writer is
    wat,           \* the version it read in order to invalidate
    edits          \* the number of commits so far

dbVars == <<catalog, subscription, override, edits>>
requestVars == <<pc, age, at, snap>>
writerVars == <<wpc, wat>>
vars == <<dbVars, version, cache, requestVars, writerVars>>

Versions == 0..MaxEdits

Date == Int \cup {Never}

Part == [value : Values \cup {NoValue}, ends : Date]

Absent == [value |-> NoValue, ends |-> Never]

Snapshot == [catalog : Catalogs \cup {NoValue}, subscription : Part, override : Part]

\* `fill` is history: whether the database still said the same when the entry was written.
Entry == [snap : Snapshot, validUntil : Date, ttl : 1..TTL, fill : {"current", "outdated"}]

-----------------------------------------------------------------------------
(* Dates *)

\* `expires_at IS NULL OR expires_at > now`, for a clock read `ago` ticks ago.
Unexpired(ends, ago) == IF ends = Never THEN TRUE ELSE ends + ago > 0

Earlier(a, b) == IF a = Never THEN b ELSE IF b = Never \/ a < b THEN a ELSE b

\* One tick later.  Long past is long past: no request is older than MaxAge.
Older(ends) == IF ends = Never \/ ends <= -MaxAge THEN ends ELSE ends - 1

OlderPart(part) == [part EXCEPT !.ends = Older(@)]

OlderSnap(s) == [catalog |-> s.catalog, subscription |-> OlderPart(s.subscription),
                 override |-> OlderPart(s.override)]

\* The part a query finds when it leaves out the expired.
Found(part, ago) == IF Unexpired(part.ends, ago) THEN part ELSE Absent

\* Earliest moment any part of the snapshot stops being true.
ValidUntil_SubscriptionOnly(s) == s.subscription.ends

ValidUntil(s) == Earlier(s.subscription.ends, s.override.ends)

\* The seconds the snapshot may stay in Redis.
TtlOf_RoundsUp(s, ago) ==
    IF Unexpired(ValidUntil(s), ago - TTL) THEN TTL ELSE ValidUntil(s) + ago + 1

TtlOf(s, ago) ==
    IF Unexpired(ValidUntil(s), ago - TTL) THEN TTL ELSE ValidUntil(s) + ago

-----------------------------------------------------------------------------
(* What the database says now, and how a snapshot compares with it. *)

Truth == [catalog |-> catalog, subscription |-> Found(subscription, 0),
          override |-> Found(override, 0)]

Says(s) == [catalog |-> s.catalog, subscription |-> Found(s.subscription, 0),
            override |-> Found(s.override, 0)]

Blank == [catalog |-> NoValue, subscription |-> Absent, override |-> Absent]

TypeOK ==
    /\ catalog \in Catalogs
    /\ subscription \in Part
    /\ override \in Part
    /\ edits \in Versions
    /\ version \in Versions
    /\ cache \in [Versions -> Entry \cup {NoEntry}]
    /\ pc \in [Requests -> {"idle", "version", "get", "subscription", "features",
                            "overrides", "setVersion", "set"}]
    /\ age \in [Requests -> 0..MaxAge]
    /\ at \in [Requests -> Versions]
    /\ snap \in [Requests -> Snapshot]
    /\ wpc \in [Writers -> {"idle", "version", "delete", "bump"}]
    /\ wat \in [Writers -> Versions]

Init ==
    /\ catalog \in Catalogs
    /\ subscription \in {Absent} \cup [value : Values, ends : Terms \cup {Never}]
    /\ override = Absent
    /\ edits = 0
    /\ version = 0
    /\ cache = [v \in Versions |-> NoEntry]
    /\ pc = [r \in Requests |-> "idle"]
    /\ age = [r \in Requests |-> 0]
    /\ at = [r \in Requests |-> 0]
    /\ snap = [r \in Requests |-> Blank]
    /\ wpc = [w \in Writers |-> "idle"]
    /\ wat = [w \in Writers |-> 0]

-----------------------------------------------------------------------------
(* A request: EntitlementService.get *)

Goto(r, step) == pc' = [pc EXCEPT ![r] = step]

\* The request has its answer.
Reply(r) ==
    /\ Goto(r, "idle")
    /\ age' = [age EXCEPT ![r] = 0]
    /\ at' = [at EXCEPT ![r] = 0]
    /\ snap' = [snap EXCEPT ![r] = Blank]

Begin(r) ==
    /\ pc[r] = "idle"
    /\ Goto(r, "version")
    /\ UNCHANGED <<dbVars, version, cache, age, at, snap, writerVars>>

\* catalog_version(), for the read of the cache or for the write; 0 when Redis fails.
ReadVersion(r) ==
    /\ \/ pc[r] = "version" /\ Goto(r, "get")
       \/ pc[r] = "setVersion" /\ Goto(r, "set")
    /\ \E v \in {version} \cup (IF "redis" \in Faults THEN {0} ELSE {}) :
        at' = [at EXCEPT ![r] = v]
    /\ UNCHANGED <<dbVars, version, cache, age, snap, writerVars>>

\* A cached snapshot is served while no part of it has expired.
Servable_Unchecked(entry, ago) == entry # NoEntry

Servable(entry, ago) == entry # NoEntry /\ Unexpired(entry.validUntil, ago)

CacheHit(r) ==
    /\ pc[r] = "get" /\ Servable(cache[at[r]], age[r])
    /\ Reply(r)
    /\ UNCHANGED <<dbVars, version, cache, writerVars>>

CacheMiss(r) ==
    /\ pc[r] = "get"
    /\ Servable(cache[at[r]], age[r]) => "redis" \in Faults
    /\ Goto(r, "subscription")
    /\ UNCHANGED <<dbVars, version, cache, age, at, snap, writerVars>>

\* _resolve() reads the subscription, then the features of its plan, then the overrides,
\* each in a statement that sees what is committed when it runs.
ReadSubscription(r) ==
    /\ pc[r] = "subscription"
    /\ snap' = [snap EXCEPT ![r].subscription = Found(subscription, age[r])]
    /\ Goto(r, "features")
    /\ UNCHANGED <<dbVars, version, cache, age, at, writerVars>>

ReadFeatures(r) ==
    /\ pc[r] = "features"
    /\ snap' = [snap EXCEPT ![r].catalog = catalog]
    /\ Goto(r, "overrides")
    /\ UNCHANGED <<dbVars, version, cache, age, at, writerVars>>

ReadOverrides(r) ==
    /\ pc[r] = "overrides"
    /\ LET read == [snap[r] EXCEPT !.override = Found(override, age[r])]
       IN  IF TtlOf(read, age[r]) > 0
           THEN /\ snap' = [snap EXCEPT ![r] = read]
                /\ Goto(r, "setVersion")
                /\ UNCHANGED <<age, at>>
           ELSE Reply(r)
    /\ UNCHANGED <<dbVars, version, cache, writerVars>>

EntryOf(r) ==
    [snap |-> snap[r], validUntil |-> ValidUntil(snap[r]), ttl |-> TtlOf(snap[r], age[r]),
     fill |-> IF Says(snap[r]) = Truth THEN "current" ELSE "outdated"]

SetEntitlements(r) ==
    /\ pc[r] = "set"
    /\ cache' = [cache EXCEPT ![at[r]] = EntryOf(r)]
    /\ Reply(r)
    /\ UNCHANGED <<dbVars, version, writerVars>>

\* Redis refuses the write: the answer is returned all the same.
SetFails(r) ==
    /\ pc[r] = "set" /\ "redis" \in Faults
    /\ Reply(r)
    /\ UNCHANGED <<dbVars, version, cache, writerVars>>

-----------------------------------------------------------------------------
(* A writer *)

WriterGoto(w, step) == wpc' = [wpc EXCEPT ![w] = step]

\* SubscriptionAdminService.grant, revoke, set_override, delete_override: the commit.
CommitUserChange(w) ==
    /\ wpc[w] = "idle" /\ edits < MaxEdits
    /\ edits' = edits + 1
    /\ \/ /\ \/ subscription' \in [value : Values, ends : Terms \cup {Never}]
             \/ subscription # Absent /\ subscription' = Absent
          /\ UNCHANGED override
       \/ /\ \/ override' \in [value : Values, ends : Terms \cup {Never}]
             \/ override # Absent /\ override' = Absent
          /\ UNCHANGED subscription
    /\ WriterGoto(w, "version")
    /\ UNCHANGED <<catalog, version, cache, requestVars, wat>>

\* PlanAdminService.update_features and its like: the commit.
CommitPlanChange(w) ==
    /\ wpc[w] = "idle" /\ edits < MaxEdits
    /\ edits' = edits + 1
    /\ catalog' \in Catalogs \ {catalog}
    /\ WriterGoto(w, "bump")
    /\ UNCHANGED <<subscription, override, version, cache, requestVars, wat>>

\* invalidate() reads the version ...
ReadVersionToInvalidate(w) ==
    /\ wpc[w] = "version"
    /\ \E v \in {version} \cup (IF "redis" \in Faults THEN {0} ELSE {}) :
        wat' = [wat EXCEPT ![w] = v]
    /\ WriterGoto(w, "delete")
    /\ UNCHANGED <<dbVars, version, cache, requestVars>>

\* ... and deletes the user's key of that version.
Without_Nothing(entries, v) == entries

Without(entries, v) == [entries EXCEPT ![v] = NoEntry]

Invalidate(w) ==
    /\ wpc[w] = "delete"
    /\ \/ cache' = Without(cache, wat[w])
       \/ "redis" \in Faults /\ UNCHANGED cache
    /\ WriterGoto(w, "idle")
    /\ wat' = [wat EXCEPT ![w] = 0]
    /\ UNCHANGED <<dbVars, version, requestVars>>

BumpCatalogVersion(w) ==
    /\ wpc[w] = "bump"
    /\ \/ version' = version + 1
       \/ "redis" \in Faults /\ UNCHANGED version
    /\ WriterGoto(w, "idle")
    /\ UNCHANGED <<dbVars, cache, requestVars, wat>>

\* The process dies after the commit: nobody invalidates.
WriterCrash(w) ==
    /\ "crash" \in Faults
    /\ wpc[w] # "idle"
    /\ WriterGoto(w, "idle")
    /\ wat' = [wat EXCEPT ![w] = 0]
    /\ UNCHANGED <<dbVars, version, cache, requestVars>>

-----------------------------------------------------------------------------
(* The environment *)

\* Redis evicts the version key, which has no TTL, and the count starts over.
EvictVersion ==
    /\ "evict" \in Faults
    /\ version > 0
    /\ version' = 0
    /\ UNCHANGED <<dbVars, cache, requestVars, writerVars>>

\* Redis drops a key when its TTL is over.
AgedEntry_Kept(entry) ==
    IF entry = NoEntry THEN NoEntry
    ELSE [entry EXCEPT !.snap = OlderSnap(@), !.validUntil = Older(@)]

AgedEntry(entry) ==
    IF entry = NoEntry THEN NoEntry
    ELSE IF entry.ttl <= 1 THEN NoEntry
    ELSE [snap |-> OlderSnap(entry.snap), validUntil |-> Older(entry.validUntil),
          ttl |-> entry.ttl - 1, fill |-> entry.fill]

Tick ==
    /\ \A r \in Requests : pc[r] # "idle" => age[r] < MaxAge
    /\ subscription' = OlderPart(subscription)
    /\ override' = OlderPart(override)
    /\ cache' = [v \in Versions |-> AgedEntry(cache[v])]
    /\ age' = [r \in Requests |-> IF pc[r] = "idle" THEN 0 ELSE age[r] + 1]
    /\ snap' = [r \in Requests |-> OlderSnap(snap[r])]
    /\ UNCHANGED <<catalog, edits, version, pc, at, writerVars>>

-----------------------------------------------------------------------------
Answer(r) ==
    \/ ReadVersion(r) \/ CacheHit(r) \/ CacheMiss(r)
    \/ ReadSubscription(r) \/ ReadFeatures(r) \/ ReadOverrides(r)
    \/ SetEntitlements(r) \/ SetFails(r)

Finish(w) == ReadVersionToInvalidate(w) \/ Invalidate(w) \/ BumpCatalogVersion(w)

Next ==
    \/ \E r \in Requests : Begin(r) \/ Answer(r)
    \/ \E w \in Writers :
        CommitUserChange(w) \/ CommitPlanChange(w) \/ Finish(w) \/ WriterCrash(w)
    \/ EvictVersion
    \/ Tick

Spec == Init /\ [][Next]_vars

\* Time passes between requests, and the event loop resumes whoever has its reply.
Fairness ==
    /\ SF_vars(Tick)
    /\ \A r \in Requests : WF_vars(Answer(r))
    /\ \A w \in Writers : WF_vars(Finish(w))

FairSpec == Spec /\ Fairness

-----------------------------------------------------------------------------
(* Properties *)

\* No writer is between its commit and the end of its invalidation.
Settled == \A w \in Writers : wpc[w] = "idle"

\* An entry a request could be answered from, if it began now.
Served(v) == Servable(cache[v], 0)

\* Once every writer is done, the user's key under the current version is stale only if
\* the request that filled it overlapped a write: deleting the key and raising the version
\* together leave nothing else behind (_commit_and_invalidate, _commit_and_bump).
StaleOnlyByOverlap ==
    Settled /\ Served(version) /\ cache[version].fill = "current"
        => Says(cache[version].snap) = Truth

\* No request is answered with a subscription or an override that had expired when it
\* began, whatever Redis does: valid_until covers every part of the snapshot.
ServesUnexpired ==
    [][\A r \in Requests : CacheHit(r) =>
           /\ Unexpired(cache[at[r]].snap.subscription.ends, age[r])
           /\ Unexpired(cache[at[r]].snap.override.ends, age[r])]_vars

\* Whatever invalidations were lost and whoever refilled the cache with old data: once the
\* edits stop, every entry is right again, because every entry has a TTL.
StalenessEnds ==
    <>[](\A v \in Versions : Served(v) => Says(cache[v].snap) = Truth)

\* "A plan change or an expiry applies on the very next call": once every writer is done, a
\* request that begins is never answered from a snapshot the database no longer agrees with.
NextCallSeesChange ==
    Settled /\ Served(version) => Says(cache[version].snap) = Truth
=============================================================================
