# Verification of chatfolio-backend

TLA+ models of the backend in `src/src/chatfolio`, the TLC configurations that
check them, and TLAPS proofs about them. Paths below are relative to
`src/src/chatfolio` unless they start with `src/`.

## 1. The system

A FastAPI service (several processes, one event loop each), an arq worker,
Postgres, Redis, a Chroma vector store, and outside services (an LLM provider,
Google Calendar, Support Kori, SMS and e-mail).

* **One session per request** (`db/session.py`): the handler runs inside one
  Postgres transaction, READ COMMITTED, committed after the handler returns and
  rolled back when it raises. Some services commit earlier, on purpose.
* **Redis** holds quota counters, the entitlement cache and the job queue.
  Every use is meant to survive its absence.
* **Concurrency**: any two awaits of a request may have other requests, the
  worker or a cron job between them. Serialisation comes only from row locks,
  `pg_advisory_xact_lock`, unique indexes and Lua scripts.

### Components

| Component | State | Operations | What makes it correct | Hard behaviour |
|---|---|---|---|---|
| Flow quotas (`services/quota_service.py`) | Redis counter per window; row `usage_counters` | consume, release, used, add_usage, ensure_open | limit never exceeded; row = committed actions; counter = row + units in flight | Redis faults, row lock held across LLM calls, rollback, window boundary |
| Entitlements (`services/entitlement_service.py`, `entitlements/cache.py`) | cached snapshot per user and catalogue version | get, invalidate, bump | never expired, stale at most as documented, staleness ends | fill racing invalidation, swallowed Redis errors, crash after commit |
| Subscription and plan administration | subscriptions, overrides, plans | grant, revoke, overrides, edits | commit before invalidate; one active subscription | races with activation |
| Billing (`services/billing_service.py`) | licences, orders, subscriptions | activate, stack, start_trial, revoke, revalidate | one key, one user; one active subscription; one trial per user and phone | network call outside the lock, savepoint, unique-index losers |
| Billing jobs (`workers/jobs_billing.py`) | same | expire, revalidate, remind | every expired row flips; every refunded licence is found | batch rollback, starvation |
| Portfolio (`services/portfolio_service.py`) | slug, previous_slug, aliases, published flag | publish, unpublish, settings, aliases | a slug has one owner; a redirect has one target; alias limit | uniqueness over two tables |
| Custom domains (`services/domain_service.py`) | domains | add, replace, remove | stock limit, unique host | same |
| Public chat (`services/chat_service.py`) | sessions, messages, metadata | start_session, send_message | one unit and one alert per session; cap; cooldown counted | check then act around long LLM calls |
| Meetings (`services/meeting_service.py`) | Google connection, requests | schedule, callback, disconnect | one request per session; cooldown | outside effect before the commit; token refresh races |
| CV pipeline (`services/cv_service.py`, `workers/jobs_cv.py`) | CV status, queue | upload, retry, parse | every upload ends parsed or failed | job before commit, worker crash |
| Embeddings (`services/embedding_service.py`, `workers/jobs_embedding.py`) | vectors, pointer rows | embed, delete, reconcile | vectors follow the text | reordered jobs, rollbacks |
| Accounts (`services/auth_service.py`) | users, refresh tokens, OTPs | register, login, refresh, reset, change e-mail | a token or code is used once | concurrent use |
| Generated sections and model routing (`services/generation_service.py`, `llm/model_router.py`) | sections, preference, model catalogue, usage rows | generate, choose, count | tokens of the profile, the tally and the usage agree | several rows locked across calls to a model |
| Recruiters' search and its pills (`services/portfolio_service.py`, `services/popular_search_service.py`) | a cache of pills | search, count, rank, verify | what is counted is found; pills lead somewhere; hours that meet are seen | midnight, far timezones, boundaries of filters |
| Pricing, dashboard, usage report, RBAC, notifications, storage | mostly none of their own | reads, CRUD, I/O | - | cache as for entitlements |

## 2. What is modelled

| Module | Stands for |
|---|---|
| `Tables` | Postgres rows under READ COMMITTED: committed rows, each session's uncommitted ones, row locks |
| `QuotaStore`, `Quota` | the Redis counter and the Postgres row of one user and feature, their operations and faults; `QuotaService.consume`, `release`, `used` and the request transaction around them |
| `QuotaLedger` | the abstract promise: units are booked under a limit, then performed, given back or burned |
| `Entitlements` | `EntitlementService.get`, `EntitlementCache`, the writers' commit, invalidate and bump |
| `Billing` | `BillingService`, grant and revoke of `SubscriptionAdminService`, the sweep and the revalidation of `jobs_billing`, on `Tables` |
| `PlanHolding` | the abstract promise: a key is claimed once together with its plan, a trial is given once, a user holds at most one plan |
| `Portfolio` | `PortfolioService`, `DomainService`, `ChatfolioResolver`: settings, publishing, aliases, domains, redirects, on `Tables` |
| `Chat` | `ChatService`, `GenerationService`, the tokens of `parse_cv_job`, `ModelRouter`, on `Tables` |
| `Meetings` | `MeetingService` and the Google connection, on `Tables` |
| `Conversations` | `Chat` and `Meetings` composed: one candidate, the same sessions and tables |
| `Pipeline` | profile facts, sections and CVs, the arq queue, the worker and the vector store, on `Tables` |
| `Accounts` | `AuthService` and the administration of users in `AdminService`, on `Tables` |
| `Hours`, `Search`, `PopularSearch` | operators: `hours_overlap`; `search_published` and `count_published`; `rank_candidates` and `_verify` |
| `Quota_proofs`, `Entitlements_proofs`, `Billing_proofs`, `Portfolio_proofs`, `Conversations_proofs`, `Pipeline_proofs`, `Accounts_proofs`, `Hours_proofs` | theorems |
| `MC_*` | instances for TLC |

`Quota` is shown to implement `QuotaLedger`. The modules whose requests spend
units (`Portfolio`, `Chat`, `Meetings`) do not repeat its Redis calls: they reserve a unit
under the limit, keep it, give it back or lose it with the request, as the ledger
does, and they keep the owner's counter row locked from `consume` to the end of the
transaction, as `_upsert` does.

The sets of operations and the actions that begin one (`Operations`, `Tasks`, `Begin`, `Arrive`)
are mapped to the routes: a route is what starts an operation, and what it takes is its input.

On `Tables`, one action is one SQL statement, one ORM flush, or one call to
something outside, with what the code does up to the next one. `Commit` publishes a session's
draft; `Abort` (an error, a cancellation, the victim of a deadlock) drops it. A
flush writes the columns that differ from what the session read: that is why a
lost update is possible in one column and not in the one beside it.

### Quota

State: `redis[w]` is the counter `q:<user>:<feature>:<period_key>` of window
`w`; `usage[w]` the committed row; `draft[w]` and `lock[w]` the row as the
transaction that locks it left it. Per request: `pc`, the key it computed first
(`key`), the window each later helper computes anew (`asked`), and which window
of each store carries its unit (`unit`, `row`). `performed` and `leaked` are
history: actions that committed, units in Redis that nothing backs.

One action is one round trip. `Start` computes the key; `EvalGrants`,
`EvalDenies`, `EvalMissing` are the outcomes of the Lua script; `SeedRead` and
`SeedSet` are `_seed`; `UpsertUnit` counts the unit on the row; `DbConsume` and
`DbDenies` are `_db_consume`; `WorkFails`, `Release`, `UndoRow`, `Rollback` are the
failure path of the callers (`chat_service.send_message`,
`meeting_service.schedule_meeting`, `portfolio_service.publish`); `Rollback` may
strike anywhere, which covers cancellation, a failed commit and a killed
process. `EvalAnswerLost` is a script that ran although its caller saw an
exception.

Abstractions. `amount` is 1, as in every call of `consume` and `release`.
`_db_consume`'s upsert of 0 and its `SELECT ... FOR UPDATE` are one step: the first
already holds the lock; were the window to turn between the two, `scalar_one`
finds no row and the request rolls back, as `Rollback` does. Keys of earlier
windows are kept: `seconds_until_period_end` adds three days. Limit and period
do not change during a behaviour; the entitlements read before each call are the
other module's subject. `used()` returns a number nobody stores, so only the
seeding it does is kept.

### Entitlements

One user. `subscription`, `override` and `catalog` are what the three statements
of `_resolve` read, `version` and `cache[v]` the two kinds of Redis key. A request
is `Begin`, `ReadVersion`, `CacheHit` or `CacheMiss`, three reads, `ReadVersion` again,
`SetEntitlements`; a writer is a commit, then `ReadVersionToInvalidate` and
`Invalidate`, or `BumpCatalogVersion`. Dates are ticks from now and `Tick` brings
them closer, so no clock value grows; what has been expired longer than any
request lives needs no exact age. `fill` in an entry is history.

Abstractions. Feature values are opaque. One override stands for the per-feature
overrides, whose earliest expiry is what counts. Sub-second truncation of the TTL
is not visible in ticks: TTLs in the code are never longer than in the model. A
missing default plan ends the request with a 503 and writes nothing. A plan edit
of a plan the user does not hold changes no answer.

### Billing

State: `db` and `draft` (from `Tables`) hold the rows of licences and
subscriptions; a purchase, a trial and a grant each have one possible
subscription row. `lock[u]` is the advisory lock. Per session: `pc`, `job` (what
it does, for whom, which row it will insert), `found` (the subscription it read
as active) and `until` (the end it computed). Ends are ticks from now.

Activation is `Activate` (the key is in no record yet), `Verified` or `Dismissed`
(the seller, outside any lock), `LockUser`, `ReadActive`, `Cancel`, `ClaimKey`,
`InsertSubscription`, `Commit`; `Clash` is the IntegrityError of any of them with
the rollback to the savepoint. A trial is `StartTrial`, `LockUser`, `Eligible`,
`NothingRunning`, `InsertSubscription`, `Commit`. Admin grants and plan revocations
enter at `ReadActive` without the lock. Licence revocation, by an admin
(`RevokeLicence`) or the revalidation job (`Revalidate`, `Rechecked`), is
`VoidLicence`, `ReadOwn`, `Cancel`, `Commit`. SQLAlchemy's autoflush writes the licence
before the order is loaded and the order before the subscription is selected.
`Abort` may strike at any statement: cancellation, a lost connection, or the
victim of Postgres' deadlock detection. `ExpireJob` is the hourly UPDATE.

Abstractions. An order and its licence are one row: they are inserted in one
savepoint and change status together. Keys already in our records are answered
without a state change and not started again, except when they enter the records
after the lookup (`Clash`). The throttle of wrong keys and the purchase-age rule
only refuse more. The end of a subscription that is no longer active is kept
as 0, because nobody reads it. A uniqueness check waits for an uncommitted UPDATE
of a clashing row as for an INSERT, as Postgres does.

### Portfolio

State: rows of pages (slug, former slug, published), aliases and domains; per
session `pc`, `job`, the page and row it read (`mine`, `found`), and whether it holds a
unit (`unit`); the plan of each user, the advisory locks per user and kind, and the units
`spent`. `Begin` starts an operation of one of the routers; `Open` reads the page (or
`Create` makes it); `Check` is `_slug_exists` and `_ensure_slug_available`, the look-ups in both
tables; `LockStock` and `Room` are `lock_stock` and the count; `Reserve` and `CountUnit`
consume; `WriteRow` and `WriteFails` are the flush with the unique indexes, `DropOldest`
the replacement of a domain, `Commit` and `Abort` the end. A change of plan is a step of
the environment. What a visitor gets is the operators `Resolve`, `Redirects`, `Shown`, and
what the owner is told is `InPlan`; each is written from its own code.

Left out: page visits; whether the sections are ready for `publish` (a free choice);
badge and theme columns; DNS. An administrator's unpublish is the owner's.

### Chat

State: rows of chats (answered, refusals, flag), what is known of the recruiter of
each, the profile's `ai_tokens_used`, the tally and the usage per model; the messages of a chat,
chats still in their cooldown, units, the preference, the plan's and the catalogue's
models. A message is `Read`, `Scold` (the cooldown, committed before the error),
`Admit` (the room in the chat and the token budget), `Reserve` and `CountUnit` for a first
message, `Listen` and `Note` (the classifier and the metadata), `Answer`, `Record` (usage
of the model), `Meter` (the profile), `UpsertTokens`, `Commit`. Generated sections and CV
jobs share the last four. A generation of several sections repeats them in one transaction.

Left out: what is said, except what is heard of the recruiter's name and company; a
call costs one token; the cache of the catalogue; retrieval (`Pipeline` says what can be
found).

### Meetings

A recruiter's request (`LockCandidate`, `CheckRequests`, `ReserveMeeting`, `Lookup`, `Refresh`,
`SaveToken`, `Book`, `RecordRequest`, `CommitMeeting`), the candidate's own booking without
the lock, the callback of the consent screen (`Exchange`, `Save`) and the disconnection
(`Revoke`, `Delete`). Google may refuse, lose its answer (`AnswerLost`), or have the
access withdrawn (`Withdraw`); tokens are told apart by the consent they come from, and a
connection by the consent that inserted it (`id`), because the ORM updates and deletes the
row it read. Of a revocation the code looks at no answer: `Revoke` may leave the grant
valid and goes on to `Delete`; only an answer that does not come ends the request
(`GoogleFails`). `asked` is history: the tokens whose revocation was asked for.

### Pipeline

State: `db` with the items' text and approval, the pointer rows and the status of CVs; `vectors`
(Chroma), `queue` (a bag: jobs may be taken in any order), `audit` (a worker that starts
and reconciles). A request writes, then enqueues before it commits, as the code does;
`Take` starts a job; `Embed`, `Find`, `Point`, `PointerMoved` are `embed_content_job`, `Load`, `Mark`,
`Parse` are `parse_cv_job`; `JobFails` is whatever ends a job outside its `try`: the database
before it begins to parse, arq's time limit, a failed commit; `Restart` loses the running jobs, `LoseVector` a vector, and `Reconcile` is the start-up job.
`tangled`, `lost`, `orphans` are history: the items whose steps overlapped, those whose
vector was lost, and the CVs that no job will take up again.

Left out: what a parsed CV writes into the profile; a text stands for its embedding.

### Accounts

Rows of accounts and of secrets: refresh tokens, reset links, confirmations of an
address, codes. Only who holds a secret can present it, so a secret is its row.
Each operation of `AuthService` and the three of the administrator is an action that begins it;
then `Spend`, `Owner`, `Untaken`, `Code` are its queries, `WriteRows` and `RevokeAll` its
writes, `Commit` and `Abort` its ends. `uses`, `contested`, `resets`, `disturbed` are history.

Left out: roles; expiry and wrong codes, which only refuse; the administrator is none
of the modelled accounts; a phone number is a boolean; a challenge between password and
code survives a reset, as in the code. A statement on several rows is one step once
none of them is locked. The victim of a deadlock is an `Abort`.

### Hours, Search, PopularSearch

Pure code, as operators. A timezone is its offset; a change of offset between two days
is left out. A text is a number and a profile says where a text occurs in it. The
four-word limit of a pill and the pills' cache are left out. `Search` and `PopularSearch`
state what they promise as ASSUMEs over small universes, which TLC evaluates in the run
`portfolio_pages`: what is counted is what is found, up to the limit, and
filters only take away (`CountIsWhatIsFound`); nobody is of two bands of experience (`BandsAreDisjoint`), the row of pills is full and varied whatever
the search finds for each candidate (`RowIsVariedAndFull`), and a pill narrower than its topic keeps
its share of it (`NarrowPillsKeepTheirShare`).

## 3. The runs

| Run | Instance | Shows |
|---|---|---|
| `quota_gate` | 3 requests, limit 2, one window, Redis steadily up or down | `NoOveruse`, `GateCovers`, `NoOvercharge`; `ImplementsLedger` (refinement) |
| `quota_faults` | 2 requests, limit 1, 2 windows, outages and losses | `TypeOK`, `DurableExact`, `EveryRequestEnds` |
| `quota_loss` | 2 requests, limit 1, losses | `NoOveruse` is violated (finding) |
| `entitlements_clean` | 2 requests, 2 writers, 2 edits | `StaleOnlyByOverlap` |
| `entitlements_faults` | 1 request, 1 writer, TTL 2, Redis failures, crash, eviction | `TypeOK`, `ServesUnexpired`, `StalenessEnds` |
| `entitlements_stale` | 1 request, 1 writer, no faults | `NextCallSeesChange` is violated (finding) |
| `billing_race` | 2 sessions, 2 users (one with a verified phone), 1 key, 1 grant, a term plan and a lifetime plan | `TypeOK`, `OneActive`, `DeadlockTakesARevocation`, `PlansEndForAReason`, `RenewalsAddTheirTerm`; `ImplementsHolding` (refinement) |
| `billing_trial` | 2 users with one phone | `OneTrialPerPhone` is violated (finding) |
| `portfolio_pages` | 2 sessions, 2 users, 5 slugs, 2 hosts, 2 plans | `TypeOK`, `OwnSlugLeadsHome`, `HonouredWithinPlan`, `InPlanMeansItResolves`, `StockWithinPlan`, `ChangesArePaidFor`, `WasteNeedsAStaleRead`, `OldSlugStillLeadsHome`; the ASSUMEs of `Search` and `PopularSearch` |
| `conversations` | 2 sessions, 2 chats, 2 consents, 1 model beside the default | `ConversationsTypeOK`, `SoftLimitsHold`, `DeadlockTakesTwoModels`, `OneBookingAtATime`, `EventsArePaidFor`, `OnlyOverlapLoses`, `FlagSticks`, `ConnectionFollowsConsent` |
| `pipeline` | 2 sessions, a fact, a section, a CV, 2 texts, 2 faults | `TypeOK`, `GroundedAtRest`, `EveryUploadEnds` |
| `accounts` | 2 sessions, 3 rows of each kind, 2 addresses, 2 passwords, 5 menus of operations | `TypeOK`, `OneAccountPerAddress`, `SpentOnce`, `SessionsEndWithReset` |

Many properties say "unless another session changed what this one had read". The
code takes few locks, so the plain statement would be false, and known to be; what is
checked is that overlap is the *only* way to lose something. Such a property bounds a
hazard rather than catching it: `OldSlugStillLeadsHome`, `WasteNeedsAStaleRead`,
`OnlyOverlapLoses`, `GroundedAtRest`, `SpentOnce` and `SessionsEndWithReset` except the
overlap their hazard names, `EveryUploadEnds` the failures that no code handles, and
`SoftLimitsHold` what is under way together. Where a lock is meant
to exclude the overlap (`StockWithinPlan`, `OneBookingAtATime`), the property has no such exception.

Why the bounds are enough. With a limit of 2 and `MaxUnits` 3 three requests can
be granted, denied, fail and retry, and one more unit than the limit would be
seen. Two windows give every helper a boundary to fall on. Two edits and two
writers give an invalidation between another writer's commit and its own. The
proofs remove the bounds for all of these properties but liveness.
In billing, one key, one trial and one grant give a user three sources of a plan,
so every operation meets a plan from another one; two sessions give every pair of
operations every interleaving; a chosen end of 2 and a term of 1 tell stacking from
overwriting. Sessions are interchangeable, so `Symmetry` permutes them; users are
not, as one of them has the phone.

In `portfolio_pages`, two requests or changes of plan (`MaxRequests` 2) from three tables
(a page; two pages and a domain; a page with an alias) give every pair of operations, at
every interleaving, on every kind of row; the plans allow 2 slugs and no domain, or 3
and one, so that each can be at, below and above its limit. In `conversations`, the three
first chats are new, answered, or flagged after one more refusal; two requests
(`MaxBegun` 2) of any kind overlap, with the plan's messages, chats and tokens at 2 so that one more is too
many; one model beside the default is enough for a request to be answered by two. That a
connection is deleted and another inserted under a third request takes three: the proof covers it. In
`pipeline`, two requests leave up to three jobs that run in any order, beside two
faults; two texts tell an old one from a new one. In `accounts`, the sixteen operations
are split into five overlapping menus of up to five, because any four requests of all sixteen are too many;
each menu holds the operations that write the same rows. Four requests are a login,
a reset, and two that race with what these left.

The start states of the quota runs are those of an idle system: no key in Redis, any usage up to
the limit in the current window.

### Seen in the models, with no run of their own

With the model of the quota, by changing the
bounds of `quota_loss`: `NoOveruse` also fails with `Faults = {"outage"}` (units
granted under the row lock are unknown to a key that survives the outage) and
with `LastWindow = 1` (a unit granted on the old window's key is counted on the
new window's row by `_upsert`, and a release goes to the new window's counter);
`NoOvercharge` fails at a window boundary. The class doc calls a unit reserved by
a transaction that rolls back conservative; the last two go beyond that.

In billing:

* A revocation locks licence and order before the subscription, an activation
  the subscription before the order. When a user submits a key twice, the first
  request commits and the licence is revoked while the second is between the
  seller's answer and its claim, each waits for the other until Postgres kills
  one. `DeadlockTakesARevocation` says that nothing else deadlocks.
* After a second key stacked on the first, revoking the first licence ends
  nothing (its subscription is already cancelled, its time lives on in the
  second's), and revoking the second takes the first one's time too.
  `revalidate_licenses_job` no longer visits the first. Re-submitting the first key,
  meant to be idempotent, now answers that it expired.
* Activating a term plan over a lifetime plan cancels the lifetime plan.
* `src/docs/PRICING_ENTITLEMENTS_PLAN.md:353-354` says
  "a network error or non-200 never" ends a subscription, while
  `billing/support_kori.py:52-54` reads every 4xx other than 401 and 403 as `valid=False`,
  which `revalidate_license` turns into a revocation. The model does not say why
  the seller answered "not valid".

In the other modules:

* Two publishes or renames of one page that overlap both pay; one unit buys nothing.
* Two requests can give the same slug to a page and to another's alias; the page wins
  (`OwnSlugLeadsHome`), the alias leads nowhere. Two pages that left the same slug make
  the redirect's look-up find two rows and fail.
* A request that generates several sections and is answered by two models can deadlock
  with another (`DeadlockTakesTwoModels`); chats and CV jobs cannot by themselves.
* A parse job taken before the upload commits is dropped and the CV stays PENDING, as it
  does when the job fails before or at its first commit (`workers/jobs_cv.py:36-43`, outside
  the `try`); one that ran out of time or could not save stays PROCESSING. arq does not run
  them again and no endpoint retries them (`orphans` in `EveryUploadEnds`).
* `google_oauth_client.py:91-92` says that "a revoke failure shouldn't block deleting our own local
  copy". A refused revocation does not, and the connection goes while its grant is still
  valid, so `ConnectionFollowsConsent` says only that Google was asked. A revocation that is not
  answered (`httpx` raises) does: the request ends and the connection stays.
* An access token that was refreshed while the candidate reconnected is written over the new
  connection's, beside the new refresh token, and may come from a withdrawn consent.
* Two requests that present one refresh token together both get a new pair.
* The count of wrong codes (`services/auth_service.py:407`) is rolled back by the error raised
  after it, so `otp_max_attempts` is never reached; `chat_service.py:225-227` explains why
  the cooldown commits first. `refresh()` of an inactive account loses its revocation the
  same way (`auth_service.py:138-140`).
* `hours_overlap` compares "across adjacent days so overnight windows in far timezones
  still meet" (`portfolio_service.py:84`). Four to noon in Auckland (+13:00) shares an
  hour with ten to six in Honolulu (-10:00), but of two days before: not found
  (theorem `FarHoursAreMissed`).
* The filter of experience has the bands 0-2, 3-5 and 6+ years: who began between two and three
  years ago is in none.
* A pill's count has no cap while its click shows at most 25, and the pills are cached for an hour,
  within which what they lead to may be unpublished.

### Fairness

`Quota!FairSpec`: weak fairness of each request's own steps, because the event
loop resumes a coroutine whose reply has come, and strong fairness of the steps
that wait for the row lock, because Postgres grants a row to its waiters in turn
whoever else passes. Starting, faults and the clock have no fairness.
`Entitlements!FairSpec`: weak fairness of requests and writers; strong fairness of
`Tick`, because time passes between requests.
`Pipeline!Spec`: weak fairness of each session's own steps (every call has a time limit), of
taking a job while one waits (the worker polls its queue), and of `Reconcile` (a starting
worker runs it to the end). Requests, faults and restarts have none.
The other modules state no liveness: a request there ends when its callers' timeouts do.

## 4. What is proved

Every type invariant, every safety invariant, every action property and both refinements
that the passing runs check are theorems, for every value of the constants: any number of
sessions, users, keys, chats, items, and any limits and plans. `PROJECT.json` lists them; each
`*_proofs` module opens its sections with the argument. The assumptions are named in the
modules: `StoreAssumption`, `QuotaAssumption`, `EntitlementsAssumption`, `BillingAssumption`,
`PortfolioAssumption`, `ChatAssumption`, `MeetingsAssumption`, `ConversationsAssumption`,
`PipelineAssumption`, `AccountsAssumption` say what the constants are (marks like `Absent` are
no rows; the sets that are counted are finite: there are finitely many sessions and chats).
`FirstTablesAreUnique` and the two `FirstTablesAssumption` say what the database may hold at
the start: rows of their types that meet the unique indexes and the foreign keys.

The proofs share a form. `NextCases` splits a step into the actions; a lemma per kind of step
says what it does to the tables (`TableSteps`, `CommitEffect`, ...); and each part of the inductive invariant
is kept by a session's own step and by the steps of the others, which are proved apart. Where
the invariant says much more than the property (`GroundInv`, `WorkInv`, `EndsInv`), TLC had checked it
before on the instance of the run.

### Quota

* `DurableExactness`: `usage = performed` under every fault. The invariant adds
  that the draft of a locked row is the committed value plus the unit of the
  request that holds it, and that a request at work holds the lock of its row.
* `NoOverchargeInOneWindow`: the counter is at most row + units in flight +
  leaked. The invariant bounds what a request has read for a seed (`seen`) by the
  row, which never shrinks.
* `NoOveruseWithoutFaults`, `GateCoversWithoutFaults`: in one window without
  faults, Redis is up for ever or down for ever; the invariant (`GateInv`) says which gate has
  granted what, so that counter and row each bound the actions performed. The
  findings show that neither condition can go.
* `QuotaImplementsLedger` (`ImplementsLedger`, under the same conditions). While Redis answers,
  the ledger's holders are the reservations in the counter, and the two bounds above make the
  counter equal to all that is booked: the script's check is the ledger's. When
  it never answers, the holder is the request with the row lock, which keeps it while it works
  and while it gives up (`RowHeld`), so `_db_consume` finds nobody else holding a unit.

### Entitlements

* `NothingExpiredIsServed`: `valid_until` of every entry and of every snapshot
  being built is the earliest end in it; `Tick` preserves that.
* `InvalidationIsComplete`: an entry filled with current data can contradict the
  database only while a writer that has not finished will still delete it or
  raise the version past it.

### Billing

* `AtMostOneActive`: the unique index compares an insert with committed rows and
  with rows others wrote. The invariant: no session sees two active
  subscriptions of a user (`OneSeen`), and at most one transaction is about to
  make one active (`OneWriter`). Types need that an uncommitted licence belongs to an
  activation that will commit its subscription with it (`Claims`).
* `WorkInv` says what a transaction has read and written by when: only the active
  subscription it found, which it cancels, and its own target, which is in no committed row
  until then; at its commit it has written both. From it and `OneSeen`,
  what was active when an activation, a trial or a grant commits is exactly what it
  cancels (`ReplacesWhatItFound`), hence `PlansOnlyEndForAReason`.
* `RenewalsAlwaysAddTheirTerm`: the end an activation computed continues the term it found for
  as long as that row is active (`EndsInv`): rows only end or age, and `Tick` ages the
  computed end with the row's.
* `DeadlockAlwaysTakesARevocation`: follow a circle of waiting sessions. Advisory locks lead to
  sessions that wait for rows, rows to sessions that are about to claim a key or to insert,
  keys to ones about to insert; two that wait to insert for one user would both have cancelled the user's
  single active row, and two of one user beyond the lock would share it.
* `BillingImplementsPlanHolding` (`ImplementsHolding`): a commit is a claim, a gift, an end or a
  revocation according to its operation, the sweep is an end, and nothing else is seen. It
  takes `WorkInv` (which rows a commit changes), `OneCommitted` (what a user holds), and that a
  revocation which found its subscription inactive will not find it active later.

### Portfolio

* `TypeInv` says what a request that writes a row back has read of it, and that its page stays.
* `NamesInv`: each unique index holds of what every transaction sees, and no two open
  transactions have written one name, so a commit, which checks nothing, brings no two rows with
  a name together. From it `OwnSlugAlwaysLeadsHome` and `InPlanAlwaysMeansItResolves`;
  `HonouredAlwaysWithinPlan` adds that fewer aliases than the plan allows are among the oldest.
* `StockAlwaysWithinPlan`: who adds to an owner's stock holds the owner's lock from before it
  counts until it commits (`StockInv`), so what it counted can only have shrunk.
* `ChangesAlwaysPaidFor`, `WasteAlwaysNeedsAStaleRead`: what a request found when it decided not to
  pay is what it writes back, column by column, and units in flight plus spent stay under the
  limit (`UnitsInv`).
* `OldSlugAlwaysLeadsHome`: the rename writes the slug it read as the former one.

### Conversations (Chat, Meetings)

* `BookingsOneAtATime`: of the sessions past the candidate's advisory lock there is one, and what
  its checks found is not changed by the others (`LocksInv`, `ChecksHold`).
* `EventsAlwaysPaidFor`: events = meetings recorded + units of requests that have booked + answers that were
  lost (`UnitsInv`).
* `FlagAlwaysSticks`: a reply that is stored carries the flag and the counter of the committed
  row, because its lock keeps refusals out, and a refusal counts from a row that was
  committed (`ChatsInv`).
* `SoftLimitsAlwaysHold`: what is counted and what under way has passed the comparison exceed
  the limit by the other sessions at most (`LimitsInv`).
* `OnlyOverlapEverLoses`, `ConnectionAlwaysFollowsConsent`: what a request writes is what it read,
  changed (`OverlapInv`, `ConsentInv`). A pending write of
  the connection is fixed by its operation: a callback's consent, a refresh of the row that was
  read, or its deletion, after `asked` has the token that was read in it.
* `DeadlockAlwaysTakesTwoModels`: a row is written by one transaction at a time, in the order of its
  steps, so what it has locked says how far it has come (`LocksInv`); only a generation
  of several sections that is answered by a second model starts over with a lock in hand.

### Pipeline

* `TypeCorrect` says which operations reach which step, with what they have read and written: no job
  has an empty text, and an object that is written back was read.
* `GroundedWheneverAtRest`: `GroundInv` follows an orderly item (one that nothing entangled, or
  that a lone clean request is about to set right): it has at most one job, only after its request has
  written, on the text its row is to have; whatever could interfere entangles it; a restart
  puts the one job back once; and the reconciliation embeds the pointer's own text.

### Accounts

* `AlwaysOneAccountPerAddress`: addresses are unique in the committed rows, in each session's view, and
  between the drafts of two sessions, from the index's test and its wait (`AddressInv`); and
  nobody deletes an account for which another session has a new secret, from the foreign key's locks (`OwnerInv`).
* `SecretsSpentOnce`: a spent secret is unusable and no open request that found it is uncontested
  (`SpendInv`).
* `SessionsAlwaysEndWithReset`: an undisturbed reset sees no usable token of its account at its commit, and the
  eras of open requests and of their drafts are those of the last reset (`ResetInv`).

### Hours

`OverlapIsShared`, `OverlapIsSymmetric`, `NearHoursAreFound`, `FarHoursAreMissed`: what `hours_overlap`
finds is a minute both work; it is symmetric although only one side is moved; it
misses nobody whose working days are at most L minutes and whose timezones are at most
1441 - L minutes apart; and beyond that it does. The argument is linear: a window of day d is
that of day 0 moved by 1440 d (`EveryDay`), and begins within a day of midnight UTC up to the
offset (`Bounds`), so a shared minute bounds d.

### What the proofs changed, and what stays with TLC

Attempts that failed corrected the models: a new portfolio row must be one that no
session has taken (`Fresh`), the grants that `Meetings` starts with are those of the connection,
and the tables a behaviour starts with must meet the indexes.

Model-checked only: liveness (`EveryRequestEnds`, `StalenessEnds`, `EveryUploadEnds`), which is out of
the prover's reach. What `Search` and `PopularSearch` promise is
evaluated for small universes; it goes through folds over sequences, where proofs would
need induction over data.

## 5. Not modelled

Roles and permissions, audit rows, pricing, the dashboard, the usage report, the
list of viewers, feedback, geolocation, storage, notifications, configuration and the HTTP
layer: reads, CRUD in one transaction, or I/O without state of its own. Of billing:
the throttle of wrong keys, the reminders, the order, limit and session of the
revalidation batch, and plan resolution. The cache invalidation after each commit is
`Entitlements`'. The model catalogue and the pricing page are cached under the catalogue
version as entitlements are, without a key per user. LLM output, prompts,
formatting, mail and SMS texts are out of scope.

## 6. Plan

1. What `Search` promises of experience bands and filters for every profile, as far as it
   needs no induction over the sequence of pages.
2. A refinement of the stock of aliases and domains and of the meeting units by `QuotaLedger`'s
   booking discipline, which `Portfolio` and `Meetings` use in place of `Quota`'s Redis calls.
3. Liveness and the folds of `PopularSearch` stay with TLC.
