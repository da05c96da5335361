------------------------------- MODULE Portfolio -------------------------------
(***************************************************************************)
(* Public pages and what leads to them: services/portfolio_service.py      *)
(* (settings, publishing, aliases), services/domain_service.py (custom     *)
(* domains) and services/chatfolio_resolver.py (which page a slug shows).  *)
(*                                                                         *)
(* One action of a session is one statement, or one call to the quota.     *)
(* A slug is looked up in two tables and unique in each of them, never in  *)
(* both.  The number of aliases and domains is checked under an advisory   *)
(* lock per user and kind; a publish or a rename spends a unit of the      *)
(* plan, whose gate is the ledger that Quota implements, and keeps the     *)
(* user's counter row locked until the request ends.                       *)
(*                                                                         *)
(* The ORM writes back the columns that differ from what the request read  *)
(* and no others; it does so when the request flushes or queries next,     *)
(* which for an alias renamed and switched on at once is just before the   *)
(* count and here after it.  What publish() finds of sections and name is  *)
(* a free choice, and page visits are left out.                            *)
(***************************************************************************)
EXTENDS Tables, Integers, FiniteSets

CONSTANTS
    Users,
    Slugs,
    Generated,     \* the random slugs of new pages, which nobody asks for by name
    Hosts,         \* the names of custom domains
    LinkIds,       \* the identities of the aliases, in the order of their creation
    DomainIds,     \* the identities of the domains, in the order of their creation
    Plans,
    LinksMax,      \* LinksMax[p]: how many slugs plan p allows a page, or Unlimited
    DomainsMax,    \* DomainsMax[p]: how many custom domains plan p allows, or Unlimited
    PublishLimit,  \* how many publishes and renames the window has units for
    FirstTables,   \* bound: the rows there may be at the start
    NoSlug,        \* no slug: no page yet, or no former slug
    NoHost,        \* the request is not about a domain name
    Nobody,        \* the slug leads to no page, or the lock is free
    NoJob,         \* the session is idle
    NoRow,         \* the request has read no alias or domain
    MaxRequests    \* bound: requests and changes of plan in a behaviour

Unlimited == -1

Page(u) == <<"page", u>>
Link(l) == <<"link", l>>
Domain(d) == <<"domain", d>>

Pages == {Page(u) : u \in Users}
LinkRows == {Link(l) : l \in LinkIds}
DomainRows == {Domain(d) : d \in DomainIds}

PageRow == [slug : Slugs, former : Slugs \cup {NoSlug}, published : BOOLEAN]

LinkRow == [owner : Users, slug : Slugs, active : BOOLEAN]

DomainRow == [owner : Users, host : Hosts]

ASSUME PortfolioAssumption ==
    /\ Rows = Pages \cup LinkRows \cup DomainRows
    /\ LinkIds \subseteq Nat /\ DomainIds \subseteq Nat
    /\ IsFiniteSet(LinkIds) /\ IsFiniteSet(DomainIds)
    /\ LinksMax \in [Plans -> Nat \cup {Unlimited}]
    /\ DomainsMax \in [Plans -> Nat \cup {Unlimited}]
    /\ PublishLimit \in Nat
    /\ \A table \in FirstTables : \A i \in DOMAIN table :
          /\ i \in Pages \cup LinkRows \cup DomainRows
          /\ i \in Pages => table[i] \in PageRow
          /\ i \in LinkRows => table[i] \in LinkRow
          /\ i \in DomainRows => table[i] \in DomainRow
    /\ Generated \subseteq Slugs
    /\ NoSlug \notin Slugs /\ NoHost \notin Hosts
    /\ Nobody \notin Users \cup Sessions
    /\ NoRow \notin Rows
    /\ Absent # Unwritten
    /\ {Absent, Unwritten} \cap (PageRow \cup LinkRow \cup DomainRow) = {}
    /\ MaxRequests \in Nat

VARIABLES
    plan,      \* plan[u]: the plan u is on
    lock,      \* lock[<<kind, u>>]: the session that holds u's lock of that kind
    pc,        \* where each session is
    job,       \* what it does, for whom, and with which names
    mine,      \* the user's page as the session read it, or Absent
    target,    \* the alias or domain it works on, or NoRow
    found,     \* that alias or domain as it read it, or Absent
    unit,      \* whether the session holds a publish unit
    spent,     \* spent[u]: the units of u used up
    burned,    \* burned[u]: the units of u lost with their request
    begun,     \* the requests and plan changes so far
    changes,   \* history: changes[u], the publications and renames that took effect
    held       \* history: held[u], the plans u has been on

jobVars == <<pc, job, mine, target, found>>
unitVars == <<unit, spent, burned>>
historyVars == <<begun, changes, held>>
vars == <<tableVars, plan, lock, jobVars, unitVars, historyVars>>

Kinds == {"links", "domains", "units"}

Operations == {"settings", "rename", "publish", "unpublish", "addAlias", "editAlias",
               "dropAlias", "addDomain", "swapDomain", "dropDomain"}

\* `slug` is NoSlug and `active` "keep" for what a change of an alias leaves alone.
Job == [op : Operations, user : Users, slug : Slugs \cup {NoSlug}, host : Hosts \cup {NoHost},
        active : {"keep", "on", "off"}]

Steps == {"idle", "open", "create", "check", "reserve", "count", "lock", "room", "drop",
          "write", "commit"}

-----------------------------------------------------------------------------
(* Rows *)

Exists(row) == row \notin {Absent, Unwritten}

LinksOf(rows, u) == {l \in LinkIds : Exists(rows[Link(l)]) /\ rows[Link(l)].owner = u}

ActiveLinks(rows, u) == {l \in LinksOf(rows, u) : rows[Link(l)].active}

DomainsOf(rows, u) == {d \in DomainIds : Exists(rows[Domain(d)]) /\ rows[Domain(d)].owner = u}

\* The rows as a statement of s sees them.
View(s) == [i \in Rows |-> Seen(s, i)]

\* _slug_exists(), _ensure_slug_available() and _ensure_alias_slug_available(): no other
\* row of the two tables has the slug.
Taken(rows, slug, self) ==
    \E i \in (Pages \cup LinkRows) \ {self} : Exists(rows[i]) /\ rows[i].slug = slug

\* The unique indexes on the slugs of pages, the slugs of aliases and the host names.
SameKey(i, row, j, other) ==
    /\ i # j /\ Exists(row) /\ Exists(other)
    /\ \/ i \in Pages /\ j \in Pages /\ row.slug = other.slug
       \/ i \in LinkRows /\ j \in LinkRows /\ row.slug = other.slug
       \/ i \in DomainRows /\ j \in DomainRows /\ row.host = other.host

ASSUME FirstTablesAreUnique ==
    \A table \in FirstTables : \A i, j \in DOMAIN table : ~SameKey(i, table[i], j, table[j])

Clashes(s, i, row) ==
    \/ \E j \in Rows : SameKey(i, row, j, Seen(s, j))
    \/ pc[s] = "create" /\ Exists(Seen(s, i))

\* A write waits for who wrote the row, or a row it may clash with, before.
WriteWaits(s, i, row) ==
    \/ ~Writable(s, i)
    \/ \E o \in Sessions \ {s}, j \in Rows :
          draft[o][j] # Unwritten /\ (SameKey(i, row, j, draft[o][j]) \/ SameKey(i, row, j, db[j]))

\* An UPDATE of the columns that differ from what was read.
Updated_WholeRow(read, new, current) == new

Updated(read, new, current) ==
    [c \in DOMAIN new |-> IF new[c] = read[c] THEN current[c] ELSE new[c]]

-----------------------------------------------------------------------------
(* What a visitor gets: ChatfolioResolver.resolve_published and the redirect. *)

\* The first n of a set of identities, which are in the order of creation.
Oldest(ids, n) == {x \in ids : Cardinality({y \in ids : y < x}) < n}

\* The aliases the plan still honours: the primary slug takes one of its places.
Allowed_AllPlaces(max, count) == IF max = Unlimited THEN count ELSE max

Allowed(max, count) ==
    IF max = Unlimited THEN count ELSE IF max > 0 THEN max - 1 ELSE 0

Honoured(u) ==
    LET active == ActiveLinks(db, u)
    IN  Oldest(active, Allowed(LinksMax[plan[u]], Cardinality(active)))

PublishedPage(u) == Exists(db[Page(u)]) /\ db[Page(u)].published

ByPrimary(x) == {u \in Users : PublishedPage(u) /\ db[Page(u)].slug = x}

ByAlias(x) ==
    {u \in Users : PublishedPage(u) /\ \E l \in Honoured(u) : db[Link(l)].slug = x}

Resolve_AliasesFirst(x) ==
    IF ByAlias(x) # {} THEN ByAlias(x) ELSE ByPrimary(x)

Resolve(x) == IF ByPrimary(x) # {} THEN ByPrimary(x) ELSE ByAlias(x)

\* find_redirect_target(): the published pages that left the slug.
Redirects(x) == {u \in Users : PublishedPage(u) /\ db[Page(u)].former = x}

\* The owners of the pages that GET /public/chatfolio/{slug} shows, itself or by a redirect.
\* Two pages that left the same slug make the request fail.
Shown(x) == IF Resolve(x) # {} THEN Resolve(x) ELSE Redirects(x)

\* list_aliases(): the aliases the owner is told are in the plan.
InPlan_CountsInactive(u) ==
    LET links == LinksOf(db, u)
    IN  {l \in Oldest(links, Allowed(LinksMax[plan[u]], Cardinality(links))) :
            db[Link(l)].active}

InPlan(u) ==
    LET links == LinksOf(db, u)
        active == {l \in links : db[Link(l)].active}
    IN  Oldest(active, Allowed(LinksMax[plan[u]], Cardinality(links)))

-----------------------------------------------------------------------------
IsTable(rows, none) ==
    /\ rows = [i \in Rows |-> rows[i]]
    /\ \A i \in Pages : rows[i] \in PageRow \cup {none}
    /\ \A i \in LinkRows : rows[i] \in LinkRow \cup {none, Absent}
    /\ \A i \in DomainRows : rows[i] \in DomainRow \cup {none, Absent}

TypeOK ==
    /\ IsTable(db, Absent)
    /\ draft = [s \in Sessions |-> draft[s]]
    /\ \A s \in Sessions : IsTable(draft[s], Unwritten)
    /\ plan \in [Users -> Plans]
    /\ lock \in [Kinds \X Users -> Sessions \cup {Nobody}]
    /\ pc \in [Sessions -> Steps]
    /\ job \in [Sessions -> Job \cup {NoJob}]
    /\ mine \in [Sessions -> PageRow \cup {Absent}]
    /\ target \in [Sessions -> LinkRows \cup DomainRows \cup {NoRow}]
    /\ found \in [Sessions -> LinkRow \cup DomainRow \cup {Absent}]
    /\ unit \in [Sessions -> BOOLEAN]
    /\ spent \in [Users -> Nat]
    /\ burned \in [Users -> Nat]
    /\ begun \in 0..MaxRequests
    /\ changes \in [Users -> Nat]
    /\ held \in [Users -> SUBSET Plans]

AtMost(count, limits) == Unlimited \in limits \/ \E n \in limits : count <= n

\* Aliases and domains never outnumber the best plan the owner has been on, whatever
\* requests of the owner overlap (lock_stock, then count, then insert).
StockWithinPlan ==
    \A u \in Users :
        /\ ActiveLinks(db, u) # {} =>
              AtMost(1 + Cardinality(ActiveLinks(db, u)), {LinksMax[p] : p \in held[u]})
        /\ AtMost(Cardinality(DomainsOf(db, u)), {DomainsMax[p] : p \in held[u]} \cup {0})

Init ==
    /\ plan \in [Users -> Plans]
    /\ held = [u \in Users |-> {plan[u]}]
    /\ \E table \in FirstTables :
        db = [i \in Rows |-> IF i \in DOMAIN table THEN table[i] ELSE Absent]
    /\ StockWithinPlan
    /\ draft = [s \in Sessions |-> Blank]
    /\ lock = [k \in Kinds \X Users |-> Nobody]
    /\ pc = [s \in Sessions |-> "idle"]
    /\ job = [s \in Sessions |-> NoJob]
    /\ mine = [s \in Sessions |-> Absent]
    /\ target = [s \in Sessions |-> NoRow]
    /\ found = [s \in Sessions |-> Absent]
    /\ unit = [s \in Sessions |-> FALSE]
    /\ spent = [u \in Users |-> 0]
    /\ burned = [u \in Users |-> 0]
    /\ begun = 0
    /\ changes = [u \in Users |-> 0]

-----------------------------------------------------------------------------
Goto(s, step) == pc' = [pc EXCEPT ![s] = step]

\* The transaction of s is over, and with it the locks it held.
Leave(s) ==
    /\ Goto(s, "idle")
    /\ job' = [job EXCEPT ![s] = NoJob]
    /\ mine' = [mine EXCEPT ![s] = Absent]
    /\ target' = [target EXCEPT ![s] = NoRow]
    /\ found' = [found EXCEPT ![s] = Absent]
    /\ unit' = [unit EXCEPT ![s] = FALSE]
    /\ lock' = [k \in Kinds \X Users |-> IF lock[k] = s THEN Nobody ELSE lock[k]]

\* The request is refused before it wrote anything.
Refuse(s) == Leave(s) /\ DiscardRows(s) /\ UNCHANGED <<plan, spent, burned, historyVars>>

\* The jobs that make sense: a slug, a host or a switch for who needs one.
Jobs ==
    {j \in Job :
        /\ j.slug \notin Generated
        /\ j.op \in {"rename", "addAlias"} => j.slug # NoSlug
        /\ j.op \notin {"rename", "addAlias", "editAlias"} => j.slug = NoSlug
        /\ (j.op \in {"addDomain", "swapDomain"}) = (j.host # NoHost)
        /\ j.op # "editAlias" => j.active = "keep"
        /\ j.op = "editAlias" => j.slug # NoSlug \/ j.active # "keep"}

\* The routes of api/v1/portfolio_settings.py and api/v1/custom_domain.py.
Begin(s) ==
    /\ pc[s] = "idle" /\ begun < MaxRequests
    /\ \E j \in Jobs : job' = [job EXCEPT ![s] = j]
    /\ begun' = begun + 1
    /\ Goto(s, "open")
    /\ UNCHANGED <<tableVars, plan, lock, mine, target, found, unitVars, changes, held>>

OwnerOf(s) == job[s].user

Op(s) == job[s].op

\* The aliases or domains among which the request finds its own: get_domain() and
\* remove_domain() without an identity take the oldest, which is one of them.
Targets(s) ==
    CASE Op(s) \in {"editAlias", "dropAlias"} -> {Link(l) : l \in LinksOf(View(s), OwnerOf(s))}
      [] Op(s) = "dropDomain" -> {Domain(d) : d \in DomainsOf(View(s), OwnerOf(s))}
      [] OTHER -> {NoRow}

\* Where a request goes once it has its page, and its alias or domain if it needs one.
AfterOpen_AlwaysPays(s, page, row) ==
    IF Op(s) = "publish" THEN "reserve" ELSE "commit"

AfterOpen(s, page, row) ==
    CASE Op(s) = "settings" -> "commit"
      [] Op(s) = "rename" -> IF job[s].slug = page.slug THEN "commit" ELSE "check"
      [] Op(s) = "publish" -> IF page.published THEN "write" ELSE "reserve"
      [] Op(s) = "unpublish" -> IF page.published THEN "write" ELSE "commit"
      [] Op(s) = "editAlias" -> IF job[s].slug \notin {NoSlug, row.slug} THEN "check"
                               ELSE IF job[s].active = "on" /\ ~row.active THEN "lock"
                               ELSE "write"
      [] Op(s) \in {"dropAlias", "dropDomain"} -> "write"
      [] OTHER -> "lock"

\* get_or_create_for_user() found or made the page; then the request reads its alias or
\* domain, and is refused (404) if there is none.
Opened(s, page) ==
    IF Targets(s) = {} THEN Refuse(s)
    ELSE \E i \in Targets(s) :
            LET row == IF i = NoRow THEN Absent ELSE Seen(s, i)
            IN  /\ mine' = [mine EXCEPT ![s] = page]
                /\ target' = [target EXCEPT ![s] = i]
                /\ found' = [found EXCEPT ![s] = row]
                /\ Goto(s, AfterOpen(s, page, row))
                /\ UNCHANGED <<tableVars, plan, lock, job, unitVars, historyVars>>

Open(s) ==
    /\ pc[s] = "open"
    /\ LET page == Seen(s, Page(OwnerOf(s)))
       IN  IF Exists(page) THEN Opened(s, page)
           ELSE \E x \in Generated :
                   /\ ~Taken(View(s), x, NoRow)
                   /\ mine' = [mine EXCEPT ![s] =
                         [slug |-> x, former |-> NoSlug, published |-> FALSE]]
                   /\ Goto(s, "create")
                   /\ UNCHANGED <<tableVars, plan, lock, job, target, found, unitVars,
                                  historyVars>>

\* The insert of the page, in a savepoint: who loses the race uses the winner's page.
Create(s) ==
    LET i == Page(OwnerOf(s))
    IN  /\ pc[s] = "create" /\ ~WriteWaits(s, i, mine[s])
        /\ IF Clashes(s, i, mine[s]) /\ ~Exists(Seen(s, i)) THEN Refuse(s)
           ELSE /\ IF Clashes(s, i, mine[s]) THEN UNCHANGED draft ELSE Write(s, i, mine[s])
                /\ mine' = [mine EXCEPT ![s] = Absent]
                /\ Goto(s, "open")
                /\ UNCHANGED <<db, plan, lock, job, target, found, unitVars, historyVars>>

-----------------------------------------------------------------------------
(* Checks *)

Step(s, next) ==
    /\ Goto(s, next)
    /\ UNCHANGED <<tableVars, plan, lock, job, mine, target, found, unitVars, historyVars>>

SlugTaken(s) ==
    Taken(View(s), job[s].slug,
          IF Op(s) = "rename" THEN Page(OwnerOf(s)) ELSE target[s])

HostTaken(s) ==
    \E i \in DomainRows : Exists(Seen(s, i)) /\ Seen(s, i).host = job[s].host

AfterCheck(s) ==
    CASE Op(s) = "rename" -> "reserve"
      [] Op(s) = "addDomain" -> "room"
      [] Op(s) = "swapDomain" -> "drop"
      [] Op(s) = "editAlias" /\ job[s].active = "on" /\ ~found[s].active -> "lock"
      [] OTHER -> "write"

\* The name is looked up; the row that takes it is written later.
Check(s) ==
    /\ pc[s] = "check"
    /\ IF IF job[s].host # NoHost THEN HostTaken(s) ELSE SlugTaken(s)
       THEN Refuse(s)
       ELSE Step(s, AfterCheck(s))

KindOf(s) == IF Op(s) \in {"addDomain", "swapDomain"} THEN "domains" ELSE "links"

LockStock_Unlocked(s) ==
    /\ pc[s] = "lock"
    /\ Step(s, IF KindOf(s) = "links" THEN "room" ELSE "check")

\* lock_stock(): pg_advisory_xact_lock, one per user and kind.
LockStock(s) ==
    LET key == <<KindOf(s), OwnerOf(s)>>
    IN  /\ pc[s] = "lock" /\ lock[key] = Nobody
        /\ lock' = [lock EXCEPT ![key] = s]
        /\ Goto(s, IF KindOf(s) = "links" THEN "room" ELSE "check")
        /\ UNCHANGED <<tableVars, plan, job, mine, target, found, unitVars, historyVars>>

\* What the owner has of the kind: domains, or the primary slug and every active alias.
StockOf(s) ==
    IF KindOf(s) = "domains" THEN Cardinality(DomainsOf(View(s), OwnerOf(s)))
    ELSE 1 + Cardinality(ActiveLinks(View(s), OwnerOf(s)))

LimitOf(s) ==
    IF KindOf(s) = "domains" THEN DomainsMax[plan[OwnerOf(s)]] ELSE LinksMax[plan[OwnerOf(s)]]

\* ensure_room(): one more must fit.
HasRoom(limit, count) == limit = Unlimited \/ count < limit

Room(s) ==
    /\ pc[s] = "room"
    /\ IF HasRoom(LimitOf(s), StockOf(s))
       THEN Step(s, IF Op(s) = "addAlias" THEN "check" ELSE "write")
       ELSE Refuse(s)

\* The units of u that the gate counts.
Booked(u) ==
    spent[u] + burned[u] + Cardinality({s \in Sessions : unit[s] /\ job[s].user = u})

\* consume(): the gate grants a unit, or refuses the request ...
Reserve(s) ==
    /\ pc[s] = "reserve"
    /\ IF Booked(OwnerOf(s)) >= PublishLimit THEN Refuse(s)
       ELSE /\ unit' = [unit EXCEPT ![s] = TRUE]
            /\ Goto(s, "count")
            /\ UNCHANGED <<tableVars, plan, lock, job, mine, target, found, spent, burned,
                           historyVars>>

\* ... and the unit is counted on the user's row, which stays locked.
CountUnit(s) ==
    LET key == <<"units", OwnerOf(s)>>
    IN  /\ pc[s] = "count" /\ lock[key] = Nobody
        /\ lock' = [lock EXCEPT ![key] = s]
        /\ Goto(s, "write")
        /\ UNCHANGED <<tableVars, plan, job, mine, target, found, unitVars, historyVars>>

\* publish() finds a section that is not approved, or no name, before it looks at the page.
NotReady(s) ==
    /\ pc[s] = "open" /\ Op(s) = "publish" /\ draft[s] = Blank
    /\ Refuse(s)

-----------------------------------------------------------------------------
(* Writes *)

\* The row the request writes: a page or an alias changed, a new one, or none.
Renamed_NewFirst(page, slug) == [page EXCEPT !.slug = slug, !.former = slug]

Renamed(page, slug) == [page EXCEPT !.former = page.slug, !.slug = slug]

Edited_Overwrites(row, slug, active) ==
    [row EXCEPT !.slug = slug, !.active = active = "on"]

Edited(row, slug, active) ==
    [row EXCEPT !.slug = IF slug = NoSlug THEN @ ELSE slug,
                !.active = IF active = "keep" THEN @ ELSE active = "on"]

Changed(s) ==
    CASE Op(s) = "rename" -> Renamed(mine[s], job[s].slug)
      [] Op(s) = "publish" -> [mine[s] EXCEPT !.published = TRUE]
      [] Op(s) = "unpublish" -> [mine[s] EXCEPT !.published = FALSE]
      [] OTHER -> Edited(found[s], job[s].slug, job[s].active)

NewRow(s) ==
    CASE Op(s) = "addAlias" -> [owner |-> OwnerOf(s), slug |-> job[s].slug, active |-> TRUE]
      [] OTHER -> [owner |-> OwnerOf(s), host |-> job[s].host]

\* The identities are uuids: none goes to a second row while a request is at work on the first.
Fresh(i) == db[i] = Absent /\ \A s \in Sessions : target[s] # i

\* The rows it may write: its own, or a fresh one.
Place(s) ==
    CASE Op(s) \in {"rename", "publish", "unpublish"} -> {Page(OwnerOf(s))}
      [] Op(s) = "addAlias" -> {i \in LinkRows : Fresh(i)}
      [] Op(s) \in {"addDomain", "swapDomain"} -> {i \in DomainRows : Fresh(i)}
      [] OTHER -> {target[s]}

\* The row after the write, given the row the statement finds.
Row(s, i) ==
    CASE Op(s) \in {"dropAlias", "dropDomain"} -> Absent
      [] Op(s) \in {"addAlias", "addDomain", "swapDomain"} -> NewRow(s)
      [] OTHER -> Updated(IF i \in Pages THEN mine[s] ELSE found[s], Changed(s), Seen(s, i))

\* An alias that is edited may be gone by now: the ORM then fails.
Gone(s, i) == Op(s) = "editAlias" /\ Seen(s, i) = Absent

WriteRow(s) ==
    /\ pc[s] = "write"
    /\ \E i \in Place(s) :
        /\ Writable(s, i) /\ ~Gone(s, i)
        /\ ~WriteWaits(s, i, Row(s, i)) /\ ~Clashes(s, i, Row(s, i))
        /\ Write(s, i, Row(s, i))
    /\ Goto(s, "commit")
    /\ UNCHANGED <<db, plan, lock, job, mine, target, found, unitVars, historyVars>>

\* The statement fails: a unit that was reserved is released, and all is rolled back.
WriteFails(s) ==
    /\ pc[s] = "write"
    /\ \E i \in Place(s) :
        /\ Writable(s, i)
        /\ ~Gone(s, i) => ~WriteWaits(s, i, Row(s, i)) /\ Clashes(s, i, Row(s, i))
    /\ Refuse(s)

\* replace_domain() deletes the oldest domain before it looks for room.
DropOldest(s) ==
    LET ids == DomainsOf(View(s), OwnerOf(s))
    IN  /\ pc[s] = "drop"
        /\ IF ids = {} THEN UNCHANGED draft
           ELSE \E d \in Oldest(ids, 1) : Write(s, Domain(d), Absent)
        /\ Goto(s, "room")
        /\ UNCHANGED <<db, plan, lock, job, mine, target, found, unitVars, historyVars>>

\* What a commit of s changes about u's page: its slug, or that it becomes public.
Effective(s, u) ==
    LET old == db[Page(u)]
        new == Seen(s, Page(u))
    IN  Exists(old) /\ (old.slug # new.slug \/ (new.published /\ ~old.published))

Commit(s) ==
    /\ pc[s] = "commit"
    /\ CommitRows(s)
    /\ spent' = [spent EXCEPT ![OwnerOf(s)] = IF unit[s] THEN @ + 1 ELSE @]
    /\ changes' = [u \in Users |-> IF Effective(s, u) THEN changes[u] + 1 ELSE changes[u]]
    /\ Leave(s)
    /\ UNCHANGED <<plan, burned, begun, held>>

\* The client goes away, the process dies or the commit fails: nothing is released.
Abort(s) ==
    /\ pc[s] # "idle"
    /\ DiscardRows(s)
    /\ burned' = [burned EXCEPT ![OwnerOf(s)] = IF unit[s] THEN @ + 1 ELSE @]
    /\ Leave(s)
    /\ UNCHANGED <<plan, spent, historyVars>>

\* A plan is bought, granted, edited, or ends.
ChangePlan(u) ==
    /\ begun < MaxRequests
    /\ begun' = begun + 1
    /\ plan' \in {[plan EXCEPT ![u] = p] : p \in Plans \ {plan[u]}}
    /\ held' = [held EXCEPT ![u] = @ \cup {plan'[u]}]
    /\ UNCHANGED <<tableVars, lock, jobVars, unitVars, changes>>

-----------------------------------------------------------------------------
Proceed(s) ==
    \/ Open(s) \/ Create(s) \/ Check(s) \/ LockStock(s) \/ Room(s)
    \/ Reserve(s) \/ CountUnit(s) \/ NotReady(s)
    \/ DropOldest(s) \/ WriteRow(s) \/ WriteFails(s) \/ Commit(s)

Next ==
    \/ \E s \in Sessions : Begin(s) \/ Proceed(s) \/ Abort(s)
    \/ \E u \in Users : ChangePlan(u)

Spec == Init /\ [][Next]_vars

-----------------------------------------------------------------------------
(* Properties *)

\* A published page is shown under its own slug, whatever aliases and redirects others
\* managed to give the same slug (resolve_published: the primary slug comes first).
OwnSlugLeadsHome ==
    \A u \in Users : PublishedPage(u) => Shown(db[Page(u)].slug) = {u}

\* The slugs that lead to a page, its own included, never outnumber the plan the owner is
\* on now, however many aliases an earlier plan allowed (ChatfolioResolver).
HonouredWithinPlan ==
    \A u \in Users : LinksMax[plan[u]] \notin {Unlimited, 0} =>
        Cardinality({x \in Slugs : u \in Resolve(x)}) <= LinksMax[plan[u]]

\* What the owner is told (list_aliases) is what visitors get (resolve_published): an alias
\* is "in plan" exactly if it leads to the page or another page has its slug as its own.
InPlanMeansItResolves ==
    \A u \in Users : PublishedPage(u) =>
        \A l \in LinksOf(db, u) :
            l \in InPlan(u) <=>
                /\ db[Link(l)].active
                /\ u \in ByAlias(db[Link(l)].slug)

\* Every publication and every rename that takes effect was paid for with a unit, and the
\* units never exceed the plan's limit, even when the request acted on a page that others
\* had changed since it was read (publish, update_settings).
ChangesArePaidFor ==
    \A u \in Users : changes[u] <= spent[u] /\ Booked(u) <= PublishLimit

\* A unit is used up in vain only by a request that acted on a page another had changed
\* since: two publishes or two renames that overlap.
WasteNeedsAStaleRead ==
    [][\A s \in Sessions :
          pc[s] = "commit" /\ unit[s] /\ spent'[OwnerOf(s)] > spent[OwnerOf(s)] =>
              \/ changes'[OwnerOf(s)] > changes[OwnerOf(s)]
              \/ mine[s] # db[Page(OwnerOf(s))]]_vars

\* Right after a rename that nothing overlapped, the old slug of a published page still
\* leads to it, unless another page or alias has a claim on that slug (previous_slug).
OldSlugStillLeadsHome ==
    [][\A u \in Users, x \in Slugs :
          (/\ PublishedPage(u) /\ PublishedPage(u)'
           /\ db[Page(u)].slug = x /\ db'[Page(u)].slug # x
           /\ \A s \in Sessions : pc[s] = "commit" /\ pc'[s] = "idle" => mine[s] = db[Page(u)])
          => Shown(x)' = {u} \/ Taken(db', x, Page(u)) \/ Redirects(x)' \ {u} # {}]_vars
=============================================================================
