--------------------------- MODULE Portfolio_proofs ---------------------------
(***************************************************************************)
(* What is proved of Portfolio for every value of its constants: any       *)
(* number of sessions, users, slugs, aliases, domains and plans.           *)
(***************************************************************************)
EXTENDS Portfolio, FiniteSetTheorems, TLAPS

\* What a step of the system is, with one hypothesis for each action.
LEMMA NextCases ==
    ASSUME NEW P, [Next]_vars,
           ASSUME NEW s \in Sessions, Begin(s) PROVE P,
           ASSUME NEW s \in Sessions, Open(s) PROVE P,
           ASSUME NEW s \in Sessions, Create(s) PROVE P,
           ASSUME NEW s \in Sessions, Check(s) PROVE P,
           ASSUME NEW s \in Sessions, LockStock(s) PROVE P,
           ASSUME NEW s \in Sessions, Room(s) PROVE P,
           ASSUME NEW s \in Sessions, Reserve(s) PROVE P,
           ASSUME NEW s \in Sessions, CountUnit(s) PROVE P,
           ASSUME NEW s \in Sessions, NotReady(s) PROVE P,
           ASSUME NEW s \in Sessions, DropOldest(s) PROVE P,
           ASSUME NEW s \in Sessions, WriteRow(s) PROVE P,
           ASSUME NEW s \in Sessions, WriteFails(s) PROVE P,
           ASSUME NEW s \in Sessions, Commit(s) PROVE P,
           ASSUME NEW s \in Sessions, Abort(s) PROVE P,
           ASSUME NEW u \in Users, ChangePlan(u) PROVE P,
           ASSUME UNCHANGED vars PROVE P
    PROVE  P
BY DEF Next, Proceed

-----------------------------------------------------------------------------
(* Rows *)

LEMMA RowNames ==
    /\ Pages \subseteq Rows /\ LinkRows \subseteq Rows /\ DomainRows \subseteq Rows
    /\ Pages \cap LinkRows = {} /\ Pages \cap DomainRows = {} /\ LinkRows \cap DomainRows = {}
    /\ \A i \in Rows : i \in Pages \/ i \in LinkRows \/ i \in DomainRows
    /\ \A u \in Users : Page(u) \in Pages
    /\ \A l \in LinkIds : Link(l) \in LinkRows
    /\ \A d \in DomainIds : Domain(d) \in DomainRows
    /\ \A u, v : Page(u) = Page(v) => u = v
    /\ \A l, m : Link(l) = Link(m) => l = m
    /\ \A d, e : Domain(d) = Domain(e) => d = e
    /\ NoRow \notin LinkRows \cup DomainRows
BY PortfolioAssumption DEF Pages, LinkRows, DomainRows, Page, Link, Domain

\* A row of a table is none of the marks.
LEMMA RowsAreReal ==
    /\ \A row \in PageRow \cup LinkRow \cup DomainRow : row # Absent /\ row # Unwritten
    /\ Absent # Unwritten
BY PortfolioAssumption

\* An UPDATE of some columns of a row leaves a row, column by column.
LEMMA UpdatedPage ==
    ASSUME NEW read \in PageRow, NEW new \in PageRow, NEW current \in PageRow
    PROVE  /\ Updated(read, new, current) \in PageRow
           /\ Updated(read, new, current).slug =
                 IF new.slug = read.slug THEN current.slug ELSE new.slug
           /\ Updated(read, new, current).former =
                 IF new.former = read.former THEN current.former ELSE new.former
           /\ Updated(read, new, current).published =
                 IF new.published = read.published THEN current.published ELSE new.published
<1> DEFINE row == [slug |-> IF new.slug = read.slug THEN current.slug ELSE new.slug,
                   former |-> IF new.former = read.former THEN current.former ELSE new.former,
                   published |-> IF new.published = read.published THEN current.published
                                 ELSE new.published]
<1>1. DOMAIN new = {"slug", "former", "published"}
  BY DEF PageRow
<1>2. Updated(read, new, current) = row
  BY <1>1 DEF Updated
<1>3. row \in PageRow
  BY DEF PageRow
<1>4. QED
  BY <1>2, <1>3

LEMMA UpdatedLink ==
    ASSUME NEW read \in LinkRow, NEW new \in LinkRow, NEW current \in LinkRow
    PROVE  /\ Updated(read, new, current) \in LinkRow
           /\ Updated(read, new, current).owner =
                 IF new.owner = read.owner THEN current.owner ELSE new.owner
           /\ Updated(read, new, current).slug =
                 IF new.slug = read.slug THEN current.slug ELSE new.slug
           /\ Updated(read, new, current).active =
                 IF new.active = read.active THEN current.active ELSE new.active
<1> DEFINE row == [owner |-> IF new.owner = read.owner THEN current.owner ELSE new.owner,
                   slug |-> IF new.slug = read.slug THEN current.slug ELSE new.slug,
                   active |-> IF new.active = read.active THEN current.active ELSE new.active]
<1>1. DOMAIN new = {"owner", "slug", "active"}
  BY DEF LinkRow
<1>2. Updated(read, new, current) = row
  BY <1>1 DEF Updated
<1>3. row \in LinkRow
  BY DEF LinkRow
<1>4. QED
  BY <1>2, <1>3

\* What the requests make of a page and of an alias.
LEMMA RenamedPage ==
    ASSUME NEW page \in PageRow, NEW slug \in Slugs
    PROVE  /\ Renamed(page, slug) \in PageRow
           /\ Renamed(page, slug).slug = slug
           /\ Renamed(page, slug).former = page.slug
           /\ Renamed(page, slug).published = page.published
BY DEF Renamed, PageRow

LEMMA SwitchedPage ==
    ASSUME NEW page \in PageRow
    PROVE  /\ LET new == [page EXCEPT !.published = TRUE]
              IN  new \in PageRow /\ new.slug = page.slug /\ new.published
           /\ LET new == [page EXCEPT !.published = FALSE]
              IN  new \in PageRow /\ new.slug = page.slug /\ ~new.published
BY DEF PageRow

LEMMA EditedLink ==
    ASSUME NEW row \in LinkRow, NEW slug \in Slugs \cup {NoSlug},
           NEW active \in {"keep", "on", "off"}
    PROVE  /\ Edited(row, slug, active) \in LinkRow
           /\ Edited(row, slug, active).owner = row.owner
           /\ Edited(row, slug, active).active =
                 IF active = "keep" THEN row.active ELSE active = "on"
BY DEF Edited, LinkRow

-----------------------------------------------------------------------------
(***************************************************************************)
(* Types.  A request that writes back a row it read needs to know what it  *)
(* read: its page, and for an alias that alias.  The page is there for the *)
(* rest of the request, because pages are never deleted.                   *)
(***************************************************************************)
TablesOK ==
    /\ IsTable(db, Absent)
    /\ draft = [s \in Sessions |-> draft[s]]
    /\ \A s \in Sessions : IsTable(draft[s], Unwritten)

SessionsOK ==
    /\ lock \in [Kinds \X Users -> Sessions \cup {Nobody}]
    /\ pc \in [Sessions -> Steps]
    /\ job \in [Sessions -> Job \cup {NoJob}]
    /\ mine \in [Sessions -> PageRow \cup {Absent}]
    /\ target \in [Sessions -> LinkRows \cup DomainRows \cup {NoRow}]
    /\ found \in [Sessions -> LinkRow \cup DomainRow \cup {Absent}]
    /\ unit \in [Sessions -> BOOLEAN]

CountersOK ==
    /\ plan \in [Users -> Plans]
    /\ spent \in [Users -> Nat]
    /\ burned \in [Users -> Nat]
    /\ begun \in 0..MaxRequests
    /\ changes \in [Users -> Nat]
    /\ held \in [Users -> SUBSET Plans]

Stocking == {"addAlias", "editAlias", "addDomain", "swapDomain"}

\* What the job of a session at work is, by where the session is.
JobOK(s) ==
    /\ job[s] \in Jobs
    /\ pc[s] = "check" => Op(s) \in Stocking \cup {"rename"}
    /\ pc[s] \in {"lock", "room"} => Op(s) \in Stocking
    /\ pc[s] = "drop" => Op(s) = "swapDomain"
    /\ pc[s] \in {"reserve", "count"} => Op(s) \in {"rename", "publish"}
    /\ pc[s] = "write" => Op(s) # "settings"
    /\ pc[s] = "create" => mine[s] \in PageRow

Opening == {"idle", "open", "create"}

\* What a session that has its page has read.
ReadOK(s) ==
    /\ mine[s] \in PageRow
    /\ Seen(s, Page(OwnerOf(s))) \in PageRow
    /\ Op(s) \in {"editAlias", "dropAlias"} => target[s] \in LinkRows /\ found[s] \in LinkRow
    /\ Op(s) = "dropDomain" => target[s] \in DomainRows
    /\ Op(s) \notin {"editAlias", "dropAlias", "dropDomain"} => target[s] = NoRow

Placed(s) ==
    /\ pc[s] # "idle" => JobOK(s)
    /\ pc[s] \notin Opening => ReadOK(s)
    /\ pc[s] \in Opening => target[s] = NoRow
    /\ pc[s] = "idle" => draft[s] = Blank /\ unit[s] = FALSE

JobsOK == \A s \in Sessions : Placed(s)

TypeInv == TablesOK /\ SessionsOK /\ CountersOK /\ JobsOK

-----------------------------------------------------------------------------
(* The three things a step can do to the tables keep them tables. *)

IsRow(i, row) ==
    \/ i \in Pages /\ row \in PageRow
    \/ i \in LinkRows /\ row \in LinkRow \cup {Absent}
    \/ i \in DomainRows /\ row \in DomainRow \cup {Absent}

LEMMA SeenType ==
    ASSUME TablesOK, NEW s \in Sessions
    PROVE  /\ \A i \in Pages : Seen(s, i) \in PageRow \cup {Absent}
           /\ \A i \in Pages : db[i] # Absent => Seen(s, i) \in PageRow
           /\ \A i \in LinkRows : Seen(s, i) \in LinkRow \cup {Absent}
           /\ \A i \in DomainRows : Seen(s, i) \in DomainRow \cup {Absent}
BY RowsAreReal DEF TablesOK, IsTable, Seen

LEMMA WriteKeepsTables ==
    ASSUME TablesOK, NEW s \in Sessions, NEW i, NEW row, IsRow(i, row),
           Write(s, i, row), UNCHANGED db
    PROVE  TablesOK'
<1>1. i \in Rows
  BY RowNames DEF IsRow
<1>2. draft' = [o \in Sessions |-> draft'[o]]
  BY DEF Write, TablesOK
<1>3. ASSUME NEW o \in Sessions PROVE IsTable(draft'[o], Unwritten)
  <2>1. CASE o = s
    <3>1. draft'[o] = [draft[o] EXCEPT ![i] = row]
      BY <2>1 DEF Write, TablesOK
    <3>2. QED
      BY <1>1, <3>1, RowNames DEF TablesOK, IsTable, IsRow
  <2>2. CASE o # s
    BY <2>2 DEF Write, TablesOK
  <2>3. QED
    BY <2>1, <2>2
<1>4. QED
  BY <1>2, <1>3 DEF TablesOK

LEMMA BlankTable == IsTable(Blank, Unwritten)
BY RowNames DEF IsTable, Blank

LEMMA DiscardKeepsTables ==
    ASSUME TablesOK, NEW s \in Sessions, DiscardRows(s)
    PROVE  TablesOK'
BY BlankTable DEF TablesOK, DiscardRows

LEMMA CommitKeepsTables ==
    ASSUME TablesOK, NEW s \in Sessions, CommitRows(s)
    PROVE  TablesOK'
<1>1. IsTable(db', Absent)
  BY SeenType, RowNames DEF CommitRows, IsTable
<1>2. QED
  BY <1>1, BlankTable DEF TablesOK, CommitRows

\* A write changes one row of one draft, a row nobody else has written.
LEMMA WriteEffect ==
    ASSUME TablesOK, NEW s \in Sessions, NEW i \in Rows, NEW row, Write(s, i, row)
    PROVE  /\ \A o \in Sessions, j \in Rows :
                 draft'[o][j] = IF o = s /\ j = i THEN row ELSE draft[o][j]
           /\ \A o \in Sessions : o # s => draft'[o] = draft[o] /\ draft[o][i] = Unwritten
BY DEF TablesOK, IsTable, Write, Writable

\* A discard or a commit empties one draft.
LEMMA BlankEffect ==
    ASSUME TablesOK, NEW s \in Sessions, draft' = [draft EXCEPT ![s] = Blank]
    PROVE  /\ \A o \in Sessions, j \in Rows :
                 draft'[o][j] = IF o = s THEN Unwritten ELSE draft[o][j]
           /\ \A o \in Sessions : o # s => draft'[o] = draft[o]
           /\ draft'[s] = Blank
BY DEF TablesOK, Blank

\* What an alias or a domain of u is, row by row.
LEMMA StockRows ==
    ASSUME NEW rows, NEW u
    PROVE  /\ \A l : l \in LinksOf(rows, u) <=>
                 l \in LinkIds /\ Exists(rows[Link(l)]) /\ rows[Link(l)].owner = u
           /\ \A l : l \in ActiveLinks(rows, u) <=>
                 l \in LinksOf(rows, u) /\ rows[Link(l)].active
           /\ \A d : d \in DomainsOf(rows, u) <=>
                 d \in DomainIds /\ Exists(rows[Domain(d)]) /\ rows[Domain(d)].owner = u
BY DEF LinksOf, ActiveLinks, DomainsOf

\* The aliases and domains a statement of s finds are rows.
LEMMA ViewRows ==
    ASSUME TablesOK, NEW s \in Sessions, NEW u
    PROVE  /\ \A l \in LinksOf(View(s), u) :
                 Link(l) \in LinkRows /\ Seen(s, Link(l)) \in LinkRow
                 /\ Seen(s, Link(l)).owner = u
           /\ \A d \in DomainsOf(View(s), u) :
                 Domain(d) \in DomainRows /\ Seen(s, Domain(d)) \in DomainRow
                 /\ Seen(s, Domain(d)).owner = u
BY SeenType, RowNames DEF LinksOf, DomainsOf, View, Exists

-----------------------------------------------------------------------------
(* What the writing statements write. *)

LEMMA JobFields ==
    ASSUME TypeInv, NEW s \in Sessions, pc[s] # "idle"
    PROVE  /\ job[s] \in Jobs /\ OwnerOf(s) \in Users /\ Op(s) \in Operations
           /\ job[s].slug \in Slugs \cup {NoSlug} /\ job[s].host \in Hosts \cup {NoHost}
           /\ job[s].active \in {"keep", "on", "off"}
           /\ Op(s) \in {"rename", "addAlias"} => job[s].slug \in Slugs
           /\ Op(s) \in {"addDomain", "swapDomain"} => job[s].host \in Hosts
BY DEF TypeInv, JobsOK, Placed, JobOK, Jobs, Job, OwnerOf, Op

LEMMA PageWritten ==
    ASSUME TypeInv, NEW s \in Sessions, pc[s] = "write",
           Op(s) \in {"rename", "publish", "unpublish"}
    PROVE  LET i == Page(OwnerOf(s))
           IN  /\ Place(s) = {i} /\ i \in Pages
               /\ Changed(s) \in PageRow
               /\ Row(s, i) = Updated(mine[s], Changed(s), Seen(s, i))
               /\ Row(s, i) \in PageRow
<1> DEFINE i == Page(OwnerOf(s))
<1>1. mine[s] \in PageRow /\ Seen(s, i) \in PageRow
  BY DEF TypeInv, JobsOK, Placed, ReadOK, Opening
<1>2. i \in Pages /\ Place(s) = {i}
  BY JobFields, RowNames DEF Place
<1>3. Changed(s) \in PageRow
  <2>1. CASE Op(s) = "rename"
    BY <1>1, <2>1, JobFields, RenamedPage DEF Changed
  <2>2. CASE Op(s) = "publish"
    <3>1. Changed(s) = [mine[s] EXCEPT !.published = TRUE]
      BY <2>2 DEF Changed
    <3>2. QED
      BY <1>1, <3>1, SwitchedPage
  <2>3. CASE Op(s) = "unpublish"
    <3>1. Changed(s) = [mine[s] EXCEPT !.published = FALSE]
      BY <2>3 DEF Changed
    <3>2. QED
      BY <1>1, <3>1, SwitchedPage
  <2>4. QED
    BY <2>1, <2>2, <2>3
<1>4. Row(s, i) = Updated(mine[s], Changed(s), Seen(s, i))
  BY <1>2 DEF Row
<1>5. QED
  BY <1>1, <1>2, <1>3, <1>4, UpdatedPage

LEMMA StockAdded ==
    ASSUME TypeInv, NEW s \in Sessions, pc[s] = "write",
           Op(s) \in {"addAlias", "addDomain", "swapDomain"}, NEW i \in Place(s)
    PROVE  /\ Row(s, i) = NewRow(s) /\ Fresh(i)
           /\ Op(s) = "addAlias" =>
                 /\ i \in LinkRows /\ NewRow(s) \in LinkRow
                 /\ NewRow(s).owner = OwnerOf(s) /\ NewRow(s).active
           /\ Op(s) # "addAlias" =>
                 i \in DomainRows /\ NewRow(s) \in DomainRow /\ NewRow(s).owner = OwnerOf(s)
<1>1. Row(s, i) = NewRow(s) /\ Fresh(i)
  BY DEF Row, Place
<1>2. CASE Op(s) = "addAlias"
  BY <1>1, <1>2, JobFields DEF Place, NewRow, LinkRow
<1>3. CASE Op(s) # "addAlias"
  BY <1>1, <1>3, JobFields DEF Place, NewRow, DomainRow
<1>4. QED
  BY <1>1, <1>2, <1>3

LEMMA StockDropped ==
    ASSUME TypeInv, NEW s \in Sessions, pc[s] = "write",
           Op(s) \in {"dropAlias", "dropDomain"}, NEW i \in Place(s)
    PROVE  /\ i = target[s] /\ Row(s, i) = Absent
           /\ Op(s) = "dropAlias" => i \in LinkRows
           /\ Op(s) = "dropDomain" => i \in DomainRows
BY DEF Place, Row, TypeInv, JobsOK, Placed, ReadOK, Opening

LEMMA AliasEdited ==
    ASSUME TypeInv, NEW s \in Sessions, pc[s] = "write", Op(s) = "editAlias",
           NEW i \in Place(s), ~Gone(s, i)
    PROVE  /\ i = target[s] /\ i \in LinkRows
           /\ Seen(s, i) \in LinkRow /\ Row(s, i) \in LinkRow
           /\ Row(s, i).owner = Seen(s, i).owner
           /\ Row(s, i).active =
                 LET now == IF job[s].active = "keep" THEN found[s].active
                            ELSE job[s].active = "on"
                 IN  IF now = found[s].active THEN Seen(s, i).active ELSE now
<1> DEFINE edited == Edited(found[s], job[s].slug, job[s].active)
<1>1. i = target[s] /\ i \in LinkRows /\ found[s] \in LinkRow
  BY DEF Place, TypeInv, JobsOK, Placed, ReadOK, Opening
<1>2. Seen(s, i) \in LinkRow
  BY <1>1, SeenType DEF Gone, TypeInv
<1>3. Row(s, i) = Updated(found[s], edited, Seen(s, i))
  BY <1>1, RowNames DEF Row, Changed
<1>4. /\ edited \in LinkRow /\ edited.owner = found[s].owner
      /\ edited.active = IF job[s].active = "keep" THEN found[s].active ELSE job[s].active = "on"
  BY <1>1, JobFields, EditedLink
<1>5. QED
  BY <1>1, <1>2, <1>3, <1>4, UpdatedLink

LEMMA RowWritten ==
    ASSUME TypeInv, NEW s \in Sessions, pc[s] = "write", NEW i \in Place(s), ~Gone(s, i)
    PROVE  IsRow(i, Row(s, i))
<1>1. Op(s) \in Operations /\ Op(s) # "settings"
  BY JobFields DEF TypeInv, JobsOK, Placed, JobOK
<1>2. CASE Op(s) \in {"rename", "publish", "unpublish"}
  BY <1>2, PageWritten DEF IsRow
<1>3. CASE Op(s) \in {"addAlias", "addDomain", "swapDomain"}
  BY <1>3, StockAdded DEF IsRow
<1>4. CASE Op(s) \in {"dropAlias", "dropDomain"}
  BY <1>4, StockDropped DEF IsRow
<1>5. CASE Op(s) = "editAlias"
  BY <1>5, AliasEdited DEF IsRow
<1>6. QED
  BY <1>1, <1>2, <1>3, <1>4, <1>5 DEF Operations

\* Which steps leave the tables alone, and what the others do to them.
LEMMA TableSteps ==
    ASSUME NEW P, TypeInv, [Next]_vars,
           ASSUME UNCHANGED tableVars PROVE P,
           ASSUME NEW s \in Sessions, NEW i \in Rows, NEW row, IsRow(i, row),
                  Write(s, i, row), UNCHANGED db,
                  \/ /\ pc[s] = "create" /\ pc'[s] = "open" /\ i = Page(OwnerOf(s))
                     /\ row = mine[s]
                     /\ ~WriteWaits(s, i, row) /\ ~Clashes(s, i, row)
                  \/ /\ pc[s] = "drop" /\ pc'[s] = "room" /\ row = Absent
                     /\ \E d \in DomainsOf(View(s), OwnerOf(s)) : i = Domain(d)
                  \/ /\ pc[s] = "write" /\ pc'[s] = "commit" /\ i \in Place(s) /\ ~Gone(s, i)
                     /\ row = Row(s, i)
                     /\ ~WriteWaits(s, i, row) /\ ~Clashes(s, i, row)
           PROVE P,
           ASSUME NEW s \in Sessions, DiscardRows(s), Leave(s) PROVE P,
           ASSUME NEW s \in Sessions, Commit(s) PROVE P
    PROVE  P
<1> USE DEF TypeInv
<1>1. ASSUME NEW s \in Sessions, Refuse(s) PROVE P
  BY <1>1 DEF Refuse
<1>2. ASSUME NEW s \in Sessions, Begin(s) PROVE P
  BY <1>2 DEF Begin
<1>3. ASSUME NEW s \in Sessions, Open(s) PROVE P
  BY <1>1, <1>3 DEF Open, Opened
<1>4. ASSUME NEW s \in Sessions, Create(s) PROVE P
  <2> DEFINE i == Page(OwnerOf(s))
  <2>1. CASE Clashes(s, i, mine[s])
    BY <1>1, <1>4, <2>1 DEF Create, tableVars
  <2>2. CASE ~Clashes(s, i, mine[s])
    <3>1. /\ Write(s, i, mine[s]) /\ UNCHANGED db /\ pc[s] = "create" /\ pc'[s] = "open"
          /\ ~WriteWaits(s, i, mine[s])
      BY <1>4, <2>2 DEF Create, Goto, SessionsOK
    <3>2. IsRow(i, mine[s]) /\ i \in Rows
      BY <3>1, JobFields, RowNames DEF JobsOK, Placed, JobOK, IsRow
    <3>3. QED
      BY <2>2, <3>1, <3>2
  <2>3. QED
    BY <2>1, <2>2
<1>5. ASSUME NEW s \in Sessions, Check(s) \/ Room(s) PROVE P
  BY <1>1, <1>5 DEF Check, Room, Step
<1>6. ASSUME NEW s \in Sessions, LockStock(s) \/ CountUnit(s) PROVE P
  BY <1>6 DEF LockStock, CountUnit
<1>7. ASSUME NEW s \in Sessions, Reserve(s) PROVE P
  BY <1>1, <1>7 DEF Reserve
<1>8. ASSUME NEW s \in Sessions, NotReady(s) PROVE P
  BY <1>1, <1>8 DEF NotReady
<1>9. ASSUME NEW s \in Sessions, DropOldest(s) PROVE P
  <2> DEFINE ids == DomainsOf(View(s), OwnerOf(s))
  <2>1. CASE ids = {}
    BY <1>9, <2>1 DEF DropOldest, tableVars
  <2>2. CASE ids # {}
    <3>1. PICK d \in Oldest(ids, 1) : Write(s, Domain(d), Absent)
      BY <1>9, <2>2 DEF DropOldest
    <3>2. d \in ids /\ pc[s] = "drop" /\ pc'[s] = "room" /\ UNCHANGED db
      BY <1>9 DEF DropOldest, Oldest, Goto, SessionsOK
    <3>3. Domain(d) \in DomainRows /\ Domain(d) \in Rows
      BY <3>2, RowNames DEF DomainsOf
    <3>4. QED
      BY <3>1, <3>2, <3>3 DEF IsRow
  <2>3. QED
    BY <2>1, <2>2
<1>10. ASSUME NEW s \in Sessions, WriteRow(s) PROVE P
  <2>1. PICK i \in Place(s) :
            /\ ~Gone(s, i)
            /\ ~WriteWaits(s, i, Row(s, i)) /\ ~Clashes(s, i, Row(s, i))
            /\ Write(s, i, Row(s, i))
    BY <1>10 DEF WriteRow
  <2>2. pc[s] = "write" /\ pc'[s] = "commit" /\ UNCHANGED db
    BY <1>10 DEF WriteRow, Goto, SessionsOK
  <2>3. IsRow(i, Row(s, i)) /\ i \in Rows
    BY <2>1, <2>2, RowWritten, RowNames DEF IsRow
  <2>4. QED
    BY <2>1, <2>2, <2>3
<1>11. ASSUME NEW s \in Sessions, WriteFails(s) PROVE P
  BY <1>1, <1>11 DEF WriteFails
<1>12. ASSUME NEW s \in Sessions, Abort(s) PROVE P
  BY <1>12 DEF Abort
<1>13. ASSUME NEW u \in Users, ChangePlan(u) PROVE P
  BY <1>13 DEF ChangePlan
<1>14. ASSUME UNCHANGED vars PROVE P
  BY <1>14 DEF vars
<1>15. QED
  BY NextCases, <1>2, <1>3, <1>4, <1>5, <1>6, <1>7, <1>8, <1>9, <1>10, <1>11, <1>12, <1>13, <1>14

LEMMA TablesTyped ==
    ASSUME TypeInv, [Next]_vars
    PROVE  TablesOK'
<1>0. TablesOK
  BY DEF TypeInv
<1>1. ASSUME UNCHANGED tableVars PROVE TablesOK'
  BY <1>0, <1>1 DEF TablesOK, IsTable, tableVars
<1>2. ASSUME NEW s \in Sessions, NEW i, NEW row, IsRow(i, row), Write(s, i, row), UNCHANGED db
      PROVE  TablesOK'
  BY <1>0, <1>2, WriteKeepsTables
<1>3. ASSUME NEW s \in Sessions, DiscardRows(s) PROVE TablesOK'
  BY <1>0, <1>3, DiscardKeepsTables
<1>4. ASSUME NEW s \in Sessions, Commit(s) PROVE TablesOK'
  BY <1>0, <1>4, CommitKeepsTables DEF Commit
<1>5. QED
  BY TableSteps, <1>1, <1>2, <1>3, <1>4

-----------------------------------------------------------------------------
(* The sessions' own variables and the counters. *)

LEMMA LeaveKeepsSessions ==
    ASSUME SessionsOK, NEW s \in Sessions, Leave(s)
    PROVE  SessionsOK'
BY PortfolioAssumption DEF SessionsOK, Leave, Goto, Steps

LEMMA OpenedType ==
    ASSUME TablesOK, SessionsOK, NEW s \in Sessions, NEW page \in PageRow, Opened(s, page),
           ~Refuse(s)
    PROVE  SessionsOK' /\ UNCHANGED <<plan, spent, burned, historyVars>>
<1>1. PICK i \in Targets(s) :
          /\ mine' = [mine EXCEPT ![s] = page]
          /\ target' = [target EXCEPT ![s] = i]
          /\ found' = [found EXCEPT ![s] = IF i = NoRow THEN Absent ELSE Seen(s, i)]
          /\ Goto(s, AfterOpen(s, page, IF i = NoRow THEN Absent ELSE Seen(s, i)))
          /\ UNCHANGED <<tableVars, plan, lock, job, unitVars, historyVars>>
  BY DEF Opened
<1>2. i \in LinkRows \cup DomainRows \cup {NoRow}
  BY RowNames DEF Targets, LinksOf, DomainsOf
<1>3. (IF i = NoRow THEN Absent ELSE Seen(s, i)) \in LinkRow \cup DomainRow \cup {Absent}
  BY <1>2, SeenType
<1>4. pc' \in [Sessions -> Steps]
  BY <1>1 DEF SessionsOK, Goto, AfterOpen, Steps
<1>5. QED
  BY <1>1, <1>2, <1>3, <1>4 DEF SessionsOK, unitVars

LEMMA SessionsTyped ==
    ASSUME TypeInv, [Next]_vars
    PROVE  SessionsOK'
<1> USE DEF TypeInv
<1>0. ASSUME NEW s \in Sessions, Refuse(s) PROVE SessionsOK'
  BY <1>0, LeaveKeepsSessions DEF Refuse
<1>1. ASSUME NEW s \in Sessions, NEW step \in Steps, Step(s, step) PROVE SessionsOK'
  BY <1>1 DEF SessionsOK, Step, Goto, unitVars
<1>2. ASSUME NEW s \in Sessions, Begin(s) PROVE SessionsOK'
  BY <1>2 DEF SessionsOK, Begin, Goto, Steps, Jobs, unitVars
<1>3. ASSUME NEW s \in Sessions, Open(s) PROVE SessionsOK'
  <2> DEFINE page == Seen(s, Page(OwnerOf(s)))
  <2>0. pc[s] = "open" /\ OwnerOf(s) \in Users
    BY <1>3, JobFields DEF Open
  <2>1. page \in PageRow \cup {Absent}
    BY <2>0, SeenType, RowNames
  <2>2. CASE Exists(page)
    <3>1. page \in PageRow /\ Opened(s, page)
      BY <1>3, <2>1, <2>2 DEF Open, Exists
    <3>2. QED
      BY <1>0, <3>1, OpenedType
  <2>3. CASE ~Exists(page)
    <3>1. PICK x \in Generated :
              /\ mine' = [mine EXCEPT ![s] = [slug |-> x, former |-> NoSlug, published |-> FALSE]]
              /\ Goto(s, "create")
              /\ UNCHANGED <<tableVars, plan, lock, job, target, found, unitVars, historyVars>>
      BY <1>3, <2>3 DEF Open
    <3>2. [slug |-> x, former |-> NoSlug, published |-> FALSE] \in PageRow
      BY PortfolioAssumption DEF PageRow
    <3>3. QED
      BY <3>1, <3>2 DEF SessionsOK, Goto, Steps, unitVars
  <2>4. QED
    BY <2>2, <2>3
<1>4. ASSUME NEW s \in Sessions, Create(s) PROVE SessionsOK'
  BY <1>0, <1>4 DEF SessionsOK, Create, Goto, Steps, unitVars
<1>5. ASSUME NEW s \in Sessions, Check(s) PROVE SessionsOK'
  <2>1. AfterCheck(s) \in Steps
    BY DEF AfterCheck, Steps
  <2>2. QED
    BY <1>0, <1>1, <1>5, <2>1 DEF Check
<1>6. ASSUME NEW s \in Sessions, LockStock(s) PROVE SessionsOK'
  BY <1>6 DEF SessionsOK, LockStock, Goto, Steps, unitVars
<1>7. ASSUME NEW s \in Sessions, Room(s) PROVE SessionsOK'
  BY <1>0, <1>1, <1>7 DEF Room, Steps
<1>8. ASSUME NEW s \in Sessions, Reserve(s) PROVE SessionsOK'
  BY <1>0, <1>8 DEF SessionsOK, Reserve, Goto, Steps
<1>9. ASSUME NEW s \in Sessions, CountUnit(s) PROVE SessionsOK'
  BY <1>9 DEF SessionsOK, CountUnit, Goto, Steps, unitVars
<1>10. ASSUME NEW s \in Sessions, NotReady(s) \/ WriteFails(s) PROVE SessionsOK'
  BY <1>0, <1>10 DEF NotReady, WriteFails
<1>11. ASSUME NEW s \in Sessions, DropOldest(s) PROVE SessionsOK'
  BY <1>11 DEF SessionsOK, DropOldest, Goto, Steps, unitVars
<1>12. ASSUME NEW s \in Sessions, WriteRow(s) PROVE SessionsOK'
  BY <1>12 DEF SessionsOK, WriteRow, Goto, Steps, unitVars
<1>13. ASSUME NEW s \in Sessions, Commit(s) PROVE SessionsOK'
  BY <1>13, LeaveKeepsSessions DEF Commit
<1>14. ASSUME NEW s \in Sessions, Abort(s) PROVE SessionsOK'
  BY <1>14, LeaveKeepsSessions DEF Abort
<1>15. ASSUME NEW u \in Users, ChangePlan(u) PROVE SessionsOK'
  BY <1>15 DEF ChangePlan, SessionsOK, jobVars, unitVars
<1>16. ASSUME UNCHANGED vars PROVE SessionsOK'
  BY <1>16 DEF vars, SessionsOK, jobVars, unitVars
<1>17. QED
  BY NextCases, <1>2, <1>3, <1>4, <1>5, <1>6, <1>7, <1>8, <1>9, <1>10, <1>11, <1>12, <1>13,
     <1>14, <1>15, <1>16

LEMMA CountersTyped ==
    ASSUME TypeInv, [Next]_vars
    PROVE  CountersOK'
<1> USE DEF TypeInv, CountersOK, historyVars
<1>0. ASSUME NEW s \in Sessions, Refuse(s) PROVE CountersOK'
  BY <1>0 DEF Refuse
<1>1. ASSUME NEW s \in Sessions, Begin(s) PROVE CountersOK'
  BY <1>1, PortfolioAssumption DEF Begin, unitVars
<1>2. ASSUME NEW s \in Sessions, Open(s) PROVE CountersOK'
  BY <1>0, <1>2 DEF Open, Opened, unitVars
<1>3. ASSUME NEW s \in Sessions, Create(s) PROVE CountersOK'
  BY <1>0, <1>3 DEF Create, unitVars
<1>4. ASSUME NEW s \in Sessions, Check(s) \/ Room(s) PROVE CountersOK'
  BY <1>0, <1>4 DEF Check, Room, Step, unitVars
<1>5. ASSUME NEW s \in Sessions, LockStock(s) \/ CountUnit(s) PROVE CountersOK'
  BY <1>5 DEF LockStock, CountUnit, unitVars
<1>6. ASSUME NEW s \in Sessions, Reserve(s) PROVE CountersOK'
  BY <1>0, <1>6 DEF Reserve
<1>7. ASSUME NEW s \in Sessions, NotReady(s) \/ WriteFails(s) PROVE CountersOK'
  BY <1>0, <1>7 DEF NotReady, WriteFails
<1>8. ASSUME NEW s \in Sessions, DropOldest(s) \/ WriteRow(s) PROVE CountersOK'
  BY <1>8 DEF DropOldest, WriteRow, unitVars
<1>9. ASSUME NEW s \in Sessions, Commit(s) PROVE CountersOK'
  <2>1. spent' \in [Users -> Nat]
    <3>1. spent[OwnerOf(s)] \in Nat
      BY <1>9, JobFields DEF Commit
    <3>2. spent' = [spent EXCEPT ![OwnerOf(s)] =
                       IF unit[s] THEN spent[OwnerOf(s)] + 1 ELSE spent[OwnerOf(s)]]
      BY <1>9 DEF Commit
    <3>3. (IF unit[s] THEN spent[OwnerOf(s)] + 1 ELSE spent[OwnerOf(s)]) \in Nat
      BY <3>1
    <3>4. QED
      BY <3>2, <3>3
  <2>2. changes' \in [Users -> Nat]
    BY <1>9 DEF Commit
  <2>3. QED
    BY <1>9, <2>1, <2>2 DEF Commit
<1>10. ASSUME NEW s \in Sessions, Abort(s) PROVE CountersOK'
  <2>1. burned' \in [Users -> Nat]
    <3>1. burned[OwnerOf(s)] \in Nat
      BY <1>10, JobFields DEF Abort
    <3>2. burned' = [burned EXCEPT ![OwnerOf(s)] =
                        IF unit[s] THEN burned[OwnerOf(s)] + 1 ELSE burned[OwnerOf(s)]]
      BY <1>10 DEF Abort
    <3>3. (IF unit[s] THEN burned[OwnerOf(s)] + 1 ELSE burned[OwnerOf(s)]) \in Nat
      BY <3>1
    <3>4. QED
      BY <3>2, <3>3
  <2>2. QED
    BY <1>10, <2>1 DEF Abort
<1>11. ASSUME NEW u \in Users, ChangePlan(u) PROVE CountersOK'
  BY <1>11, PortfolioAssumption DEF ChangePlan, unitVars
<1>12. ASSUME UNCHANGED vars PROVE CountersOK'
  BY <1>12 DEF vars, unitVars
<1>13. QED
  BY NextCases, <1>1, <1>2, <1>3, <1>4, <1>5, <1>6, <1>7, <1>8, <1>9, <1>10, <1>11, <1>12

-----------------------------------------------------------------------------
(* The jobs. *)

\* A page, once there, stays there, for every session.
LEMMA PagesStay ==
    ASSUME TypeInv, [Next]_vars, NEW i \in Pages
    PROVE  /\ db[i] # Absent => db'[i] # Absent
           /\ \A s \in Sessions :
                 Seen(s, i) \in PageRow /\ (draft'[s] = draft[s]) => Seen(s, i)' \in PageRow
<1> USE DEF TypeInv
<1>0. i \in Rows
  BY RowNames
<1>1. db[i] # Absent => db'[i] # Absent
  <2>1. ASSUME db[i] # Absent, NEW s \in Sessions, Commit(s) PROVE db'[i] # Absent
    BY <1>0, <2>1, SeenType, RowsAreReal DEF Commit, CommitRows
  <2>2. ASSUME db[i] # Absent, UNCHANGED db PROVE db'[i] # Absent
    BY <2>2
  <2>3. QED
    BY TableSteps, <2>1, <2>2 DEF tableVars, DiscardRows
<1>2. ASSUME NEW s \in Sessions, Seen(s, i) \in PageRow, draft'[s] = draft[s]
      PROVE  Seen(s, i)' \in PageRow
  <2>1. Seen(s, i)' = IF draft[s][i] = Unwritten THEN db'[i] ELSE draft[s][i]
    BY <1>2 DEF Seen
  <2>2. TablesOK'
    BY TablesTyped
  <2>3. draft[s][i] = Unwritten => db[i] # Absent
    BY <1>2, RowsAreReal DEF Seen
  <2>4. QED
    BY <1>1, <2>1, <2>2, <2>3 DEF TablesOK, IsTable
<1>3. QED
  BY <1>1, <1>2

Kept(s) ==
    /\ pc'[s] = pc[s] /\ job'[s] = job[s] /\ mine'[s] = mine[s]
    /\ target'[s] = target[s] /\ found'[s] = found[s] /\ unit'[s] = unit[s]
    /\ draft'[s] = draft[s]

\* A step of one session leaves the others as they are.
LEMMA OthersKept ==
    ASSUME TablesOK, SessionsOK, NEW s \in Sessions, Begin(s) \/ Proceed(s) \/ Abort(s),
           NEW o \in Sessions \ {s}
    PROVE  Kept(o)
<1> USE DEF SessionsOK, TablesOK, Kept, Goto
<1>1. ASSUME Leave(s), draft' = [draft EXCEPT ![s] = Blank] PROVE Kept(o)
  BY <1>1 DEF Leave
<1>2. ASSUME Refuse(s) PROVE Kept(o)
  BY <1>1, <1>2 DEF Refuse, DiscardRows
<1>3. ASSUME NEW step, Step(s, step) PROVE Kept(o)
  BY <1>3 DEF Step, unitVars, tableVars
<1>4. CASE Begin(s)
  BY <1>4 DEF Begin, unitVars, tableVars
<1>5. CASE Open(s)
  BY <1>2, <1>5 DEF Open, Opened, unitVars, tableVars
<1>6. CASE Create(s)
  BY <1>2, <1>6 DEF Create, Write, unitVars
<1>7. CASE Check(s) \/ Room(s)
  BY <1>2, <1>3, <1>7 DEF Check, Room
<1>8. CASE LockStock(s) \/ CountUnit(s)
  BY <1>8 DEF LockStock, CountUnit, unitVars, tableVars
<1>9. CASE Reserve(s)
  BY <1>2, <1>9 DEF Reserve, tableVars
<1>10. CASE NotReady(s) \/ WriteFails(s)
  BY <1>2, <1>10 DEF NotReady, WriteFails
<1>11. CASE DropOldest(s) \/ WriteRow(s)
  BY <1>11 DEF DropOldest, WriteRow, Write, unitVars
<1>12. CASE Commit(s)
  BY <1>1, <1>12 DEF Commit, CommitRows
<1>13. CASE Abort(s)
  BY <1>1, <1>13 DEF Abort, DiscardRows
<1>14. QED
  BY <1>4, <1>5, <1>6, <1>7, <1>8, <1>9, <1>10, <1>11, <1>12, <1>13 DEF Proceed

LEMMA KeptPlaced ==
    ASSUME TypeInv, [Next]_vars, NEW s \in Sessions, Kept(s)
    PROVE  Placed(s)'
<1>1. Placed(s)
  BY DEF TypeInv, JobsOK
<1>2. pc[s] # "idle" => JobOK(s)'
  BY <1>1 DEF Placed, JobOK, Kept, Op
<1>3. pc[s] \notin Opening => ReadOK(s)'
  <2>1. SUFFICES ASSUME pc[s] \notin Opening PROVE ReadOK(s)'
    OBVIOUS
  <2>2. ReadOK(s) /\ Page(OwnerOf(s)) \in Pages
    BY <1>1, <2>1, JobFields, RowNames DEF Placed, Opening
  <2>3. Seen(s, Page(OwnerOf(s)))' \in PageRow
    <3>1. Seen(s, Page(OwnerOf(s)))' = IF draft[s][Page(OwnerOf(s))] = Unwritten
                                       THEN db'[Page(OwnerOf(s))]
                                       ELSE draft[s][Page(OwnerOf(s))]
      BY DEF Seen, Kept, OwnerOf
    <3>2. QED
      BY <2>2, <3>1, PagesStay DEF ReadOK, Kept, Seen
  <2>4. QED
    BY <2>2, <2>3 DEF ReadOK, Kept, Op
<1>4. QED
  BY <1>1, <1>2, <1>3 DEF Placed, Kept

\* A session that goes on with the same page keeps what it has read.
LEMMA StepPlaced ==
    ASSUME TypeInv, [Next]_vars, NEW s \in Sessions, pc[s] \notin Opening,
           job'[s] = job[s], mine'[s] = mine[s], target'[s] = target[s], found'[s] = found[s],
           pc'[s] \notin Opening,
           \/ draft'[s] = draft[s]
           \/ \E i \in Rows : \E row : IsRow(i, row) /\ Write(s, i, row) /\ UNCHANGED db,
           JobOK(s)'
    PROVE  Placed(s)'
<1> USE DEF TypeInv
<1>1. ReadOK(s) /\ Page(OwnerOf(s)) \in Pages
  BY JobFields, RowNames DEF JobsOK, Placed, Opening
<1>2. Seen(s, Page(OwnerOf(s)))' \in PageRow
  <2>1. CASE draft'[s] = draft[s]
    <3>1. Seen(s, Page(OwnerOf(s)))' = IF draft[s][Page(OwnerOf(s))] = Unwritten
                                       THEN db'[Page(OwnerOf(s))]
                                       ELSE draft[s][Page(OwnerOf(s))]
      BY <2>1 DEF Seen, OwnerOf
    <3>2. QED
      BY <1>1, <2>1, <3>1, PagesStay DEF ReadOK, Seen
  <2>2. ASSUME NEW i \in Rows, NEW row, IsRow(i, row), Write(s, i, row), UNCHANGED db
        PROVE  Seen(s, Page(OwnerOf(s)))' \in PageRow
    <3>1. draft'[s][Page(OwnerOf(s))] = IF Page(OwnerOf(s)) = i THEN row
                                        ELSE draft[s][Page(OwnerOf(s))]
      BY <1>1, <2>2, WriteEffect, RowNames
    <3>2. Page(OwnerOf(s)) = i => row \in PageRow
      BY <1>1, <2>2, RowNames DEF IsRow
    <3>3. OwnerOf(s)' = OwnerOf(s)
      BY DEF OwnerOf
    <3>4. QED
      BY <1>1, <2>2, <3>1, <3>2, <3>3, RowsAreReal DEF ReadOK, Seen
  <2>3. QED
    BY <2>1, <2>2
<1>3. QED
  BY <1>1, <1>2 DEF Placed, ReadOK, Op, Opening

\* The session that moves is well placed again.
LEMMA LeftPlaced ==
    ASSUME TypeInv, NEW s \in Sessions, Leave(s), draft' = [draft EXCEPT ![s] = Blank]
    PROVE  Placed(s)'
BY DEF TypeInv, SessionsOK, TablesOK, Placed, Leave, Goto, Opening

LEMMA OpenPlaced ==
    ASSUME TypeInv, [Next]_vars, NEW s \in Sessions, Open(s)
    PROVE  Placed(s)'
<1> USE DEF TypeInv, SessionsOK, TablesOK
<1> DEFINE page == Seen(s, Page(OwnerOf(s)))
<1>0. pc[s] = "open" /\ OwnerOf(s) \in Users /\ JobOK(s) /\ target[s] = NoRow
  BY JobFields DEF Open, JobsOK, Placed, Opening
<1>1. page \in PageRow \cup {Absent}
  BY <1>0, SeenType, RowNames
<1>2. CASE ~Exists(page)
  <2>1. PICK x \in Generated :
            /\ mine' = [mine EXCEPT ![s] = [slug |-> x, former |-> NoSlug, published |-> FALSE]]
            /\ Goto(s, "create")
            /\ UNCHANGED <<tableVars, plan, lock, job, target, found, unitVars, historyVars>>
    BY <1>2 DEF Open
  <2>2. [slug |-> x, former |-> NoSlug, published |-> FALSE] \in PageRow
    BY PortfolioAssumption DEF PageRow
  <2>3. QED
    BY <1>0, <2>1, <2>2 DEF Placed, JobOK, Goto, Opening, Op
<1>3. CASE Exists(page) /\ ~Refuse(s)
  <2>0. page \in PageRow /\ Opened(s, page)
    BY <1>1, <1>3 DEF Open, Exists
  <2>1. PICK i \in Targets(s) :
            LET row == IF i = NoRow THEN Absent ELSE Seen(s, i)
            IN  /\ mine' = [mine EXCEPT ![s] = page]
                /\ target' = [target EXCEPT ![s] = i]
                /\ found' = [found EXCEPT ![s] = row]
                /\ Goto(s, AfterOpen(s, page, row))
                /\ UNCHANGED <<tableVars, plan, lock, job, unitVars, historyVars>>
    BY <1>3, <2>0 DEF Opened
  <2> DEFINE row == IF i = NoRow THEN Absent ELSE Seen(s, i)
  <2>2. /\ pc'[s] = AfterOpen(s, page, row) /\ job'[s] = job[s] /\ mine'[s] = page
        /\ target'[s] = i /\ found'[s] = row /\ UNCHANGED <<db, draft>>
    BY <1>0, <1>3, <2>1 DEF Goto, tableVars
  <2>3. /\ Op(s) \in {"editAlias", "dropAlias"} => i \in LinkRows /\ row \in LinkRow
        /\ Op(s) = "dropDomain" => i \in DomainRows
        /\ Op(s) \notin {"editAlias", "dropAlias", "dropDomain"} => i = NoRow
    BY <1>0, ViewRows, RowNames DEF Targets
  <2>4. OwnerOf(s)' = OwnerOf(s) /\ Op(s)' = Op(s) /\ page' = page
    BY <2>2 DEF OwnerOf, Op, Seen
  <2>5. ReadOK(s)'
    BY <1>1, <2>0, <2>2, <2>3, <2>4 DEF ReadOK
  <2>6. Op(s) \in Operations
    BY <1>0, JobFields
  <2>7. pc'[s] \notin Opening
    BY <2>2 DEF AfterOpen, Opening
  <2>8. JobOK(s)'
    BY <1>0, <2>2, <2>4, <2>6 DEF JobOK, AfterOpen, Stocking, Operations
  <2>9. QED
    BY <2>5, <2>7, <2>8 DEF Placed, Opening
<1>4. CASE Refuse(s)
  BY <1>4, LeftPlaced DEF Refuse, DiscardRows
<1>5. QED
  BY <1>2, <1>3, <1>4

LEMMA MoverPlaced ==
    ASSUME TypeInv, [Next]_vars, NEW s \in Sessions, Begin(s) \/ Proceed(s) \/ Abort(s)
    PROVE  Placed(s)'
<1> USE DEF TypeInv, SessionsOK
<1>1. ASSUME Refuse(s) PROVE Placed(s)'
  BY <1>1, LeftPlaced DEF Refuse, DiscardRows
<1>2. pc[s] # "idle" => JobOK(s) /\ Op(s) \in Operations
  BY JobFields DEF JobsOK, Placed
<1>3. CASE Begin(s)
  <2>1. PICK j \in Jobs : job' = [job EXCEPT ![s] = j]
    BY <1>3 DEF Begin
  <2>2. QED
    BY <1>3, <2>1 DEF Begin, Goto, JobsOK, Placed, JobOK, Opening
<1>4. CASE Open(s)
  BY <1>4, OpenPlaced
<1>5. CASE Create(s) /\ ~Refuse(s)
  BY <1>2, <1>5 DEF Create, Goto, JobsOK, Placed, JobOK, Opening, Op
<1>6. CASE Check(s) /\ ~Refuse(s)
  <2>1. Step(s, AfterCheck(s)) /\ pc[s] = "check"
    BY <1>6 DEF Check
  <2>2. JobOK(s)' /\ pc'[s] \notin Opening
    BY <1>2, <2>1 DEF Step, Goto, AfterCheck, JobOK, Op, Stocking, Opening
  <2>3. QED
    BY <2>1, <2>2, StepPlaced DEF Step, Opening, tableVars
<1>7. CASE LockStock(s)
  <2>1. JobOK(s)' /\ pc'[s] \notin Opening
    BY <1>2, <1>7 DEF LockStock, Goto, JobOK, Op, Stocking, Opening
  <2>2. QED
    BY <1>7, <2>1, StepPlaced DEF LockStock, Opening, tableVars
<1>8. CASE Room(s) /\ ~Refuse(s)
  <2>1. Step(s, IF Op(s) = "addAlias" THEN "check" ELSE "write") /\ pc[s] = "room"
    BY <1>8 DEF Room
  <2>2. JobOK(s)' /\ pc'[s] \notin Opening
    BY <1>2, <2>1 DEF Step, Goto, JobOK, Op, Stocking, Opening
  <2>3. QED
    BY <2>1, <2>2, StepPlaced DEF Step, Opening, tableVars
<1>9. CASE Reserve(s) /\ ~Refuse(s)
  <2>1. JobOK(s)' /\ pc'[s] \notin Opening
    BY <1>2, <1>9 DEF Reserve, Goto, JobOK, Op, Opening
  <2>2. QED
    BY <1>9, <2>1, StepPlaced DEF Reserve, Opening, tableVars
<1>10. CASE CountUnit(s)
  <2>1. JobOK(s)' /\ pc'[s] \notin Opening
    BY <1>2, <1>10 DEF CountUnit, Goto, JobOK, Op, Opening
  <2>2. QED
    BY <1>10, <2>1, StepPlaced DEF CountUnit, Opening, tableVars
<1>11. CASE NotReady(s) \/ WriteFails(s)
  BY <1>1, <1>11 DEF NotReady, WriteFails
<1>12. CASE DropOldest(s)
  <2> DEFINE ids == DomainsOf(View(s), OwnerOf(s))
  <2>1. JobOK(s)' /\ pc'[s] \notin Opening
    BY <1>2, <1>12 DEF DropOldest, Goto, JobOK, Op, Stocking, Opening
  <2>2. draft'[s] = draft[s]
        \/ \E i \in Rows : \E row : IsRow(i, row) /\ Write(s, i, row) /\ UNCHANGED db
    <3>1. CASE ids = {}
      BY <1>12, <3>1 DEF DropOldest
    <3>2. CASE ids # {}
      <4>1. PICK d \in Oldest(ids, 1) : Write(s, Domain(d), Absent)
        BY <1>12, <3>2 DEF DropOldest
      <4>2. Domain(d) \in DomainRows /\ UNCHANGED db
        BY <1>12, RowNames DEF DropOldest, Oldest, DomainsOf
      <4>3. QED
        BY <4>1, <4>2, RowNames DEF IsRow
    <3>3. QED
      BY <3>1, <3>2
  <2>3. QED
    BY <1>12, <2>1, <2>2, StepPlaced DEF DropOldest, Opening
<1>13. CASE WriteRow(s)
  <2>1. JobOK(s)' /\ pc'[s] \notin Opening
    BY <1>2, <1>13 DEF WriteRow, Goto, JobOK, Op, Opening
  <2>2. PICK i \in Place(s) : ~Gone(s, i) /\ Write(s, i, Row(s, i))
    BY <1>13 DEF WriteRow
  <2>3. IsRow(i, Row(s, i)) /\ i \in Rows /\ UNCHANGED db
    BY <1>13, <2>2, RowWritten, RowNames DEF IsRow, WriteRow
  <2>4. QED
    BY <1>13, <2>1, <2>2, <2>3, StepPlaced DEF WriteRow, Opening
<1>14. CASE Commit(s)
  BY <1>14, LeftPlaced DEF Commit, CommitRows
<1>15. CASE Abort(s)
  BY <1>15, LeftPlaced DEF Abort, DiscardRows
<1>16. QED
  BY <1>1, <1>3, <1>4, <1>5, <1>6, <1>7, <1>8, <1>9, <1>10, <1>11, <1>12, <1>13, <1>14, <1>15
     DEF Proceed

\* Every session is kept or moves by an action of its own.
LEMMA KeptOrMoved ==
    ASSUME TablesOK, SessionsOK, [Next]_vars, NEW s \in Sessions
    PROVE  Kept(s) \/ Begin(s) \/ Proceed(s) \/ Abort(s)
<1>1. ASSUME NEW o \in Sessions, Begin(o) \/ Proceed(o) \/ Abort(o), o # s PROVE Kept(s)
  BY <1>1, OthersKept
<1>2. ASSUME NEW u \in Users, ChangePlan(u) PROVE Kept(s)
  BY <1>2 DEF ChangePlan, Kept, jobVars, unitVars, tableVars
<1>3. ASSUME UNCHANGED vars PROVE Kept(s)
  BY <1>3 DEF vars, Kept, jobVars, unitVars, tableVars
<1>4. QED
  BY <1>1, <1>2, <1>3 DEF Next

LEMMA TypeInvInductive ==
    ASSUME TypeInv, [Next]_vars
    PROVE  TypeInv'
<1>1. JobsOK'
  BY KeptOrMoved, KeptPlaced, MoverPlaced DEF TypeInv, JobsOK
<1>2. QED
  BY <1>1, TablesTyped, SessionsTyped, CountersTyped DEF TypeInv

LEMMA TypeInvInitially ==
    ASSUME Init
    PROVE  TypeInv
<1>1. TablesOK
  <2>1. PICK table \in FirstTables :
            db = [i \in Rows |-> IF i \in DOMAIN table THEN table[i] ELSE Absent]
    BY DEF Init
  <2>2. IsTable(db, Absent)
    BY <2>1, RowNames, PortfolioAssumption DEF IsTable
  <2>3. QED
    BY <2>2, BlankTable DEF TablesOK, Init
<1>2. SessionsOK
  BY DEF SessionsOK, Init, Steps
<1>3. CountersOK
  BY PortfolioAssumption DEF CountersOK, Init
<1>4. JobsOK
  BY DEF JobsOK, Placed, Init, Opening
<1>5. QED
  BY <1>1, <1>2, <1>3, <1>4 DEF TypeInv

\* TypeInv is an invariant, whatever the constants.
LEMMA TypeInvAlways == Spec => []TypeInv
<1>1. Init => TypeInv
  BY TypeInvInitially
<1>2. TypeInv /\ [Next]_vars => TypeInv'
  BY TypeInvInductive
<1>3. QED
  BY <1>1, <1>2, PTL DEF Spec

\* Every variable keeps the values its declaration promises: in particular an UPDATE of a
\* page or an alias always has the row it was read from, which update_settings(), publish()
\* and update_alias() take for granted.
THEOREM TypeCorrect == Spec => []TypeOK
<1>1. TypeInv => TypeOK
  BY DEF TypeInv, TablesOK, SessionsOK, CountersOK, TypeOK
<1>2. QED
  BY <1>1, TypeInvAlways, PTL

-----------------------------------------------------------------------------
(***************************************************************************)
(* Unique names.  Each of the three unique indexes holds not only of what  *)
(* is committed but of what every transaction sees, and no two open        *)
(* transactions have written the same name: that is why a commit, which    *)
(* checks nothing, cannot bring two rows with one name together.           *)
(***************************************************************************)
KeysUnique ==
    /\ \A i, j \in Rows : ~SameKey(i, db[i], j, db[j])
    /\ \A s \in Sessions, i, j \in Rows : ~SameKey(i, Seen(s, i), j, Seen(s, j))
    /\ \A s, o \in Sessions, i, j \in Rows :
          s # o => ~SameKey(i, draft[s][i], j, draft[o][j])

\* A row is written by one transaction at a time.
Exclusive ==
    \A i \in Rows, s, o \in Sessions :
        draft[s][i] # Unwritten /\ draft[o][i] # Unwritten => s = o

NamesInv == TypeInv /\ KeysUnique /\ Exclusive

LEMMA SameKeySymmetric ==
    \A i, j, row, other : SameKey(i, row, j, other) <=> SameKey(j, other, i, row)
BY DEF SameKey

LEMMA MarksHaveNoKey ==
    \A i, j, row : /\ ~SameKey(i, Absent, j, row) /\ ~SameKey(i, Unwritten, j, row)
                   /\ ~SameKey(i, row, j, Absent) /\ ~SameKey(i, row, j, Unwritten)
BY DEF SameKey, Exists

LEMMA ExclusiveKept ==
    ASSUME NamesInv, [Next]_vars
    PROVE  Exclusive'
<1> USE DEF NamesInv, TypeInv
<1>1. ASSUME UNCHANGED tableVars PROVE Exclusive'
  BY <1>1 DEF Exclusive, tableVars
<1>2. ASSUME NEW s \in Sessions, NEW i \in Rows, NEW row, Write(s, i, row)
      PROVE  Exclusive'
  BY <1>2, WriteEffect DEF Exclusive
<1>3. ASSUME NEW s \in Sessions, draft' = [draft EXCEPT ![s] = Blank] PROVE Exclusive'
  <2>1. \A o \in Sessions, j \in Rows :
           draft'[o][j] = IF o = s THEN Unwritten ELSE draft[o][j]
    BY <1>3, BlankEffect
  <2>2. QED
    BY <2>1 DEF Exclusive
<1>4. QED
  BY TableSteps, <1>1, <1>2, <1>3 DEF Commit, CommitRows, DiscardRows

\* A write that waited for its key and clashes with nothing, or that deletes.
LEMMA WriteKeepsKeys ==
    ASSUME TypeInv, KeysUnique, NEW s \in Sessions, NEW i \in Rows, NEW row, IsRow(i, row),
           Write(s, i, row), UNCHANGED db,
           row = Absent \/ (~WriteWaits(s, i, row) /\ ~Clashes(s, i, row))
    PROVE  KeysUnique'
<1> USE DEF TypeInv
<1>1. /\ \A o \in Sessions, j \in Rows :
            draft'[o][j] = IF o = s /\ j = i THEN row ELSE draft[o][j]
      /\ row # Unwritten
  BY WriteEffect, RowsAreReal DEF IsRow
<1>2. \A o \in Sessions, j \in Rows : Seen(o, j)' = IF o = s /\ j = i THEN row ELSE Seen(o, j)
  BY <1>1 DEF Seen
<1>3. \A j \in Rows : ~SameKey(i, row, j, Seen(s, j))
  BY MarksHaveNoKey DEF Clashes
<1>4. \A o \in Sessions \ {s}, j \in Rows : ~SameKey(i, row, j, draft[o][j])
  BY MarksHaveNoKey DEF WriteWaits
<1>5. \A o \in Sessions, j, k \in Rows : ~SameKey(j, Seen(o, j)', k, Seen(o, k)')
  <2> SUFFICES ASSUME NEW o \in Sessions, NEW j \in Rows, NEW k \in Rows
               PROVE  ~SameKey(j, Seen(o, j)', k, Seen(o, k)')
    OBVIOUS
  <2>1. CASE j = k
    BY <2>1 DEF SameKey
  <2>2. CASE j # k
    BY <1>2, <1>3, <2>2, SameKeySymmetric DEF KeysUnique
  <2>3. QED
    BY <2>1, <2>2
<1>6. ASSUME NEW t \in Sessions, NEW o \in Sessions, t # o, NEW j \in Rows, NEW k \in Rows
      PROVE  ~SameKey(j, draft'[t][j], k, draft'[o][k])
  BY <1>1, <1>4, <1>6, SameKeySymmetric DEF KeysUnique
<1>7. QED
  BY <1>5, <1>6 DEF KeysUnique, SameKey, Exists

\* A commit checks nothing, and needs not to.
LEMMA CommitKeepsKeys ==
    ASSUME TypeInv, KeysUnique, NEW s \in Sessions, CommitRows(s)
    PROVE  KeysUnique'
<1> USE DEF TypeInv
<1>1. /\ \A o \in Sessions, j \in Rows :
            draft'[o][j] = IF o = s THEN Unwritten ELSE draft[o][j]
      /\ \A j \in Rows : db'[j] = Seen(s, j)
  BY BlankEffect DEF CommitRows
<1>2. \A i, j \in Rows : ~SameKey(i, db'[i], j, db'[j])
  BY <1>1 DEF KeysUnique
<1>3. ASSUME NEW o \in Sessions, NEW i \in Rows, NEW j \in Rows
      PROVE  ~SameKey(i, Seen(o, i)', j, Seen(o, j)')
  <2>1. CASE o = s
    BY <1>1, <1>2, <2>1 DEF Seen
  <2>2. CASE o # s
    <3>1. \A k \in Rows : Seen(o, k)' = IF draft[o][k] = Unwritten THEN Seen(s, k) ELSE draft[o][k]
      BY <1>1, <2>2 DEF Seen
    <3>2. \A k \in Rows : draft[o][k] # Unwritten => Seen(o, k) = draft[o][k]
      BY DEF Seen
    <3>3. ASSUME NEW k \in Rows, NEW l \in Rows, draft[o][k] # Unwritten, draft[o][l] = Unwritten
          PROVE  ~SameKey(k, draft[o][k], l, Seen(s, l))
      <4>1. CASE draft[s][l] = Unwritten
        <5>1. Seen(s, l) = Seen(o, l)
          BY <3>3, <4>1 DEF Seen
        <5>2. QED
          BY <3>2, <3>3, <5>1 DEF KeysUnique
      <4>2. CASE draft[s][l] # Unwritten
        <5>1. Seen(s, l) = draft[s][l]
          BY <4>2 DEF Seen
        <5>2. QED
          BY <2>2, <5>1 DEF KeysUnique
      <4>3. QED
        BY <4>1, <4>2
    <3>4. CASE draft[o][i] # Unwritten /\ draft[o][j] # Unwritten
      BY <3>1, <3>2, <3>4 DEF KeysUnique
    <3>5. CASE draft[o][i] # Unwritten /\ draft[o][j] = Unwritten
      BY <3>1, <3>3, <3>5
    <3>6. CASE draft[o][i] = Unwritten /\ draft[o][j] # Unwritten
      BY <3>1, <3>3, <3>6, SameKeySymmetric
    <3>7. CASE draft[o][i] = Unwritten /\ draft[o][j] = Unwritten
      BY <3>1, <3>7 DEF KeysUnique
    <3>8. QED
      BY <3>4, <3>5, <3>6, <3>7
  <2>3. QED
    BY <2>1, <2>2
<1>4. ASSUME NEW t \in Sessions, NEW o \in Sessions, t # o, NEW i \in Rows, NEW j \in Rows
      PROVE  ~SameKey(i, draft'[t][i], j, draft'[o][j])
  BY <1>1, <1>4, MarksHaveNoKey DEF KeysUnique
<1>5. QED
  BY <1>2, <1>3, <1>4 DEF KeysUnique, SameKey, Exists

LEMMA DiscardKeepsKeys ==
    ASSUME TypeInv, KeysUnique, NEW s \in Sessions, DiscardRows(s)
    PROVE  KeysUnique'
<1> USE DEF TypeInv
<1>1. /\ \A o \in Sessions, j \in Rows :
            draft'[o][j] = IF o = s THEN Unwritten ELSE draft[o][j]
      /\ db' = db
  BY BlankEffect DEF DiscardRows
<1>2. \A o \in Sessions, j \in Rows : Seen(o, j)' = IF o = s THEN db[j] ELSE Seen(o, j)
  BY <1>1 DEF Seen
<1>3. ASSUME NEW o \in Sessions, NEW i \in Rows, NEW j \in Rows
      PROVE  ~SameKey(i, Seen(o, i)', j, Seen(o, j)')
  BY <1>2 DEF KeysUnique
<1>4. ASSUME NEW t \in Sessions, NEW o \in Sessions, t # o, NEW i \in Rows, NEW j \in Rows
      PROVE  ~SameKey(i, draft'[t][i], j, draft'[o][j])
  BY <1>1, <1>4, MarksHaveNoKey DEF KeysUnique
<1>5. QED
  BY <1>1, <1>3, <1>4 DEF KeysUnique, SameKey, Exists

LEMMA NamesInvInductive ==
    ASSUME NamesInv, [Next]_vars
    PROVE  NamesInv'
<1>0. TypeInv /\ KeysUnique
  BY DEF NamesInv
<1>1. ASSUME UNCHANGED tableVars PROVE KeysUnique'
  BY <1>0, <1>1 DEF KeysUnique, tableVars, Seen, SameKey
<1>2. ASSUME NEW s \in Sessions, NEW i \in Rows, NEW row, IsRow(i, row), Write(s, i, row),
             UNCHANGED db, row = Absent \/ (~WriteWaits(s, i, row) /\ ~Clashes(s, i, row))
      PROVE  KeysUnique'
  BY <1>0, <1>2, WriteKeepsKeys
<1>3. ASSUME NEW s \in Sessions, DiscardRows(s) PROVE KeysUnique'
  BY <1>0, <1>3, DiscardKeepsKeys
<1>4. ASSUME NEW s \in Sessions, Commit(s) PROVE KeysUnique'
  BY <1>0, <1>4, CommitKeepsKeys DEF Commit
<1>5. KeysUnique'
  BY <1>0, TableSteps, <1>1, <1>2, <1>3, <1>4
<1>6. QED
  BY <1>0, <1>5, TypeInvInductive, ExclusiveKept DEF NamesInv

LEMMA NamesInvInitially ==
    ASSUME Init
    PROVE  NamesInv
<1>1. PICK table \in FirstTables :
          db = [i \in Rows |-> IF i \in DOMAIN table THEN table[i] ELSE Absent]
  BY DEF Init
<1>2. \A s \in Sessions, i \in Rows : draft[s][i] = Unwritten
  BY DEF Init, Blank
<1>3. \A i, j \in Rows : ~SameKey(i, db[i], j, db[j])
  BY <1>1, FirstTablesAreUnique, MarksHaveNoKey
<1>4. KeysUnique
  BY <1>2, <1>3, MarksHaveNoKey DEF KeysUnique, Seen
<1>5. Exclusive
  BY <1>2 DEF Exclusive
<1>6. QED
  BY <1>4, <1>5, TypeInvInitially DEF NamesInv

LEMMA NamesInvAlways == Spec => []NamesInv
<1>1. Init => NamesInv
  BY NamesInvInitially
<1>2. NamesInv /\ [Next]_vars => NamesInv'
  BY NamesInvInductive
<1>3. QED
  BY <1>1, <1>2, PTL DEF Spec

-----------------------------------------------------------------------------
(* Where slugs lead. *)

LEMMA IdsAreNumbers == \A ids \in SUBSET LinkIds : ids \in SUBSET Int
<1>1. \A n \in Nat : n \in Int
  OBVIOUS
<1>2. LinkIds \subseteq Nat
  BY PortfolioAssumption
<1>3. QED
  BY <1>1, <1>2, Zenon

LEMMA LinkSetsFinite ==
    ASSUME NEW rows, NEW u
    PROVE  /\ LinksOf(rows, u) \subseteq LinkIds /\ ActiveLinks(rows, u) \subseteq LinksOf(rows, u)
           /\ IsFiniteSet(LinksOf(rows, u)) /\ IsFiniteSet(ActiveLinks(rows, u))
           /\ DomainsOf(rows, u) \subseteq DomainIds /\ IsFiniteSet(DomainsOf(rows, u))
<1>1. /\ LinksOf(rows, u) \subseteq LinkIds /\ ActiveLinks(rows, u) \subseteq LinksOf(rows, u)
      /\ DomainsOf(rows, u) \subseteq DomainIds
  BY DEF LinksOf, ActiveLinks, DomainsOf
<1>2. QED
  BY <1>1, FS_Subset, PortfolioAssumption

\* Of identities in order, no two have equally many before them ...
LEMMA OlderCountsDiffer ==
    ASSUME NEW ids \in SUBSET Int, IsFiniteSet(ids), NEW x \in ids, NEW y \in ids, x < y
    PROVE  /\ Cardinality({z \in ids : z < x}) \in Nat
           /\ Cardinality({z \in ids : z < x}) < Cardinality({z \in ids : z < y})
<1> DEFINE A == {z \in ids : z < x}
           B == {z \in ids : z < y}
<1>1. A \subseteq B /\ x \in B /\ x \notin A
  <2>1. x \in Int /\ y \in Int
    OBVIOUS
  <2>2. ASSUME NEW z \in ids, z < x PROVE z < y
    <3>1. z \in Int
      OBVIOUS
    <3>2. QED
      BY <2>1, <2>2, <3>1
  <2>3. ~(x < x)
    BY <2>1
  <2>4. QED
    BY <2>2, <2>3, Zenon
<1>2. IsFiniteSet(A) /\ IsFiniteSet(B)
  BY FS_Subset
<1>3. Cardinality(A) \in Nat /\ Cardinality(B) \in Nat
  BY <1>2, FS_CardinalityType
<1>4. Cardinality(A) <= Cardinality(B) /\ Cardinality(A) # Cardinality(B)
  BY <1>1, <1>2, FS_Subset
<1>5. QED
  BY <1>3, <1>4

\* ... so the n oldest are n at most, and everything is among them if there are no more.
LEMMA OldestAtMost ==
    ASSUME NEW ids \in SUBSET Int, IsFiniteSet(ids), NEW n \in Nat
    PROVE  /\ Oldest(ids, n) \subseteq ids
           /\ IsFiniteSet(Oldest(ids, n)) /\ Cardinality(Oldest(ids, n)) <= n
           /\ Cardinality(ids) <= n => Oldest(ids, n) = ids
<1> DEFINE S == Oldest(ids, n)
           before(x) == {y \in ids : y < x}
           f == [x \in S |-> Cardinality(before(x))]
<1>1. S \subseteq ids /\ IsFiniteSet(S)
  BY FS_Subset DEF Oldest
<1>2. \A x \in ids : IsFiniteSet(before(x)) /\ Cardinality(before(x)) \in Nat
  BY FS_Subset, FS_CardinalityType
<1>3. f \in [S -> 0..(n - 1)]
  <2>1. \A x \in S : x \in ids /\ Cardinality(before(x)) < n
    BY DEF Oldest
  <2>2. ASSUME NEW x \in S PROVE Cardinality(before(x)) \in 0..(n - 1)
    <3> DEFINE c == Cardinality(before(x))
    <3>1. c \in Nat /\ c < n
      BY <1>2, <2>1
    <3> HIDE DEF c
    <3>2. c \in 0..(n - 1)
      BY <3>1
    <3>3. QED
      BY <3>2 DEF c
  <2>3. QED
    BY <2>2
<1>4. \A x, y \in S : f[x] = f[y] => x = y
  <2> SUFFICES ASSUME NEW x \in S, NEW y \in S, f[x] = f[y], x # y PROVE FALSE
    OBVIOUS
  <2>1. x \in ids /\ y \in ids /\ x \in Int /\ y \in Int
    BY <1>1
  <2>2. Cardinality(before(x)) = Cardinality(before(y))
    BY DEF S
  <2>3. CASE x < y
    BY <2>1, <2>2, <2>3, <1>2, OlderCountsDiffer
  <2>4. CASE y < x
    BY <2>1, <2>2, <2>4, <1>2, OlderCountsDiffer
  <2>5. QED
    BY <2>1, <2>3, <2>4
<1>5. f \in Injection(S, 0..(n - 1))
  BY <1>3, <1>4 DEF Injection, IsInjective
<1>6. IsFiniteSet(0..(n - 1)) /\ Cardinality(0..(n - 1)) = n
  BY FS_Interval
<1>7. Cardinality(S) <= n
  <2> HIDE DEF f, S
  <2>1. QED
    BY <1>5, <1>6, FS_Injection
<1>8. ASSUME Cardinality(ids) <= n, NEW x \in ids PROVE x \in S
  <2>1. before(x) \subseteq ids /\ x \notin before(x)
    OBVIOUS
  <2>2. Cardinality(before(x)) <= Cardinality(ids) /\ Cardinality(before(x)) # Cardinality(ids)
    BY <2>1, FS_Subset
  <2>3. Cardinality(ids) \in Nat /\ Cardinality(before(x)) \in Nat
    BY <1>2, FS_CardinalityType
  <2>4. Cardinality(before(x)) < n
    BY <1>8, <2>2, <2>3
  <2>5. QED
    BY <2>4 DEF Oldest
<1>9. QED
  BY <1>1, <1>7, <1>8

LEMMA CommittedKeys ==
    ASSUME NamesInv
    PROVE  /\ \A u, v \in Users :
                 Exists(db[Page(u)]) /\ Exists(db[Page(v)]) /\ db[Page(u)].slug = db[Page(v)].slug
                 => u = v
           /\ \A l, m \in LinkIds :
                 Exists(db[Link(l)]) /\ Exists(db[Link(m)]) /\ db[Link(l)].slug = db[Link(m)].slug
                 => l = m
<1>1. \A i, j \in Rows : ~SameKey(i, db[i], j, db[j])
  BY DEF NamesInv, KeysUnique
<1>2. QED
  BY <1>1, RowNames DEF SameKey

\* A published page is shown under its own slug, whatever aliases and redirects others
\* managed to give the same slug (resolve_published: the primary slug comes first).
THEOREM OwnSlugAlwaysLeadsHome == Spec => []OwnSlugLeadsHome
<1>1. NamesInv => OwnSlugLeadsHome
  <2> SUFFICES ASSUME NamesInv, NEW u \in Users, PublishedPage(u)
               PROVE  Shown(db[Page(u)].slug) = {u}
    BY DEF OwnSlugLeadsHome
  <2>1. ByPrimary(db[Page(u)].slug) = {u}
    BY CommittedKeys DEF ByPrimary, PublishedPage
  <2>2. QED
    BY <2>1 DEF Shown, Resolve
<1>2. QED
  BY <1>1, NamesInvAlways, PTL

LEMMA AllowedType ==
    ASSUME NEW max \in Nat \cup {Unlimited}, NEW n \in Nat
    PROVE  /\ Allowed(max, n) \in Nat
           /\ max \notin {Unlimited, 0} => 1 + Allowed(max, n) = max
BY DEF Allowed, Unlimited

LEMMA HonouredLinks ==
    ASSUME TypeInv, NEW u \in Users
    PROVE  /\ Honoured(u) \subseteq ActiveLinks(db, u) /\ IsFiniteSet(Honoured(u))
           /\ LinksMax[plan[u]] \notin {Unlimited, 0} =>
                 1 + Cardinality(Honoured(u)) <= LinksMax[plan[u]]
<1> DEFINE active == ActiveLinks(db, u)
           max == LinksMax[plan[u]]
           n == Allowed(max, Cardinality(active))
<1>1. IsFiniteSet(active) /\ active \in SUBSET Int /\ Cardinality(active) \in Nat
  <2>1. IsFiniteSet(active) /\ active \subseteq LinkIds
    BY LinkSetsFinite
  <2>2. active \in SUBSET Int
    BY <2>1, IdsAreNumbers
  <2>3. QED
    BY <2>1, <2>2, FS_CardinalityType
<1>2. max \in Nat \cup {Unlimited}
  BY PortfolioAssumption DEF TypeInv, CountersOK
<1>3. n \in Nat /\ (max \notin {Unlimited, 0} => 1 + n = max)
  BY <1>1, <1>2, AllowedType
<1>4. Honoured(u) = Oldest(active, n)
  BY DEF Honoured
<1> HIDE DEF active, max, n
<1>5. /\ Oldest(active, n) \subseteq active /\ IsFiniteSet(Oldest(active, n))
      /\ Cardinality(Oldest(active, n)) <= n /\ Cardinality(Oldest(active, n)) \in Nat
  BY <1>1, <1>3, OldestAtMost, FS_CardinalityType
<1>6. QED
  BY <1>3, <1>4, <1>5 DEF active, max

\* The slugs that lead to a page, its own included, never outnumber the plan the owner is
\* on now, however many aliases an earlier plan allowed (ChatfolioResolver).
THEOREM HonouredAlwaysWithinPlan == Spec => []HonouredWithinPlan
<1>1. TypeInv => HonouredWithinPlan
  <2> SUFFICES ASSUME TypeInv, NEW u \in Users, LinksMax[plan[u]] \notin {Unlimited, 0}
               PROVE  Cardinality({x \in Slugs : u \in Resolve(x)}) <= LinksMax[plan[u]]
    BY DEF HonouredWithinPlan
  <2> DEFINE leading == {x \in Slugs : u \in Resolve(x)}
             f == [l \in Honoured(u) |-> db[Link(l)].slug]
             aliases == {f[l] : l \in Honoured(u)}
             all == aliases \cup {db[Page(u)].slug}
  <2>1. leading \subseteq all
    BY DEF Resolve, ByPrimary, ByAlias
  <2>2. f \in Surjection(Honoured(u), aliases)
    BY DEF Surjection
  <2>3. IsFiniteSet(aliases) /\ Cardinality(aliases) <= Cardinality(Honoured(u))
    <3> HIDE DEF f, aliases
    <3>1. QED
      BY <2>2, HonouredLinks, FS_Surjection
  <2> HIDE DEF aliases
  <2>4. IsFiniteSet(all) /\ Cardinality(all) <= Cardinality(aliases) + 1
    <3>1. Cardinality(aliases) \in Nat
      BY <2>3, FS_CardinalityType
    <3>2. /\ IsFiniteSet(all)
          /\ Cardinality(all) = IF db[Page(u)].slug \in aliases THEN Cardinality(aliases)
                                ELSE Cardinality(aliases) + 1
      BY <2>3, FS_AddElement
    <3>3. QED
      BY <3>1, <3>2
  <2> HIDE DEF leading, all
  <2>5. Cardinality(leading) <= Cardinality(all) /\ IsFiniteSet(leading)
    BY <2>1, <2>4, FS_Subset
  <2>6. /\ Cardinality(leading) \in Nat /\ Cardinality(all) \in Nat
        /\ Cardinality(aliases) \in Nat /\ Cardinality(Honoured(u)) \in Nat
    BY <2>3, <2>4, <2>5, HonouredLinks, FS_CardinalityType
  <2>7. LinksMax[plan[u]] \in Nat /\ 1 + Cardinality(Honoured(u)) <= LinksMax[plan[u]]
    BY HonouredLinks, PortfolioAssumption DEF TypeInv, CountersOK
  <2>8. Cardinality(leading) <= LinksMax[plan[u]]
    BY <2>3, <2>4, <2>5, <2>6, <2>7
  <2>9. QED
    BY <2>8 DEF leading
<1>2. QED
  BY <1>1, TypeInvAlways, PTL

\* The list the owner sees and the resolver agree on which aliases the plan has room for.
LEMMA InPlanIsHonoured ==
    ASSUME TypeInv, NEW u \in Users
    PROVE  InPlan(u) = Honoured(u)
<1> DEFINE links == LinksOf(db, u)
           active == ActiveLinks(db, u)
           max == LinksMax[plan[u]]
<1>1. /\ IsFiniteSet(active) /\ active \in SUBSET Int /\ Cardinality(active) \in Nat
      /\ IsFiniteSet(links) /\ active \subseteq links /\ Cardinality(links) \in Nat
  <2>1. /\ IsFiniteSet(active) /\ IsFiniteSet(links)
        /\ active \subseteq links /\ active \subseteq LinkIds
    BY LinkSetsFinite
  <2>2. active \in SUBSET Int
    BY <2>1, IdsAreNumbers
  <2>3. QED
    BY <2>1, <2>2, FS_CardinalityType
<1>2. /\ InPlan(u) = Oldest(active, Allowed(max, Cardinality(links)))
      /\ Honoured(u) = Oldest(active, Allowed(max, Cardinality(active)))
  BY DEF InPlan, Honoured, ActiveLinks
<1>3. CASE max = Unlimited
  <2>1. Cardinality(active) <= Cardinality(links)
    BY <1>1, FS_Subset
  <2>2. Allowed(max, Cardinality(links)) = Cardinality(links)
        /\ Allowed(max, Cardinality(active)) = Cardinality(active)
    BY <1>3 DEF Allowed
  <2> HIDE DEF active, links
  <2>3. Oldest(active, Cardinality(links)) = active
    BY <1>1, <2>1, OldestAtMost
  <2>4. Oldest(active, Cardinality(active)) = active
    BY <1>1, OldestAtMost
  <2>5. QED
    BY <1>2, <2>2, <2>3, <2>4
<1>4. CASE max # Unlimited
  BY <1>2, <1>4 DEF Allowed
<1>5. QED
  BY <1>3, <1>4

\* What the owner is told (list_aliases) is what visitors get (resolve_published): an alias
\* is "in plan" exactly if it leads to the page or another page has its slug as its own.
THEOREM InPlanAlwaysMeansItResolves == Spec => []InPlanMeansItResolves
<1>1. NamesInv => InPlanMeansItResolves
  <2> SUFFICES ASSUME NamesInv, NEW u \in Users, PublishedPage(u), NEW l \in LinksOf(db, u)
               PROVE  l \in InPlan(u) <=>
                         db[Link(l)].active /\ u \in ByAlias(db[Link(l)].slug)
    BY DEF InPlanMeansItResolves
  <2>1. InPlan(u) = Honoured(u) /\ Honoured(u) \subseteq ActiveLinks(db, u)
    BY InPlanIsHonoured, HonouredLinks DEF NamesInv
  <2>2. l \in LinkIds /\ Exists(db[Link(l)])
    BY DEF LinksOf
  <2>3. ASSUME l \in Honoured(u) PROVE db[Link(l)].active /\ u \in ByAlias(db[Link(l)].slug)
    BY <2>1, <2>3 DEF ActiveLinks, ByAlias
  <2>4. ASSUME u \in ByAlias(db[Link(l)].slug) PROVE l \in Honoured(u)
    <3>1. PICK m \in Honoured(u) : db[Link(m)].slug = db[Link(l)].slug
      BY <2>4 DEF ByAlias
    <3>2. m \in LinkIds /\ Exists(db[Link(m)])
      BY <2>1 DEF ActiveLinks, LinksOf
    <3>3. m = l
      BY <2>2, <3>1, <3>2, CommittedKeys
    <3>4. QED
      BY <3>3
  <2>5. QED
    BY <2>1, <2>3, <2>4
<1>2. QED
  BY <1>1, NamesInvAlways, PTL

-----------------------------------------------------------------------------
(***************************************************************************)
(* Stock.  Who adds an alias or a domain to its owner's stock holds the    *)
(* owner's lock from before it counts until it commits, so what it counted *)
(* can only have shrunk when its row is added.  That needs each request    *)
(* to touch its owner's rows only, even when the alias it has read is gone *)
(* by the time it writes.                                                  *)
(***************************************************************************)
Adders == {"addAlias", "addDomain", "swapDomain"}

TurnsOn(s) == Op(s) = "editAlias" /\ job[s].active = "on" /\ ~found[s].active

\* The session is past lock_stock().
Holding(s) ==
    \/ pc[s] \in {"room", "drop"}
    \/ pc[s] \in {"check", "write", "commit"} /\ Op(s) \in Adders
    \/ pc[s] \in {"write", "commit"} /\ TurnsOn(s)

LocksHeld == \A s \in Sessions : Holding(s) => lock[<<KindOf(s), OwnerOf(s)>>] = s

LinkDraftOK(s, i) ==
    /\ pc[s] = "commit"
    /\ draft[s][i] # Absent => draft[s][i].owner = OwnerOf(s)
    /\ db[i] # Absent => db[i].owner = OwnerOf(s)
    /\ draft[s][i] # Absent /\ draft[s][i].active /\ (db[i] = Absent \/ ~db[i].active) =>
          Holding(s) /\ KindOf(s) = "links"

DomainDraftOK(s, i) ==
    /\ pc[s] \in {"room", "write", "commit"}
    /\ Op(s) \in {"addDomain", "swapDomain", "dropDomain"}
    /\ draft[s][i] # Absent =>
          /\ draft[s][i].owner = OwnerOf(s)
          /\ pc[s] = "commit" /\ Holding(s) /\ KindOf(s) = "domains"
    /\ db[i] # Absent => db[i].owner = OwnerOf(s)

DraftsOK ==
    \A s \in Sessions :
        /\ \A i \in LinkRows : draft[s][i] # Unwritten => LinkDraftOK(s, i)
        /\ \A i \in DomainRows : draft[s][i] # Unwritten => DomainDraftOK(s, i)

\* A request works on a row of its owner, or on one that is gone.
TargetsOwned ==
    \A s \in Sessions :
        target[s] # NoRow /\ db[target[s]] # Absent => db[target[s]].owner = OwnerOf(s)

\* A row that is new in its transaction is nobody's target.
NewRowsFresh ==
    \A s, o \in Sessions, i \in LinkRows \cup DomainRows :
        db[i] = Absent /\ draft[s][i] \notin {Absent, Unwritten} => target[o] # i

LinkLimits(u) == {LinksMax[p] : p \in held[u]}

DomainLimits(u) == {DomainsMax[p] : p \in held[u]} \cup {0}

\* Whoever holds the lock and has counted has room for its row, and has room still once the
\* row is written.
RoomFor(s) ==
    LET u == OwnerOf(s)
        links == Cardinality(ActiveLinks(View(s), u))
        domains == Cardinality(DomainsOf(View(s), u))
    IN  /\ KindOf(s) = "links" /\ pc[s] \in {"check", "write"} => AtMost(2 + links, LinkLimits(u))
        /\ KindOf(s) = "links" /\ pc[s] = "commit" => AtMost(1 + links, LinkLimits(u))
        /\ KindOf(s) = "domains" /\ pc[s] = "write" => AtMost(1 + domains, DomainLimits(u))
        /\ KindOf(s) = "domains" /\ pc[s] = "commit" => AtMost(domains, DomainLimits(u))

RoomHeld == \A s \in Sessions : Holding(s) => RoomFor(s)

PlansHeld == \A u \in Users : plan[u] \in held[u]

StockInv ==
    /\ NamesInv /\ LocksHeld /\ DraftsOK /\ TargetsOwned /\ NewRowsFresh /\ RoomHeld /\ PlansHeld
    /\ StockWithinPlan

-----------------------------------------------------------------------------
(* What is kept of the stock. *)

\* A committed row changes when the transaction that wrote it commits.
LEMMA DbSteps ==
    ASSUME TypeInv, [Next]_vars, NEW i \in Rows, db'[i] # db[i]
    PROVE  \E s \in Sessions : Commit(s) /\ draft[s][i] # Unwritten /\ db'[i] = draft[s][i]
<1> DEFINE P == \E s \in Sessions : Commit(s) /\ draft[s][i] # Unwritten /\ db'[i] = draft[s][i]
<1>1. ASSUME NEW s \in Sessions, Commit(s) PROVE P
  BY <1>1 DEF Commit, CommitRows, Seen
<1>2. ASSUME UNCHANGED db PROVE P
  BY <1>2
<1> HIDE DEF P
<1>3. P
  BY TableSteps, <1>1, <1>2 DEF tableVars, DiscardRows
<1>4. QED
  BY <1>3 DEF P

LEMMA KeptRow ==
    ASSUME NamesInv, [Next]_vars, NEW s \in Sessions, Kept(s), NEW i \in Rows,
           draft[s][i] # Unwritten
    PROVE  db'[i] = db[i] /\ draft'[s][i] = draft[s][i]
<1> USE DEF NamesInv, TypeInv
<1>1. ASSUME NEW o \in Sessions, Commit(o) PROVE o # s
  BY <1>1 DEF Commit, Leave, Goto, Kept, SessionsOK
<1>2. db'[i] = db[i]
  BY <1>1, DbSteps DEF Exclusive
<1>3. QED
  BY <1>2 DEF Kept

LEMMA KeptHolding ==
    ASSUME NEW s, Kept(s)
    PROVE  (Holding(s)' <=> Holding(s)) /\ KindOf(s)' = KindOf(s) /\ OwnerOf(s)' = OwnerOf(s)
           /\ Op(s)' = Op(s)
BY DEF Kept, Holding, TurnsOn, KindOf, OwnerOf, Op

LEMMA KeptDrafts ==
    ASSUME NamesInv, DraftsOK, [Next]_vars, NEW s \in Sessions, Kept(s)
    PROVE  /\ \A i \in LinkRows : draft'[s][i] # Unwritten => LinkDraftOK(s, i)'
           /\ \A i \in DomainRows : draft'[s][i] # Unwritten => DomainDraftOK(s, i)'
<1>1. ASSUME NEW i \in LinkRows, draft'[s][i] # Unwritten PROVE LinkDraftOK(s, i)'
  <2>1. draft[s][i] # Unwritten /\ LinkDraftOK(s, i)
    BY <1>1 DEF Kept, DraftsOK
  <2>2. db'[i] = db[i] /\ draft'[s][i] = draft[s][i]
    BY <2>1, KeptRow, RowNames
  <2>3. pc'[s] = pc[s]
    BY DEF Kept
  <2>4. QED
    BY <2>1, <2>2, <2>3, KeptHolding DEF LinkDraftOK
<1>2. ASSUME NEW i \in DomainRows, draft'[s][i] # Unwritten PROVE DomainDraftOK(s, i)'
  <2>1. draft[s][i] # Unwritten /\ DomainDraftOK(s, i)
    BY <1>2 DEF Kept, DraftsOK
  <2>2. db'[i] = db[i] /\ draft'[s][i] = draft[s][i]
    BY <2>1, KeptRow, RowNames
  <2>3. pc'[s] = pc[s]
    BY DEF Kept
  <2>4. QED
    BY <2>1, <2>2, <2>3, KeptHolding DEF DomainDraftOK
<1>3. QED
  BY <1>1, <1>2

LEMMA BlankDrafts ==
    ASSUME NEW s \in Sessions, draft'[s] = Blank
    PROVE  \A i \in Rows : draft'[s][i] = Unwritten
BY DEF Blank

\* The row a request is about to write is its owner's, and still is once it is written.
LEMMA WrittenDraft ==
    ASSUME NamesInv, DraftsOK, TargetsOwned, NEW s \in Sessions, WriteRow(s),
           NEW i \in Place(s), ~Gone(s, i), Write(s, i, Row(s, i))
    PROVE  /\ i \in LinkRows => LinkDraftOK(s, i)'
           /\ i \in DomainRows => DomainDraftOK(s, i)'
<1> USE DEF NamesInv, TypeInv
<1>0. /\ pc[s] = "write" /\ pc'[s] = "commit" /\ job'[s] = job[s] /\ found'[s] = found[s]
      /\ UNCHANGED db
  BY DEF WriteRow, Goto, SessionsOK
<1>1. Op(s)' = Op(s) /\ OwnerOf(s)' = OwnerOf(s) /\ KindOf(s)' = KindOf(s) /\ TurnsOn(s)' = TurnsOn(s)
  BY <1>0 DEF Op, OwnerOf, KindOf, TurnsOn
<1>2. i \in Rows /\ IsRow(i, Row(s, i))
  BY <1>0, RowWritten, RowNames DEF IsRow
<1>3. draft'[s][i] = Row(s, i)
  BY <1>2, WriteEffect
<1>4. Op(s) \in Operations /\ Op(s) # "settings"
  BY <1>0, JobFields DEF JobsOK, Placed, JobOK
<1>5. CASE Op(s) \in {"rename", "publish", "unpublish"}
  BY <1>0, <1>5, PageWritten, RowNames
<1>6. CASE Op(s) \in Adders
  <2>1. Fresh(i) /\ Row(s, i) = NewRow(s) /\ NewRow(s).owner = OwnerOf(s)
        /\ (i \in LinkRows => Op(s) = "addAlias") /\ (i \in DomainRows => Op(s) # "addAlias")
    BY <1>0, <1>6, StockAdded, RowNames DEF Adders
  <2>2. Holding(s)' /\ db'[i] = Absent
    BY <1>0, <1>1, <1>6, <2>1 DEF Holding, Fresh
  <2>3. i \in LinkRows => KindOf(s) = "links"
    BY <2>1 DEF KindOf
  <2>4. i \in DomainRows => KindOf(s) = "domains" /\ Op(s) \in {"addDomain", "swapDomain"}
    BY <1>6, <2>1 DEF KindOf, Adders
  <2>5. QED
    BY <1>0, <1>1, <1>3, <2>1, <2>2, <2>3, <2>4 DEF LinkDraftOK, DomainDraftOK
<1>7. CASE Op(s) \in {"dropAlias", "dropDomain"}
  <2>1. i = target[s] /\ Row(s, i) = Absent /\ (i \in DomainRows => Op(s) = "dropDomain")
    BY <1>0, <1>7, StockDropped, RowNames
  <2>2. i \in LinkRows \cup DomainRows => i # NoRow
    BY RowNames
  <2>3. i \in LinkRows \cup DomainRows => (db[i] # Absent => db[i].owner = OwnerOf(s))
    BY <2>1, <2>2 DEF TargetsOwned
  <2>4. QED
    BY <1>0, <1>1, <1>3, <2>1, <2>3 DEF LinkDraftOK, DomainDraftOK
<1>8. CASE Op(s) = "editAlias"
  <2>1. /\ i = target[s] /\ i \in LinkRows
        /\ Seen(s, i) \in LinkRow /\ Row(s, i).owner = Seen(s, i).owner
        /\ Row(s, i).active = LET now == IF job[s].active = "keep" THEN found[s].active
                                        ELSE job[s].active = "on"
                              IN  IF now = found[s].active THEN Seen(s, i).active ELSE now
    BY <1>0, <1>8, AliasEdited
  <2>2. draft[s][i] = Unwritten
    BY <1>0, <2>1 DEF DraftsOK, LinkDraftOK
  <2>3. Seen(s, i) = db[i] /\ db[i] # Absent
    BY <2>1, <2>2, RowsAreReal DEF Seen
  <2>4. db[i].owner = OwnerOf(s)
    BY <2>1, <2>3, RowNames DEF TargetsOwned
  <2>5. found[s] \in LinkRow /\ found[s].active \in BOOLEAN /\ db[i].active \in BOOLEAN
    BY <1>0, <1>8, <2>1, <2>3 DEF JobsOK, Placed, ReadOK, Opening, LinkRow
  <2>6. Row(s, i).active /\ ~db[i].active => TurnsOn(s)
    <3>1. CASE job[s].active = "on"
      BY <1>8, <2>1, <2>3, <2>5, <3>1 DEF TurnsOn
    <3>2. CASE job[s].active # "on"
      BY <2>1, <2>3, <2>5, <3>2
    <3>3. QED
      BY <3>1, <3>2
  <2>7. KindOf(s) = "links" /\ i \notin DomainRows
    BY <1>8, <2>1, RowNames DEF KindOf
  <2>8. Holding(s)' <=> TurnsOn(s)
    BY <1>0, <1>1, <1>8 DEF Holding, Adders
  <2>9. QED
    BY <1>0, <1>1, <1>3, <2>1, <2>3, <2>4, <2>6, <2>7, <2>8 DEF LinkDraftOK
<1>9. QED
  BY <1>4, <1>5, <1>6, <1>7, <1>8 DEF Operations, Adders

LEMMA MoverDrafts ==
    ASSUME NamesInv, DraftsOK, TargetsOwned, [Next]_vars, NEW s \in Sessions,
           Begin(s) \/ Proceed(s) \/ Abort(s)
    PROVE  /\ \A i \in LinkRows : draft'[s][i] # Unwritten => LinkDraftOK(s, i)'
           /\ \A i \in DomainRows : draft'[s][i] # Unwritten => DomainDraftOK(s, i)'
<1> USE DEF NamesInv, TypeInv, TablesOK, SessionsOK
<1> DEFINE Goal == /\ \A i \in LinkRows : draft'[s][i] # Unwritten => LinkDraftOK(s, i)'
                   /\ \A i \in DomainRows : draft'[s][i] # Unwritten => DomainDraftOK(s, i)'
<1>0. /\ \A i \in LinkRows : draft[s][i] # Unwritten => LinkDraftOK(s, i)
      /\ \A i \in DomainRows : draft[s][i] # Unwritten => DomainDraftOK(s, i)
  BY DEF DraftsOK
<1>1. ASSUME draft' = [draft EXCEPT ![s] = Blank] PROVE Goal
  BY <1>1, BlankDrafts, RowNames
<1>2. ASSUME draft' = draft, pc[s] \notin {"room", "write", "commit"} PROVE Goal
  BY <1>0, <1>2 DEF LinkDraftOK, DomainDraftOK
<1>3. CASE Begin(s)
  BY <1>2, <1>3 DEF Begin, tableVars
<1>4. CASE Open(s) \/ Check(s) \/ LockStock(s) \/ Reserve(s) \/ CountUnit(s) \/ NotReady(s)
  BY <1>1, <1>2, <1>4 DEF Open, Opened, Check, LockStock, Reserve, CountUnit, NotReady, Step,
                          tableVars, Refuse, DiscardRows
<1>5. CASE Create(s)
  <2> DEFINE i == Page(OwnerOf(s))
  <2>1. CASE Clashes(s, i, mine[s])
    BY <1>1, <1>2, <1>5, <2>1 DEF Create, Refuse, DiscardRows
  <2>2. CASE ~Clashes(s, i, mine[s])
    <3>1. pc[s] = "create" /\ Write(s, i, mine[s]) /\ i \in Pages /\ i \in Rows
      BY <1>5, <2>2, JobFields, RowNames DEF Create
    <3>2. \A j \in LinkRows \cup DomainRows : draft'[s][j] = draft[s][j]
      BY <3>1, WriteEffect, RowNames
    <3>3. QED
      BY <1>0, <3>1, <3>2 DEF LinkDraftOK, DomainDraftOK
  <2>3. QED
    BY <2>1, <2>2
<1>6. CASE Room(s)
  <2>1. CASE Refuse(s)
    BY <1>1, <2>1 DEF Refuse, DiscardRows
  <2>2. CASE ~Refuse(s)
    <3>1. /\ pc[s] = "room" /\ pc'[s] = IF Op(s) = "addAlias" THEN "check" ELSE "write"
          /\ draft'[s] = draft[s] /\ db' = db /\ job'[s] = job[s]
      BY <1>6, <2>2 DEF Room, Step, Goto, tableVars
    <3>2. \A i \in LinkRows : draft[s][i] = Unwritten
      BY <1>0, <3>1 DEF LinkDraftOK
    <3>3. ASSUME NEW i \in DomainRows, draft'[s][i] # Unwritten PROVE DomainDraftOK(s, i)'
      <4>1. DomainDraftOK(s, i)
        BY <1>0, <3>1, <3>3
      <4>2. pc'[s] = "write" /\ draft[s][i] = Absent
        BY <3>1, <4>1 DEF DomainDraftOK
      <4>3. QED
        BY <3>1, <4>1, <4>2 DEF DomainDraftOK, Op, OwnerOf
    <3>4. QED
      BY <3>1, <3>2, <3>3
  <2>3. QED
    BY <2>1, <2>2
<1>7. CASE DropOldest(s)
  <2> DEFINE ids == DomainsOf(View(s), OwnerOf(s))
  <2>0. /\ pc[s] = "drop" /\ pc'[s] = "room" /\ UNCHANGED db /\ job'[s] = job[s]
        /\ Op(s) = "swapDomain"
    BY <1>7 DEF DropOldest, Goto, JobsOK, Placed, JobOK
  <2>1. CASE ids = {}
    BY <1>2, <1>7, <2>0, <2>1 DEF DropOldest
  <2>2. CASE ids # {}
    <3>1. PICK d \in Oldest(ids, 1) : Write(s, Domain(d), Absent)
      BY <1>7, <2>2 DEF DropOldest
    <3>2. d \in ids
      BY DEF Oldest
    <3>3. Domain(d) \in DomainRows /\ Domain(d) \in Rows /\ Domain(d) \notin LinkRows
          /\ Seen(s, Domain(d)).owner = OwnerOf(s)
      BY <3>2, ViewRows, RowNames
    <3>4. \A j \in Rows : draft'[s][j] = IF j = Domain(d) THEN Absent ELSE draft[s][j]
      BY <3>1, <3>3, WriteEffect
    <3>5. \A j \in LinkRows \cup DomainRows : draft[s][j] = Unwritten
      BY <1>0, <2>0 DEF LinkDraftOK, DomainDraftOK
    <3>6. db[Domain(d)].owner = OwnerOf(s)
      BY <3>3, <3>5 DEF Seen
    <3>7. DomainDraftOK(s, Domain(d))'
      BY <2>0, <3>3, <3>4, <3>6 DEF DomainDraftOK, Op, OwnerOf
    <3>8. QED
      BY <3>3, <3>4, <3>5, <3>7, RowNames
  <2>3. QED
    BY <2>1, <2>2
<1>8. CASE WriteRow(s)
  <2>1. PICK i \in Place(s) : ~Gone(s, i) /\ Write(s, i, Row(s, i))
    BY <1>8 DEF WriteRow
  <2>2. i \in Rows
    BY <1>8, <2>1, RowWritten, RowNames DEF IsRow, WriteRow
  <2>3. \A j \in Rows : draft'[s][j] = IF j = i THEN Row(s, i) ELSE draft[s][j]
    BY <2>1, <2>2, WriteEffect
  <2>4. /\ pc[s] = "write" /\ pc'[s] = "commit" /\ job'[s] = job[s] /\ UNCHANGED db
    BY <1>8 DEF WriteRow, Goto
  <2>5. /\ i \in LinkRows => LinkDraftOK(s, i)'
        /\ i \in DomainRows => DomainDraftOK(s, i)'
    BY <1>8, <2>1, WrittenDraft
  <2>6. ASSUME NEW j \in LinkRows, j # i PROVE draft'[s][j] = Unwritten
    BY <1>0, <2>3, <2>4, <2>6, RowNames DEF LinkDraftOK
  <2>7. ASSUME NEW j \in DomainRows, j # i, draft'[s][j] # Unwritten PROVE DomainDraftOK(s, j)'
    <3>1. draft[s][j] # Unwritten /\ DomainDraftOK(s, j) /\ draft'[s][j] = draft[s][j]
      BY <1>0, <2>3, <2>7, RowNames
    <3>2. draft[s][j] = Absent
      BY <2>4, <3>1 DEF DomainDraftOK
    <3>3. QED
      BY <2>4, <3>1, <3>2 DEF DomainDraftOK, Op, OwnerOf
  <2>8. QED
    BY <2>5, <2>6, <2>7
<1>9. CASE WriteFails(s) \/ Commit(s) \/ Abort(s)
  BY <1>1, <1>9 DEF WriteFails, Refuse, Commit, CommitRows, Abort, DiscardRows
<1>10. QED
  BY <1>3, <1>4, <1>5, <1>6, <1>7, <1>8, <1>9 DEF Proceed

LEMMA DraftsKept ==
    ASSUME NamesInv, DraftsOK, TargetsOwned, [Next]_vars
    PROVE  DraftsOK'
<1> SUFFICES ASSUME NEW s \in Sessions
             PROVE  /\ \A i \in LinkRows : draft'[s][i] # Unwritten => LinkDraftOK(s, i)'
                    /\ \A i \in DomainRows : draft'[s][i] # Unwritten => DomainDraftOK(s, i)'
  BY DEF DraftsOK
<1>1. Kept(s) \/ Begin(s) \/ Proceed(s) \/ Abort(s)
  BY KeptOrMoved DEF NamesInv, TypeInv
<1>2. QED
  BY <1>1, KeptDrafts, MoverDrafts

\* A session gets a new target only when it opens its alias or domain, which then is there.
LEMMA NewTarget ==
    ASSUME NamesInv, DraftsOK, [Next]_vars, NEW s \in Sessions, target'[s] # target[s],
           target'[s] # NoRow
    PROVE  /\ db[target'[s]] # Absent /\ db[target'[s]].owner = OwnerOf(s)
           /\ UNCHANGED <<db, draft>> /\ job'[s] = job[s]
<1> USE DEF NamesInv, TypeInv, TablesOK, SessionsOK
<1>1. Begin(s) \/ Proceed(s) \/ Abort(s)
  BY KeptOrMoved DEF Kept
<1>2. ~Leave(s)
  BY DEF Leave
<1>3. Open(s) /\ ~Refuse(s)
  <2>1. ~Refuse(s)
    BY <1>2 DEF Refuse
  <2>2. ~Begin(s) /\ ~Abort(s) /\ ~Commit(s)
    BY <1>2 DEF Begin, Abort, Commit
  <2>3. ~Create(s) /\ ~Check(s) /\ ~LockStock(s) /\ ~Room(s)
    BY <2>1 DEF Create, Check, LockStock, Room, Step
  <2>4. ~Reserve(s) /\ ~CountUnit(s) /\ ~NotReady(s) /\ ~DropOldest(s)
    BY <2>1 DEF Reserve, CountUnit, NotReady, DropOldest
  <2>5. ~WriteRow(s) /\ ~WriteFails(s)
    BY <2>1 DEF WriteRow, WriteFails
  <2>6. QED
    BY <1>1, <2>1, <2>2, <2>3, <2>4, <2>5 DEF Proceed
<1>4. PICK i \in Targets(s) : target' = [target EXCEPT ![s] = i]
                              /\ UNCHANGED <<tableVars, plan, lock, job, unitVars, historyVars>>
  BY <1>3 DEF Open, Opened
<1>5. target'[s] = i /\ i # NoRow /\ UNCHANGED <<db, draft>> /\ job'[s] = job[s]
  BY <1>4 DEF tableVars
<1>6. pc[s] = "open"
  BY <1>3 DEF Open
<1>7. \A j \in LinkRows \cup DomainRows : draft[s][j] = Unwritten
  BY <1>6 DEF DraftsOK, LinkDraftOK, DomainDraftOK
<1>8. /\ i \in LinkRows \cup DomainRows /\ Seen(s, i) \in LinkRow \cup DomainRow
      /\ Seen(s, i).owner = OwnerOf(s)
  BY <1>5, ViewRows DEF Targets
<1>9. Seen(s, i) = db[i]
  BY <1>7, <1>8 DEF Seen
<1>10. QED
  BY <1>5, <1>8, <1>9, RowsAreReal

LEMMA TargetsKept ==
    ASSUME NamesInv, DraftsOK, TargetsOwned, NewRowsFresh, [Next]_vars
    PROVE  TargetsOwned'
<1> USE DEF NamesInv, TypeInv, TablesOK, SessionsOK
<1> SUFFICES ASSUME NEW s \in Sessions, target'[s] # NoRow, db'[target'[s]] # Absent
             PROVE  db'[target'[s]].owner = OwnerOf(s)'
  BY DEF TargetsOwned, OwnerOf
<1> DEFINE i == target'[s]
<1>0. TypeInv'
  BY TypeInvInductive
<1>1. CASE target'[s] # target[s]
  BY <1>1, NewTarget DEF OwnerOf
<1>2. CASE target'[s] = target[s]
  <2>1. i \in LinkRows \cup DomainRows /\ i \in Rows
    BY <1>2, RowNames
  <2>2. job'[s] = job[s]
    <3>1. CASE Kept(s)
      BY <3>1 DEF Kept
    <3>2. CASE ~Kept(s)
      <4>1. Begin(s) \/ Proceed(s) \/ Abort(s)
        BY <3>2, KeptOrMoved
      <4>2. ~Begin(s) /\ ~Leave(s)
        BY <1>2, <2>1, RowNames DEF Begin, Leave, JobsOK, Placed, Opening
      <4>3. ~Refuse(s) /\ ~Commit(s) /\ ~Abort(s)
        BY <4>2 DEF Refuse, Commit, Abort
      <4>4. CASE Open(s)
        BY <4>3, <4>4 DEF Open, Opened
      <4>5. CASE Create(s) \/ Check(s) \/ LockStock(s) \/ Room(s) \/ Reserve(s)
        BY <4>3, <4>5 DEF Create, Check, LockStock, Room, Reserve, Step
      <4>6. CASE CountUnit(s) \/ NotReady(s) \/ DropOldest(s) \/ WriteRow(s) \/ WriteFails(s)
        BY <4>3, <4>6 DEF CountUnit, NotReady, DropOldest, WriteRow, WriteFails
      <4>7. QED
        BY <4>1, <4>2, <4>3, <4>4, <4>5, <4>6 DEF Proceed
    <3>3. QED
      BY <3>1, <3>2
  <2>3. CASE db'[i] = db[i]
    BY <1>2, <2>1, <2>2, <2>3 DEF TargetsOwned, OwnerOf
  <2>4. CASE db'[i] # db[i]
    <3>1. PICK o \in Sessions : draft[o][i] # Unwritten /\ db'[i] = draft[o][i]
      BY <2>1, <2>4, DbSteps
    <3>2. db[i] # Absent
      BY <1>2, <2>1, <3>1 DEF NewRowsFresh
    <3>3. db[i].owner = OwnerOf(s)
      BY <1>2, <3>2 DEF TargetsOwned
    <3>4. draft[o][i].owner = OwnerOf(o) /\ db[i].owner = OwnerOf(o)
      BY <2>1, <3>1, <3>2 DEF DraftsOK, LinkDraftOK, DomainDraftOK
    <3>5. QED
      BY <2>2, <3>1, <3>3, <3>4 DEF OwnerOf
  <2>5. QED
    BY <2>3, <2>4
<1>3. QED
  BY <1>1, <1>2

LEMMA FreshKept ==
    ASSUME NamesInv, DraftsOK, TargetsOwned, NewRowsFresh, [Next]_vars
    PROVE  NewRowsFresh'
<1> USE DEF NamesInv, TypeInv, SessionsOK
<1> SUFFICES ASSUME NEW s \in Sessions, NEW o \in Sessions, NEW i \in LinkRows \cup DomainRows,
                    db'[i] = Absent, draft'[s][i] \notin {Absent, Unwritten}, target'[o] = i
             PROVE  FALSE
  BY DEF NewRowsFresh
<1>0. i \in Rows /\ i # NoRow /\ i \notin Pages
  BY RowNames
<1>1. CASE draft'[s][i] = draft[s][i]
  <2>1. db[i] = Absent
    <3>1. ASSUME db'[i] # db[i] PROVE FALSE
      <4>1. PICK t \in Sessions : Commit(t) /\ draft[t][i] # Unwritten
        BY <1>0, <3>1, DbSteps
      <4>2. t = s
        BY <1>0, <1>1, <4>1 DEF Exclusive
      <4>3. draft' = [draft EXCEPT ![s] = Blank]
        BY <4>1, <4>2 DEF Commit, CommitRows
      <4>4. draft'[s] = Blank
        BY <4>3, BlankEffect
      <4>5. QED
        BY <1>0, <4>4 DEF Blank
    <3>2. QED
      BY <3>1
  <2>2. target[o] # i
    BY <1>1, <2>1 DEF NewRowsFresh
  <2>3. QED
    BY <1>0, <2>1, <2>2, NewTarget
<1>2. CASE draft'[s][i] # draft[s][i]
  <2>1. ASSUME UNCHANGED tableVars PROVE FALSE
    BY <1>2, <2>1 DEF tableVars
  <2>2. ASSUME NEW t \in Sessions, draft' = [draft EXCEPT ![t] = Blank] PROVE FALSE
    <3>1. \A r \in Sessions : draft'[r] = draft[r] \/ draft'[r] = Blank
      BY <2>2, BlankEffect
    <3>2. QED
      BY <1>0, <1>2, <3>1 DEF Blank
  <2>3. ASSUME NEW t \in Sessions, NEW j \in Rows, NEW row, Write(t, j, row), UNCHANGED db
        PROVE  t = s /\ j = i /\ row = draft'[s][i] /\ db[i] = Absent
    BY <1>0, <1>2, <2>3, WriteEffect
  <2>4. ASSUME NEW t \in Sessions, NEW j \in Rows, NEW row, Write(t, j, row), UNCHANGED db,
               pc[t] = "create", j = Page(OwnerOf(t))
        PROVE  FALSE
    BY <1>0, <2>3, <2>4, JobFields, RowNames
  <2>5. ASSUME NEW t \in Sessions, NEW j \in Rows, Write(t, j, Absent), UNCHANGED db PROVE FALSE
    BY <2>3, <2>5
  <2>6. ASSUME NEW t \in Sessions, NEW j \in Rows, NEW row, Write(t, j, row), UNCHANGED db,
               pc[t] = "write", pc'[t] = "commit", j \in Place(t), ~Gone(t, j), row = Row(t, j)
        PROVE  FALSE
    <3>0. t = s /\ j = i /\ Row(s, i) = draft'[s][i] /\ db[i] = Absent
      BY <2>3, <2>6
    <3>1. Op(s) \in Operations /\ Op(s) # "settings"
      BY <2>6, <3>0, JobFields DEF JobsOK, Placed, JobOK
    <3>2. CASE Op(s) \in {"rename", "publish", "unpublish"}
      BY <1>0, <2>6, <3>0, <3>2, PageWritten
    <3>3. CASE Op(s) \in Adders
      <4>1. target[o] # i
        BY <2>6, <3>0, <3>3, StockAdded DEF Adders, Fresh
      <4>2. target'[o] # target[o]
        BY <4>1
      <4>3. db[i] # Absent
        BY <1>0, <4>2, NewTarget
      <4>4. QED
        BY <3>0, <4>3
    <3>4. CASE Op(s) \in {"dropAlias", "dropDomain"}
      BY <2>6, <3>0, <3>4, StockDropped
    <3>5. CASE Op(s) = "editAlias"
      <4>1. Seen(s, i) \in LinkRow /\ i \in LinkRows
        BY <2>6, <3>0, <3>5, AliasEdited
      <4>2. draft[s][i] = Unwritten
        BY <2>6, <3>0, <4>1 DEF DraftsOK, LinkDraftOK
      <4>3. QED
        BY <3>0, <4>1, <4>2, RowsAreReal DEF Seen
    <3>6. QED
      BY <3>1, <3>2, <3>3, <3>4, <3>5 DEF Operations, Adders
  <2>7. ASSUME NEW t \in Sessions, Commit(t) \/ DiscardRows(t) PROVE FALSE
    BY <2>2, <2>7 DEF Commit, CommitRows, DiscardRows
  <2>8. ASSUME NEW t \in Sessions, NEW j \in Rows, NEW row, Write(t, j, row), UNCHANGED db,
               \/ pc[t] = "create" /\ j = Page(OwnerOf(t))
               \/ row = Absent
               \/ /\ pc[t] = "write" /\ pc'[t] = "commit" /\ j \in Place(t) /\ ~Gone(t, j)
                  /\ row = Row(t, j)
        PROVE  FALSE
    BY <2>4, <2>5, <2>6, <2>8
  <2>9. TypeInv
    OBVIOUS
  <2> HIDE DEF NamesInv, TypeInv, SessionsOK
  <2>10. QED
    BY TableSteps, <2>1, <2>7, <2>8, <2>9
<1>3. QED
  BY <1>1, <1>2

\* A lock is let go by its holder only.
LEMMA LocksStay ==
    ASSUME TypeInv, [Next]_vars, NEW s \in Sessions, NEW key \in Kinds \X Users, lock[key] = s,
           ~Leave(s)
    PROVE  lock'[key] = s
<1> USE DEF TypeInv, SessionsOK
<1>0. s # Nobody
  BY PortfolioAssumption
<1>1. ASSUME NEW o \in Sessions, Leave(o) PROVE lock'[key] = s
  <2>1. CASE o = s
    BY <1>1, <2>1
  <2>2. CASE o # s
    BY <1>1, <2>2 DEF Leave
  <2>3. QED
    BY <2>1, <2>2
<1>2. ASSUME UNCHANGED lock PROVE lock'[key] = s
  BY <1>2
<1>3. ASSUME NEW o \in Sessions, LockStock(o) \/ CountUnit(o) PROVE lock'[key] = s
  BY <1>0, <1>3 DEF LockStock, CountUnit
<1>4. ASSUME NEW o \in Sessions, Refuse(o) \/ NotReady(o) \/ WriteFails(o) \/ Commit(o) \/ Abort(o)
      PROVE  lock'[key] = s
  BY <1>1, <1>4 DEF Refuse, NotReady, WriteFails, Commit, Abort
<1>5. ASSUME NEW o \in Sessions, Begin(o) \/ Open(o) \/ Create(o) \/ Check(o) \/ Room(o)
                                 \/ Reserve(o) \/ DropOldest(o) \/ WriteRow(o)
      PROVE  lock'[key] = s
  BY <1>2, <1>4, <1>5 DEF Begin, Open, Opened, Create, Check, Room, Step, Reserve, DropOldest,
                          WriteRow
<1>6. ASSUME NEW u \in Users, ChangePlan(u) PROVE lock'[key] = s
  BY <1>2, <1>6 DEF ChangePlan
<1>7. ASSUME UNCHANGED vars PROVE lock'[key] = s
  BY <1>2, <1>7 DEF vars
<1>8. QED
  BY NextCases, <1>3, <1>4, <1>5, <1>6, <1>7

\* A session comes to hold the lock by LockStock and in no other way.
LEMMA HoldingSteps ==
    ASSUME TypeInv, [Next]_vars, NEW s \in Sessions, Holding(s)', ~LockStock(s)
    PROVE  Holding(s) /\ ~Leave(s) /\ KindOf(s)' = KindOf(s) /\ OwnerOf(s)' = OwnerOf(s)
<1> USE DEF TypeInv, SessionsOK
<1>0. pc'[s] \in {"room", "drop", "check", "write", "commit"}
  BY DEF Holding
<1>1. ~Leave(s)
  BY <1>0 DEF Leave, Goto
<1>2. ~Refuse(s) /\ ~NotReady(s) /\ ~WriteFails(s) /\ ~Commit(s) /\ ~Abort(s)
  BY <1>1 DEF Refuse, NotReady, WriteFails, Commit, Abort
<1>3. ~Begin(s) /\ ~Create(s) /\ ~Reserve(s)
  BY <1>0, <1>2 DEF Begin, Create, Reserve, Goto
<1>4. CASE Kept(s)
  BY <1>1, <1>4, KeptHolding
<1>5. CASE Open(s)
  <2>1. PICK i \in Targets(s) :
            LET row == IF i = NoRow THEN Absent ELSE Seen(s, i)
            IN  /\ found' = [found EXCEPT ![s] = row]
                /\ Goto(s, AfterOpen(s, Seen(s, Page(OwnerOf(s))), row))
                /\ UNCHANGED job
    BY <1>0, <1>2, <1>5 DEF Open, Opened, Goto
  <2>2. QED
    BY <1>1, <2>1 DEF Holding, TurnsOn, AfterOpen, Goto, Op, Adders
<1>6. CASE Check(s)
  <2>1. pc[s] = "check" /\ pc'[s] = AfterCheck(s) /\ job' = job /\ found' = found
    BY <1>2, <1>6 DEF Check, Step, Goto
  <2>2. Holding(s)
    BY <2>1 DEF Holding, AfterCheck, TurnsOn, Op, Adders
  <2>3. QED
    BY <1>1, <2>1, <2>2 DEF KindOf, OwnerOf, Op
<1>7. CASE Room(s)
  BY <1>1, <1>2, <1>7 DEF Room, Step, Holding, KindOf, OwnerOf, Op
<1>8. CASE CountUnit(s)
  BY <1>8 DEF CountUnit, Goto, Holding, TurnsOn, JobsOK, Placed, JobOK, Op, Adders
<1>9. CASE DropOldest(s)
  BY <1>1, <1>9 DEF DropOldest, Holding, KindOf, OwnerOf, Op
<1>10. CASE WriteRow(s)
  BY <1>1, <1>10 DEF WriteRow, Goto, Holding, TurnsOn, KindOf, OwnerOf, Op
<1>11. Kept(s) \/ Begin(s) \/ Proceed(s) \/ Abort(s)
  BY KeptOrMoved
<1>12. QED
  BY <1>1, <1>2, <1>3, <1>4, <1>5, <1>6, <1>7, <1>8, <1>9, <1>10, <1>11 DEF Proceed

LEMMA LocksKept ==
    ASSUME TypeInv, LocksHeld, [Next]_vars
    PROVE  LocksHeld'
<1> SUFFICES ASSUME NEW s \in Sessions, Holding(s)'
             PROVE  lock'[<<KindOf(s)', OwnerOf(s)'>>] = s
  BY DEF LocksHeld
<1>1. CASE LockStock(s)
  <2>1. pc[s] # "idle" /\ lock' = [lock EXCEPT ![<<KindOf(s), OwnerOf(s)>>] = s] /\ job' = job
    BY <1>1 DEF LockStock
  <2>2. <<KindOf(s), OwnerOf(s)>> \in Kinds \X Users
    BY <2>1, JobFields DEF KindOf, Kinds
  <2>3. QED
    BY <2>1, <2>2 DEF TypeInv, SessionsOK, KindOf, OwnerOf, Op
<1>2. CASE ~LockStock(s)
  <2>1. Holding(s) /\ ~Leave(s) /\ KindOf(s)' = KindOf(s) /\ OwnerOf(s)' = OwnerOf(s)
    BY <1>2, HoldingSteps
  <2>2. <<KindOf(s), OwnerOf(s)>> \in Kinds \X Users
    BY <2>1, JobFields DEF Holding, KindOf, Kinds
  <2>3. QED
    BY <2>1, <2>2, LocksStay DEF LocksHeld
<1>3. QED
  BY <1>1, <1>2

LEMMA PlansKept ==
    ASSUME TypeInv, PlansHeld, [Next]_vars
    PROVE  PlansHeld' /\ \A u \in Users : held[u] \subseteq held'[u]
<1> USE DEF TypeInv, CountersOK
<1>1. ASSUME UNCHANGED <<plan, held>> PROVE PlansHeld' /\ \A u \in Users : held[u] \subseteq held'[u]
  BY <1>1 DEF PlansHeld
<1>2. ASSUME NEW u \in Users, ChangePlan(u)
      PROVE  PlansHeld' /\ \A v \in Users : held[v] \subseteq held'[v]
  BY <1>2 DEF ChangePlan, PlansHeld
<1>3. ASSUME NEW s \in Sessions, Refuse(s) PROVE UNCHANGED <<plan, held>>
  BY <1>3 DEF Refuse, historyVars
<1>4. ASSUME NEW s \in Sessions, Begin(s) \/ Proceed(s) \/ Abort(s) PROVE UNCHANGED <<plan, held>>
  <2>1. CASE Begin(s) \/ Commit(s) \/ Abort(s)
    BY <2>1 DEF Begin, Commit, Abort, historyVars
  <2>2. CASE Open(s) \/ Create(s) \/ Check(s) \/ Room(s) \/ Reserve(s) \/ NotReady(s)
             \/ WriteFails(s)
    BY <1>3, <2>2 DEF Open, Opened, Create, Check, Room, Step, Reserve, NotReady, WriteFails,
                      historyVars
  <2>3. CASE LockStock(s) \/ CountUnit(s) \/ DropOldest(s) \/ WriteRow(s)
    BY <2>3 DEF LockStock, CountUnit, DropOldest, WriteRow, historyVars
  <2>4. QED
    BY <1>4, <2>1, <2>2, <2>3 DEF Proceed
<1>5. CASE UNCHANGED vars
  BY <1>1, <1>5 DEF vars, historyVars
<1>6. QED
  BY <1>1, <1>2, <1>4, <1>5 DEF Next

\* Fewer things fit where more did, and more limits allow more.
LEMMA AtMostLess ==
    ASSUME NEW few \in Nat, NEW many \in Nat, few <= many,
           NEW L \in SUBSET Int, NEW M \in SUBSET Int, L \subseteq M, AtMost(many, L)
    PROVE  AtMost(few, M)
<1>1. CASE Unlimited \in L
  BY <1>1 DEF AtMost
<1>2. ASSUME NEW n \in L, many <= n PROVE AtMost(few, M)
  <2>1. n \in Int /\ few <= n /\ n \in M
    BY <1>2
  <2>2. QED
    BY <2>1 DEF AtMost
<1>3. QED
  BY <1>1, <1>2 DEF AtMost

LEMMA LimitsType ==
    ASSUME TypeInv, NEW u \in Users
    PROVE  LinkLimits(u) \in SUBSET Int /\ DomainLimits(u) \in SUBSET Int
BY PortfolioAssumption DEF TypeInv, CountersOK, LinkLimits, DomainLimits, Unlimited

LEMMA LimitsGrow ==
    ASSUME TypeInv, PlansHeld, [Next]_vars, NEW u \in Users
    PROVE  LinkLimits(u) \subseteq LinkLimits(u)' /\ DomainLimits(u) \subseteq DomainLimits(u)'
BY PlansKept DEF LinkLimits, DomainLimits

\* Who does not hold the lock adds nothing to a stock.
LEMMA OnlyHoldersAdd ==
    ASSUME NamesInv, DraftsOK, NEW s \in Sessions, NEW u \in Users
    PROVE  /\ (Holding(s) /\ OwnerOf(s) = u /\ KindOf(s) = "links")
              \/ ActiveLinks(View(s), u) \subseteq ActiveLinks(db, u)
           /\ (Holding(s) /\ OwnerOf(s) = u /\ KindOf(s) = "domains")
              \/ DomainsOf(View(s), u) \subseteq DomainsOf(db, u)
<1>1. ASSUME NEW l \in ActiveLinks(View(s), u), l \notin ActiveLinks(db, u)
      PROVE  Holding(s) /\ OwnerOf(s) = u /\ KindOf(s) = "links"
  <2>1. /\ l \in LinkIds /\ Link(l) \in LinkRows /\ Link(l) \in Rows
        /\ Exists(Seen(s, Link(l))) /\ Seen(s, Link(l)).owner = u /\ Seen(s, Link(l)).active
    BY RowNames DEF ActiveLinks, LinksOf, View
  <2>2. draft[s][Link(l)] # Unwritten /\ Seen(s, Link(l)) = draft[s][Link(l)]
    BY <1>1, <2>1 DEF Seen, ActiveLinks, LinksOf
  <2>3. LinkDraftOK(s, Link(l)) /\ draft[s][Link(l)] # Absent
    BY <2>1, <2>2 DEF DraftsOK, Exists
  <2>4. OwnerOf(s) = u
    BY <2>1, <2>2, <2>3 DEF LinkDraftOK
  <2>5. db[Link(l)] = Absent \/ ~db[Link(l)].active
    <3>1. SUFFICES ASSUME db[Link(l)] # Absent, db[Link(l)].active PROVE FALSE
      OBVIOUS
    <3>2. db[Link(l)].owner = u /\ Exists(db[Link(l)])
      BY <2>1, <2>3, <2>4, <3>1, RowsAreReal
         DEF LinkDraftOK, Exists, NamesInv, TypeInv, TablesOK, IsTable
    <3>3. QED
      BY <1>1, <2>1, <3>1, <3>2 DEF ActiveLinks, LinksOf
  <2>6. QED
    BY <2>1, <2>2, <2>3, <2>4, <2>5 DEF LinkDraftOK
<1>2. ASSUME NEW d \in DomainsOf(View(s), u), d \notin DomainsOf(db, u)
      PROVE  Holding(s) /\ OwnerOf(s) = u /\ KindOf(s) = "domains"
  <2>1. /\ d \in DomainIds /\ Domain(d) \in DomainRows /\ Domain(d) \in Rows
        /\ Exists(Seen(s, Domain(d))) /\ Seen(s, Domain(d)).owner = u
    BY RowNames DEF DomainsOf, View
  <2>2. draft[s][Domain(d)] # Unwritten /\ Seen(s, Domain(d)) = draft[s][Domain(d)]
    BY <1>2, <2>1 DEF Seen, DomainsOf
  <2>3. QED
    BY <2>1, <2>2 DEF DraftsOK, DomainDraftOK, Exists
<1>3. QED
  BY <1>1, <1>2

LEMMA StockNumbers ==
    ASSUME NEW rows, NEW u
    PROVE  /\ Cardinality(ActiveLinks(rows, u)) \in Nat /\ Cardinality(DomainsOf(rows, u)) \in Nat
           /\ \A few \in SUBSET ActiveLinks(rows, u) :
                 Cardinality(few) \in Nat /\ Cardinality(few) <= Cardinality(ActiveLinks(rows, u))
           /\ \A few \in SUBSET DomainsOf(rows, u) :
                 Cardinality(few) \in Nat /\ Cardinality(few) <= Cardinality(DomainsOf(rows, u))
BY LinkSetsFinite, FS_Subset, FS_CardinalityType

\* One row more is one more at most.
LEMMA StockPlusOne ==
    ASSUME NEW old, NEW new, NEW u, NEW x,
           ActiveLinks(new, u) \subseteq ActiveLinks(old, u) \cup {x}
              /\ DomainsOf(new, u) \subseteq DomainsOf(old, u) \cup {x}
    PROVE  /\ Cardinality(ActiveLinks(new, u)) <= Cardinality(ActiveLinks(old, u)) + 1
           /\ Cardinality(DomainsOf(new, u)) <= Cardinality(DomainsOf(old, u)) + 1
<1>1. ASSUME NEW few, NEW many, IsFiniteSet(many), few \subseteq many \cup {x}
      PROVE  Cardinality(few) <= Cardinality(many) + 1
  <2>1. /\ IsFiniteSet(many \cup {x}) /\ Cardinality(many) \in Nat
        /\ Cardinality(many \cup {x}) = IF x \in many THEN Cardinality(many)
                                        ELSE Cardinality(many) + 1
    BY <1>1, FS_AddElement, FS_CardinalityType
  <2>2. /\ Cardinality(few) <= Cardinality(many \cup {x})
        /\ Cardinality(few) \in Nat /\ Cardinality(many \cup {x}) \in Nat
    BY <1>1, <2>1, FS_Subset, FS_CardinalityType
  <2>3. QED
    BY <2>1, <2>2
<1>2. QED
  BY <1>1, LinkSetsFinite

\* What others commit while s holds the lock never adds to what s sees.
LEMMA ViewShrinks ==
    ASSUME NamesInv, DraftsOK, LocksHeld, [Next]_vars, NEW s \in Sessions, Kept(s), Holding(s)
    PROVE  LET u == OwnerOf(s)
           IN  /\ KindOf(s) = "links" =>
                     ActiveLinks(View(s)', u) \subseteq ActiveLinks(View(s), u)
               /\ KindOf(s) = "domains" =>
                     DomainsOf(View(s)', u) \subseteq DomainsOf(View(s), u)
<1> USE DEF NamesInv
<1> DEFINE u == OwnerOf(s)
<1>0. /\ \A i \in Rows : Seen(s, i)' = IF draft[s][i] = Unwritten THEN db'[i] ELSE draft[s][i]
      /\ lock[<<KindOf(s), u>>] = s
      /\ u \in Users
  BY JobFields DEF Seen, Kept, LocksHeld, Holding
<1>1. ASSUME NEW i \in Rows, Seen(s, i)' # Seen(s, i)
      PROVE  \E o \in Sessions : /\ o # s /\ draft[o][i] # Unwritten /\ Seen(s, i)' = draft[o][i]
                                 /\ Seen(s, i) = db[i]
  <2>1. draft[s][i] = Unwritten /\ db'[i] # db[i]
    BY <1>0, <1>1 DEF Seen
  <2>2. PICK o \in Sessions : draft[o][i] # Unwritten /\ db'[i] = draft[o][i]
    BY <2>1, DbSteps
  <2>3. QED
    BY <1>0, <2>1, <2>2 DEF Seen
<1>2. ASSUME KindOf(s) = "links", NEW l \in ActiveLinks(View(s)', u)
      PROVE  l \in ActiveLinks(View(s), u)
  <2>1. /\ l \in LinkIds /\ Link(l) \in LinkRows /\ Link(l) \in Rows
        /\ Exists(Seen(s, Link(l))') /\ Seen(s, Link(l))'.owner = u /\ Seen(s, Link(l))'.active
    BY <1>2, RowNames DEF ActiveLinks, LinksOf, View
  <2>2. CASE Seen(s, Link(l))' = Seen(s, Link(l))
    BY <2>1, <2>2 DEF ActiveLinks, LinksOf, View
  <2>3. CASE Seen(s, Link(l))' # Seen(s, Link(l))
    <3>1. PICK o \in Sessions : /\ o # s /\ draft[o][Link(l)] # Unwritten
                                /\ Seen(s, Link(l))' = draft[o][Link(l)]
                                /\ Seen(s, Link(l)) = db[Link(l)]
      BY <1>1, <2>1, <2>3
    <3>2. LinkDraftOK(o, Link(l)) /\ draft[o][Link(l)] # Absent
      BY <2>1, <3>1 DEF DraftsOK, Exists
    <3>3. OwnerOf(o) = u
      BY <2>1, <3>1, <3>2 DEF LinkDraftOK
    <3>4. ~(Holding(o) /\ KindOf(o) = "links")
      BY <1>0, <1>2, <3>1, <3>3 DEF LocksHeld
    <3>5. db[Link(l)] # Absent /\ db[Link(l)].active /\ db[Link(l)].owner = u
      BY <2>1, <3>1, <3>2, <3>3, <3>4 DEF LinkDraftOK
    <3>6. Exists(db[Link(l)])
      BY <2>1, <3>5, RowsAreReal DEF Exists, TypeInv, TablesOK, IsTable
    <3>7. QED
      BY <2>1, <3>1, <3>5, <3>6 DEF ActiveLinks, LinksOf, View
  <2>4. QED
    BY <2>2, <2>3
<1>3. ASSUME KindOf(s) = "domains", NEW d \in DomainsOf(View(s)', u)
      PROVE  d \in DomainsOf(View(s), u)
  <2>1. /\ d \in DomainIds /\ Domain(d) \in DomainRows /\ Domain(d) \in Rows
        /\ Exists(Seen(s, Domain(d))') /\ Seen(s, Domain(d))'.owner = u
    BY <1>3, RowNames DEF DomainsOf, View
  <2>2. CASE Seen(s, Domain(d))' = Seen(s, Domain(d))
    BY <2>1, <2>2 DEF DomainsOf, View
  <2>3. CASE Seen(s, Domain(d))' # Seen(s, Domain(d))
    <3>1. PICK o \in Sessions : /\ o # s /\ draft[o][Domain(d)] # Unwritten
                                /\ Seen(s, Domain(d))' = draft[o][Domain(d)]
      BY <1>1, <2>1, <2>3
    <3>2. DomainDraftOK(o, Domain(d)) /\ draft[o][Domain(d)] # Absent
      BY <2>1, <3>1 DEF DraftsOK, Exists
    <3>3. OwnerOf(o) = u /\ Holding(o) /\ KindOf(o) = "domains"
      BY <2>1, <3>1, <3>2 DEF DomainDraftOK
    <3>4. QED
      BY <1>0, <1>3, <3>1, <3>3 DEF LocksHeld
  <2>4. QED
    BY <2>2, <2>3
<1>4. QED
  BY <1>2, <1>3

LEMMA KeptRoom ==
    ASSUME NamesInv, DraftsOK, LocksHeld, RoomHeld, PlansHeld, [Next]_vars,
           NEW s \in Sessions, Kept(s), Holding(s), NEW u \in Users, u = OwnerOf(s)
    PROVE  RoomFor(s)'
<1> USE DEF NamesInv
<1> DEFINE links == Cardinality(ActiveLinks(View(s), u))
           domains == Cardinality(DomainsOf(View(s), u))
           newLinks == Cardinality(ActiveLinks(View(s)', u))
           newDomains == Cardinality(DomainsOf(View(s)', u))
<1>1. RoomFor(s)
  BY DEF RoomHeld
<1>2. /\ LinkLimits(u) \in SUBSET Int /\ DomainLimits(u) \in SUBSET Int
      /\ LinkLimits(u)' \in SUBSET Int /\ DomainLimits(u)' \in SUBSET Int
      /\ LinkLimits(u) \subseteq LinkLimits(u)' /\ DomainLimits(u) \subseteq DomainLimits(u)'
  <2>1. TypeInv'
    BY TypeInvInductive
  <2>2. \A v \in Users : LinkLimits(v)' \in SUBSET Int /\ DomainLimits(v)' \in SUBSET Int
    BY <2>1, PortfolioAssumption DEF TypeInv, CountersOK, LinkLimits, DomainLimits, Unlimited
  <2>3. QED
    BY <2>2, LimitsType, LimitsGrow
<1>3. links \in Nat /\ domains \in Nat /\ newLinks \in Nat /\ newDomains \in Nat
  BY StockNumbers
<1>4. /\ KindOf(s) = "links" => newLinks <= links
      /\ KindOf(s) = "domains" => newDomains <= domains
  BY ViewShrinks, StockNumbers
<1>5. pc'[s] = pc[s] /\ KindOf(s)' = KindOf(s) /\ OwnerOf(s)' = u
  BY KeptHolding DEF Kept
<1> HIDE DEF links, domains, newLinks, newDomains
<1>6. KindOf(s) = "links" /\ pc[s] \in {"check", "write"} => AtMost(2 + newLinks, LinkLimits(u)')
  <2>1. ASSUME KindOf(s) = "links", pc[s] \in {"check", "write"} PROVE AtMost(2 + links, LinkLimits(u))
    BY <1>1, <2>1 DEF RoomFor, links
  <2>2. ASSUME KindOf(s) = "links" PROVE 2 + newLinks \in Nat /\ 2 + links \in Nat /\ 2 + newLinks <= 2 + links
    BY <1>3, <1>4, <2>2
  <2>3. QED
    BY <1>2, <2>1, <2>2, AtMostLess
<1>7. KindOf(s) = "links" /\ pc[s] = "commit" => AtMost(1 + newLinks, LinkLimits(u)')
  <2>1. ASSUME KindOf(s) = "links", pc[s] = "commit" PROVE AtMost(1 + links, LinkLimits(u))
    BY <1>1, <2>1 DEF RoomFor, links
  <2>2. ASSUME KindOf(s) = "links" PROVE 1 + newLinks \in Nat /\ 1 + links \in Nat /\ 1 + newLinks <= 1 + links
    BY <1>3, <1>4, <2>2
  <2>3. QED
    BY <1>2, <2>1, <2>2, AtMostLess
<1>8. KindOf(s) = "domains" /\ pc[s] = "write" => AtMost(1 + newDomains, DomainLimits(u)')
  <2>1. ASSUME KindOf(s) = "domains", pc[s] = "write" PROVE AtMost(1 + domains, DomainLimits(u))
    BY <1>1, <2>1 DEF RoomFor, domains
  <2>2. ASSUME KindOf(s) = "domains"
        PROVE  1 + newDomains \in Nat /\ 1 + domains \in Nat /\ 1 + newDomains <= 1 + domains
    BY <1>3, <1>4, <2>2
  <2>3. QED
    BY <1>2, <2>1, <2>2, AtMostLess
<1>9. KindOf(s) = "domains" /\ pc[s] = "commit" => AtMost(newDomains, DomainLimits(u)')
  <2>1. ASSUME KindOf(s) = "domains", pc[s] = "commit" PROVE AtMost(domains, DomainLimits(u))
    BY <1>1, <2>1 DEF RoomFor, domains
  <2>2. QED
    BY <1>2, <1>3, <1>4, <2>1, AtMostLess
<1>10. /\ LinkLimits(OwnerOf(s))' = LinkLimits(u)' /\ DomainLimits(OwnerOf(s))' = DomainLimits(u)'
       /\ ActiveLinks(View(s), OwnerOf(s))' = ActiveLinks(View(s)', u)
       /\ DomainsOf(View(s), OwnerOf(s))' = DomainsOf(View(s)', u)
  BY <1>5 DEF LinkLimits, DomainLimits, ActiveLinks, LinksOf, DomainsOf
<1>11. QED
  BY <1>5, <1>6, <1>7, <1>8, <1>9, <1>10 DEF RoomFor, newLinks, newDomains

LEMMA CountedRoom ==
    ASSUME TypeInv, PlansHeld, NEW s \in Sessions, Room(s), ~Refuse(s),
           NEW u \in Users, u = OwnerOf(s)
    PROVE  /\ KindOf(s) = "links" =>
                 AtMost(2 + Cardinality(ActiveLinks(View(s), u)), LinkLimits(u))
           /\ KindOf(s) = "domains" =>
                 AtMost(1 + Cardinality(DomainsOf(View(s), u)), DomainLimits(u))
<1> DEFINE links == Cardinality(ActiveLinks(View(s), u))
           domains == Cardinality(DomainsOf(View(s), u))
<1>1. HasRoom(LimitOf(s), StockOf(s))
  BY DEF Room
<1>2. links \in Nat /\ domains \in Nat
  BY StockNumbers
<1>3. /\ plan[u] \in held[u]
      /\ LinksMax[plan[u]] \in Nat \cup {Unlimited} /\ DomainsMax[plan[u]] \in Nat \cup {Unlimited}
  BY PortfolioAssumption DEF PlansHeld, TypeInv, CountersOK
<1>4. CASE KindOf(s) = "links"
  <2>1. HasRoom(LinksMax[plan[u]], 1 + links)
    BY <1>1, <1>4 DEF LimitOf, StockOf
  <2> HIDE DEF links, domains
  <2>2. LinksMax[plan[u]] = Unlimited \/ 2 + links <= LinksMax[plan[u]]
    BY <1>2, <1>3, <2>1 DEF HasRoom
  <2>3. AtMost(2 + links, LinkLimits(u))
    BY <1>3, <2>2 DEF AtMost, LinkLimits
  <2>4. QED
    BY <1>4, <2>3 DEF links
<1>5. CASE KindOf(s) = "domains"
  <2>1. HasRoom(DomainsMax[plan[u]], domains)
    BY <1>1, <1>5 DEF LimitOf, StockOf
  <2> HIDE DEF links, domains
  <2>2. DomainsMax[plan[u]] = Unlimited \/ 1 + domains <= DomainsMax[plan[u]]
    BY <1>2, <1>3, <2>1 DEF HasRoom
  <2>3. AtMost(1 + domains, DomainLimits(u))
    BY <1>3, <2>2 DEF AtMost, DomainLimits
  <2>4. QED
    BY <1>5, <2>3 DEF domains
<1>6. QED
  BY <1>4, <1>5 DEF KindOf

\* The row a write adds is the one there was room for.
LEMMA WrittenRoom ==
    ASSUME TypeInv, NEW s \in Sessions, WriteRow(s), RoomFor(s), NEW u \in Users, u = OwnerOf(s)
    PROVE  /\ KindOf(s) = "links" =>
                 AtMost(1 + Cardinality(ActiveLinks(View(s)', u)), LinkLimits(u))
           /\ KindOf(s) = "domains" =>
                 AtMost(Cardinality(DomainsOf(View(s)', u)), DomainLimits(u))
<1> DEFINE links == Cardinality(ActiveLinks(View(s), u))
           domains == Cardinality(DomainsOf(View(s), u))
           newLinks == Cardinality(ActiveLinks(View(s)', u))
           newDomains == Cardinality(DomainsOf(View(s)', u))
<1>1. PICK i \in Place(s) : ~Gone(s, i) /\ Write(s, i, Row(s, i))
  BY DEF WriteRow
<1>2. pc[s] = "write" /\ UNCHANGED db /\ i \in Rows
  BY <1>1, RowWritten, RowNames DEF WriteRow, IsRow
<1>3. \A j \in Rows : j # i => Seen(s, j)' = Seen(s, j)
  BY <1>1, <1>2, WriteEffect DEF Seen, TypeInv
<1>4. PICK x : \A n : Link(n) = i \/ Domain(n) = i => n = x
  <2>1. \A n, m : Link(n) # Domain(m)
    BY DEF Link, Domain
  <2>2. QED
    BY <2>1, RowNames
<1>5. ActiveLinks(View(s)', u) \subseteq ActiveLinks(View(s), u) \cup {x}
  <2>1. ASSUME NEW l \in ActiveLinks(View(s)', u), l # x PROVE l \in ActiveLinks(View(s), u)
    <3>1. l \in LinkIds /\ Link(l) \in Rows /\ Link(l) # i
      BY <1>4, <2>1, RowNames DEF ActiveLinks, LinksOf
    <3>2. Seen(s, Link(l))' = Seen(s, Link(l))
      BY <1>3, <3>1
    <3>3. QED
      BY <2>1, <3>1, <3>2 DEF ActiveLinks, LinksOf, View
  <2>2. QED
    BY <2>1
<1>6. DomainsOf(View(s)', u) \subseteq DomainsOf(View(s), u) \cup {x}
  <2>1. ASSUME NEW d \in DomainsOf(View(s)', u), d # x PROVE d \in DomainsOf(View(s), u)
    <3>1. d \in DomainIds /\ Domain(d) \in Rows /\ Domain(d) # i
      BY <1>4, <2>1, RowNames DEF DomainsOf
    <3>2. Seen(s, Domain(d))' = Seen(s, Domain(d))
      BY <1>3, <3>1
    <3>3. QED
      BY <2>1, <3>1, <3>2 DEF DomainsOf, View
  <2>2. QED
    BY <2>1
<1>7. /\ newLinks <= links + 1 /\ newDomains <= domains + 1
      /\ links \in Nat /\ domains \in Nat /\ newLinks \in Nat /\ newDomains \in Nat
  BY <1>5, <1>6, StockPlusOne, StockNumbers
<1>8. LinkLimits(u) \in SUBSET Int /\ DomainLimits(u) \in SUBSET Int
  BY LimitsType
<1>9. /\ KindOf(s) = "links" => AtMost(2 + links, LinkLimits(u))
      /\ KindOf(s) = "domains" => AtMost(1 + domains, DomainLimits(u))
  BY <1>2 DEF RoomFor
<1> HIDE DEF links, domains, newLinks, newDomains
<1>10. 1 + newLinks \in Nat /\ 2 + links \in Nat /\ 1 + newLinks <= 2 + links
       /\ 1 + domains \in Nat /\ newDomains <= 1 + domains
  BY <1>7
<1>11. /\ KindOf(s) = "links" => AtMost(1 + newLinks, LinkLimits(u))
       /\ KindOf(s) = "domains" => AtMost(newDomains, DomainLimits(u))
  BY <1>7, <1>8, <1>9, <1>10, AtMostLess
<1>12. QED
  BY <1>11 DEF newLinks, newDomains

LEMMA MoverRoom ==
    ASSUME TypeInv, RoomHeld, PlansHeld, [Next]_vars, NEW s \in Sessions,
           Begin(s) \/ Proceed(s) \/ Abort(s), Holding(s)'
    PROVE  RoomFor(s)'
<1> USE DEF TypeInv, SessionsOK
<1>1. CASE LockStock(s)
  <2>1. pc'[s] = (IF KindOf(s) = "links" THEN "room" ELSE "check") /\ KindOf(s)' = KindOf(s)
    BY <1>1 DEF LockStock, Goto, KindOf, Op
  <2>2. QED
    BY <2>1 DEF RoomFor
<1>2. CASE ~LockStock(s)
  <2>0. Holding(s) /\ ~Leave(s) /\ KindOf(s)' = KindOf(s) /\ OwnerOf(s)' = OwnerOf(s)
    BY <1>2, HoldingSteps
  <2>1. RoomFor(s) /\ OwnerOf(s) \in Users
    BY <2>0, JobFields DEF RoomHeld, Holding
  <2> SUFFICES ASSUME NEW u \in Users, u = OwnerOf(s) PROVE RoomFor(s)'
    BY <2>1
  <2>2. ASSUME UNCHANGED held
        PROVE  /\ LinkLimits(OwnerOf(s))' = LinkLimits(u) /\ DomainLimits(OwnerOf(s))' = DomainLimits(u)
               /\ ActiveLinks(View(s), OwnerOf(s))' = ActiveLinks(View(s)', u)
               /\ DomainsOf(View(s), OwnerOf(s))' = DomainsOf(View(s)', u)
    BY <2>0, <2>2 DEF LinkLimits, DomainLimits, ActiveLinks, LinksOf, DomainsOf
  <2>3. ~Refuse(s) /\ ~NotReady(s) /\ ~WriteFails(s) /\ ~Commit(s) /\ ~Abort(s)
    BY <2>0 DEF Refuse, NotReady, WriteFails, Commit, Abort
  <2>4. pc[s] \in {"room", "drop", "check", "write", "commit"}
    BY <2>0 DEF Holding
  <2>5. ~Begin(s) /\ ~Open(s) /\ ~Create(s) /\ ~Reserve(s) /\ ~CountUnit(s)
    BY <2>4 DEF Begin, Open, Create, Reserve, CountUnit
  <2>6. CASE Check(s)
    <3>1. /\ pc[s] = "check" /\ pc'[s] = AfterCheck(s) /\ UNCHANGED <<held, tableVars>>
      BY <2>3, <2>6 DEF Check, Step, Goto, historyVars
    <3>2. View(s)' = View(s)
      BY <3>1 DEF View, Seen, tableVars
    <3>3. KindOf(s) = "domains" => pc'[s] \in {"room", "drop"}
      BY <3>1 DEF KindOf, AfterCheck
    <3>4. KindOf(s) = "links" => pc'[s] \in {"write"}
      BY <2>0, <3>1 DEF KindOf, AfterCheck, Holding, Adders
    <3>5. QED
      BY <2>0, <2>1, <2>2, <3>1, <3>2, <3>3, <3>4 DEF RoomFor, KindOf
  <2>7. CASE Room(s)
    <3>1. /\ pc'[s] = (IF Op(s) = "addAlias" THEN "check" ELSE "write")
          /\ UNCHANGED <<held, tableVars>>
      BY <2>3, <2>7 DEF Room, Step, Goto, historyVars
    <3>2. View(s)' = View(s)
      BY <3>1 DEF View, Seen, tableVars
    <3>3. /\ KindOf(s) = "links" =>
                AtMost(2 + Cardinality(ActiveLinks(View(s), u)), LinkLimits(u))
          /\ KindOf(s) = "domains" =>
                AtMost(1 + Cardinality(DomainsOf(View(s), u)), DomainLimits(u))
      BY <2>3, <2>7, CountedRoom
    <3>4. QED
      BY <2>0, <2>2, <3>1, <3>2, <3>3 DEF RoomFor
  <2>8. CASE DropOldest(s)
    BY <2>8 DEF DropOldest, Goto, RoomFor
  <2>9. CASE WriteRow(s)
    <3>1. pc'[s] = "commit" /\ UNCHANGED held
      BY <2>9 DEF WriteRow, Goto, historyVars
    <3>2. /\ KindOf(s) = "links" =>
                AtMost(1 + Cardinality(ActiveLinks(View(s)', u)), LinkLimits(u))
          /\ KindOf(s) = "domains" =>
                AtMost(Cardinality(DomainsOf(View(s)', u)), DomainLimits(u))
      BY <2>1, <2>9, WrittenRoom
    <3>3. QED
      BY <2>0, <2>2, <3>1, <3>2 DEF RoomFor
  <2>10. QED
    BY <1>2, <2>3, <2>5, <2>6, <2>7, <2>8, <2>9 DEF Proceed
<1>3. QED
  BY <1>1, <1>2

LEMMA RoomKept ==
    ASSUME StockInv, [Next]_vars
    PROVE  RoomHeld'
<1> USE DEF StockInv
<1> SUFFICES ASSUME NEW s \in Sessions, Holding(s)' PROVE RoomFor(s)'
  BY DEF RoomHeld
<1>1. CASE Kept(s)
  <2>1. Holding(s)
    BY <1>1, KeptHolding
  <2>2. OwnerOf(s) \in Users
    BY <2>1, JobFields DEF NamesInv, Holding
  <2>3. QED
    BY <1>1, <2>1, <2>2, KeptRoom
<1>2. CASE Begin(s) \/ Proceed(s) \/ Abort(s)
  BY <1>2, MoverRoom DEF NamesInv
<1>3. QED
  BY <1>1, <1>2, KeptOrMoved DEF NamesInv, TypeInv

LEMMA StockKept ==
    ASSUME StockInv, [Next]_vars
    PROVE  StockWithinPlan'
<1> USE DEF StockInv, NamesInv
<1> SUFFICES ASSUME NEW u \in Users
             PROVE  /\ ActiveLinks(db', u) # {} =>
                          AtMost(1 + Cardinality(ActiveLinks(db', u)), LinkLimits(u)')
                    /\ AtMost(Cardinality(DomainsOf(db', u)), DomainLimits(u)')
  BY DEF StockWithinPlan, LinkLimits, DomainLimits
<1>0. /\ LinkLimits(u) \in SUBSET Int /\ DomainLimits(u) \in SUBSET Int
      /\ LinkLimits(u)' \in SUBSET Int /\ DomainLimits(u)' \in SUBSET Int
      /\ LinkLimits(u) \subseteq LinkLimits(u)' /\ DomainLimits(u) \subseteq DomainLimits(u)'
  <2>1. TypeInv'
    BY TypeInvInductive
  <2>2. LinkLimits(u)' \in SUBSET Int /\ DomainLimits(u)' \in SUBSET Int
    BY <2>1, PortfolioAssumption DEF TypeInv, CountersOK, LinkLimits, DomainLimits, Unlimited
  <2>3. QED
    BY <2>2, LimitsType, LimitsGrow
<1>1. /\ ActiveLinks(db, u) # {} => AtMost(1 + Cardinality(ActiveLinks(db, u)), LinkLimits(u))
      /\ AtMost(Cardinality(DomainsOf(db, u)), DomainLimits(u))
  BY DEF StockWithinPlan, LinkLimits, DomainLimits
\* Nothing was added ...
<1>2. ASSUME ActiveLinks(db', u) \subseteq ActiveLinks(db, u), ActiveLinks(db', u) # {}
      PROVE  AtMost(1 + Cardinality(ActiveLinks(db', u)), LinkLimits(u)')
  <2> DEFINE few == Cardinality(ActiveLinks(db', u))
             many == Cardinality(ActiveLinks(db, u))
  <2>1. few \in Nat /\ many \in Nat /\ few <= many
    BY <1>2, StockNumbers
  <2>2. AtMost(1 + many, LinkLimits(u))
    BY <1>1, <1>2
  <2> HIDE DEF few, many
  <2>3. 1 + few \in Nat /\ 1 + many \in Nat /\ 1 + few <= 1 + many
    BY <2>1
  <2>4. AtMost(1 + few, LinkLimits(u)')
    BY <1>0, <2>2, <2>3, AtMostLess
  <2>5. QED
    BY <2>4 DEF few
<1>3. ASSUME DomainsOf(db', u) \subseteq DomainsOf(db, u)
      PROVE  AtMost(Cardinality(DomainsOf(db', u)), DomainLimits(u)')
  <2>1. /\ Cardinality(DomainsOf(db', u)) \in Nat /\ Cardinality(DomainsOf(db, u)) \in Nat
        /\ Cardinality(DomainsOf(db', u)) <= Cardinality(DomainsOf(db, u))
    BY <1>3, StockNumbers
  <2>2. QED
    BY <1>0, <1>1, <2>1, AtMostLess
\* ... or what was added had room.
<1>4. CASE UNCHANGED db
  BY <1>2, <1>3, <1>4
<1>5. ASSUME NEW s \in Sessions, Commit(s)
      PROVE  /\ ActiveLinks(db', u) # {} =>
                   AtMost(1 + Cardinality(ActiveLinks(db', u)), LinkLimits(u)')
             /\ AtMost(Cardinality(DomainsOf(db', u)), DomainLimits(u)')
  <2>1. pc[s] = "commit" /\ UNCHANGED held /\ db' = View(s)
    BY <1>5 DEF Commit, CommitRows, View
  <2>2. LinkLimits(u)' = LinkLimits(u) /\ DomainLimits(u)' = DomainLimits(u)
    BY <2>1 DEF LinkLimits, DomainLimits
  <2>3. /\ (Holding(s) /\ OwnerOf(s) = u /\ KindOf(s) = "links")
           \/ ActiveLinks(db', u) \subseteq ActiveLinks(db, u)
        /\ (Holding(s) /\ OwnerOf(s) = u /\ KindOf(s) = "domains")
           \/ DomainsOf(db', u) \subseteq DomainsOf(db, u)
    BY <2>1, OnlyHoldersAdd
  <2>4. ActiveLinks(db', u) # {} =>
           AtMost(1 + Cardinality(ActiveLinks(db', u)), LinkLimits(u)')
    <3>1. CASE Holding(s) /\ OwnerOf(s) = u /\ KindOf(s) = "links"
      BY <2>1, <2>2, <3>1 DEF RoomHeld, RoomFor
    <3>2. QED
      BY <1>2, <2>3, <3>1
  <2>5. AtMost(Cardinality(DomainsOf(db', u)), DomainLimits(u)')
    <3>1. CASE Holding(s) /\ OwnerOf(s) = u /\ KindOf(s) = "domains"
      BY <2>1, <2>2, <3>1 DEF RoomHeld, RoomFor
    <3>2. QED
      BY <1>3, <2>3, <3>1
  <2>6. QED
    BY <2>4, <2>5
<1>6. db' # db => \E s \in Sessions : Commit(s)
  <2> DEFINE P == db' = db \/ \E s \in Sessions : Commit(s)
  <2>1. P
    BY TableSteps DEF tableVars, DiscardRows
  <2>2. QED
    BY <2>1
<1>7. QED
  BY <1>4, <1>5, <1>6

LEMMA StockInvInductive ==
    ASSUME StockInv, [Next]_vars
    PROVE  StockInv'
<1>1. NamesInv' /\ LocksHeld' /\ DraftsOK' /\ TargetsOwned' /\ NewRowsFresh' /\ PlansHeld'
  BY NamesInvInductive, LocksKept, DraftsKept, TargetsKept, FreshKept, PlansKept
     DEF StockInv, NamesInv
<1>2. RoomHeld' /\ StockWithinPlan'
  BY RoomKept, StockKept
<1>3. QED
  BY <1>1, <1>2 DEF StockInv

LEMMA StockInvInitially ==
    ASSUME Init
    PROVE  StockInv
<1>1. NamesInv /\ StockWithinPlan
  BY NamesInvInitially DEF Init
<1>2. /\ \A s \in Sessions : pc[s] = "idle" /\ target[s] = NoRow
      /\ \A s \in Sessions, i \in Rows : draft[s][i] = Unwritten
  BY DEF Init, Blank
<1>3. LocksHeld /\ RoomHeld
  BY <1>2 DEF LocksHeld, RoomHeld, Holding
<1>4. DraftsOK /\ TargetsOwned /\ NewRowsFresh
  BY <1>2, RowNames DEF DraftsOK, TargetsOwned, NewRowsFresh
<1>5. PlansHeld
  BY DEF PlansHeld, Init
<1>6. QED
  BY <1>1, <1>3, <1>4, <1>5 DEF StockInv

\* StockWithinPlan holds of every behaviour, whatever the constants: requests of one owner that
\* overlap never end with more aliases or domains than a plan of the owner allowed, because
\* each counts under the lock and adds at most the one row it counted room for (lock_stock,
\* ensure_room, and the inserts of portfolio_service.py and domain_service.py).
THEOREM StockAlwaysWithinPlan == Spec => []StockWithinPlan
<1>1. Init => StockInv
  BY StockInvInitially
<1>2. StockInv /\ [Next]_vars => StockInv'
  BY StockInvInductive
<1>3. StockInv => StockWithinPlan
  BY DEF StockInv
<1>4. QED
  BY <1>1, <1>2, <1>3, PTL DEF Spec

-----------------------------------------------------------------------------
(***************************************************************************)
(* Units.  A page changes its slug or becomes public only by a request     *)
(* that holds a unit, because what it found when it decided not to pay is  *)
(* what it writes back, column by column.                                  *)
(***************************************************************************)
UnitOK(s) ==
    /\ unit[s] => pc[s] \in {"count", "write", "commit"} /\ Op(s) \in {"rename", "publish"}
    /\ pc[s] = "count" => unit[s]
    /\ pc[s] \in {"check", "reserve", "count", "write"} /\ Op(s) = "rename" =>
          job[s].slug # mine[s].slug
    /\ pc[s] \in {"reserve", "count"} /\ Op(s) = "publish" => ~mine[s].published
    /\ pc[s] = "write" /\ Op(s) = "rename" => unit[s]
    /\ pc[s] = "write" /\ Op(s) = "publish" => (unit[s] <=> ~mine[s].published)

\* A request writes its owner's page and no other, and before it is about to commit only the
\* page it has created itself.
PageDraftOK(s, u) ==
    /\ pc[s] # "idle" /\ u = OwnerOf(s)
    /\ pc[s] # "commit" => db[Page(u)] = Absent

\* What a paid request is about to do to the page it read.
PaidFor(s) ==
    LET i == Page(OwnerOf(s))
    IN  /\ draft[s][i] # Unwritten
        /\ mine[s] = db[i] /\ Op(s) = "rename" =>
              draft[s][i].slug # mine[s].slug /\ draft[s][i].former = mine[s].slug
        /\ mine[s] = db[i] /\ Op(s) = "publish" => draft[s][i].published /\ ~mine[s].published

UnitsOK ==
    \A s \in Sessions :
        /\ UnitOK(s)
        /\ \A u \in Users : draft[s][Page(u)] # Unwritten => PageDraftOK(s, u)
        /\ \A u \in Users : Effective(s, u) => pc[s] = "commit" /\ unit[s] /\ u = OwnerOf(s)
        /\ \A u \in Users : Exists(db[Page(u)]) /\ db[Page(u)].slug # Seen(s, Page(u)).slug =>
              Op(s) = "rename"
        /\ pc[s] = "commit" /\ unit[s] => PaidFor(s)

UnitHolders(u) == {s \in Sessions : unit[s] /\ job[s].user = u}

LedgerOK == \A u \in Users : IsFiniteSet(UnitHolders(u))

UnitsInv == NamesInv /\ UnitsOK /\ LedgerOK /\ ChangesArePaidFor

-----------------------------------------------------------------------------
(* What is kept of the units. *)

Paying == {"rename", "publish"}

Switching == {"rename", "publish", "unpublish"}

\* A unit is taken by Reserve and leaves with its request.
LEMMA UnitSteps ==
    ASSUME TypeInv, [Next]_vars, NEW s \in Sessions, ~Reserve(s)
    PROVE  /\ unit'[s] = unit[s] \/ Leave(s)
           /\ unit'[s] => unit[s]
<1> USE DEF TypeInv, SessionsOK
<1>1. ASSUME UNCHANGED unit PROVE unit'[s] = unit[s]
  BY <1>1
<1>2. Leave(s) => ~unit'[s]
  BY DEF Leave
<1>3. Kept(s) \/ Begin(s) \/ Proceed(s) \/ Abort(s)
  BY KeptOrMoved
<1>4. CASE Kept(s)
  BY <1>2, <1>4 DEF Kept
<1>5. CASE Begin(s) \/ LockStock(s) \/ CountUnit(s) \/ DropOldest(s) \/ WriteRow(s)
  BY <1>1, <1>2, <1>5 DEF Begin, LockStock, CountUnit, DropOldest, WriteRow, unitVars
<1>6. CASE Open(s) \/ Create(s) \/ Check(s) \/ Room(s)
  BY <1>1, <1>2, <1>6 DEF Open, Opened, Create, Check, Room, Step, Refuse, unitVars
<1>7. CASE NotReady(s) \/ WriteFails(s) \/ Commit(s) \/ Abort(s)
  BY <1>2, <1>7 DEF NotReady, WriteFails, Commit, Abort, Refuse
<1>8. QED
  BY <1>3, <1>4, <1>5, <1>6, <1>7 DEF Proceed

LEMMA UnitKept ==
    ASSUME TypeInv, UnitsOK, [Next]_vars, NEW s \in Sessions
    PROVE  UnitOK(s)'
<1> USE DEF TypeInv, SessionsOK, JobsOK
<1>0. UnitOK(s) /\ (pc[s] = "idle" => ~unit[s])
  BY DEF UnitsOK, Placed
<1>1. CASE Kept(s)
  BY <1>0, <1>1 DEF UnitOK, Kept, Op
<1>2. CASE Leave(s)
  BY <1>2 DEF UnitOK, Leave, Goto
<1>3. CASE Begin(s)
  BY <1>0, <1>3 DEF Begin, Goto, UnitOK, unitVars
<1>4. CASE Open(s) /\ ~Leave(s)
  <2>1. CASE pc'[s] = "create"
    BY <1>0, <1>4, <2>1, UnitSteps DEF Open, UnitOK, Reserve
  <2>2. CASE pc'[s] # "create"
    <3> DEFINE page == Seen(s, Page(OwnerOf(s)))
    <3>1. PICK row :
              /\ pc'[s] = AfterOpen(s, page, row) /\ mine'[s] = page /\ job' = job
              /\ UNCHANGED unit
      BY <1>4, <2>2 DEF Open, Opened, Refuse, Goto, unitVars
    <3>2. ~unit[s] /\ Op(s)' = Op(s) /\ Op(s) \in Operations
      BY <1>0, <1>4, <3>1, JobFields DEF Open, UnitOK, Op
    <3>3. QED
      BY <3>1, <3>2 DEF UnitOK, AfterOpen, Operations
  <2>3. QED
    BY <2>1, <2>2
<1>5. CASE Create(s) /\ ~Leave(s)
  BY <1>0, <1>5 DEF Create, Refuse, Goto, UnitOK, unitVars
<1>6. CASE Check(s) /\ ~Leave(s)
  <2>1. Step(s, AfterCheck(s)) /\ pc[s] = "check"
    BY <1>6 DEF Check, Refuse
  <2>2. JobOK(s) /\ Op(s)' = Op(s)
    BY <2>1 DEF Step, Op, Placed
  <2>3. QED
    BY <1>0, <2>1, <2>2 DEF Step, Goto, AfterCheck, UnitOK, JobOK, Stocking, unitVars
<1>7. CASE LockStock(s)
  BY <1>0, <1>7 DEF LockStock, Goto, UnitOK, Placed, JobOK, Stocking, Op, unitVars
<1>8. CASE Room(s) /\ ~Leave(s)
  <2>1. Step(s, IF Op(s) = "addAlias" THEN "check" ELSE "write") /\ pc[s] = "room"
    BY <1>8 DEF Room, Refuse
  <2>2. JobOK(s) /\ Op(s)' = Op(s)
    BY <2>1 DEF Step, Op, Placed
  <2>3. QED
    BY <1>0, <2>1, <2>2 DEF Step, Goto, UnitOK, JobOK, Stocking, unitVars
<1>9. CASE Reserve(s) /\ ~Leave(s)
  <2>1. /\ pc[s] = "reserve" /\ pc'[s] = "count" /\ unit'[s] = TRUE
        /\ job'[s] = job[s] /\ mine'[s] = mine[s]
    BY <1>9 DEF Reserve, Refuse, Goto
  <2>2. Op(s) \in Paying /\ Op(s)' = Op(s)
    BY <2>1 DEF Placed, JobOK, Paying, Op
  <2>3. QED
    BY <1>0, <2>1, <2>2 DEF UnitOK, Paying
<1>10. CASE CountUnit(s)
  BY <1>0, <1>10 DEF CountUnit, Goto, UnitOK, Op, unitVars
<1>11. CASE DropOldest(s)
  BY <1>0, <1>11 DEF DropOldest, Goto, UnitOK, Op, unitVars
<1>12. CASE WriteRow(s)
  BY <1>0, <1>12 DEF WriteRow, Goto, UnitOK, Op, unitVars
<1>13. CASE NotReady(s) \/ WriteFails(s) \/ Commit(s) \/ Abort(s)
  BY <1>2, <1>13 DEF NotReady, WriteFails, Commit, Abort, Refuse
<1>14. QED
  BY KeptOrMoved, <1>1, <1>2, <1>3, <1>4, <1>5, <1>6, <1>7, <1>8, <1>9, <1>10, <1>11, <1>12,
     <1>13 DEF Proceed

\* What a step of s does to u's page in its own transaction.
LEMMA PageSteps ==
    ASSUME TypeInv, [Next]_vars, NEW s \in Sessions, Begin(s) \/ Proceed(s) \/ Abort(s),
           NEW u \in Users
    PROVE  \/ Leave(s) /\ draft'[s] = Blank
           \/ /\ UNCHANGED db /\ draft'[s][Page(u)] = draft[s][Page(u)]
              /\ pc[s] # "commit"
              /\ pc[s] # "idle" => job'[s] = job[s]
              /\ ~(WriteRow(s) /\ Op(s) \in Switching /\ u = OwnerOf(s))
           \/ /\ pc[s] = "create" /\ pc'[s] = "open" /\ u = OwnerOf(s) /\ job'[s] = job[s]
              /\ UNCHANGED db /\ db[Page(u)] = Absent
           \/ /\ WriteRow(s) /\ Op(s) \in Switching /\ u = OwnerOf(s)
              /\ draft'[s][Page(u)] = Updated(mine[s], Changed(s), Seen(s, Page(u)))
              /\ draft'[s][Page(u)] \in PageRow
<1> USE DEF TypeInv, SessionsOK, TablesOK
<1> DEFINE i == Page(u)
<1>0. i \in Pages /\ i \in Rows
  BY RowNames
<1>1. CASE Refuse(s)
  BY <1>1 DEF Refuse, DiscardRows
<1>2. CASE Commit(s) \/ Abort(s) \/ NotReady(s) \/ WriteFails(s)
  BY <1>1, <1>2 DEF Commit, CommitRows, Abort, DiscardRows, NotReady, WriteFails
<1>3. CASE (Begin(s) \/ Open(s) \/ Check(s) \/ LockStock(s) \/ Room(s) \/ Reserve(s)
            \/ CountUnit(s)) /\ ~Refuse(s)
  <2>1. UNCHANGED tableVars
    BY <1>3 DEF Begin, Open, Opened, Check, LockStock, Room, Reserve, CountUnit, Step
  <2>2. pc[s] # "commit" /\ pc[s] # "write"
    BY <1>3 DEF Begin, Open, Check, LockStock, Room, Reserve, CountUnit
  <2>3. pc[s] # "idle" => UNCHANGED job
    BY <1>3 DEF Begin, Open, Opened, Check, LockStock, Room, Reserve, CountUnit, Step
  <2>4. QED
    BY <2>1, <2>2, <2>3 DEF tableVars, WriteRow
<1>4. CASE Create(s) /\ ~Refuse(s)
  <2>1. pc[s] = "create" /\ pc'[s] = "open" /\ UNCHANGED <<db, job>> /\ OwnerOf(s) \in Users
    BY <1>4, JobFields DEF Create, Goto
  <2>2. CASE UNCHANGED draft
    BY <2>1, <2>2 DEF WriteRow
  <2>3. CASE ~UNCHANGED draft
    <3>1. Write(s, Page(OwnerOf(s)), mine[s]) /\ ~Clashes(s, Page(OwnerOf(s)), mine[s])
      BY <1>4, <2>3 DEF Create
    <3>2. CASE u = OwnerOf(s)
      <4>1. ~Exists(Seen(s, i))
        BY <2>1, <3>1, <3>2 DEF Clashes
      <4>2. db[i] = Absent
        BY <1>0, <4>1, SeenType, RowsAreReal DEF Exists
      <4>3. QED
        BY <2>1, <3>2, <4>2
    <3>3. CASE u # OwnerOf(s)
      <4>1. i # Page(OwnerOf(s)) /\ Page(OwnerOf(s)) \in Rows
        BY <2>1, <3>3, RowNames
      <4>2. draft'[s][i] = draft[s][i]
        BY <1>0, <3>1, <4>1, WriteEffect
      <4>3. QED
        BY <2>1, <4>2 DEF WriteRow
    <3>4. QED
      BY <3>2, <3>3
  <2>4. QED
    BY <2>2, <2>3
<1>5. CASE DropOldest(s)
  <2> DEFINE ids == DomainsOf(View(s), OwnerOf(s))
  <2>1. pc[s] = "drop" /\ UNCHANGED <<db, job>>
    BY <1>5 DEF DropOldest
  <2>2. draft'[s][i] = draft[s][i]
    <3>1. CASE ids = {}
      BY <1>5, <3>1 DEF DropOldest
    <3>2. CASE ids # {}
      <4>1. PICK d \in Oldest(ids, 1) : Write(s, Domain(d), Absent)
        BY <1>5, <3>2 DEF DropOldest
      <4>2. Domain(d) \in DomainRows
        BY RowNames DEF Oldest, DomainsOf
      <4>3. QED
        BY <1>0, <4>1, <4>2, WriteEffect, RowNames
    <3>3. QED
      BY <3>1, <3>2
  <2>3. QED
    BY <2>1, <2>2 DEF WriteRow
<1>6. CASE WriteRow(s)
  <2>1. PICK j \in Place(s) : ~Gone(s, j) /\ Write(s, j, Row(s, j))
    BY <1>6 DEF WriteRow
  <2>2. pc[s] = "write" /\ UNCHANGED <<db, job>> /\ OwnerOf(s) \in Users
    BY <1>6, JobFields DEF WriteRow
  <2>3. IsRow(j, Row(s, j)) /\ j \in Rows
    BY <2>1, <2>2, RowWritten, RowNames DEF IsRow
  <2>4. CASE Op(s) \in Switching
    <3>1. /\ j = Page(OwnerOf(s)) /\ Row(s, j) \in PageRow
          /\ Row(s, j) = Updated(mine[s], Changed(s), Seen(s, j))
      BY <2>2, <2>4, PageWritten DEF Switching
    <3>2. draft'[s][i] = IF j = i THEN Row(s, j) ELSE draft[s][i]
      BY <1>0, <2>1, <2>3, WriteEffect
    <3>3. j = i <=> u = OwnerOf(s)
      BY <2>2, <3>1, RowNames
    <3>4. CASE u = OwnerOf(s)
      BY <1>6, <2>4, <3>1, <3>2, <3>3, <3>4
    <3>5. CASE u # OwnerOf(s)
      BY <2>2, <3>2, <3>3, <3>5
    <3>6. QED
      BY <3>4, <3>5
  <2>5. CASE Op(s) \notin Switching
    <3>0. Op(s) \in Operations /\ Op(s) # "settings"
      BY <2>2, JobFields DEF JobsOK, Placed, JobOK
    <3>1. j \in LinkRows \cup DomainRows
      <4>1. CASE Op(s) \in {"addAlias", "addDomain", "swapDomain"}
        BY <2>2, <4>1, StockAdded
      <4>2. CASE Op(s) \in {"dropAlias", "dropDomain"}
        BY <2>2, <4>2, StockDropped
      <4>3. CASE Op(s) = "editAlias"
        BY <2>1, <2>2, <4>3, AliasEdited
      <4>4. QED
        BY <2>5, <3>0, <4>1, <4>2, <4>3 DEF Operations, Switching
    <3>2. draft'[s][i] = draft[s][i]
      BY <1>0, <2>1, <2>3, <3>1, WriteEffect, RowNames
    <3>3. QED
      BY <2>2, <2>5, <3>2
  <2>6. QED
    BY <2>4, <2>5
<1>7. QED
  BY <1>1, <1>2, <1>3, <1>4, <1>5, <1>6 DEF Proceed

\* What a page becomes when a request writes back what it changed of what it read.
LEMMA PageChange ==
    ASSUME TypeInv, UnitsOK, NEW s \in Sessions, WriteRow(s), Op(s) \in Switching,
           NEW row, row = Updated(mine[s], Changed(s), Seen(s, Page(OwnerOf(s)))),
           row \in PageRow
    PROVE  LET old == db[Page(OwnerOf(s))]
           IN  /\ Exists(old) =>
                     /\ old.slug # row.slug => Op(s) = "rename"
                     /\ old.slug # row.slug \/ (row.published /\ ~old.published) => unit[s]
               /\ mine[s] = old /\ Op(s) = "rename" =>
                     row.slug # mine[s].slug /\ row.former = mine[s].slug
               /\ mine[s] = old /\ Op(s) = "publish" /\ unit[s] =>
                     row.published /\ ~mine[s].published
<1> USE DEF TypeInv, SessionsOK, JobsOK
<1> DEFINE i == Page(OwnerOf(s))
<1>0. pc[s] = "write" /\ OwnerOf(s) \in Users /\ job[s].slug \in Slugs \cup {NoSlug}
      /\ (Op(s) = "rename" => job[s].slug \in Slugs)
  BY JobFields DEF WriteRow
<1>1. mine[s] \in PageRow /\ Seen(s, i) \in PageRow /\ i \in Pages /\ i \in Rows
  BY <1>0, RowNames DEF Placed, ReadOK, Opening
<1>2. Exists(db[i]) => Seen(s, i) = db[i]
  BY <1>0 DEF UnitsOK, PageDraftOK, Exists, Seen
<1>3. mine[s] = db[i] => Exists(db[i])
  BY <1>1, RowsAreReal DEF Exists
<1>4. UnitOK(s)
  BY DEF UnitsOK
<1>5. CASE Op(s) = "rename"
  <2>1. /\ Changed(s) \in PageRow /\ Changed(s).slug = job[s].slug
        /\ Changed(s).former = mine[s].slug /\ Changed(s).published = mine[s].published
    BY <1>0, <1>1, <1>5, RenamedPage DEF Changed
  <2>2. /\ row.slug = IF Changed(s).slug = mine[s].slug THEN Seen(s, i).slug ELSE Changed(s).slug
        /\ row.former = IF Changed(s).former = mine[s].former THEN Seen(s, i).former
                        ELSE Changed(s).former
    BY <1>1, <2>1, UpdatedPage
  <2>3. job[s].slug # mine[s].slug /\ unit[s]
    BY <1>0, <1>4, <1>5 DEF UnitOK
  <2>4. QED
    BY <1>2, <1>3, <1>5, <2>1, <2>2, <2>3
<1>6. CASE Op(s) = "publish"
  <2>1. /\ Changed(s) = [mine[s] EXCEPT !.published = TRUE]
    BY <1>6 DEF Changed
  <2>2. Changed(s) \in PageRow /\ Changed(s).slug = mine[s].slug /\ Changed(s).published
    BY <1>1, <2>1, SwitchedPage
  <2>3. /\ row.slug = IF Changed(s).slug = mine[s].slug THEN Seen(s, i).slug ELSE Changed(s).slug
        /\ row.published = IF Changed(s).published = mine[s].published
                           THEN Seen(s, i).published ELSE Changed(s).published
    BY <1>1, <2>2, UpdatedPage
  <2>4. unit[s] <=> ~mine[s].published
    BY <1>0, <1>4, <1>6 DEF UnitOK
  <2>5. /\ mine[s].published \in BOOLEAN /\ Seen(s, i).published \in BOOLEAN
        /\ Changed(s).published \in BOOLEAN
    BY <1>1, <2>2 DEF PageRow
  <2>6. unit[s] => row.published /\ ~mine[s].published
    BY <2>2, <2>3, <2>4, <2>5
  <2>7. ~unit[s] => row.published = Seen(s, i).published
    BY <2>2, <2>3, <2>4, <2>5
  <2>8. QED
    BY <1>2, <1>3, <1>6, <2>2, <2>3, <2>6, <2>7
<1>7. CASE Op(s) = "unpublish"
  <2>1. /\ Changed(s) = [mine[s] EXCEPT !.published = FALSE]
    BY <1>7 DEF Changed
  <2>2. Changed(s) \in PageRow /\ Changed(s).slug = mine[s].slug /\ ~Changed(s).published
    BY <1>1, <2>1, SwitchedPage
  <2>3. /\ row.slug = IF Changed(s).slug = mine[s].slug THEN Seen(s, i).slug ELSE Changed(s).slug
        /\ row.published = IF Changed(s).published = mine[s].published
                           THEN Seen(s, i).published ELSE Changed(s).published
    BY <1>1, <2>2, UpdatedPage
  <2>4. row.published => Seen(s, i).published
    BY <2>2, <2>3
  <2>5. QED
    BY <1>2, <1>3, <1>7, <2>2, <2>3, <2>4
<1>8. QED
  BY <1>5, <1>6, <1>7 DEF Switching

\* What UnitsOK says of one session and one page.
PageOK(s, u) ==
    /\ draft[s][Page(u)] # Unwritten => PageDraftOK(s, u)
    /\ Effective(s, u) => pc[s] = "commit" /\ unit[s] /\ u = OwnerOf(s)
    /\ Exists(db[Page(u)]) /\ db[Page(u)].slug # Seen(s, Page(u)).slug => Op(s) = "rename"

\* A page the session has not written, or has only created, is not changed by its commit.
LEMMA PageOKUnwritten ==
    ASSUME NEW s, NEW u, draft[s][Page(u)] # Unwritten => PageDraftOK(s, u) /\ ~Exists(db[Page(u)])
    PROVE  PageOK(s, u)
BY DEF PageOK, Effective, Seen

LEMMA PageKept ==
    ASSUME NamesInv, UnitsOK, [Next]_vars, NEW s \in Sessions, NEW u \in Users
    PROVE  PageOK(s, u)'
<1> USE DEF NamesInv, TypeInv, SessionsOK
<1> DEFINE i == Page(u)
<1>0. PageOK(s, u) /\ i \in Rows /\ i \in Pages /\ Placed(s)
  BY RowNames DEF UnitsOK, PageOK, JobsOK
<1>1. CASE Kept(s)
  <2>1. CASE draft[s][i] = Unwritten
    BY <1>1, <2>1, PageOKUnwritten DEF Kept, PageOK, Effective, Seen
  <2>2. CASE draft[s][i] # Unwritten
    <3>1. db'[i] = db[i] /\ draft'[s][i] = draft[s][i]
      BY <1>0, <1>1, <2>2, KeptRow
    <3>2. pc'[s] = pc[s] /\ job'[s] = job[s] /\ unit'[s] = unit[s]
      BY <1>1 DEF Kept
    <3>3. QED
      BY <1>0, <3>1, <3>2 DEF PageOK, PageDraftOK, Effective, Seen, OwnerOf, Op
  <2>3. QED
    BY <2>1, <2>2
<1>2. CASE draft'[s] = Blank
  BY <1>0, <1>2 DEF Blank, PageOK, Effective, Seen
<1>3. CASE /\ UNCHANGED db /\ draft'[s][i] = draft[s][i]
           /\ pc[s] # "commit"
           /\ pc[s] # "idle" => job'[s] = job[s]
  <2>1. CASE draft[s][i] = Unwritten
    BY <1>3, <2>1 DEF PageOK, Effective, Seen
  <2>2. CASE draft[s][i] # Unwritten
    <3>1. pc[s] # "idle" /\ pc'[s] # "idle"
      <4>1. Placed(s)'
        BY TypeInvInductive DEF JobsOK
      <4>2. QED
        BY <1>0, <1>3, <2>2, <4>1 DEF Placed, Blank
    <3>2. u = OwnerOf(s) /\ OwnerOf(s)' = OwnerOf(s) /\ db[i] = Absent
      BY <1>0, <1>3, <2>2, <3>1 DEF PageOK, PageDraftOK, OwnerOf
    <3>3. QED
      BY <1>3, <3>1, <3>2, PageOKUnwritten DEF PageOK, PageDraftOK, Effective, Exists
  <2>3. QED
    BY <2>1, <2>2
<1>4. CASE /\ pc[s] = "create" /\ pc'[s] = "open" /\ u = OwnerOf(s) /\ job'[s] = job[s]
           /\ UNCHANGED db /\ db[i] = Absent
  <2>1. OwnerOf(s)' = OwnerOf(s)
    BY <1>4 DEF OwnerOf
  <2>2. QED
    BY <1>4, <2>1 DEF PageOK, PageDraftOK, Effective, Exists
<1>5. CASE /\ WriteRow(s) /\ Op(s) \in Switching /\ u = OwnerOf(s)
           /\ draft'[s][i] = Updated(mine[s], Changed(s), Seen(s, i))
           /\ draft'[s][i] \in PageRow
  <2>1. pc'[s] = "commit" /\ UNCHANGED <<db, job, unit>>
    BY <1>5 DEF WriteRow, Goto, unitVars
  <2>2. OwnerOf(s)' = OwnerOf(s) /\ Op(s)' = Op(s)
    BY <2>1 DEF OwnerOf, Op
  <2>3. draft'[s][i] # Unwritten
    BY <1>5, RowsAreReal
  <2>4. Seen(s, i)' = draft'[s][i] /\ db'[i] = db[i]
    BY <2>1, <2>3 DEF Seen
  <2>5. Exists(db[i]) =>
           /\ db[i].slug # draft'[s][i].slug => Op(s) = "rename"
           /\ db[i].slug # draft'[s][i].slug
              \/ (draft'[s][i].published /\ ~db[i].published) => unit[s]
    BY <1>5, PageChange
  <2>6. QED
    BY <1>5, <2>1, <2>2, <2>3, <2>4, <2>5 DEF PageOK, PageDraftOK, Effective
<1>6. QED
  BY <1>1, <1>2, <1>3, <1>4, <1>5, KeptOrMoved, PageSteps

LEMMA PaidKept ==
    ASSUME NamesInv, UnitsOK, [Next]_vars, NEW s \in Sessions, pc'[s] = "commit", unit'[s]
    PROVE  PaidFor(s)'
<1> USE DEF NamesInv, TypeInv, SessionsOK
<1>1. CASE Kept(s)
  <2>0. pc[s] = "commit" /\ unit[s] /\ PaidFor(s) /\ OwnerOf(s) \in Users
    BY <1>1, JobFields DEF Kept, UnitsOK
  <2> DEFINE i == Page(OwnerOf(s))
  <2>1. i \in Rows /\ draft[s][i] # Unwritten
    BY <2>0, RowNames DEF PaidFor
  <2>2. db'[i] = db[i] /\ draft'[s][i] = draft[s][i]
    BY <1>1, <2>1, KeptRow
  <2>3. mine'[s] = mine[s] /\ OwnerOf(s)' = OwnerOf(s) /\ Op(s)' = Op(s)
    BY <1>1 DEF Kept, OwnerOf, Op
  <2>4. QED
    BY <2>0, <2>2, <2>3 DEF PaidFor
<1>2. CASE ~Kept(s)
  <2>1. Begin(s) \/ Proceed(s) \/ Abort(s)
    BY <1>2, KeptOrMoved
  <2>2. ~Leave(s)
    BY DEF Leave, Goto
  <2>3. ~Reserve(s)
    BY <2>2 DEF Reserve, Refuse, Goto
  <2>4. unit[s] /\ unit'[s] = unit[s]
    BY <2>2, <2>3, UnitSteps
  <2>5. pc[s] \in {"count", "write", "commit"} /\ Op(s) \in {"rename", "publish"}
    BY <2>4 DEF UnitsOK, UnitOK
  <2>6. WriteRow(s)
    BY <2>1, <2>2, <2>5 DEF Proceed, Begin, Abort, Open, Create, Check, LockStock, Room, Reserve,
                            CountUnit, NotReady, DropOldest, WriteFails, Commit, Refuse, Goto
  <2>7. UNCHANGED <<db, job, mine>> /\ OwnerOf(s) \in Users
    BY <2>5, <2>6, JobFields DEF WriteRow
  <2>8. OwnerOf(s)' = OwnerOf(s) /\ Op(s)' = Op(s) /\ mine'[s] = mine[s]
    BY <2>7 DEF OwnerOf, Op
  <2> DEFINE i == Page(OwnerOf(s))
  <2>9. /\ draft'[s][i] = Updated(mine[s], Changed(s), Seen(s, i))
        /\ draft'[s][i] \in PageRow
    BY <2>1, <2>2, <2>5, <2>6, <2>7, PageSteps DEF Switching
  <2>10. /\ mine[s] = db[i] /\ Op(s) = "rename" =>
               draft'[s][i].slug # mine[s].slug /\ draft'[s][i].former = mine[s].slug
         /\ mine[s] = db[i] /\ Op(s) = "publish" /\ unit[s] =>
               draft'[s][i].published /\ ~mine[s].published
    BY <2>5, <2>6, <2>9, PageChange DEF Switching
  <2>11. QED
    BY <2>4, <2>7, <2>8, <2>9, <2>10, RowsAreReal DEF PaidFor
<1>3. QED
  BY <1>1, <1>2

LEMMA UnitsKept ==
    ASSUME NamesInv, UnitsOK, [Next]_vars
    PROVE  UnitsOK'
<1>1. ASSUME NEW s \in Sessions PROVE UnitOK(s)'
  BY UnitKept DEF NamesInv
<1>2. ASSUME NEW s \in Sessions, NEW u \in Users PROVE PageOK(s, u)'
  BY PageKept
<1>3. ASSUME NEW s \in Sessions, pc'[s] = "commit", unit'[s] PROVE PaidFor(s)'
  BY <1>3, PaidKept
<1>4. QED
  BY <1>1, <1>2, <1>3 DEF UnitsOK, PageOK

LEMMA FewerHolders ==
    ASSUME NEW many, IsFiniteSet(many), NEW few, few \subseteq many
    PROVE  /\ IsFiniteSet(few)
           /\ Cardinality(few) \in Nat /\ Cardinality(many) \in Nat
           /\ Cardinality(few) <= Cardinality(many)
           /\ \A x \in many : x \notin few => Cardinality(few) + 1 <= Cardinality(many)
<1>1. /\ IsFiniteSet(few) /\ Cardinality(few) <= Cardinality(many)
      /\ Cardinality(few) \in Nat /\ Cardinality(many) \in Nat
  BY FS_Subset, FS_CardinalityType
<1>2. ASSUME NEW x \in many, x \notin few PROVE Cardinality(few) + 1 <= Cardinality(many)
  <2>1. few \subseteq many \ {x} /\ IsFiniteSet(many \ {x})
        /\ Cardinality(many \ {x}) = Cardinality(many) - 1
    BY <1>2, FS_RemoveElement
  <2>2. Cardinality(few) <= Cardinality(many \ {x})
    BY <2>1, FS_Subset
  <2>3. QED
    BY <1>1, <2>1, <2>2
<1>3. QED
  BY <1>1, <1>2

LEMMA MoreHolders ==
    ASSUME NEW few, IsFiniteSet(few), NEW x, NEW many, many \subseteq few \cup {x}
    PROVE  /\ IsFiniteSet(many)
           /\ Cardinality(few) \in Nat /\ Cardinality(many) \in Nat
           /\ Cardinality(many) <= Cardinality(few) + 1
<1>1. /\ IsFiniteSet(few \cup {x}) /\ Cardinality(few) \in Nat
      /\ Cardinality(few \cup {x}) <= Cardinality(few) + 1
  <2>1. /\ IsFiniteSet(few \cup {x}) /\ Cardinality(few) \in Nat
        /\ Cardinality(few \cup {x}) = IF x \in few THEN Cardinality(few) ELSE Cardinality(few) + 1
    BY FS_AddElement, FS_CardinalityType
  <2>2. QED
    BY <2>1
<1>2. /\ IsFiniteSet(many) /\ Cardinality(many) <= Cardinality(few \cup {x})
      /\ Cardinality(many) \in Nat /\ Cardinality(few \cup {x}) \in Nat
  BY <1>1, FS_Subset, FS_CardinalityType
<1>3. QED
  BY <1>1, <1>2

\* Who holds a unit held it before, or reserves it now for its owner.
LEMMA HolderSteps ==
    ASSUME NamesInv, UnitsOK, [Next]_vars, NEW u, NEW s \in UnitHolders(u)'
    PROVE  \/ s \in UnitHolders(u)
           \/ Reserve(s) /\ ~Refuse(s) /\ OwnerOf(s) = u
<1> USE DEF NamesInv, TypeInv, SessionsOK
<1>0. s \in Sessions /\ unit'[s] /\ job'[s].user = u /\ ~Leave(s)
  BY DEF UnitHolders, Leave
<1>1. CASE Reserve(s)
  BY <1>0, <1>1 DEF Reserve, Refuse, OwnerOf
<1>2. CASE ~Reserve(s)
  <2>1. unit[s]
    BY <1>0, <1>2, UnitSteps
  <2>2. pc[s] \in {"count", "write", "commit"}
    BY <1>0, <2>1 DEF UnitsOK, UnitOK
  <2>3. job'[s] = job[s]
    <3>1. CASE Kept(s)
      BY <3>1 DEF Kept
    <3>2. CASE CountUnit(s) \/ WriteRow(s)
      BY <3>2 DEF CountUnit, WriteRow
    <3>3. CASE WriteFails(s) \/ Commit(s) \/ Abort(s)
      BY <1>0, <3>3 DEF WriteFails, Refuse, Commit, Abort
    <3>4. CASE Begin(s) \/ Open(s) \/ Create(s) \/ Check(s) \/ LockStock(s) \/ Room(s)
               \/ NotReady(s) \/ DropOldest(s)
      BY <2>2, <3>4 DEF Begin, Open, Create, Check, LockStock, Room, NotReady, DropOldest
    <3>5. QED
      BY <1>0, <1>2, <3>1, <3>2, <3>3, <3>4, KeptOrMoved DEF Proceed
  <2>4. QED
    BY <1>0, <2>1, <2>3 DEF UnitHolders
<1>3. QED
  BY <1>1, <1>2

\* The ledger and the history move when a request commits or is aborted.
LEMMA LedgerSteps ==
    ASSUME [Next]_vars
    PROVE  \/ UNCHANGED <<spent, burned, changes>>
           \/ \E s \in Sessions : Commit(s) \/ Abort(s)
<1> DEFINE P == \/ UNCHANGED <<spent, burned, changes>>
                \/ \E s \in Sessions : Commit(s) \/ Abort(s)
<1>1. ASSUME NEW s \in Sessions, Refuse(s) PROVE P
  BY <1>1 DEF Refuse, historyVars
<1>2. ASSUME NEW s \in Sessions, Begin(s) \/ Proceed(s) \/ Abort(s) PROVE P
  <2>1. CASE Commit(s) \/ Abort(s)
    BY <2>1
  <2>2. CASE Begin(s) \/ LockStock(s) \/ CountUnit(s) \/ DropOldest(s) \/ WriteRow(s)
    BY <2>2 DEF Begin, LockStock, CountUnit, DropOldest, WriteRow, unitVars, historyVars
  <2>3. CASE Open(s) \/ Create(s) \/ Check(s) \/ Room(s) \/ Reserve(s) \/ NotReady(s)
             \/ WriteFails(s)
    BY <1>1, <2>3 DEF Open, Opened, Create, Check, Room, Reserve, NotReady, WriteFails, Step,
                      unitVars, historyVars
  <2>4. QED
    BY <1>2, <2>1, <2>2, <2>3 DEF Proceed
<1>3. ASSUME NEW u \in Users, ChangePlan(u) PROVE P
  BY <1>3 DEF ChangePlan, unitVars
<1>4. CASE UNCHANGED vars
  BY <1>4 DEF vars, unitVars, historyVars
<1>5. QED
  BY <1>2, <1>3, <1>4 DEF Next

LEMMA LedgerKept ==
    ASSUME UnitsInv, [Next]_vars
    PROVE  LedgerOK' /\ ChangesArePaidFor'
<1> USE DEF UnitsInv, NamesInv, TypeInv, SessionsOK, CountersOK
<1> SUFFICES ASSUME NEW u \in Users
             PROVE  IsFiniteSet(UnitHolders(u)') /\ changes'[u] <= spent'[u]
                    /\ Booked(u)' <= PublishLimit
  BY DEF LedgerOK, ChangesArePaidFor
<1> DEFINE few == Cardinality(UnitHolders(u)')
           many == Cardinality(UnitHolders(u))
<1>0. /\ IsFiniteSet(UnitHolders(u)) /\ PublishLimit \in Nat /\ many \in Nat
      /\ Booked(u) = spent[u] + burned[u] + many
      /\ Booked(u)' = spent'[u] + burned'[u] + few
      /\ spent[u] + burned[u] + many <= PublishLimit /\ changes[u] <= spent[u]
      /\ spent[u] \in Nat /\ burned[u] \in Nat /\ changes[u] \in Nat
  BY PortfolioAssumption, FS_CardinalityType DEF LedgerOK, ChangesArePaidFor, Booked, UnitHolders
<1>1. ASSUME NEW s \in Sessions, Reserve(s), ~Refuse(s)
      PROVE  IsFiniteSet(UnitHolders(u)') /\ changes'[u] <= spent'[u]
             /\ Booked(u)' <= PublishLimit
  <2>1. UNCHANGED <<spent, burned, changes>> /\ ~(Booked(OwnerOf(s)) >= PublishLimit)
    BY <1>1 DEF Reserve, historyVars
  <2>2. \A o \in Sessions : o # s => ~Reserve(o) \/ Refuse(o)
    BY <1>1, OthersKept DEF Reserve, Goto, Kept, Proceed
  <2>3. UnitHolders(u)' \subseteq UnitHolders(u) \cup {s}
        /\ (OwnerOf(s) # u => UnitHolders(u)' \subseteq UnitHolders(u))
    <3>1. \A o \in UnitHolders(u)' : o \in UnitHolders(u) \/ (o = s /\ OwnerOf(s) = u)
      <4>1. \A o \in UnitHolders(u)' : o \in Sessions
        BY DEF UnitHolders
      <4>2. QED
        BY <2>2, <4>1, HolderSteps
    <3>2. QED
      BY <3>1
  <2>4. CASE OwnerOf(s) = u
    <3>1. IsFiniteSet(UnitHolders(u)') /\ few \in Nat /\ few <= many + 1
      BY <1>0, <2>3, MoreHolders
    <3> HIDE DEF few, many
    <3>2. QED
      BY <1>0, <2>1, <2>4, <3>1
  <2>5. CASE OwnerOf(s) # u
    <3>1. IsFiniteSet(UnitHolders(u)') /\ few \in Nat /\ few <= many
      BY <1>0, <2>3, <2>5, FewerHolders
    <3> HIDE DEF few, many
    <3>2. QED
      BY <1>0, <2>1, <3>1
  <2>6. QED
    BY <2>4, <2>5
<1>2. CASE \A s \in Sessions : ~Reserve(s) \/ Refuse(s)
  <2>1. UnitHolders(u)' \subseteq UnitHolders(u)
    <3>1. \A o \in UnitHolders(u)' : o \in Sessions
      BY DEF UnitHolders
    <3>2. QED
      BY <1>2, <3>1, HolderSteps
  <2>2. IsFiniteSet(UnitHolders(u)') /\ few \in Nat /\ few <= many
    BY <1>0, <2>1, FewerHolders
  <2>3. CASE UNCHANGED <<spent, burned, changes>>
    <3> HIDE DEF few, many
    <3>1. QED
      BY <1>0, <2>2, <2>3
  <2>4. ASSUME NEW s \in Sessions, Commit(s) \/ Abort(s)
        PROVE  changes'[u] <= spent'[u] /\ Booked(u)' <= PublishLimit
    <3>0. pc[s] # "idle" /\ OwnerOf(s) \in Users /\ ~unit'[s]
      BY <2>4, JobFields DEF Commit, Abort, Leave
    <3>1. unit[s] /\ OwnerOf(s) = u => few + 1 <= many
      <4>1. unit[s] /\ OwnerOf(s) = u => s \in UnitHolders(u) /\ s \notin UnitHolders(u)'
        BY <3>0 DEF UnitHolders, OwnerOf
      <4>2. QED
        BY <1>0, <2>1, <4>1, FewerHolders
    <3>2. /\ spent'[u] + burned'[u] =
                spent[u] + burned[u] + (IF unit[s] /\ OwnerOf(s) = u THEN 1 ELSE 0)
          /\ spent'[u] \in Nat /\ burned'[u] \in Nat
      BY <1>0, <2>4, <3>0 DEF Commit, Abort
    <3>3. changes'[u] <= spent'[u]
      <4>1. CASE Commit(s)
        <5>1. /\ spent'[u] = IF unit[s] /\ OwnerOf(s) = u THEN spent[u] + 1 ELSE spent[u]
              /\ changes'[u] = IF Effective(s, u) THEN changes[u] + 1 ELSE changes[u]
          BY <3>0, <4>1 DEF Commit
        <5>2. Effective(s, u) => unit[s] /\ u = OwnerOf(s)
          BY DEF UnitsOK
        <5>3. QED
          BY <1>0, <5>1, <5>2
      <4>2. CASE Abort(s)
        BY <1>0, <4>2 DEF Abort, historyVars
      <4>3. QED
        BY <2>4, <4>1, <4>2
    <3> HIDE DEF few, many
    <3>4. QED
      BY <1>0, <2>2, <3>1, <3>2, <3>3
  <2>5. QED
    BY <2>2, <2>3, <2>4, LedgerSteps
<1>3. QED
  BY <1>1, <1>2

LEMMA UnitsInvInitially ==
    ASSUME Init
    PROVE  UnitsInv
<1>1. NamesInv
  BY NamesInvInitially
<1>2. /\ \A s \in Sessions : pc[s] = "idle" /\ ~unit[s]
      /\ \A s \in Sessions, i \in Rows : draft[s][i] = Unwritten
  BY DEF Init, Blank
<1>3. UnitsOK
  BY <1>2, RowNames DEF UnitsOK, UnitOK, Effective, Seen
<1>4. \A u \in Users : UnitHolders(u) = {}
  BY <1>2 DEF UnitHolders
<1>5. LedgerOK
  BY <1>4, FS_EmptySet DEF LedgerOK
<1>6. ChangesArePaidFor
  <2>1. ASSUME NEW u \in Users PROVE changes[u] <= spent[u] /\ Booked(u) <= PublishLimit
    <3>1. Booked(u) = spent[u] + burned[u] + Cardinality(UnitHolders(u))
      BY DEF Booked, UnitHolders
    <3>2. Cardinality(UnitHolders(u)) = 0
      BY <1>4, FS_EmptySet
    <3>3. changes[u] = 0 /\ spent[u] = 0 /\ burned[u] = 0 /\ PublishLimit \in Nat
      BY PortfolioAssumption DEF Init
    <3>4. QED
      BY <3>1, <3>2, <3>3
  <2>2. QED
    BY <2>1 DEF ChangesArePaidFor
<1>7. QED
  BY <1>1, <1>3, <1>5, <1>6 DEF UnitsInv

LEMMA UnitsInvAlways == Spec => []UnitsInv
<1>1. Init => UnitsInv
  BY UnitsInvInitially
<1>2. UnitsInv /\ [Next]_vars => UnitsInv'
  BY NamesInvInductive, UnitsKept, LedgerKept DEF UnitsInv
<1>3. QED
  BY <1>1, <1>2, PTL DEF Spec

\* ChangesArePaidFor holds of every behaviour, whatever the constants: a request that holds no
\* unit writes back neither a new slug nor a publication, even to a page others changed after
\* it was read (publish and update_settings), and the gate's count stays within the limit.
THEOREM ChangesAlwaysPaidFor == Spec => []ChangesArePaidFor
<1>1. UnitsInv => ChangesArePaidFor
  BY DEF UnitsInv
<1>2. QED
  BY <1>1, UnitsInvAlways, PTL

\* WasteNeedsAStaleRead: a unit is used up in vain only by a request that acted on a page
\* another had changed since it was read.
THEOREM WasteAlwaysNeedsAStaleRead == Spec => WasteNeedsAStaleRead
<1>1. ASSUME UnitsInv, [Next]_vars, NEW s \in Sessions, pc[s] = "commit", unit[s],
             spent'[OwnerOf(s)] > spent[OwnerOf(s)], mine[s] = db[Page(OwnerOf(s))]
      PROVE  changes'[OwnerOf(s)] > changes[OwnerOf(s)]
  <2> USE DEF UnitsInv, NamesInv, TypeInv, SessionsOK, CountersOK
  <2> DEFINE u == OwnerOf(s)
             i == Page(u)
  <2>0. u \in Users /\ i \in Rows /\ spent[u] \in Nat /\ changes[u] \in Nat /\ PaidFor(s)
        /\ mine[s] \in PageRow
    BY <1>1, JobFields, RowNames DEF UnitsOK, JobsOK, Placed, ReadOK, Opening
  <2>1. ~UNCHANGED spent
    BY <1>1, <2>0
  <2>2. PICK o \in Sessions : Commit(o)
    BY <1>1, <2>1, LedgerSteps DEF Abort
  <2>3. pc[o] = "commit" /\ unit[o] /\ OwnerOf(o) = u
    <3>1. pc[o] = "commit" /\ spent' = [spent EXCEPT ![OwnerOf(o)] = IF unit[o] THEN @ + 1 ELSE @]
      BY <2>2 DEF Commit
    <3>2. OwnerOf(o) \in Users
      BY <1>1, <3>1, JobFields
    <3>3. QED
      BY <1>1, <2>0, <3>1, <3>2
  \* Both have written the page, so they are one.
  <2>4. o = s
    BY <1>1, <2>0, <2>3 DEF UnitsOK, PaidFor, Exclusive
  <2>5. Effective(s, u)
    <3>1. Op(s) \in {"rename", "publish"}
      BY <1>1 DEF UnitsOK, UnitOK
    <3>2. Exists(db[i]) /\ Seen(s, i) = draft[s][i]
      BY <1>1, <2>0, RowsAreReal DEF Exists, PaidFor, Seen
    <3>3. QED
      BY <1>1, <2>0, <3>1, <3>2 DEF PaidFor, Effective
  <2>6. changes'[u] = changes[u] + 1
    BY <2>0, <2>2, <2>4, <2>5 DEF Commit
  <2>7. QED
    BY <2>0, <2>6
<1>2. UnitsInv /\ [Next]_vars =>
         [\A s \in Sessions :
             pc[s] = "commit" /\ unit[s] /\ spent'[OwnerOf(s)] > spent[OwnerOf(s)] =>
                 \/ changes'[OwnerOf(s)] > changes[OwnerOf(s)]
                 \/ mine[s] # db[Page(OwnerOf(s))]]_vars
  BY <1>1
<1>3. QED
  BY <1>2, UnitsInvAlways, PTL DEF Spec, WasteNeedsAStaleRead

\* OldSlugStillLeadsHome: right after a rename that nothing overlapped, the old slug of a
\* published page still leads to it unless another has a claim on that slug, because the rename
\* writes the slug it read as the former one and the resolver falls back on it.
THEOREM OldSlugAlwaysLeadsHome == Spec => OldSlugStillLeadsHome
<1>1. ASSUME UnitsInv, [Next]_vars, NEW u \in Users, NEW x \in Slugs,
             PublishedPage(u), PublishedPage(u)', db[Page(u)].slug = x, db'[Page(u)].slug # x,
             \A s \in Sessions : pc[s] = "commit" /\ pc'[s] = "idle" => mine[s] = db[Page(u)]
      PROVE  Shown(x)' = {u} \/ Taken(db', x, Page(u)) \/ Redirects(x)' \ {u} # {}
  <2> USE DEF UnitsInv, NamesInv, TypeInv, SessionsOK
  <2> DEFINE i == Page(u)
  <2>0. i \in Rows
    BY RowNames
  <2>1. PICK s \in Sessions : Commit(s) /\ draft[s][i] # Unwritten /\ db'[i] = draft[s][i]
    BY <1>1, <2>0, DbSteps
  <2>2. pc[s] = "commit" /\ pc'[s] = "idle" /\ mine[s] = db[i]
    BY <1>1, <2>1 DEF Commit, Leave, Goto
  <2>3. Effective(s, u) /\ Exists(db[i]) /\ db[i].slug # Seen(s, i).slug
    BY <1>1, <2>1 DEF Effective, PublishedPage, Seen
  <2>4. unit[s] /\ u = OwnerOf(s) /\ Op(s) = "rename"
    BY <1>1, <2>3 DEF UnitsOK
  <2>5. db'[i].former = x
    BY <1>1, <2>1, <2>2, <2>4 DEF UnitsOK, PaidFor
  <2>6. u \in Redirects(x)'
    BY <1>1, <2>5 DEF Redirects
  <2>7. ASSUME NEW v \in ByPrimary(x)' PROVE Taken(db', x, i)
    <3>1. v \in Users /\ PublishedPage(v)' /\ db'[Page(v)].slug = x
      BY DEF ByPrimary
    <3>2. Page(v) \in Pages \ {i} /\ Exists(db'[Page(v)])
      BY <1>1, <3>1, RowNames DEF PublishedPage, Exists
    <3>3. QED
      BY <3>1, <3>2 DEF Taken
  <2>8. ASSUME NEW v \in ByAlias(x)' PROVE Taken(db', x, i)
    <3>1. PICK l \in Honoured(v)' : db'[Link(l)].slug = x
      BY DEF ByAlias
    <3>2. l \in LinkIds /\ Exists(db'[Link(l)])
      BY DEF Honoured, Oldest, ActiveLinks, LinksOf, Exists
    <3>3. Link(l) \in LinkRows /\ Link(l) # i
      BY <3>2, RowNames
    <3>4. QED
      BY <3>1, <3>2, <3>3 DEF Taken
  <2>9. CASE Resolve(x)' # {}
    BY <2>7, <2>8, <2>9 DEF Resolve
  <2>10. CASE Resolve(x)' = {}
    BY <2>6, <2>10 DEF Shown
  <2>11. QED
    BY <2>9, <2>10
<1>2. UnitsInv /\ [Next]_vars =>
         [\A u \in Users, x \in Slugs :
             (/\ PublishedPage(u) /\ PublishedPage(u)'
              /\ db[Page(u)].slug = x /\ db'[Page(u)].slug # x
              /\ \A s \in Sessions :
                    pc[s] = "commit" /\ pc'[s] = "idle" => mine[s] = db[Page(u)])
             => Shown(x)' = {u} \/ Taken(db', x, Page(u)) \/ Redirects(x)' \ {u} # {}]_vars
  BY <1>1
<1>3. QED
  BY <1>2, UnitsInvAlways, PTL DEF Spec, OldSlugStillLeadsHome

=============================================================================
