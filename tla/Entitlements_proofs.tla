-------------------------- MODULE Entitlements_proofs --------------------------
(***************************************************************************)
(* What is proved of Entitlements for every value of its constants: any    *)
(* number of requests, writers and edits, any TTL and any faults.          *)
(***************************************************************************)
EXTENDS Entitlements, FiniteSetTheorems, TLAPS

\* What a step of the system is, with one hypothesis for each action.
LEMMA NextCases ==
    ASSUME NEW P, [Next]_vars,
           ASSUME NEW r \in Requests, Begin(r) PROVE P,
           ASSUME NEW r \in Requests, ReadVersion(r) PROVE P,
           ASSUME NEW r \in Requests, CacheHit(r) PROVE P,
           ASSUME NEW r \in Requests, CacheMiss(r) PROVE P,
           ASSUME NEW r \in Requests, ReadSubscription(r) PROVE P,
           ASSUME NEW r \in Requests, ReadFeatures(r) PROVE P,
           ASSUME NEW r \in Requests, ReadOverrides(r) PROVE P,
           ASSUME NEW r \in Requests, SetEntitlements(r) PROVE P,
           ASSUME NEW r \in Requests, SetFails(r) PROVE P,
           ASSUME NEW w \in Writers, CommitUserChange(w) PROVE P,
           ASSUME NEW w \in Writers, CommitPlanChange(w) PROVE P,
           ASSUME NEW w \in Writers, ReadVersionToInvalidate(w) PROVE P,
           ASSUME NEW w \in Writers, Invalidate(w) PROVE P,
           ASSUME NEW w \in Writers, BumpCatalogVersion(w) PROVE P,
           ASSUME NEW w \in Writers, WriterCrash(w) PROVE P,
           ASSUME EvictVersion PROVE P,
           ASSUME Tick PROVE P,
           ASSUME UNCHANGED vars PROVE P
    PROVE  P
BY DEF Next, Answer, Finish

-----------------------------------------------------------------------------
(* Dates, parts and snapshots *)

LEMMA OlderType ==
    ASSUME NEW d \in Date
    PROVE  Older(d) \in Date
BY EntitlementsAssumption DEF Date, Older

LEMMA EarlierType ==
    ASSUME NEW a \in Date, NEW b \in Date
    PROVE  Earlier(a, b) \in Date
BY DEF Date, Earlier

\* The earlier of two dates has not come: neither has.
LEMMA EarlierUnexpired ==
    ASSUME NEW a \in Date, NEW b \in Date, NEW ago \in Nat, Unexpired(Earlier(a, b), ago)
    PROVE  Unexpired(a, ago) /\ Unexpired(b, ago)
BY EntitlementsAssumption DEF Date, Earlier, Unexpired

LEMMA OlderEarlier ==
    ASSUME NEW a \in Date, NEW b \in Date
    PROVE  Older(Earlier(a, b)) = Earlier(Older(a), Older(b))
BY EntitlementsAssumption DEF Date, Earlier, Older

LEMMA PartType ==
    /\ Absent \in Part
    /\ \A part \in Part, ago \in Int : Found(part, ago) \in Part
    /\ \A part \in Part :
        OlderPart(part) \in Part /\ OlderPart(part).ends = Older(part.ends)
<1>1. Absent \in Part
  BY DEF Absent, Part, Date
<1>2. ASSUME NEW part \in Part
      PROVE  OlderPart(part) \in Part /\ OlderPart(part).ends = Older(part.ends)
  <2>1. part.ends \in Date /\ part.value \in Values \cup {NoValue}
    BY DEF Part
  <2>2. OlderPart(part) = [value |-> part.value, ends |-> Older(part.ends)]
    BY DEF Part, OlderPart
  <2>3. QED
    BY <2>1, <2>2, OlderType DEF Part
<1>3. QED
  BY <1>1, <1>2 DEF Found

LEMMA GivenType == [value : Values, ends : Terms \cup {Never}] \subseteq Part
<1>1. ASSUME NEW d \in Terms PROVE d \in Date
  <2>1. d \in Nat
    BY EntitlementsAssumption
  <2>2. QED
    BY <2>1 DEF Date
<1>2. Terms \cup {Never} \subseteq Date
  BY <1>1 DEF Date
<1>3. QED
  BY <1>2 DEF Part

LEMMA SnapshotType ==
    /\ Blank \in Snapshot
    /\ \A s \in Snapshot :
        /\ s.subscription \in Part /\ s.subscription.ends \in Date
        /\ s.override \in Part /\ s.override.ends \in Date
        /\ ValidUntil(s) \in Date
        /\ OlderSnap(s) \in Snapshot
        /\ ValidUntil(OlderSnap(s)) = Older(ValidUntil(s))
<1>1. Blank \in Snapshot
  BY PartType DEF Blank, Snapshot
<1>2. ASSUME NEW s \in Snapshot
      PROVE  /\ s.subscription \in Part /\ s.subscription.ends \in Date
             /\ s.override \in Part /\ s.override.ends \in Date
             /\ ValidUntil(s) \in Date
             /\ OlderSnap(s) \in Snapshot
             /\ ValidUntil(OlderSnap(s)) = Older(ValidUntil(s))
  <2>1. s.subscription \in Part /\ s.override \in Part
        /\ s.catalog \in Catalogs \cup {NoValue}
    BY DEF Snapshot
  <2>2. s.subscription.ends \in Date /\ s.override.ends \in Date
    BY <2>1 DEF Part
  <2>3. OlderSnap(s) = [catalog |-> s.catalog, subscription |-> OlderPart(s.subscription),
                        override |-> OlderPart(s.override)]
    BY DEF OlderSnap
  <2>4. OlderSnap(s) \in Snapshot
    BY <2>1, <2>3, PartType DEF Snapshot
  <2>5. ValidUntil(OlderSnap(s)) = Earlier(Older(s.subscription.ends), Older(s.override.ends))
    BY <2>1, <2>3, PartType DEF ValidUntil
  <2>6. QED
    BY <2>1, <2>2, <2>4, <2>5, OlderEarlier, EarlierType DEF ValidUntil
<1>3. QED
  BY <1>1, <1>2

\* A snapshot that is worth caching is cached for at most TTL ticks.
LEMMA TtlType ==
    ASSUME NEW s \in Snapshot, NEW ago \in Nat, TtlOf(s, ago) > 0
    PROVE  TtlOf(s, ago) \in 1..TTL
<1>1. ValidUntil(s) \in Date /\ TTL \in Nat
  BY SnapshotType, EntitlementsAssumption
<1>2. QED
  BY <1>1, EntitlementsAssumption DEF TtlOf, Unexpired, Date

-----------------------------------------------------------------------------
(***************************************************************************)
(* Types.  Two of them need more than the types themselves: the version    *)
(* stays within the edits because each bump follows its own commit, and    *)
(* the TTL of an entry is positive because the request checked it before   *)
(* the call, however long the call took.                                   *)
(***************************************************************************)
Bumping == {w \in Writers : wpc[w] = "bump"}

BumpsFollowEdits == version + Cardinality(Bumping) <= edits

WorthCaching ==
    \A r \in Requests : pc[r] \in {"setVersion", "set"} => TtlOf(snap[r], age[r]) > 0

TypeInv == TypeOK /\ BumpsFollowEdits /\ WorthCaching

LEMMA BumpingCount == IsFiniteSet(Bumping) /\ Cardinality(Bumping) \in Nat
<1>1. Bumping \in SUBSET Writers
  BY DEF Bumping
<1>2. QED
  BY <1>1, EntitlementsAssumption, FS_Subset, FS_CardinalityType

\* A writer that starts to bump is one more, one that stops is one less.
LEMMA BumpingMoves ==
    ASSUME TypeOK, NEW w \in Writers, NEW step \in {"idle", "version", "delete", "bump"},
           WriterGoto(w, step)
    PROVE  /\ Cardinality(Bumping)' \in Nat
           /\ wpc[w] = "bump" /\ step # "bump"
                => Cardinality(Bumping)' = Cardinality(Bumping) - 1
           /\ wpc[w] # "bump" /\ step = "bump"
                => Cardinality(Bumping)' = Cardinality(Bumping) + 1
           /\ wpc[w] # "bump" /\ step # "bump"
                => Cardinality(Bumping)' = Cardinality(Bumping)
<1>1. CASE wpc[w] = "bump" /\ step # "bump"
  <2>1. Bumping' = Bumping \ {w} /\ w \in Bumping
    BY <1>1 DEF Bumping, WriterGoto, TypeOK
  <2>2. QED
    BY <1>1, <2>1, BumpingCount, FS_RemoveElement, FS_CardinalityType
<1>2. CASE wpc[w] # "bump" /\ step = "bump"
  <2>1. Bumping' = Bumping \cup {w} /\ w \notin Bumping
    BY <1>2 DEF Bumping, WriterGoto, TypeOK
  <2>2. QED
    BY <1>2, <2>1, BumpingCount, FS_AddElement
<1>3. CASE (wpc[w] = "bump") <=> (step = "bump")
  <2>1. Bumping' = Bumping
    BY <1>3 DEF Bumping, WriterGoto, TypeOK
  <2>2. QED
    BY <1>3, <2>1, BumpingCount
<1>4. QED
  BY <1>1, <1>2, <1>3

LEMMA InitType == Init => TypeInv
<1> SUFFICES ASSUME Init PROVE TypeInv
  OBVIOUS
<1>1. 0 \in Versions /\ 0 \in 0..MaxAge
  BY EntitlementsAssumption DEF Versions
<1>2. subscription \in Part /\ override \in Part
  BY PartType, GivenType DEF Init
<1>3. TypeOK
  BY <1>1, <1>2, SnapshotType DEF Init, TypeOK
<1>4. Bumping = {}
  BY DEF Init, Bumping
<1>5. BumpsFollowEdits
  BY <1>4, FS_EmptySet DEF Init, BumpsFollowEdits
<1>6. WorthCaching
  BY DEF Init, WorthCaching
<1>7. QED
  BY <1>3, <1>5, <1>6 DEF TypeInv

\* A step of r that leaves the cache and the version alone and answers or goes on.
LEMMA RequestStep ==
    ASSUME TypeInv, NEW r \in Requests, NEW read \in Snapshot, NEW v \in Versions,
           UNCHANGED <<dbVars, version, writerVars>>,
           cache' \in [Versions -> Entry \cup {NoEntry}],
           \/ Reply(r)
           \/ /\ \E step \in {"version", "get", "subscription", "features", "overrides",
                             "setVersion", "set"} :
                 /\ Goto(r, step)
                 /\ step \in {"setVersion", "set"} => TtlOf(read, age[r]) > 0
              /\ age' = age
              /\ at' = [at EXCEPT ![r] = v]
              /\ snap' = [snap EXCEPT ![r] = read]
    PROVE  TypeInv'
<1>1. 0 \in Versions /\ 0 \in 0..MaxAge
  BY EntitlementsAssumption DEF Versions
<1>2. TypeOK'
  <2>1. catalog' \in Catalogs /\ subscription' \in Part /\ override' \in Part
        /\ edits' \in Versions /\ version' \in Versions
        /\ wpc' \in [Writers -> {"idle", "version", "delete", "bump"}]
        /\ wat' \in [Writers -> Versions]
    BY DEF TypeInv, TypeOK, dbVars, writerVars
  <2>2. pc' \in [Requests -> {"idle", "version", "get", "subscription", "features",
                              "overrides", "setVersion", "set"}]
    BY DEF TypeInv, TypeOK, Reply, Goto
  <2>3. age' \in [Requests -> 0..MaxAge] /\ at' \in [Requests -> Versions]
    BY <1>1 DEF TypeInv, TypeOK, Reply
  <2>4. snap' \in [Requests -> Snapshot]
    BY SnapshotType DEF TypeInv, TypeOK, Reply
  <2>5. QED
    BY <2>1, <2>2, <2>3, <2>4 DEF TypeOK
<1>3. BumpsFollowEdits'
  BY DEF TypeInv, BumpsFollowEdits, Bumping, dbVars, writerVars
<1>4. WorthCaching'
  BY DEF TypeInv, WorthCaching, TypeOK, Reply, Goto
<1>5. QED
  BY <1>2, <1>3, <1>4 DEF TypeInv

\* A step of w that leaves the requests alone.
LEMMA WriterStep ==
    ASSUME TypeInv, NEW w \in Writers, NEW v \in Versions,
           NEW step \in {"idle", "version", "delete", "bump"},
           WriterGoto(w, step), wat' = [wat EXCEPT ![w] = v] \/ UNCHANGED wat,
           UNCHANGED requestVars,
           catalog' \in Catalogs, subscription' \in Part, override' \in Part,
           cache' \in [Versions -> Entry \cup {NoEntry}],
           edits' \in Versions, version' \in Nat,
           \/ /\ wpc[w] = "idle" /\ edits' = edits + 1 /\ UNCHANGED version
           \/ /\ wpc[w] = "bump" /\ step = "idle" /\ UNCHANGED edits
              /\ version' = version \/ version' = version + 1
           \/ step # "bump" /\ UNCHANGED <<edits, version>>
    PROVE  TypeInv'
<1>1. BumpsFollowEdits'
  <2>1. version \in Nat /\ edits \in Nat /\ Cardinality(Bumping) \in Nat
    BY BumpingCount DEF TypeInv, TypeOK, Versions
  <2>2. QED
    BY <2>1, BumpingMoves DEF TypeInv, BumpsFollowEdits
<1>2. version' \in Versions
  <2>1. Cardinality(Bumping)' \in Nat /\ edits' \in Nat /\ edits' <= MaxEdits
    BY BumpingMoves DEF TypeInv, Versions
  <2>2. QED
    BY <1>1, <2>1, EntitlementsAssumption DEF BumpsFollowEdits, Versions
<1>3. TypeOK'
  <2>1. wpc' \in [Writers -> {"idle", "version", "delete", "bump"}]
        /\ wat' \in [Writers -> Versions]
    BY DEF TypeInv, TypeOK, WriterGoto
  <2>2. QED
    BY <1>2, <2>1 DEF TypeInv, TypeOK, requestVars
<1>4. WorthCaching'
  BY DEF TypeInv, WorthCaching, requestVars
<1>5. QED
  BY <1>1, <1>3, <1>4 DEF TypeInv

LEMMA AgedEntryType ==
    ASSUME NEW entry \in Entry \cup {NoEntry}
    PROVE  AgedEntry(entry) \in Entry \cup {NoEntry}
<1>1. CASE entry # NoEntry /\ entry.ttl > 1
  <2>1. entry \in Entry
    BY <1>1
  <2>2. entry.snap \in Snapshot /\ entry.validUntil \in Date /\ entry.ttl \in 1..TTL
        /\ entry.fill \in {"current", "outdated"}
    BY <2>1 DEF Entry
  <2>3. OlderSnap(entry.snap) \in Snapshot /\ Older(entry.validUntil) \in Date
    BY <2>2, SnapshotType, OlderType
  <2>4. entry.ttl - 1 \in 1..TTL
    BY <1>1, <2>2, EntitlementsAssumption
  <2>5. QED
    BY <1>1, <2>2, <2>3, <2>4 DEF AgedEntry, Entry
<1>2. CASE entry = NoEntry
  BY <1>2 DEF AgedEntry
<1>3. CASE entry # NoEntry /\ ~(entry.ttl > 1)
  <2>1. entry.ttl \in 1..TTL
    BY <1>3 DEF Entry
  <2>2. QED
    BY <1>3, <2>1, EntitlementsAssumption DEF AgedEntry
<1>4. QED
  BY <1>1, <1>2, <1>3

LEMMA EntryOfType ==
    ASSUME TypeInv, NEW r \in Requests, pc[r] = "set"
    PROVE  EntryOf(r) \in Entry
<1>1. snap[r] \in Snapshot /\ age[r] \in Nat
  BY EntitlementsAssumption DEF TypeInv, TypeOK
<1>2. TtlOf(snap[r], age[r]) \in 1..TTL
  BY <1>1, TtlType DEF TypeInv, WorthCaching
<1>3. QED
  BY <1>1, <1>2, SnapshotType DEF EntryOf, Entry

\* A date that is still ahead of the oldest request does not stop at the bound.
LEMMA OlderTtl ==
    ASSUME NEW s \in Snapshot, NEW ago \in Nat, ago < MaxAge, TtlOf(s, ago) > 0
    PROVE  TtlOf(OlderSnap(s), ago + 1) > 0
<1>1. ValidUntil(s) \in Date /\ ValidUntil(OlderSnap(s)) = Older(ValidUntil(s))
  BY SnapshotType
<1>2. QED
  BY <1>1, EntitlementsAssumption DEF TtlOf, Unexpired, Date, Older

LEMMA TickType ==
    ASSUME TypeInv, Tick
    PROVE  TypeInv'
<1>1. subscription' \in Part /\ override' \in Part
  BY PartType DEF TypeInv, TypeOK, Tick
<1>2. cache' \in [Versions -> Entry \cup {NoEntry}]
  BY AgedEntryType DEF TypeInv, TypeOK, Tick
<1>3. age' \in [Requests -> 0..MaxAge]
  BY EntitlementsAssumption DEF TypeInv, TypeOK, Tick
<1>4. snap' \in [Requests -> Snapshot]
  BY SnapshotType DEF TypeInv, TypeOK, Tick
<1>5. TypeOK'
  BY <1>1, <1>2, <1>3, <1>4 DEF TypeInv, TypeOK, Tick, writerVars
<1>6. BumpsFollowEdits'
  BY DEF TypeInv, BumpsFollowEdits, Bumping, Tick, writerVars
<1>7. WorthCaching'
  <2> SUFFICES ASSUME NEW r \in Requests, pc[r] \in {"setVersion", "set"}
               PROVE  TtlOf(snap'[r], age'[r]) > 0
    BY DEF WorthCaching, Tick
  <2>1. snap[r] \in Snapshot /\ age[r] \in Nat /\ age[r] < MaxAge
        /\ TtlOf(snap[r], age[r]) > 0
    BY EntitlementsAssumption DEF TypeInv, TypeOK, WorthCaching, Tick
  <2>2. snap'[r] = OlderSnap(snap[r]) /\ age'[r] = age[r] + 1
    BY DEF Tick
  <2>3. QED
    BY <2>1, <2>2, OlderTtl
<1>8. QED
  BY <1>5, <1>6, <1>7 DEF TypeInv

LEMMA TypeStep == TypeInv /\ [Next]_vars => TypeInv'
<1> SUFFICES ASSUME TypeInv, [Next]_vars PROVE TypeInv'
  OBVIOUS
<1>0. TypeOK /\ 0 \in Versions /\ cache \in [Versions -> Entry \cup {NoEntry}]
  BY EntitlementsAssumption DEF TypeInv, TypeOK, Versions
<1>1. ASSUME NEW r \in Requests, Begin(r) PROVE TypeInv'
  <2>1. at' = [at EXCEPT ![r] = at[r]] /\ at[r] \in Versions
        /\ snap' = [snap EXCEPT ![r] = snap[r]] /\ snap[r] \in Snapshot
    BY <1>0, <1>1 DEF Begin, TypeOK
  <2>2. QED
    BY <1>0, <1>1, <2>1, RequestStep DEF Begin
<1>2. ASSUME NEW r \in Requests, ReadVersion(r) PROVE TypeInv'
  <2>1. PICK v \in Versions : at' = [at EXCEPT ![r] = v]
    BY <1>0, <1>2 DEF ReadVersion, TypeOK
  <2>2. snap' = [snap EXCEPT ![r] = snap[r]] /\ snap[r] \in Snapshot
    BY <1>0, <1>2 DEF ReadVersion, TypeOK
  <2>3. pc[r] = "setVersion" => TtlOf(snap[r], age[r]) > 0
    BY DEF TypeInv, WorthCaching
  <2>4. QED
    BY <1>0, <1>2, <2>1, <2>2, <2>3, RequestStep DEF ReadVersion
<1>3. ASSUME NEW r \in Requests, CacheHit(r) PROVE TypeInv'
  BY <1>0, <1>3, SnapshotType, RequestStep DEF CacheHit
<1>4. ASSUME NEW r \in Requests, CacheMiss(r) PROVE TypeInv'
  <2>1. at' = [at EXCEPT ![r] = at[r]] /\ at[r] \in Versions
        /\ snap' = [snap EXCEPT ![r] = snap[r]] /\ snap[r] \in Snapshot
    BY <1>0, <1>4 DEF CacheMiss, TypeOK
  <2>2. QED
    BY <1>0, <1>4, <2>1, RequestStep DEF CacheMiss
<1>5. ASSUME NEW r \in Requests, ReadSubscription(r) PROVE TypeInv'
  <2>1. PICK read \in Snapshot : snap' = [snap EXCEPT ![r] = read]
    <3>1. snap[r] \in Snapshot /\ Found(subscription, age[r]) \in Part
      BY <1>0, PartType, EntitlementsAssumption DEF TypeOK
    <3>2. [snap[r] EXCEPT !.subscription = Found(subscription, age[r])] \in Snapshot
      BY <3>1 DEF Snapshot
    <3>3. QED
      BY <1>5, <3>2 DEF ReadSubscription
  <2>2. at' = [at EXCEPT ![r] = at[r]] /\ at[r] \in Versions
    BY <1>0, <1>5 DEF ReadSubscription, TypeOK
  <2>3. QED
    BY <1>0, <1>5, <2>1, <2>2, RequestStep DEF ReadSubscription
<1>6. ASSUME NEW r \in Requests, ReadFeatures(r) PROVE TypeInv'
  <2>1. PICK read \in Snapshot : snap' = [snap EXCEPT ![r] = read]
    <3>1. snap[r] \in Snapshot /\ catalog \in Catalogs
      BY <1>0 DEF TypeOK
    <3>2. [snap[r] EXCEPT !.catalog = catalog] \in Snapshot
      BY <3>1 DEF Snapshot
    <3>3. QED
      BY <1>6, <3>2 DEF ReadFeatures
  <2>2. at' = [at EXCEPT ![r] = at[r]] /\ at[r] \in Versions
    BY <1>0, <1>6 DEF ReadFeatures, TypeOK
  <2>3. QED
    BY <1>0, <1>6, <2>1, <2>2, RequestStep DEF ReadFeatures
<1>7. ASSUME NEW r \in Requests, ReadOverrides(r) PROVE TypeInv'
  <2> DEFINE read == [snap[r] EXCEPT !.override = Found(override, age[r])]
  <2>1. read \in Snapshot
    <3>1. snap[r] \in Snapshot /\ Found(override, age[r]) \in Part
      BY <1>0, PartType, EntitlementsAssumption DEF TypeOK
    <3>2. QED
      BY <3>1 DEF Snapshot
  <2>2. CASE TtlOf(read, age[r]) > 0
    <3>1. Goto(r, "setVersion") /\ snap' = [snap EXCEPT ![r] = read] /\ UNCHANGED <<age, at>>
          /\ UNCHANGED <<dbVars, version, cache, writerVars>>
      BY <1>7, <2>2 DEF ReadOverrides
    <3>2. at' = [at EXCEPT ![r] = at[r]] /\ at[r] \in Versions
      BY <1>0, <3>1 DEF TypeOK
    <3> HIDE DEF read
    <3>3. QED
      BY <1>0, <2>1, <2>2, <3>1, <3>2, RequestStep
  <2>3. CASE ~(TtlOf(read, age[r]) > 0)
    <3>1. Reply(r) /\ UNCHANGED <<dbVars, version, cache, writerVars>>
      BY <1>7, <2>3 DEF ReadOverrides
    <3>2. QED
      BY <1>0, <3>1, SnapshotType, RequestStep
  <2>4. QED
    BY <2>2, <2>3
<1>8. ASSUME NEW r \in Requests, SetEntitlements(r) PROVE TypeInv'
  <2>1. EntryOf(r) \in Entry
    BY <1>8, EntryOfType DEF SetEntitlements
  <2>2. cache' \in [Versions -> Entry \cup {NoEntry}]
    BY <1>0, <1>8, <2>1 DEF SetEntitlements
  <2>3. QED
    BY <1>0, <1>8, <2>2, SnapshotType, RequestStep DEF SetEntitlements
<1>9. ASSUME NEW r \in Requests, SetFails(r) PROVE TypeInv'
  BY <1>0, <1>9, SnapshotType, RequestStep DEF SetFails
<1>10. ASSUME NEW w \in Writers, CommitUserChange(w) PROVE TypeInv'
  <2>1. subscription' \in Part /\ override' \in Part
    BY <1>0, <1>10, PartType, GivenType DEF CommitUserChange, TypeOK
  <2>2. edits' \in Versions /\ version \in Nat
    BY <1>0, <1>10, EntitlementsAssumption DEF CommitUserChange, TypeOK, Versions
  <2>3. QED
    BY <1>0, <1>10, <2>1, <2>2, WriterStep DEF CommitUserChange, TypeOK
<1>11. ASSUME NEW w \in Writers, CommitPlanChange(w) PROVE TypeInv'
  <2>1. edits' \in Versions /\ version \in Nat /\ catalog' \in Catalogs
    BY <1>0, <1>11, EntitlementsAssumption DEF CommitPlanChange, TypeOK, Versions
  <2>2. QED
    BY <1>0, <1>11, <2>1, WriterStep DEF CommitPlanChange, TypeOK
<1>12. ASSUME NEW w \in Writers, ReadVersionToInvalidate(w) PROVE TypeInv'
  <2>1. PICK v \in Versions : wat' = [wat EXCEPT ![w] = v]
    BY <1>0, <1>12 DEF ReadVersionToInvalidate, TypeOK
  <2>2. version \in Nat
    BY <1>0 DEF TypeOK, Versions
  <2>3. QED
    BY <1>0, <1>12, <2>1, <2>2, WriterStep DEF ReadVersionToInvalidate, TypeOK, dbVars
<1>13. ASSUME NEW w \in Writers, Invalidate(w) PROVE TypeInv'
  <2>1. cache' \in [Versions -> Entry \cup {NoEntry}]
    BY <1>0, <1>13 DEF Invalidate, Without
  <2>2. version \in Nat
    BY <1>0 DEF TypeOK, Versions
  <2>3. QED
    BY <1>0, <1>13, <2>1, <2>2, WriterStep DEF Invalidate, TypeOK, dbVars
<1>14. ASSUME NEW w \in Writers, BumpCatalogVersion(w) PROVE TypeInv'
  <2>1. version \in Nat /\ version' \in Nat /\ (version' = version \/ version' = version + 1)
    BY <1>0, <1>14 DEF BumpCatalogVersion, TypeOK, Versions
  <2>2. QED
    BY <1>0, <1>14, <2>1, WriterStep DEF BumpCatalogVersion, TypeOK, dbVars
<1>15. ASSUME NEW w \in Writers, WriterCrash(w) PROVE TypeInv'
  <2>1. version \in Nat
    BY <1>0 DEF TypeOK, Versions
  <2>2. QED
    BY <1>0, <1>15, <2>1, WriterStep DEF WriterCrash, TypeOK, dbVars
<1>16. ASSUME EvictVersion PROVE TypeInv'
  <2>1. TypeOK' /\ WorthCaching'
    BY <1>0, <1>16 DEF EvictVersion, TypeInv, TypeOK, WorthCaching, dbVars, requestVars, writerVars
  <2>2. Cardinality(Bumping)' = Cardinality(Bumping)
    BY <1>16 DEF EvictVersion, Bumping, writerVars
  <2>3. BumpsFollowEdits'
    BY <1>0, <1>16, <2>2, BumpingCount
       DEF EvictVersion, TypeInv, BumpsFollowEdits, TypeOK, Versions, dbVars
  <2>4. QED
    BY <2>1, <2>3 DEF TypeInv
<1>17. ASSUME Tick PROVE TypeInv'
  BY <1>17, TickType
<1>18. ASSUME UNCHANGED vars PROVE TypeInv'
  BY <1>18 DEF vars, dbVars, requestVars, writerVars, TypeInv, TypeOK, BumpsFollowEdits,
               Bumping, WorthCaching
<1>19. QED
  BY <1>1, <1>2, <1>3, <1>4, <1>5, <1>6, <1>7, <1>8, <1>9, <1>10, <1>11, <1>12, <1>13,
     <1>14, <1>15, <1>16, <1>17, <1>18, NextCases

\* Every value has its type; in particular a key is never written with a TTL that is not
\* positive or is longer than ENTITLEMENT_TTL_SECONDS (the guard of EntitlementService.get).
THEOREM TypeCorrect == Spec => []TypeOK
<1>1. TypeInv => TypeOK
  BY DEF TypeInv
<1>2. QED
  BY <1>1, InitType, TypeStep, PTL DEF Spec

-----------------------------------------------------------------------------
(* Nothing expired is served: valid_until stays the earliest end of the snapshot. *)

ValidUntilCovers ==
    \A v \in Versions : cache[v] # NoEntry => cache[v].validUntil = ValidUntil(cache[v].snap)

LEMMA CoversStep == TypeInv /\ ValidUntilCovers /\ [Next]_vars => ValidUntilCovers'
<1> SUFFICES ASSUME TypeInv, ValidUntilCovers, [Next]_vars PROVE ValidUntilCovers'
  OBVIOUS
<1>0. cache \in [Versions -> Entry \cup {NoEntry}]
  BY DEF TypeInv, TypeOK
<1>1. ASSUME UNCHANGED cache PROVE ValidUntilCovers'
  BY <1>1 DEF ValidUntilCovers
<1>2. ASSUME NEW r \in Requests, SetEntitlements(r) PROVE ValidUntilCovers'
  <2>1. EntryOf(r).validUntil = ValidUntil(EntryOf(r).snap)
    BY DEF EntryOf
  <2>2. \A v \in Versions : cache'[v] = cache[v] \/ cache'[v] = EntryOf(r)
    BY <1>0, <1>2 DEF SetEntitlements
  <2>3. QED
    BY <2>1, <2>2 DEF ValidUntilCovers
<1>3. ASSUME NEW w \in Writers, Invalidate(w) PROVE ValidUntilCovers'
  <2>1. \A v \in Versions : cache'[v] = cache[v] \/ cache'[v] = NoEntry
    BY <1>0, <1>3 DEF Invalidate, Without
  <2>2. QED
    BY <2>1 DEF ValidUntilCovers
<1>4. ASSUME Tick PROVE ValidUntilCovers'
  <2> SUFFICES ASSUME NEW v \in Versions, AgedEntry(cache[v]) # NoEntry
               PROVE  AgedEntry(cache[v]).validUntil = ValidUntil(AgedEntry(cache[v]).snap)
    BY <1>4 DEF Tick, ValidUntilCovers
  <2>1. cache[v] # NoEntry /\ cache[v] \in Entry
    BY <1>0 DEF AgedEntry
  <2>2. cache[v].snap \in Snapshot
    BY <2>1 DEF Entry
  <2>3. AgedEntry(cache[v]).validUntil = Older(cache[v].validUntil)
        /\ AgedEntry(cache[v]).snap = OlderSnap(cache[v].snap)
    BY <2>1 DEF AgedEntry
  <2>4. QED
    BY <2>1, <2>2, <2>3, SnapshotType DEF ValidUntilCovers
<1>5. QED
  BY <1>1, <1>2, <1>3, <1>4, NextCases
     DEF Begin, ReadVersion, CacheHit, CacheMiss, ReadSubscription, ReadFeatures,
         ReadOverrides, SetFails, CommitUserChange, CommitPlanChange,
         ReadVersionToInvalidate, BumpCatalogVersion, WriterCrash, EvictVersion, vars

\* No request is ever answered with an expired part, whatever Redis, the writers and the
\* other requests do, and however long its calls take.
THEOREM NothingExpiredIsServed == Spec => ServesUnexpired
<1>1. Init => ValidUntilCovers
  BY DEF Init, ValidUntilCovers
<1>2. ASSUME TypeInv, ValidUntilCovers, NEW r \in Requests, CacheHit(r)
      PROVE  /\ Unexpired(cache[at[r]].snap.subscription.ends, age[r])
             /\ Unexpired(cache[at[r]].snap.override.ends, age[r])
  <2> DEFINE entry == cache[at[r]]
  <2>1. at[r] \in Versions /\ age[r] \in Nat /\ entry # NoEntry
        /\ Unexpired(entry.validUntil, age[r])
    BY <1>2, EntitlementsAssumption DEF TypeInv, TypeOK, CacheHit, Servable
  <2>2. entry.snap \in Snapshot
    BY <1>2, <2>1 DEF TypeInv, TypeOK, Entry
  <2>3. Unexpired(ValidUntil(entry.snap), age[r])
    BY <1>2, <2>1 DEF ValidUntilCovers
  <2>4. QED
    BY <2>1, <2>2, <2>3, SnapshotType, EarlierUnexpired DEF ValidUntil
<1>3. TypeInv /\ ValidUntilCovers
      => \A r \in Requests : CacheHit(r) =>
            /\ Unexpired(cache[at[r]].snap.subscription.ends, age[r])
            /\ Unexpired(cache[at[r]].snap.override.ends, age[r])
  BY <1>2
<1>4. QED
  BY <1>1, <1>3, InitType, TypeStep, CoversStep, PTL DEF Spec, ServesUnexpired

-----------------------------------------------------------------------------
(***************************************************************************)
(* What invalidation achieves while nothing fails.  An entry that was      *)
(* right when it was written and is no longer is still owed a repair: by a *)
(* writer about to raise the version if the plans differ, by one about to  *)
(* delete the key of this version if the user's own rows do.               *)
(***************************************************************************)
PlansDiffer(entry) == entry.snap.catalog # catalog

UserDiffers(entry) ==
    \/ Found(entry.snap.subscription, 0) # Found(subscription, 0)
    \/ Found(entry.snap.override, 0) # Found(override, 0)

OwesBump == \E w \in Writers : wpc[w] = "bump"

OwesDelete ==
    \E w \in Writers : wpc[w] = "version" \/ (wpc[w] = "delete" /\ wat[w] = version)

\* No key of a version to come exists yet, and nobody is about to write one.
NothingAhead ==
    /\ \A v \in Versions : v > version => cache[v] = NoEntry
    /\ \A r \in Requests : at[r] <= version

RepairOwed ==
    cache[version] # NoEntry /\ cache[version].fill = "current" =>
        /\ PlansDiffer(cache[version]) => OwesBump
        /\ UserDiffers(cache[version]) => OwesDelete

OverlapInv == TypeInv /\ NothingAhead /\ RepairOwed

\* Two parts that say the same go on saying the same.
LEMMA FoundOlder ==
    ASSUME NEW p \in Part, NEW q \in Part, Found(p, 0) = Found(q, 0)
    PROVE  Found(OlderPart(p), 0) = Found(OlderPart(q), 0)
<1>1. p.ends \in Date /\ q.ends \in Date /\ Absent.ends = Never /\ Absent \in Part
  BY PartType DEF Part, Absent
<1>2. ASSUME NEW x \in Part, x.ends \in Date, ~Unexpired(x.ends, 0)
      PROVE  Found(OlderPart(x), 0) = Absent
  BY <1>2, PartType, EntitlementsAssumption DEF Found, Unexpired, Older, Date
<1>3. Found(OlderPart(Absent), 0) = Absent
  <2>1. OlderPart(Absent) = Absent
    BY DEF OlderPart, Absent, Older
  <2>2. QED
    BY <2>1 DEF Found
<1>4. CASE Unexpired(p.ends, 0) /\ Unexpired(q.ends, 0)
  BY <1>4 DEF Found
<1>5. CASE ~Unexpired(p.ends, 0) /\ ~Unexpired(q.ends, 0)
  BY <1>1, <1>2, <1>5
<1>6. CASE Unexpired(p.ends, 0) /\ ~Unexpired(q.ends, 0)
  <2>1. p = Absent
    BY <1>6 DEF Found
  <2>2. QED
    BY <1>1, <1>2, <1>3, <1>6, <2>1
<1>7. CASE ~Unexpired(p.ends, 0) /\ Unexpired(q.ends, 0)
  <2>1. q = Absent
    BY <1>7 DEF Found
  <2>2. QED
    BY <1>1, <1>2, <1>3, <1>7, <2>1
<1>8. QED
  BY <1>4, <1>5, <1>6, <1>7

\* A step that leaves the cache, the version and the writers alone, and the database too.
LEMMA OverlapQuiet ==
    ASSUME NothingAhead, RepairOwed, UNCHANGED <<dbVars, version, cache, writerVars>>,
           \A r \in Requests : at'[r] <= version
    PROVE  NothingAhead' /\ RepairOwed'
<1>1. NothingAhead'
  BY DEF NothingAhead
<1>2. RepairOwed'
  BY DEF RepairOwed, PlansDiffer, UserDiffers, OwesBump, OwesDelete, dbVars, writerVars
<1>3. QED
  BY <1>1, <1>2

LEMMA OverlapSet ==
    ASSUME OverlapInv, NEW r \in Requests, SetEntitlements(r)
    PROVE  NothingAhead' /\ RepairOwed'
<1> USE DEF OverlapInv
<1>0. version \in Versions /\ version \in Nat /\ at \in [Requests -> Versions]
      /\ cache \in [Versions -> Entry \cup {NoEntry}] /\ 0 <= version
  BY DEF TypeInv, TypeOK, Versions
<1>1. NothingAhead'
  <2>1. \A s \in Requests : at'[s] <= version
    BY <1>0 DEF SetEntitlements, Reply, NothingAhead
  <2>2. at[r] <= version
    BY DEF NothingAhead
  <2>3. \A v \in Versions : v > version => v # at[r] /\ cache[v] = NoEntry
    BY <1>0, <2>2 DEF NothingAhead, Versions
  <2>4. \A v \in Versions : v > version => cache'[v] = NoEntry
    BY <1>0, <2>3 DEF SetEntitlements
  <2>5. QED
    BY <2>1, <2>4 DEF NothingAhead, SetEntitlements
<1>2. RepairOwed'
  <2>1. CASE at[r] = version
    <3>1. cache'[version] = EntryOf(r)
      BY <1>0, <2>1 DEF SetEntitlements
    <3>2. EntryOf(r).fill = "current" => ~PlansDiffer(EntryOf(r)) /\ ~UserDiffers(EntryOf(r))
      BY DEF EntryOf, Says, Truth, PlansDiffer, UserDiffers
    <3>3. QED
      BY <3>1, <3>2 DEF SetEntitlements, RepairOwed, PlansDiffer, UserDiffers, dbVars
  <2>2. CASE at[r] # version
    <3>1. cache'[version] = cache[version]
      BY <1>0, <2>2 DEF SetEntitlements
    <3>2. QED
      BY <3>1 DEF SetEntitlements, RepairOwed, PlansDiffer, UserDiffers, OwesBump, OwesDelete,
                  dbVars, writerVars
  <2>3. QED
    BY <2>1, <2>2
<1>3. QED
  BY <1>1, <1>2

LEMMA OverlapInvalidate ==
    ASSUME OverlapInv, Faults = {}, NEW w \in Writers, Invalidate(w)
    PROVE  NothingAhead' /\ RepairOwed'
<1> USE DEF OverlapInv
<1>0. version \in Versions /\ wat \in [Writers -> Versions]
      /\ wpc \in [Writers -> {"idle", "version", "delete", "bump"}]
      /\ cache \in [Versions -> Entry \cup {NoEntry}] /\ cache' = Without(cache, wat[w])
  BY DEF TypeInv, TypeOK, Invalidate
<1>1. NothingAhead'
  BY <1>0 DEF NothingAhead, Without, Invalidate, requestVars
<1>2. CASE wat[w] = version
  <2>1. version' = version /\ cache'[version] = NoEntry
    BY <1>0, <1>2 DEF Without, Invalidate
  <2>2. QED
    BY <1>1, <2>1 DEF RepairOwed
<1>3. CASE wat[w] # version
  <2>1. cache'[version] = cache[version]
    BY <1>0, <1>3 DEF Without
  <2>2. OwesBump => OwesBump'
    BY <1>0 DEF OwesBump, Invalidate, WriterGoto
  <2>3. OwesDelete => OwesDelete'
    BY <1>0, <1>3 DEF OwesDelete, Invalidate, WriterGoto
  <2>4. RepairOwed'
    BY <2>1, <2>2, <2>3 DEF RepairOwed, PlansDiffer, UserDiffers, Invalidate, dbVars
  <2>5. QED
    BY <1>1, <2>4
<1>4. QED
  BY <1>1, <1>2, <1>3

LEMMA OverlapCommit ==
    ASSUME OverlapInv, NEW w \in Writers, CommitUserChange(w) \/ CommitPlanChange(w)
    PROVE  NothingAhead' /\ RepairOwed'
<1> USE DEF OverlapInv
<1>0. wpc \in [Writers -> {"idle", "version", "delete", "bump"}] /\ wpc[w] = "idle"
      /\ UNCHANGED <<version, cache, at, wat>>
  BY DEF TypeInv, TypeOK, CommitUserChange, CommitPlanChange, requestVars
<1>1. NothingAhead'
  BY <1>0 DEF NothingAhead
<1>2. (OwesBump => OwesBump') /\ (OwesDelete => OwesDelete')
  BY <1>0 DEF OwesBump, OwesDelete, CommitUserChange, CommitPlanChange, WriterGoto
<1>3. CASE CommitUserChange(w)
  <2>1. OwesDelete'
    BY <1>0, <1>3 DEF OwesDelete, CommitUserChange, WriterGoto
  <2>2. QED
    BY <1>0, <1>1, <1>2, <1>3, <2>1 DEF RepairOwed, PlansDiffer, CommitUserChange
<1>4. CASE CommitPlanChange(w)
  <2>1. OwesBump'
    BY <1>0, <1>4 DEF OwesBump, CommitPlanChange, WriterGoto
  <2>2. QED
    BY <1>0, <1>1, <1>2, <1>4, <2>1 DEF RepairOwed, UserDiffers, CommitPlanChange
<1>5. QED
  BY <1>3, <1>4

LEMMA OverlapTick ==
    ASSUME OverlapInv, Tick
    PROVE  NothingAhead' /\ RepairOwed'
<1> USE DEF OverlapInv
<1>0. version \in Versions /\ cache[version] \in Entry \cup {NoEntry}
      /\ subscription \in Part /\ override \in Part
      /\ \A v \in Versions : cache'[v] = AgedEntry(cache[v])
  BY DEF TypeInv, TypeOK, Tick
<1>1. NothingAhead'
  BY <1>0 DEF NothingAhead, Tick, AgedEntry
<1>2. CASE AgedEntry(cache[version]) = NoEntry
  BY <1>0, <1>1, <1>2 DEF RepairOwed, Tick
<1>3. CASE AgedEntry(cache[version]) # NoEntry
  <2> DEFINE old == cache[version]
             new == AgedEntry(old)
  <2>1. old # NoEntry /\ old \in Entry
    BY <1>0, <1>3 DEF AgedEntry
  <2>2. old.snap \in Snapshot /\ new.fill = old.fill /\ new.snap = OlderSnap(old.snap)
    BY <1>3, <2>1 DEF Entry, AgedEntry
  <2>3. old.snap.subscription \in Part /\ old.snap.override \in Part
    BY <2>2, SnapshotType
  <2>4. new.snap.catalog = old.snap.catalog
        /\ new.snap.subscription = OlderPart(old.snap.subscription)
        /\ new.snap.override = OlderPart(old.snap.override)
    BY <2>2 DEF OlderSnap
  <2>5. catalog' = catalog /\ subscription' = OlderPart(subscription)
        /\ override' = OlderPart(override) /\ version' = version
    BY DEF Tick
  <2>6. Found(old.snap.subscription, 0) = Found(subscription, 0)
        => Found(new.snap.subscription, 0) = Found(subscription', 0)
    BY <1>0, <2>3, <2>4, <2>5, FoundOlder
  <2>7. Found(old.snap.override, 0) = Found(override, 0)
        => Found(new.snap.override, 0) = Found(override', 0)
    BY <1>0, <2>3, <2>4, <2>5, FoundOlder
  <2>8. OwesBump' = OwesBump /\ OwesDelete' = OwesDelete
    BY DEF OwesBump, OwesDelete, Tick, writerVars
  <2>9. cache'[version'] = new
    BY <1>0, <2>5
  <2>10. RepairOwed'
    <3> HIDE DEF new, old
    <3>1. old # NoEntry /\ old = cache[version]
      BY <2>1 DEF old
    <3>2. QED
      BY <3>1, <2>2, <2>4, <2>5, <2>6, <2>7, <2>8, <2>9
         DEF RepairOwed, PlansDiffer, UserDiffers
  <2>11. QED
    BY <1>1, <2>10
<1>4. QED
  BY <1>2, <1>3

LEMMA OverlapStep ==
    ASSUME Faults = {}
    PROVE  OverlapInv /\ [Next]_vars => OverlapInv'
<1> SUFFICES ASSUME OverlapInv, [Next]_vars PROVE NothingAhead' /\ RepairOwed'
  BY TypeStep DEF OverlapInv
<1>0. NothingAhead /\ RepairOwed /\ version \in Nat /\ at \in [Requests -> Versions]
      /\ (\A r \in Requests : at[r] <= version)
  BY DEF OverlapInv, TypeInv, TypeOK, Versions, NothingAhead
<1>1. ASSUME NEW r \in Requests,
             Begin(r) \/ CacheHit(r) \/ CacheMiss(r) \/ ReadSubscription(r) \/ ReadFeatures(r)
               \/ ReadOverrides(r) \/ SetFails(r)
      PROVE  NothingAhead' /\ RepairOwed'
  <2>1. \A s \in Requests : at'[s] <= version
    BY <1>0, <1>1 DEF Begin, CacheHit, CacheMiss, ReadSubscription, ReadFeatures,
       ReadOverrides, SetFails, Reply, Versions
  <2>2. UNCHANGED <<dbVars, version, cache, writerVars>>
    BY <1>1 DEF Begin, CacheHit, CacheMiss, ReadSubscription, ReadFeatures,
       ReadOverrides, SetFails
  <2>3. QED
    BY <1>0, <2>1, <2>2, OverlapQuiet
<1>2. ASSUME NEW r \in Requests, ReadVersion(r) PROVE NothingAhead' /\ RepairOwed'
  <2>1. at' = [at EXCEPT ![r] = version]
    BY <1>2 DEF ReadVersion
  <2>2. \A s \in Requests : at'[s] <= version
    BY <1>0, <2>1
  <2>3. QED
    BY <1>0, <1>2, <2>2, OverlapQuiet DEF ReadVersion
<1>3. ASSUME NEW r \in Requests, SetEntitlements(r) PROVE NothingAhead' /\ RepairOwed'
  BY <1>3, OverlapSet
<1>4. ASSUME NEW w \in Writers, CommitUserChange(w) \/ CommitPlanChange(w)
      PROVE  NothingAhead' /\ RepairOwed'
  BY <1>4, OverlapCommit
<1>5. ASSUME NEW w \in Writers, ReadVersionToInvalidate(w) PROVE NothingAhead' /\ RepairOwed'
  <2>0. wpc \in [Writers -> {"idle", "version", "delete", "bump"}]
        /\ wat \in [Writers -> Versions] /\ wat' = [wat EXCEPT ![w] = version]
        /\ UNCHANGED <<version, cache, at, dbVars>>
    BY <1>5 DEF OverlapInv, TypeInv, TypeOK, ReadVersionToInvalidate, requestVars
  <2>1. (OwesBump => OwesBump') /\ (OwesDelete => OwesDelete')
    BY <1>5, <2>0 DEF OwesBump, OwesDelete, ReadVersionToInvalidate, WriterGoto
  <2>2. QED
    BY <1>0, <2>0, <2>1 DEF NothingAhead, RepairOwed, PlansDiffer, UserDiffers, dbVars
<1>6. ASSUME NEW w \in Writers, Invalidate(w) PROVE NothingAhead' /\ RepairOwed'
  BY <1>6, OverlapInvalidate
<1>7. ASSUME NEW w \in Writers, BumpCatalogVersion(w) PROVE NothingAhead' /\ RepairOwed'
  <2>1. version' = version + 1 /\ UNCHANGED <<cache, at>>
    BY <1>7 DEF BumpCatalogVersion, requestVars
  <2>2. version' \in Versions
    BY TypeStep DEF OverlapInv, TypeInv, TypeOK
  <2>3. cache'[version'] = NoEntry
    BY <1>0, <2>1, <2>2 DEF NothingAhead
  <2>4. NothingAhead'
    BY <1>0, <2>1 DEF NothingAhead, Versions
  <2>5. QED
    BY <2>3, <2>4 DEF RepairOwed
<1>8. ASSUME Tick PROVE NothingAhead' /\ RepairOwed'
  BY <1>8, OverlapTick
<1>9. ASSUME UNCHANGED vars PROVE NothingAhead' /\ RepairOwed'
  BY <1>0, <1>9, OverlapQuiet DEF vars, requestVars
<1>10. QED
  BY <1>1, <1>2, <1>3, <1>4, <1>5, <1>6, <1>7, <1>8, <1>9, NextCases DEF WriterCrash, EvictVersion

\* Without faults, and once every writer is done, the key in use is stale only if a request
\* that overlapped a write filled it: whatever the number of writers and however their
\* commits, version reads, deletes and bumps interleave with the requests.
THEOREM InvalidationIsComplete ==
    ASSUME Faults = {}
    PROVE  Spec => []StaleOnlyByOverlap
<1>1. Init => OverlapInv
  <2> SUFFICES ASSUME Init PROVE OverlapInv
    OBVIOUS
  <2>1. TypeInv
    BY InitType
  <2>2. 0 \in Versions
    BY EntitlementsAssumption DEF Versions
  <2>3. NothingAhead /\ RepairOwed
    BY <2>2 DEF Init, NothingAhead, RepairOwed
  <2>4. QED
    BY <2>1, <2>3 DEF OverlapInv
<1>2. OverlapInv => StaleOnlyByOverlap
  <2> SUFFICES ASSUME OverlapInv, Settled, cache[version] # NoEntry,
                      cache[version].fill = "current"
               PROVE  Says(cache[version].snap) = Truth
    BY DEF StaleOnlyByOverlap, Served, Servable
  <2>1. ~OwesBump /\ ~OwesDelete
    BY DEF Settled, OwesBump, OwesDelete
  <2>2. ~PlansDiffer(cache[version]) /\ ~UserDiffers(cache[version])
    BY <2>1 DEF OverlapInv, RepairOwed
  <2>3. QED
    BY <2>2 DEF Says, Truth, PlansDiffer, UserDiffers
<1>3. QED
  BY <1>1, <1>2, OverlapStep, PTL DEF Spec
===============================================================================
