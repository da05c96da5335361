------------------------- MODULE Conversations_proofs -------------------------
(***************************************************************************)
(* What is proved of Conversations for every value of its constants: any   *)
(* number of sessions, chats, models and grants, and any limits.           *)
(***************************************************************************)
EXTENDS Conversations, FiniteSetTheorems, TLAPS

-----------------------------------------------------------------------------
(* Rows *)

LEMMA RowNames ==
    /\ ChatRows \subseteq Rows /\ TalkRows \subseteq Rows /\ CounterRows \subseteq Rows
    /\ RequestRows \subseteq Rows /\ Connection \in Rows /\ MeetingUnits \in Rows
    /\ ChatRows \subseteq ChatTables /\ TalkRows \subseteq ChatTables /\ CounterRows \subseteq ChatTables
    /\ RequestRows \subseteq MeetingTables /\ Connection \in MeetingTables
    /\ MeetingUnits \in MeetingTables
    /\ ChatTables \subseteq Rows /\ MeetingTables \subseteq Rows
    /\ \A i \in ChatTables : i \notin MeetingTables
    /\ \A c \in Chats : Chat(c) \in ChatRows /\ Talk(c) \in TalkRows
    /\ \A m \in Models \cup {Default} : Usage(m) \in CounterRows
    /\ Profile \in CounterRows /\ Tokens \in CounterRows /\ Units \in CounterRows
    /\ \A r \in Rooms : Request(r) \in RequestRows
BY ChatAssumption, MeetingsAssumption, ConversationsAssumption
   DEF ChatTables, MeetingTables, ChatRows, TalkRows, CounterRows, UsageRows, RequestRows

LEMMA RowsDiffer ==
    /\ ChatRows \cap TalkRows = {} /\ ChatRows \cap CounterRows = {}
    /\ TalkRows \cap CounterRows = {}
    /\ Connection \notin RequestRows /\ MeetingUnits \notin RequestRows /\ Connection # MeetingUnits
    /\ Profile \notin UsageRows /\ Tokens \notin UsageRows /\ Units \notin UsageRows
    /\ Profile # Tokens /\ Profile # Units /\ Tokens # Units
    /\ \A c, e : Chat(c) = Chat(e) => c = e
    /\ \A c, e : Talk(c) = Talk(e) => c = e
    /\ \A m, n : Usage(m) = Usage(n) => m = n
    /\ \A q, r : Request(q) = Request(r) => q = r
BY DEF ChatRows, TalkRows, CounterRows, UsageRows, RequestRows, Chat, Talk, Usage, Profile, Tokens,
       Units, Connection, MeetingUnits, Request

\* A row is none of the marks.
LEMMA RowsAreReal ==
    /\ \A row \in ChatRow \cup TalkRow \cup Nat : row # Absent /\ row # Unwritten
    /\ \A row \in ConnectionRow : row # Absent /\ row # Unwritten
    /\ Requested # Absent /\ Requested # Unwritten
    /\ Absent # Unwritten
BY ChatAssumption, MeetingsAssumption

-----------------------------------------------------------------------------
(***************************************************************************)
(* Types.  A reply writes back the chat it read and a refresh the grant it *)
(* read, so the invariant says what a session has read by where it is, and *)
(* that every token is one that Google has given.  A session is in a chat  *)
(* or in a meeting, never in both.                                         *)
(***************************************************************************)
RowOK(i, row) ==
    /\ i \in ChatRows => row \in ChatRow \cup {Absent}
    /\ i \in TalkRows => row \in TalkRow \cup {Absent}
    /\ i \in CounterRows => row \in Nat
    /\ i \in RequestRows => row \in {Requested, Absent}
    /\ i = Connection =>
          row = Absent \/ (row \in ConnectionRow /\ {row.access, row.refresh} \subseteq granted \cup {NoGrant})
    /\ i = MeetingUnits => row \in Nat

\* Only the connection is ever deleted.
DraftRowOK(i, row) ==
    row # Unwritten => RowOK(i, row) /\ (row = Absent => i = Connection)

TablesOK ==
    /\ db = [i \in Rows |-> db[i]]
    /\ draft = [s \in Sessions |-> draft[s]]
    /\ \A s \in Sessions : draft[s] = [i \in Rows |-> draft[s][i]]
    /\ \A i \in Rows : RowOK(i, db[i])
    /\ \A s \in Sessions, i \in Rows : DraftRowOK(i, draft[s][i])

ChatTyped ==
    /\ pc \in [Sessions -> Steps]
    /\ job \in [Sessions -> Job \cup {NoJob}]
    /\ read \in [Sessions -> ChatRow \cup {Absent}]
    /\ talk \in [Sessions -> TalkRow \cup {Absent}]
    /\ heard \in [Sessions -> Hearings]
    /\ base \in [Sessions -> Nat] /\ gained \in [Sessions -> Nat]
    /\ cost \in [Sessions -> 0..1]
    /\ model \in [Sessions -> Models \cup {Default}]
    /\ left \in [Sessions -> 0..SectionsMax]
    /\ unit \in [Sessions -> BOOLEAN]

MeetTyped ==
    /\ at \in [Sessions -> Places]
    /\ task \in [Sessions -> Task \cup {NoTask}]
    /\ seen \in [Sessions -> ConnectionRow \cup {Absent}]
    /\ token \in [Sessions -> Grants \cup {NoGrant}]
    /\ grant \in [Sessions -> Grant \cup {NothingGranted}]
    /\ holds \in [Sessions -> BOOLEAN]
    /\ owner \in Sessions \cup {Free}

ChatWorldTyped ==
    /\ messages \in [Chats -> Nat] /\ refused \in [Chats -> Nat]
    /\ recent \subseteq Chats
    /\ spent \in Nat /\ burned \in Nat /\ tally \in Nat /\ ungated \in Nat
    /\ choice \in Preferences /\ active \subseteq Models /\ planned \subseteq Models
    /\ selects \in BOOLEAN
    /\ begun \in 0..MaxRequests

MeetWorldTyped ==
    /\ tasks \in 0..MaxTasks
    /\ held \in Nat /\ lost \in Nat /\ events \in Nat /\ unanswered \in Nat
    /\ cooling \in BOOLEAN /\ expired \in BOOLEAN
    /\ granted \subseteq Grants /\ revoked \subseteq granted /\ asked \subseteq granted

WorldTyped == ChatWorldTyped /\ MeetWorldTyped

OpAt(s) ==
    /\ pc[s] = "start" => Op(s) = "start"
    /\ pc[s] = "read" => Op(s) # "start"
    /\ pc[s] \in {"admit", "answer", "record"} => Op(s) \in {"message", "sections"}
    /\ pc[s] \in {"scold", "reserve", "count", "room", "listen", "merge", "note", "close"} =>
          Op(s) = "message"
    /\ pc[s] \in {"meter", "tokens", "upsert"} => Op(s) # "start"

\* What a session at work in a chat is about, and what it has read.
ChatPlaced(s) ==
    /\ pc[s] \in {"idle", "start", "read", "scold"} =>
          ~unit[s] /\ \A i \in ChatTables : draft[s][i] = Unwritten
    /\ pc[s] # "idle" =>
          /\ at[s] = "idle"
          /\ job[s] \in Job /\ (Op(s) \in {"start", "message"} <=> job[s].chat # NoChat)
          /\ OpAt(s)
          /\ Op(s) = "message" => Existing(job[s].chat)
          /\ Op(s) = "message" /\ pc[s] # "read" => read[s] \in ChatRow
          /\ pc[s] = "note" /\ talk[s] # Absent => Seen(s, Talk(job[s].chat)) # Absent
          /\ Op(s) = "sections" /\ pc[s] # "commit" => left[s] \in 1..SectionsMax

KindAt(s) ==
    /\ at[s] \in {"lock", "check", "record"} => Kind(s) = "request"
    /\ at[s] \in {"reserve", "count"} => Kind(s) \in {"request", "schedule"}
    /\ at[s] \in {"exchange", "save"} => Kind(s) = "callback"
    /\ at[s] \in {"revoke", "delete"} => Kind(s) = "disconnect"
    /\ at[s] \in {"refresh", "update"} => Kind(s) \notin {"callback", "disconnect"}
    /\ at[s] = "book" => Kind(s) \in {"request", "schedule"}

\* A session at work on a meeting, likewise.
MeetPlaced(s) ==
    /\ at[s] = "idle" => ~holds[s] /\ \A i \in MeetingTables : draft[s][i] = Unwritten
    /\ at[s] # "idle" =>
          /\ pc[s] = "idle"
          /\ task[s] \in Task /\ (Kind(s) = "request" <=> task[s].room # NoRoom)
          /\ KindAt(s)
          /\ Kind(s) = "callback" /\ at[s] # "exchange" => grant[s] \in Grant
          /\ at[s] = "refresh" => seen[s] # Absent /\ seen[s].refresh \in Grants
          /\ at[s] = "update" => token[s] \in Grants
          /\ at[s] \in {"revoke", "delete"} => seen[s] # Absent
    /\ seen[s] # Absent => {seen[s].access, seen[s].refresh} \subseteq granted \cup {NoGrant}
    /\ {grant[s].access, grant[s].refresh, token[s]} \subseteq granted \cup {NoGrant}

PlacedOK == \A s \in Sessions : ChatPlaced(s) /\ MeetPlaced(s)

TypeInv == TablesOK /\ ChatTyped /\ MeetTyped /\ WorldTyped /\ PlacedOK

-----------------------------------------------------------------------------
(* Steps *)

ChatMove(s) == (MayBegin /\ Idle(s) /\ Begin(s)) \/ Proceed(s) \/ Abort(s)

MeetMove(s) ==
    (MayBegin /\ Idle(s) /\ Arrive(s) /\ FromAChat(s)) \/ Meet(s) \/ Drop(s)

\* What a step of the system is, with one hypothesis for each kind of step.
LEMMA NextCases ==
    ASSUME NEW P, [NextAll]_allVars,
           ASSUME NEW s \in Sessions, ChatMove(s), UNCHANGED meetingVars PROVE P,
           ASSUME NEW s \in Sessions, MeetMove(s), UNCHANGED chatVars PROVE P,
           ASSUME SetPreference \/ ChangeCatalogue \/ ChangePlan \/ TimePasses,
                  UNCHANGED meetingVars PROVE P,
           ASSUME Withdraw \/ Expire \/ CoolDown, UNCHANGED chatVars PROVE P,
           ASSUME UNCHANGED allVars PROVE P
    PROVE  P
BY DEF NextAll, Chatting, Meeting, ChatMove, MeetMove

\* What the writing statements write.
ChatWrite(s, i, row) ==
    \/ /\ pc[s] = "start" /\ pc'[s] = "commit" /\ i = Mine(s)
       /\ row = [answered |-> FALSE, rapid |-> 0, flagged |-> FALSE]
    \/ pc[s] = "count" /\ pc'[s] = "listen" /\ i = Units /\ row = Seen(s, Units) + 1
    \/ /\ pc[s] = "note" /\ pc'[s] = "answer" /\ i = Talk(job[s].chat)
       /\ \/ talk[s] # Absent /\ row = Noted(talk[s], heard[s], Seen(s, i))
          \/ talk[s] = Absent /\ db[i] = Absent /\ row = heard[s]
    \/ /\ pc[s] = "record" /\ pc'[s] = "meter" /\ i = Usage(model[s])
       /\ row = Seen(s, i) + 1
    \/ pc[s] = "tokens" /\ pc'[s] = "upsert" /\ i = Profile /\ row = TokensOfProfile(s)
    \/ /\ pc[s] = "upsert" /\ pc'[s] = AfterTally(s) /\ i = Tokens
       /\ row = Seen(s, Tokens) + cost[s]
    \/ /\ pc[s] = "close" /\ pc'[s] = "commit" /\ i = Mine(s)
       /\ row = Replied(read[s], Seen(s, Mine(s)))

MeetWrite(s, i, row) ==
    \/ /\ at[s] = "count" /\ at'[s] = "lookup" /\ i = MeetingUnits
       /\ row = Seen(s, MeetingUnits) + 1
    \/ /\ at[s] = "save" /\ at'[s] = "commit" /\ i = Connection
       /\ \/ seen[s] = Absent /\ db[i] = Absent /\ row = Connected(grant[s])
          \/ SameRow(s) /\ row = Reconnected(db[i], grant[s])
    \/ /\ at[s] = "update" /\ at'[s] = (IF Kind(s) = "token" THEN "commit" ELSE "book")
       /\ i = Connection
       /\ SameRow(s) /\ row = [db[i] EXCEPT !.access = token[s]]
    \/ /\ at[s] = "delete" /\ at'[s] = "commit" /\ i = Connection
       /\ SameRow(s) /\ row = Absent
    \/ /\ at[s] = "record" /\ at'[s] = "commit" /\ i = Request(task[s].room)
       /\ db[i] = Absent /\ row = Requested

LEMMA ScoldedRow ==
    ASSUME NEW row \in ChatRow, NEW found \in ChatRow
    PROVE  /\ Scolded(row, found) \in ChatRow
           /\ Scolded(row, found).answered = found.answered
           /\ Scolded(row, found).rapid = row.rapid + 1
           /\ found.flagged => Scolded(row, found).flagged
<1> DEFINE flagged == found.flagged \/ row.rapid + 1 >= FlagThreshold
           new == [found EXCEPT !.rapid = row.rapid + 1, !.flagged = flagged]
<1>1. row.rapid + 1 \in Nat /\ flagged \in BOOLEAN /\ (found.flagged => flagged)
  BY DEF ChatRow
<1>2. Scolded(row, found) = new
  BY DEF Scolded
<1> HIDE DEF flagged
<1>3. new \in ChatRow /\ new.answered = found.answered /\ new.rapid = row.rapid + 1
      /\ new.flagged = flagged
  BY <1>1 DEF ChatRow
<1> HIDE DEF new
<1>4. QED
  BY <1>1, <1>2, <1>3

LEMMA RepliedRow ==
    ASSUME NEW row \in ChatRow, NEW found \in ChatRow
    PROVE  /\ Replied(row, found) \in ChatRow /\ Replied(row, found).answered
           /\ Replied(row, found).rapid = found.rapid
           /\ Replied(row, found).flagged = found.flagged
BY DEF Replied, ChatRow

LEMMA NotedRow ==
    ASSUME NEW known \in TalkRow, NEW h \in TalkRow, NEW found \in TalkRow
    PROVE  Noted(known, h, found) \in TalkRow
BY DEF Noted, TalkRow

LEMMA ConnectedRow ==
    ASSUME NEW g \in Grant
    PROVE  /\ Connected(g) \in ConnectionRow
           /\ Connected(g).id = g.access
           /\ Connected(g).access = g.access
           /\ Connected(g).refresh = g.refresh
BY DEF Connected, ConnectionRow, Grant

LEMMA ReconnectedRow ==
    ASSUME NEW row \in ConnectionRow, NEW g \in Grant
    PROVE  /\ Reconnected(row, g) \in ConnectionRow
           /\ Reconnected(row, g).id = row.id
           /\ Reconnected(row, g).access = g.access
           /\ Reconnected(row, g).refresh =
                 IF g.refresh = NoGrant THEN row.refresh ELSE g.refresh
BY DEF Reconnected, ConnectionRow, Grant

LEMMA RefreshedRow ==
    ASSUME NEW row \in ConnectionRow, NEW g \in Grants
    PROVE  LET new == [row EXCEPT !.access = g]
           IN  /\ new \in ConnectionRow
               /\ new.id = row.id /\ new.access = g /\ new.refresh = row.refresh
BY DEF ConnectionRow

LEMMA SeenType ==
    ASSUME TablesOK, NEW s \in Sessions
    PROVE  /\ \A i \in Rows : RowOK(i, Seen(s, i))
           /\ \A i \in ChatTables : db[i] # Absent => Seen(s, i) # Absent
BY RowNames, RowsDiffer DEF TablesOK, DraftRowOK, Seen

LEMMA JobFields ==
    ASSUME TypeInv, NEW s \in Sessions, pc[s] # "idle"
    PROVE  /\ Op(s) \in Operations /\ job[s].chat \in Chats \cup {NoChat}
           /\ Op(s) \in {"start", "message"} =>
                 /\ job[s].chat \in Chats
                 /\ Mine(s) \in ChatRows /\ Talk(job[s].chat) \in TalkRows
BY ChatAssumption, RowNames DEF TypeInv, PlacedOK, ChatPlaced, Op, Job, Mine

LEMMA TaskFields ==
    ASSUME TypeInv, NEW s \in Sessions, at[s] # "idle"
    PROVE  /\ Kind(s) \in Tasks /\ task[s].room \in Rooms \cup {NoRoom}
           /\ Kind(s) = "request" => task[s].room \in Rooms /\ Request(task[s].room) \in RequestRows
BY MeetingsAssumption, RowNames DEF TypeInv, PlacedOK, MeetPlaced, Kind, Task

LEMMA ChatWritten ==
    ASSUME TypeInv, NEW s \in Sessions, NEW i, NEW row, ChatWrite(s, i, row)
    PROVE  i \in ChatTables /\ i \in Rows /\ DraftRowOK(i, row)
<1> USE DEF TypeInv, ChatTyped, ChatPlaced, OpAt, PlacedOK
<1>0. pc[s] # "idle" /\ Op(s) \in Operations
  BY JobFields DEF ChatWrite
<1>1. CASE pc[s] \in {"start", "close"}
  <2>1. i = Mine(s) /\ i \in ChatRows
    BY <1>0, <1>1, JobFields DEF ChatWrite
  <2>2. row \in ChatRow
    <3>1. CASE pc[s] = "start"
      <4>1. row = [answered |-> FALSE, rapid |-> 0, flagged |-> FALSE]
        BY <3>1 DEF ChatWrite
      <4>2. QED
        BY <4>1 DEF ChatRow
    <3>2. CASE pc[s] = "close"
      <4>1. read[s] \in ChatRow /\ db[i] # Absent
        BY <1>0, <2>1, <3>2 DEF Existing, Mine
      <4>2. Seen(s, i) \in ChatRow
        BY <2>1, <4>1, SeenType, RowNames DEF RowOK
      <4>3. QED
        BY <2>1, <3>2, <4>1, <4>2, RepliedRow DEF ChatWrite
    <3>3. QED
      BY <1>1, <3>1, <3>2
  <2>3. QED
    BY <2>1, <2>2, RowNames, RowsDiffer, RowsAreReal DEF DraftRowOK, RowOK
<1>2. CASE pc[s] = "note"
  <2>1. i = Talk(job[s].chat) /\ i \in TalkRows
    BY <1>0, <1>2, JobFields DEF ChatWrite
  <2>2. heard[s] \in TalkRow
    BY ChatAssumption
  <2>3. row \in TalkRow
    <3>1. CASE talk[s] # Absent
      <4>1. talk[s] \in TalkRow /\ Seen(s, i) \in TalkRow
        BY <1>2, <2>1, <3>1, SeenType, RowNames DEF RowOK
      <4>2. QED
        BY <1>2, <2>1, <2>2, <3>1, <4>1, NotedRow DEF ChatWrite
    <3>2. CASE talk[s] = Absent
      BY <1>2, <2>2, <3>2 DEF ChatWrite
    <3>3. QED
      BY <3>1, <3>2
  <2>4. QED
    BY <2>1, <2>3, RowNames, RowsDiffer, RowsAreReal DEF DraftRowOK, RowOK
<1>3. CASE pc[s] \in {"count", "record", "tokens", "upsert"}
  <2>1. i \in CounterRows /\ (row = Seen(s, i) + 1 \/ row = base[s] + gained[s]
                              \/ row = Seen(s, i) + cost[s])
    BY <1>3, RowNames DEF ChatWrite, TokensOfProfile
  <2>2. Seen(s, i) \in Nat /\ base[s] \in Nat /\ gained[s] \in Nat /\ cost[s] \in Nat
    BY <2>1, SeenType, RowNames DEF RowOK
  <2>3. row \in Nat
    BY <2>1, <2>2
  <2>4. QED
    BY <2>1, <2>3, RowNames, RowsDiffer, RowsAreReal DEF DraftRowOK, RowOK
<1>4. QED
  BY <1>1, <1>2, <1>3 DEF ChatWrite

LEMMA MeetWritten ==
    ASSUME TypeInv, NEW s \in Sessions, NEW i, NEW row, MeetWrite(s, i, row)
    PROVE  i \in MeetingTables /\ i \in Rows /\ DraftRowOK(i, row)
<1> USE DEF TypeInv, MeetTyped, MeetPlaced, KindAt, PlacedOK
<1>0. at[s] # "idle"
  BY DEF MeetWrite
<1>1. CASE at[s] = "count"
  <2>1. i = MeetingUnits /\ row = Seen(s, MeetingUnits) + 1 /\ Seen(s, MeetingUnits) \in Nat
    BY <1>1, SeenType, RowNames DEF MeetWrite, RowOK
  <2>2. row \in Nat /\ i \in MeetingTables /\ i \in Rows
    BY <2>1, RowNames
  <2>3. QED
    BY <2>1, <2>2, RowNames, RowsDiffer, RowsAreReal DEF DraftRowOK, RowOK
<1>2. CASE at[s] = "record"
  BY <1>0, <1>2, TaskFields, RowNames, RowsDiffer, RowsAreReal DEF MeetWrite, DraftRowOK, RowOK
<1>3. CASE at[s] \in {"save", "update", "delete"}
  <2>1. i = Connection /\ RowOK(i, db[i])
    BY <1>3, RowNames DEF MeetWrite, TablesOK
  <2>2. row = Absent
        \/ (row \in ConnectionRow /\ {row.access, row.refresh} \subseteq granted \cup {NoGrant})
    <3>1. CASE at[s] = "delete"
      BY <3>1 DEF MeetWrite
    <3>2. CASE at[s] = "update"
      <4>1. db[i] \in ConnectionRow /\ token[s] \in Grants /\ token[s] \in granted \cup {NoGrant}
            /\ row = [db[i] EXCEPT !.access = token[s]]
        BY <2>1, <3>2, RowNames DEF MeetWrite, RowOK, SameRow
      <4>2. QED
        BY <2>1, <4>1, RefreshedRow, RowsAreReal DEF RowOK
    <3>3. CASE at[s] = "save"
      <4>1. grant[s] \in Grant /\ {grant[s].access, grant[s].refresh} \subseteq granted \cup {NoGrant}
        BY <3>3
      <4>2. CASE db[i] = Absent
        BY <2>1, <3>3, <4>1, <4>2, ConnectedRow DEF MeetWrite, SameRow
      <4>3. CASE db[i] # Absent
        <5>1. db[i] \in ConnectionRow /\ row = Reconnected(db[i], grant[s])
          BY <2>1, <3>3, <4>3 DEF MeetWrite, RowOK, SameRow
        <5>2. QED
          BY <2>1, <4>1, <4>3, <5>1, ReconnectedRow DEF RowOK
      <4>4. QED
        BY <4>2, <4>3
    <3>4. QED
      BY <1>3, <3>1, <3>2, <3>3
  <2>3. QED
    BY <2>1, <2>2, RowNames, RowsDiffer, RowsAreReal DEF DraftRowOK, RowOK
<1>4. QED
  BY <1>1, <1>2, <1>3 DEF MeetWrite

\* Which steps leave the tables alone, and what the others do to them.
LEMMA ChatTableSteps ==
    ASSUME NEW P, TypeInv, NEW s \in Sessions, ChatMove(s),
           ASSUME UNCHANGED tableVars PROVE P,
           ASSUME NEW i, NEW row, ChatWrite(s, i, row), Write(s, i, row), UNCHANGED db PROVE P,
           ASSUME DiscardRows(s), Leave(s) PROVE P,
           ASSUME Commit(s) PROVE P,
           ASSUME Scold(s) PROVE P
    PROVE  P
<1> USE DEF TypeInv, ChatTyped
<1>1. CASE Fail(s)
  BY <1>1 DEF Fail
<1>2. CASE Begin(s)
  BY <1>2 DEF Begin
<1>3. CASE Read(s) \/ Merge(s) \/ Listen(s) \/ Canned(s) \/ Answer(s)
  BY <1>3 DEF Read, Merge, Listen, Canned, Answer, Quiet
<1>4. CASE Meter(s)
  BY <1>4 DEF Meter
<1>5. CASE NotAvailable(s) \/ NoAnswer(s) \/ Admit(s) \/ Reserve(s) \/ Room(s)
  BY <1>1, <1>5 DEF NotAvailable, NoAnswer, Admit, Reserve, Room, Quiet
<1>6. CASE StartSession(s)
  <2>1. ChatWrite(s, Mine(s), [answered |-> FALSE, rapid |-> 0, flagged |-> FALSE])
    BY <1>6 DEF StartSession, Writes, Goto, ChatWrite
  <2>2. QED
    BY <1>6, <2>1 DEF StartSession, Writes
<1>7. CASE CountUnit(s)
  <2>1. ChatWrite(s, Units, Seen(s, Units) + 1)
    BY <1>7 DEF CountUnit, Writes, Goto, ChatWrite
  <2>2. QED
    BY <1>7, <2>1 DEF CountUnit, Writes
<1>8. CASE Note(s) /\ ~Fail(s)
  <2> DEFINE i == Talk(job[s].chat)
             row == IF talk[s] # Absent THEN Noted(talk[s], heard[s], Seen(s, i)) ELSE heard[s]
  <2>1. pc[s] = "note" /\ Writes(s, i, row, "answer") /\ (talk[s] = Absent => db[i] = Absent)
    BY <1>8 DEF Note
  <2>2. ChatWrite(s, i, row)
    BY <2>1 DEF Writes, Goto, ChatWrite
  <2>3. QED
    BY <2>1, <2>2 DEF Writes
<1>9. CASE Record(s)
  <2>1. ChatWrite(s, Usage(model[s]), Seen(s, Usage(model[s])) + 1)
    BY <1>9 DEF Record, Writes, Goto, ChatWrite
  <2>2. QED
    BY <1>9, <2>1 DEF Record, Writes
<1>10. CASE WriteProfile(s)
  <2>1. ChatWrite(s, Profile, TokensOfProfile(s))
    BY <1>10 DEF WriteProfile, Writes, Goto, ChatWrite
  <2>2. QED
    BY <1>10, <2>1 DEF WriteProfile, Writes
<1>11. CASE UpsertTokens(s)
  <2>1. ChatWrite(s, Tokens, Seen(s, Tokens) + cost[s])
    BY <1>11 DEF UpsertTokens, Writes, Goto, ChatWrite
  <2>2. QED
    BY <1>11, <2>1 DEF UpsertTokens, Writes
<1>12. CASE Close(s)
  <2>1. ChatWrite(s, Mine(s), Replied(read[s], Seen(s, Mine(s))))
    BY <1>12 DEF Close, Writes, Goto, ChatWrite
  <2>2. QED
    BY <1>12, <2>1 DEF Close, Writes
<1>13. CASE Commit(s) \/ Scold(s) \/ Abort(s)
  BY <1>13 DEF Abort
<1>14. QED
  BY <1>1, <1>2, <1>3, <1>4, <1>5, <1>6, <1>7, <1>8, <1>9, <1>10, <1>11, <1>12, <1>13
     DEF ChatMove, Proceed

LEMMA MeetTableSteps ==
    ASSUME NEW P, TypeInv, NEW s \in Sessions, MeetMove(s),
           ASSUME UNCHANGED tableVars PROVE P,
           ASSUME NEW i, NEW row, MeetWrite(s, i, row), Write(s, i, row), UNCHANGED db PROVE P,
           ASSUME DiscardRows(s), Depart(s) PROVE P,
           ASSUME CommitMeeting(s) PROVE P
    PROVE  P
<1> USE DEF TypeInv, MeetTyped
<1>1. CASE Decline(s) \/ Lose(s) \/ AnswerLost(s) \/ GoogleFails(s) \/ Unfit(s) \/ Drop(s)
  BY <1>1 DEF Decline, Lose, AnswerLost, GoogleFails, Unfit, Drop
<1>2. CASE Arrive(s) \/ LockCandidate(s) \/ Exchange(s) \/ Revoke(s)
  BY <1>2 DEF Arrive, LockCandidate, Exchange, Revoke
<1>3. CASE CheckRequests(s) \/ ReserveMeeting(s) \/ Lookup(s) \/ Refresh(s) \/ Book(s)
  BY <1>1, <1>3 DEF CheckRequests, ReserveMeeting, Lookup, Refresh, Book, Still
<1>4. CASE CountMeeting(s)
  <2>1. MeetWrite(s, MeetingUnits, Seen(s, MeetingUnits) + 1)
    BY <1>4 DEF CountMeeting, Writing, GotoPlace, MeetWrite
  <2>2. QED
    BY <1>4, <2>1 DEF CountMeeting, Writing
<1>5. CASE Save(s) /\ ~Decline(s)
  <2> DEFINE row == IF seen[s] = Absent THEN Connected(grant[s])
                    ELSE Reconnected(db[Connection], grant[s])
  <2>1. at[s] = "save" /\ Writing(s, Connection, row, "commit")
        /\ \/ seen[s] = Absent /\ db[Connection] = Absent
           \/ seen[s] # Absent /\ SameRow(s)
    BY <1>5 DEF Save, SameRow
  <2>2. MeetWrite(s, Connection, row)
    BY <2>1 DEF Writing, GotoPlace, MeetWrite
  <2>3. QED
    BY <2>1, <2>2 DEF Writing
<1>6. CASE SaveToken(s) /\ ~Decline(s)
  <2>1. at[s] = "update" /\ Refreshed(s) # Absent
        /\ Writing(s, Connection, Refreshed(s), IF Kind(s) = "token" THEN "commit" ELSE "book")
    BY <1>6 DEF SaveToken
  <2>2. MeetWrite(s, Connection, Refreshed(s))
    BY <2>1 DEF Writing, GotoPlace, MeetWrite, Refreshed
  <2>3. QED
    BY <2>1, <2>2 DEF Writing
<1>7. CASE Delete(s)
  <2>1. CASE SameRow(s)
    <3>1. MeetWrite(s, Connection, Absent)
      BY <1>7, <2>1 DEF Delete, Writing, GotoPlace, MeetWrite
    <3>2. QED
      BY <1>7, <2>1, <3>1 DEF Delete, Writing
  <2>2. CASE ~SameRow(s)
    BY <1>7, <2>2 DEF Delete, Still
  <2>3. QED
    BY <2>1, <2>2
<1>8. CASE RecordRequest(s) /\ ~Lose(s)
  <2>1. at[s] = "record" /\ Writing(s, Request(task[s].room), Requested, "commit")
        /\ db[Request(task[s].room)] = Absent
    BY <1>8 DEF RecordRequest
  <2>2. MeetWrite(s, Request(task[s].room), Requested)
    BY <2>1 DEF Writing, GotoPlace, MeetWrite
  <2>3. QED
    BY <2>1, <2>2 DEF Writing
<1>9. CASE CommitMeeting(s)
  BY <1>9
<1>10. QED
  BY <1>1, <1>2, <1>3, <1>4, <1>5, <1>6, <1>7, <1>8, <1>9 DEF MeetMove, Meet

LEMMA TableSteps ==
    ASSUME NEW P, TypeInv, [NextAll]_allVars,
           ASSUME UNCHANGED tableVars PROVE P,
           ASSUME NEW s \in Sessions, NEW i, NEW row, Write(s, i, row), UNCHANGED db,
                  ChatWrite(s, i, row) \/ MeetWrite(s, i, row) PROVE P,
           ASSUME NEW s \in Sessions, DiscardRows(s), Leave(s) \/ Depart(s) PROVE P,
           ASSUME NEW s \in Sessions, Commit(s) \/ CommitMeeting(s) PROVE P,
           ASSUME NEW s \in Sessions, Scold(s) PROVE P
    PROVE  P
<1>1. ASSUME NEW s \in Sessions, ChatMove(s) PROVE P
  BY <1>1, ChatTableSteps
<1>2. ASSUME NEW s \in Sessions, MeetMove(s) PROVE P
  BY <1>2, MeetTableSteps
<1>3. CASE SetPreference \/ ChangeCatalogue \/ ChangePlan \/ TimePasses
  BY <1>3 DEF SetPreference, ChangeCatalogue, ChangePlan, TimePasses
<1>4. CASE Withdraw \/ Expire \/ CoolDown
  BY <1>4 DEF Withdraw, Expire, CoolDown
<1>5. CASE UNCHANGED allVars
  BY <1>5 DEF allVars
<1>6. QED
  BY NextCases, <1>1, <1>2, <1>3, <1>4, <1>5

\* Google forgets no grant it has given.
LEMMA GrantsGrow ==
    ASSUME [NextAll]_allVars
    PROVE  granted \subseteq granted'
<1>1. ASSUME NEW s \in Sessions, MeetMove(s) PROVE granted \subseteq granted'
  <2>1. CASE Exchange(s)
    BY <2>1 DEF Exchange
  <2>2. CASE ~Exchange(s)
    BY <1>1, <2>2 DEF MeetMove, Arrive, Meet, Drop, Unfit, Decline, Lose, LockCandidate, CheckRequests,
       ReserveMeeting, CountMeeting, Lookup, Save, Refresh, SaveToken, GoogleFails, Revoke, Delete,
       Book, AnswerLost, RecordRequest, CommitMeeting, Writing, Still, googleVars
  <2>3. QED
    BY <2>1, <2>2
<1>2. CASE UNCHANGED meetingVars
  BY <1>2 DEF meetingVars, googleVars
<1>3. CASE Withdraw \/ Expire \/ CoolDown
  BY <1>3 DEF Withdraw, Expire, CoolDown, googleVars
<1>4. CASE UNCHANGED allVars
  BY <1>2, <1>4 DEF allVars
<1>5. QED
  BY NextCases, <1>1, <1>2, <1>3, <1>4

-----------------------------------------------------------------------------
(* The tables keep their types. *)

\* A write changes one row of one draft, a row nobody else has written.
LEMMA WriteEffect ==
    ASSUME TablesOK, NEW s \in Sessions, NEW i \in Rows, NEW row, Write(s, i, row)
    PROVE  /\ \A o \in Sessions, j \in Rows :
                 draft'[o][j] = IF o = s /\ j = i THEN row ELSE draft[o][j]
           /\ \A o \in Sessions : o # s => draft'[o] = draft[o] /\ draft[o][i] = Unwritten
           /\ draft' = [o \in Sessions |-> draft'[o]]
           /\ draft'[s] = [j \in Rows |-> draft'[s][j]]
BY DEF TablesOK, Write, Writable

\* A discard or a commit empties one draft.
LEMMA BlankEffect ==
    ASSUME TablesOK, NEW s \in Sessions, draft' = [draft EXCEPT ![s] = Blank]
    PROVE  /\ \A o \in Sessions, j \in Rows :
                 draft'[o][j] = IF o = s THEN Unwritten ELSE draft[o][j]
           /\ \A o \in Sessions : o # s => draft'[o] = draft[o]
           /\ draft' = [o \in Sessions |-> draft'[o]]
           /\ draft'[s] = [j \in Rows |-> draft'[s][j]]
BY DEF TablesOK, Blank

LEMMA RowsStayTyped ==
    ASSUME [NextAll]_allVars, NEW i, NEW row
    PROVE  /\ RowOK(i, row) => RowOK(i, row)'
           /\ DraftRowOK(i, row) => DraftRowOK(i, row)'
BY GrantsGrow DEF RowOK, DraftRowOK

\* The refusals that come too fast change the row of one chat, which is there.
LEMMA ScoldEffect ==
    ASSUME TypeInv, NEW s \in Sessions, Scold(s)
    PROVE  LET i == Mine(s)
           IN  /\ i \in ChatRows /\ i \in Rows /\ job[s].chat \in Chats
               /\ read[s] \in ChatRow /\ db[i] \in ChatRow
               /\ db'[i] = Scolded(read[s], db[i]) /\ db'[i] \in ChatRow
               /\ \A j \in Rows : j # i => db'[j] = db[j]
               /\ db' = [j \in Rows |-> db'[j]]
               /\ \A o \in Sessions : o # s => draft[o][i] = Unwritten
               /\ UNCHANGED draft
<1> USE DEF TypeInv, TablesOK, ChatPlaced, OpAt, PlacedOK
<1>1. pc[s] = "scold" /\ db' = [db EXCEPT ![Mine(s)] = Scolded(read[s], @)]
      /\ Writable(s, Mine(s)) /\ UNCHANGED draft
  BY DEF Scold
<1>2. Op(s) = "message" /\ read[s] \in ChatRow /\ db[Mine(s)] # Absent
  BY <1>1 DEF Existing, Mine
<1>3. Mine(s) \in ChatRows /\ Mine(s) \in Rows /\ job[s].chat \in Chats
  BY <1>1, <1>2, JobFields, RowNames
<1>4. db[Mine(s)] \in ChatRow
  BY <1>2, <1>3 DEF RowOK
<1>5. Scolded(read[s], db[Mine(s)]) \in ChatRow
  BY <1>2, <1>4, ScoldedRow
<1>6. /\ db'[Mine(s)] = Scolded(read[s], db[Mine(s)])
      /\ \A j \in Rows : j # Mine(s) => db'[j] = db[j]
      /\ db' = [j \in Rows |-> db'[j]]
  BY <1>1, <1>3
<1>7. QED
  BY <1>1, <1>2, <1>3, <1>4, <1>5, <1>6 DEF Writable

LEMMA TablesTyped ==
    ASSUME TypeInv, [NextAll]_allVars
    PROVE  TablesOK'
<1> USE DEF TypeInv
<1>1. ASSUME UNCHANGED tableVars PROVE TablesOK'
  BY <1>1, RowsStayTyped DEF tableVars, TablesOK
<1>2. ASSUME NEW s \in Sessions, NEW i, NEW row, Write(s, i, row), UNCHANGED db,
             ChatWrite(s, i, row) \/ MeetWrite(s, i, row)
      PROVE  TablesOK'
  <2>1. i \in Rows /\ DraftRowOK(i, row)
    BY <1>2, ChatWritten, MeetWritten
  <2>2. /\ \A o \in Sessions, j \in Rows :
              draft'[o][j] = IF o = s /\ j = i THEN row ELSE draft[o][j]
        /\ \A o \in Sessions : o # s => draft'[o] = draft[o]
        /\ draft' = [o \in Sessions |-> draft'[o]]
        /\ draft'[s] = [j \in Rows |-> draft'[s][j]]
    BY <1>2, <2>1, WriteEffect
  <2>3. ASSUME NEW o \in Sessions, NEW j \in Rows PROVE DraftRowOK(j, draft[o][j])'
    <3>1. ASSUME NEW new, new = draft'[o][j] PROVE DraftRowOK(j, new)
      BY <2>1, <2>2, <3>1 DEF TablesOK
    <3>2. ASSUME NEW new, new = draft'[o][j] PROVE DraftRowOK(j, new)'
      BY <3>1, <3>2, RowsStayTyped
    <3>3. QED
      BY <3>2 DEF DraftRowOK, RowOK
  <2>4. ASSUME NEW j \in Rows PROVE RowOK(j, db[j])'
    BY <1>2, RowsStayTyped DEF TablesOK
  <2>5. QED
    BY <1>2, <2>2, <2>3, <2>4 DEF TablesOK
<1>3. ASSUME NEW s \in Sessions, DiscardRows(s) PROVE TablesOK'
  <2>1. /\ \A o \in Sessions, j \in Rows : draft'[o][j] = IF o = s THEN Unwritten ELSE draft[o][j]
        /\ \A o \in Sessions : o # s => draft'[o] = draft[o]
        /\ draft' = [o \in Sessions |-> draft'[o]]
        /\ draft'[s] = [j \in Rows |-> draft'[s][j]]
        /\ UNCHANGED db
    BY <1>3, BlankEffect DEF DiscardRows
  <2>2. ASSUME NEW o \in Sessions, NEW j \in Rows PROVE DraftRowOK(j, draft[o][j])'
    <3>1. DraftRowOK(j, draft[o][j]) /\ (o = s => draft'[o][j] = Unwritten)
      BY <2>1 DEF TablesOK
    <3>2. CASE o = s
      BY <3>1, <3>2 DEF DraftRowOK
    <3>3. CASE o # s
      BY <2>1, <3>1, <3>3, RowsStayTyped
    <3>4. QED
      BY <3>2, <3>3
  <2>3. ASSUME NEW j \in Rows PROVE RowOK(j, db[j])'
    BY <2>1, RowsStayTyped DEF TablesOK
  <2>4. QED
    BY <2>1, <2>2, <2>3 DEF TablesOK
<1>4. ASSUME NEW s \in Sessions, CommitRows(s) PROVE TablesOK'
  <2>1. /\ \A o \in Sessions, j \in Rows : draft'[o][j] = IF o = s THEN Unwritten ELSE draft[o][j]
        /\ \A o \in Sessions : o # s => draft'[o] = draft[o]
        /\ draft' = [o \in Sessions |-> draft'[o]]
        /\ draft'[s] = [j \in Rows |-> draft'[s][j]]
        /\ db' = [j \in Rows |-> Seen(s, j)]
    BY <1>4, BlankEffect DEF CommitRows
  <2>2. ASSUME NEW o \in Sessions, NEW j \in Rows PROVE DraftRowOK(j, draft[o][j])'
    <3>1. DraftRowOK(j, draft[o][j]) /\ (o = s => draft'[o][j] = Unwritten)
      BY <2>1 DEF TablesOK
    <3>2. CASE o = s
      BY <3>1, <3>2 DEF DraftRowOK
    <3>3. CASE o # s
      BY <2>1, <3>1, <3>3, RowsStayTyped
    <3>4. QED
      BY <3>2, <3>3
  <2>3. ASSUME NEW j \in Rows PROVE RowOK(j, db[j])'
    <3>1. ASSUME NEW new, new = Seen(s, j) PROVE RowOK(j, new)'
      BY <3>1, SeenType, RowsStayTyped
    <3>2. db'[j] = Seen(s, j)
      BY <2>1
    <3>3. QED
      BY <3>1, <3>2 DEF RowOK
  <2>4. QED
    BY <2>1, <2>2, <2>3 DEF TablesOK
<1>5. ASSUME NEW s \in Sessions, Scold(s) PROVE TablesOK'
  <2>1. /\ Mine(s) \in ChatRows /\ db'[Mine(s)] \in ChatRow
        /\ \A j \in Rows : j # Mine(s) => db'[j] = db[j]
        /\ db' = [j \in Rows |-> db'[j]] /\ UNCHANGED draft
    BY <1>5, ScoldEffect
  <2>2. ASSUME NEW j \in Rows PROVE RowOK(j, db[j])'
    <3>1. CASE j = Mine(s)
      BY <2>1, <3>1, RowNames, RowsDiffer DEF RowOK
    <3>2. CASE j # Mine(s)
      BY <2>1, <3>2, RowsStayTyped DEF TablesOK
    <3>3. QED
      BY <3>1, <3>2
  <2>3. \A o \in Sessions, j \in Rows : DraftRowOK(j, draft[o][j])'
    BY <2>1, RowsStayTyped DEF TablesOK
  <2>4. QED
    BY <2>1, <2>2, <2>3 DEF TablesOK
<1>6. QED
  BY <1>1, <1>2, <1>3, <1>4, <1>5, TableSteps DEF Commit, CommitMeeting

\* Nothing of a chat is ever deleted.
LEMMA ChatsStay ==
    ASSUME TypeInv, [NextAll]_allVars, NEW i \in ChatTables, db[i] # Absent
    PROVE  db'[i] # Absent
<1> USE DEF TypeInv
<1>0. i \in Rows
  BY RowNames
<1>1. ASSUME NEW s \in Sessions, CommitRows(s) PROVE db'[i] # Absent
  BY <1>0, <1>1, SeenType DEF CommitRows
<1>2. ASSUME NEW s \in Sessions, Scold(s) PROVE db'[i] # Absent
  <2>1. /\ db'[Mine(s)] \in ChatRow /\ \A j \in Rows : j # Mine(s) => db'[j] = db[j]
    BY <1>2, ScoldEffect
  <2>2. QED
    BY <1>0, <2>1, RowsAreReal
<1>3. ASSUME UNCHANGED db PROVE db'[i] # Absent
  BY <1>3
<1>4. QED
  BY <1>1, <1>2, <1>3, TableSteps DEF tableVars, DiscardRows, Commit, CommitMeeting

ChatKept(s) ==
    /\ pc'[s] = pc[s] /\ job'[s] = job[s] /\ read'[s] = read[s] /\ talk'[s] = talk[s]
    /\ heard'[s] = heard[s] /\ base'[s] = base[s] /\ gained'[s] = gained[s]
    /\ cost'[s] = cost[s] /\ model'[s] = model[s] /\ left'[s] = left[s] /\ unit'[s] = unit[s]

MeetKept(s) ==
    /\ at'[s] = at[s] /\ task'[s] = task[s] /\ seen'[s] = seen[s] /\ token'[s] = token[s]
    /\ grant'[s] = grant[s] /\ holds'[s] = holds[s]

Kept(s) == ChatKept(s) /\ MeetKept(s) /\ draft'[s] = draft[s]

\* A step of one session leaves the others as they are.
LEMMA OthersKeptInChat ==
    ASSUME TypeInv, NEW s \in Sessions, ChatMove(s), NEW o \in Sessions \ {s}
    PROVE  ChatKept(o) /\ draft'[o] = draft[o]
<1> USE DEF TypeInv, ChatTyped, TablesOK, Goto
<1> DEFINE Same == ChatKept(o) /\ draft'[o] = draft[o]
<1>1. ASSUME Leave(s), draft' = [draft EXCEPT ![s] = Blank] \/ UNCHANGED draft PROVE Same
  BY <1>1 DEF Leave, ChatKept
<1>2. ASSUME Fail(s) PROVE Same
  BY <1>1, <1>2 DEF Fail, DiscardRows
<1>3. CASE Begin(s)
  BY <1>3 DEF Begin, ChatKept, tableVars, unitVars
<1>4. CASE StartSession(s) \/ CountUnit(s) \/ Record(s) \/ WriteProfile(s) \/ Close(s)
  BY <1>4 DEF StartSession, CountUnit, Record, WriteProfile, Close, Writes, Write, ChatKept,
              unitVars, roundVars
<1>5. CASE UpsertTokens(s)
  BY <1>5 DEF UpsertTokens, Writes, Write, ChatKept, unitVars
<1>6. CASE Note(s)
  BY <1>2, <1>6 DEF Note, Writes, Write, ChatKept, unitVars, roundVars
<1>7. CASE Read(s) \/ Merge(s)
  BY <1>7 DEF Read, Merge, Quiet, ChatKept, tableVars, unitVars, roundVars
<1>8. CASE Listen(s) \/ Canned(s) \/ Answer(s)
  BY <1>8 DEF Listen, Canned, Answer, Quiet, ChatKept, tableVars, unitVars
<1>9. CASE Meter(s)
  BY <1>9 DEF Meter, ChatKept, tableVars, unitVars
<1>10. CASE Admit(s) \/ Room(s)
  BY <1>2, <1>10 DEF Admit, Room, Quiet, ChatKept, tableVars, unitVars, roundVars
<1>11. CASE Reserve(s)
  BY <1>2, <1>11 DEF Reserve, ChatKept, tableVars, roundVars
<1>12. CASE NotAvailable(s) \/ NoAnswer(s)
  BY <1>2, <1>12 DEF NotAvailable, NoAnswer
<1>13. CASE Scold(s) \/ Commit(s) \/ Abort(s)
  BY <1>1, <1>13 DEF Scold, Commit, CommitRows, Abort, DiscardRows
<1>14. QED
  BY <1>3, <1>4, <1>5, <1>6, <1>7, <1>8, <1>9, <1>10, <1>11, <1>12, <1>13 DEF ChatMove, Proceed

LEMMA OthersKeptInMeetings ==
    ASSUME TypeInv, NEW s \in Sessions, MeetMove(s), NEW o \in Sessions \ {s}
    PROVE  MeetKept(o) /\ draft'[o] = draft[o]
<1> USE DEF TypeInv, MeetTyped, TablesOK, GotoPlace
<1> DEFINE Same == MeetKept(o) /\ draft'[o] = draft[o]
<1>1. ASSUME Depart(s), draft' = [draft EXCEPT ![s] = Blank] PROVE Same
  BY <1>1 DEF Depart, MeetKept
<1>2. ASSUME Decline(s) \/ Lose(s) PROVE Same
  BY <1>1, <1>2 DEF Decline, Lose, DiscardRows
<1>3. CASE Arrive(s) \/ LockCandidate(s) \/ Exchange(s) \/ Revoke(s)
  BY <1>3 DEF Arrive, LockCandidate, Exchange, Revoke, MeetKept, tableVars, meetingUnitVars
<1>4. CASE CheckRequests(s) \/ Lookup(s) \/ Refresh(s)
  BY <1>2, <1>4 DEF CheckRequests, Lookup, Refresh, Still, MeetKept, tableVars, meetingUnitVars
<1>5. CASE ReserveMeeting(s) \/ Book(s)
  BY <1>2, <1>5 DEF ReserveMeeting, Book, MeetKept, tableVars
<1>6. CASE CountMeeting(s) \/ Save(s) \/ SaveToken(s) \/ Delete(s) \/ RecordRequest(s)
  BY <1>2, <1>6 DEF CountMeeting, Save, SaveToken, Delete, RecordRequest, Writing, Write, MeetKept,
                    Still, tableVars, meetingUnitVars
<1>7. CASE Unfit(s) \/ GoogleFails(s) \/ AnswerLost(s) \/ CommitMeeting(s) \/ Drop(s)
  BY <1>1, <1>2, <1>7 DEF Unfit, GoogleFails, AnswerLost, CommitMeeting, Drop, DiscardRows,
                          CommitRows
<1>8. QED
  BY <1>3, <1>4, <1>5, <1>6, <1>7 DEF MeetMove, Meet

LEMMA UnchangedKept ==
    ASSUME NEW s
    PROVE  /\ UNCHANGED chatVars => ChatKept(s)
           /\ UNCHANGED meetingVars => MeetKept(s)
           /\ UNCHANGED <<jobVars, unitVars>> => ChatKept(s)
           /\ UNCHANGED <<taskVars, meetingUnitVars>> => MeetKept(s)
BY DEF chatVars, jobVars, roundVars, unitVars, meetingVars, taskVars, meetingUnitVars, ChatKept,
       MeetKept

\* Every session is kept or moves by an action of its own.
LEMMA KeptOrMoved ==
    ASSUME TypeInv, [NextAll]_allVars, NEW s \in Sessions
    PROVE  \/ Kept(s)
           \/ ChatMove(s) /\ MeetKept(s) /\ UNCHANGED meetingVars
           \/ MeetMove(s) /\ ChatKept(s) /\ UNCHANGED chatVars
<1> DEFINE P == \/ Kept(s)
                \/ ChatMove(s) /\ MeetKept(s) /\ UNCHANGED meetingVars
                \/ MeetMove(s) /\ ChatKept(s) /\ UNCHANGED chatVars
<1>1. ASSUME NEW o \in Sessions, ChatMove(o), UNCHANGED meetingVars PROVE P
  BY <1>1, OthersKeptInChat, UnchangedKept DEF Kept
<1>2. ASSUME NEW o \in Sessions, MeetMove(o), UNCHANGED chatVars PROVE P
  BY <1>2, OthersKeptInMeetings, UnchangedKept DEF Kept
<1>3. ASSUME SetPreference \/ ChangeCatalogue \/ ChangePlan \/ TimePasses, UNCHANGED meetingVars
      PROVE  P
  <2>1. UNCHANGED <<jobVars, unitVars>> /\ UNCHANGED tableVars
    BY <1>3 DEF SetPreference, ChangeCatalogue, ChangePlan, TimePasses
  <2>2. QED
    BY <1>3, <2>1, UnchangedKept DEF Kept, tableVars
<1>4. ASSUME Withdraw \/ Expire \/ CoolDown, UNCHANGED chatVars PROVE P
  <2>1. UNCHANGED <<taskVars, meetingUnitVars>> /\ UNCHANGED tableVars
    BY <1>4 DEF Withdraw, Expire, CoolDown
  <2>2. QED
    BY <1>4, <2>1, UnchangedKept DEF Kept, tableVars
<1>5. ASSUME UNCHANGED allVars PROVE P
  BY <1>5, UnchangedKept DEF allVars, Kept, tableVars
<1> HIDE DEF P
<1>6. P
  BY NextCases, <1>1, <1>2, <1>3, <1>4, <1>5
<1>7. QED
  BY <1>6 DEF P

-----------------------------------------------------------------------------
(* The variables keep their types. *)

LEMMA LeaveTyped ==
    ASSUME ChatTyped, NEW s \in Sessions, Leave(s)
    PROVE  ChatTyped'
BY ChatAssumption DEF ChatTyped, Leave, Goto, Steps

LEMMA ChatMoveTyped ==
    ASSUME TypeInv, NEW s \in Sessions, ChatMove(s)
    PROVE  ChatTyped' /\ ChatWorldTyped'
<1> DEFINE Typed == ChatTyped' /\ ChatWorldTyped'
<1> USE DEF TypeInv, WorldTyped
<1>0. 0 \in 0..SectionsMax /\ 0 \in 0..1 /\ 1 \in 0..1
  BY ChatAssumption
<1>1. CASE Fail(s)
  BY <1>1, LeaveTyped DEF Fail, ChatWorldTyped, routeVars
<1>2. CASE Begin(s)
  <2>1. PICK j \in Job :
          /\ (j.op \in {"start", "message"}) = (j.chat # NoChat)
          /\ job' = [job EXCEPT ![s] = j]
          /\ \E n \in IF j.op = "sections" THEN 1..SectionsMax ELSE {0} :
                left' = [left EXCEPT ![s] = n]
          /\ Goto(s, IF j.op = "start" THEN "start" ELSE "read")
    BY <1>2 DEF Begin
  <2>2. PICK n \in 0..SectionsMax : left' = [left EXCEPT ![s] = n]
    <3>1. PICK n \in IF j.op = "sections" THEN 1..SectionsMax ELSE {0} :
             left' = [left EXCEPT ![s] = n]
      BY <2>1
    <3>2. n \in 0..SectionsMax
      BY <1>0, ChatAssumption
    <3>3. QED
      BY <3>1, <3>2
  <2>3. ChatTyped'
    BY <1>2, <2>1, <2>2 DEF Begin, Goto, ChatTyped, Steps, unitVars
  <2>4. begun \in 0..MaxRequests /\ begun < MaxRequests /\ begun' = begun + 1
    BY <1>2 DEF Begin, ChatWorldTyped
  <2>5. begun' \in 0..MaxRequests
    BY <2>4, ChatAssumption
  <2>6. QED
    BY <1>2, <2>3, <2>5 DEF Begin, unitVars, routeVars, ChatWorldTyped
<1>3. CASE StartSession(s) \/ CountUnit(s) \/ Record(s) \/ WriteProfile(s) \/ Close(s)
  BY <1>3 DEF StartSession, CountUnit, Record, WriteProfile, Close, Writes, Goto, unitVars, roundVars,
              routeVars, ChatTyped, ChatWorldTyped, Steps
<1>4. CASE UpsertTokens(s)
  <2>1. Op(s) = "sections" => left[s] \in 1..SectionsMax
    BY <1>4 DEF UpsertTokens, PlacedOK, ChatPlaced
  <2>2. (IF Op(s) = "sections" THEN left[s] - 1 ELSE left[s]) \in 0..SectionsMax
    BY <2>1, ChatAssumption DEF ChatTyped
  <2>3. AfterTally(s) \in Steps
    BY DEF AfterTally, Steps
  <2>4. QED
    BY <1>4, <2>2, <2>3 DEF UpsertTokens, Writes, Goto, unitVars, roundVars, routeVars, ChatTyped,
                            ChatWorldTyped
<1>5. CASE Note(s)
  BY <1>1, <1>5 DEF Note, Writes, Goto, unitVars, roundVars, routeVars, ChatTyped, ChatWorldTyped,
                    Steps
<1>6. CASE Read(s)
  <2>1. Op(s) = "message" => Seen(s, Mine(s)) \in ChatRow \cup {Absent}
    BY <1>6, SeenType, JobFields, RowNames DEF Read, RowOK
  <2>2. Seen(s, Profile) \in Nat
    BY SeenType, RowNames DEF RowOK
  <2>3. AfterRead(s) \in Steps
    BY DEF AfterRead, Steps
  <2>4. QED
    BY <1>0, <1>6, <2>1, <2>2, <2>3 DEF Read, Quiet, Goto, unitVars, routeVars, ChatTyped, ChatWorldTyped
<1>7. CASE Scold(s)
  <2>1. refused \in [Chats -> Nat] /\ job[s].chat \in Chats
    BY <1>7, ScoldEffect DEF ChatWorldTyped
  <2>2. refused' \in [Chats -> Nat]
    BY <1>7, <2>1 DEF Scold
  <2>3. QED
    BY <1>7, <2>2, LeaveTyped DEF Scold, ChatWorldTyped, routeVars
<1>8. CASE Admit(s) \/ Room(s)
  BY <1>1, <1>8 DEF Admit, AfterAdmit, Room, Quiet, Goto, unitVars, roundVars, routeVars, ChatTyped,
                    ChatWorldTyped, Steps
<1>9. CASE Reserve(s)
  BY <1>1, <1>9 DEF Reserve, Goto, roundVars, routeVars, ChatTyped, ChatWorldTyped, Steps
<1>10. CASE Listen(s)
  BY <1>10 DEF Listen, Quiet, Goto, unitVars, routeVars, ChatTyped, ChatWorldTyped, Steps
<1>11. CASE Merge(s)
  <2>1. Seen(s, Talk(job[s].chat)) \in TalkRow \cup {Absent}
    BY <1>11, SeenType, JobFields, RowNames DEF Merge, PlacedOK, ChatPlaced, OpAt, RowOK
  <2>2. QED
    BY <1>11, <2>1 DEF Merge, Quiet, Goto, unitVars, roundVars, routeVars, ChatTyped, ChatWorldTyped,
                       Steps
<1>12. CASE Canned(s)
  BY <1>12 DEF Canned, Quiet, Goto, unitVars, routeVars, ChatTyped, ChatWorldTyped, Steps
<1>13. CASE Answer(s)
  <2>1. {Resolve, Default} \subseteq Models \cup {Default}
    BY DEF Resolve, Offered, ChatWorldTyped
  <2>2. QED
    BY <1>0, <1>13, <2>1 DEF Answer, Quiet, Goto, unitVars, routeVars, ChatTyped, ChatWorldTyped, Steps
<1>14. CASE Meter(s)
  <2>1. tally + cost[s] \in Nat /\ ungated + cost[s] \in Nat /\ gained[s] + cost[s] \in Nat
    BY DEF ChatTyped, ChatWorldTyped
  <2>2. QED
    BY <1>14, <2>1 DEF Meter, Goto, unitVars, routeVars, ChatTyped, ChatWorldTyped, Steps
<1>15. CASE NotAvailable(s) \/ NoAnswer(s)
  BY <1>1, <1>15 DEF NotAvailable, NoAnswer
<1>16. CASE Commit(s)
  <2>1. Op(s) = "message" => job[s].chat \in Chats
    BY <1>16, JobFields DEF Commit
  <2>2. messages' \in [Chats -> Nat] /\ recent' \subseteq Chats
    BY <1>16, <2>1 DEF Commit, ChatWorldTyped
  <2>3. QED
    BY <1>16, <2>2, LeaveTyped DEF Commit, ChatWorldTyped, routeVars
<1>17. CASE Abort(s)
  BY <1>17, LeaveTyped DEF Abort, ChatWorldTyped, routeVars
<1>18. QED
  BY <1>2, <1>3, <1>4, <1>5, <1>6, <1>7, <1>8, <1>9, <1>10, <1>11, <1>12, <1>13, <1>14, <1>15, <1>16,
     <1>17 DEF ChatMove, Proceed

LEMMA DepartTyped ==
    ASSUME MeetTyped, NEW s \in Sessions, Depart(s)
    PROVE  MeetTyped'
BY DEF MeetTyped, Depart, GotoPlace, Unlock, Places

LEMMA MeetMoveTyped ==
    ASSUME TypeInv, NEW s \in Sessions, MeetMove(s)
    PROVE  MeetTyped' /\ MeetWorldTyped'
<1> DEFINE Typed == MeetTyped' /\ MeetWorldTyped'
<1> USE DEF TypeInv, WorldTyped
<1>1. ASSUME Decline(s) PROVE Typed
  BY <1>1, DepartTyped DEF Decline, MeetWorldTyped, googleVars
<1>2. ASSUME Lose(s) PROVE Typed
  BY <1>2, DepartTyped DEF Lose, Lost, MeetWorldTyped, googleVars
<1>3. CASE Arrive(s)
  <2>1. PICK t \in Task : task' = [task EXCEPT ![s] = t] /\ GotoPlace(s, FirstPlace(t.kind))
    BY <1>3 DEF Arrive
  <2>2. FirstPlace(t.kind) \in Places
    BY DEF FirstPlace, Places
  <2>3. MeetTyped'
    BY <1>3, <2>1, <2>2 DEF Arrive, GotoPlace, MeetTyped, meetingUnitVars
  <2>4. tasks \in 0..MaxTasks /\ tasks < MaxTasks /\ tasks' = tasks + 1
    BY <1>3 DEF Arrive, MeetWorldTyped
  <2>5. tasks' \in 0..MaxTasks
    BY <2>4, MeetingsAssumption
  <2>6. QED
    BY <1>3, <2>3, <2>5 DEF Arrive, meetingUnitVars, googleVars, MeetWorldTyped
<1>4. CASE LockCandidate(s) \/ CheckRequests(s)
  BY <1>1, <1>4 DEF LockCandidate, CheckRequests, Still, GotoPlace, meetingUnitVars, googleVars, MeetTyped,
                    MeetWorldTyped, Places
<1>5. CASE ReserveMeeting(s)
  BY <1>1, <1>5 DEF ReserveMeeting, GotoPlace, googleVars, MeetTyped, MeetWorldTyped, Places
<1>6. CASE CountMeeting(s) \/ Delete(s)
  BY <1>6 DEF CountMeeting, Delete, Writing, Still, GotoPlace, meetingUnitVars, googleVars, MeetTyped,
              MeetWorldTyped, Places
<1>7. CASE Save(s) \/ SaveToken(s) \/ RecordRequest(s)
  <2>1. ASSUME NEW i, NEW row, NEW next \in Places, Writing(s, i, row, next) PROVE Typed
    BY <2>1 DEF Writing, GotoPlace, meetingUnitVars, googleVars, MeetTyped, MeetWorldTyped
  <2>2. \A k : (IF k = "token" THEN "commit" ELSE "book") \in Places /\ "commit" \in Places
    BY DEF Places
  <2>3. QED
    BY <1>1, <1>2, <1>7, <2>1, <2>2 DEF Save, SaveToken, RecordRequest
<1>8. CASE Lookup(s)
  <2>1. Seen(s, Connection) \in ConnectionRow \cup {Absent}
    BY SeenType, RowNames DEF RowOK
  <2>2. AfterLookup(s, Seen(s, Connection)) \in Places
    BY DEF AfterLookup, Places
  <2>3. (IF Seen(s, Connection) = Absent THEN NoGrant ELSE Seen(s, Connection).access)
           \in Grants \cup {NoGrant}
    BY <2>1 DEF ConnectionRow
  <2>4. QED
    BY <1>1, <1>8, <2>1, <2>2, <2>3 DEF Lookup, Still, GotoPlace, meetingUnitVars, googleVars, MeetTyped,
                                        MeetWorldTyped
<1>9. CASE Exchange(s)
  <2>1. PICK g \in Grants \ granted, r \in {TRUE, FALSE} :
          /\ granted' = granted \cup {g}
          /\ grant' = [grant EXCEPT ![s] = [access |-> g, refresh |-> IF r THEN g ELSE NoGrant]]
    BY <1>9 DEF Exchange
  <2>2. [access |-> g, refresh |-> IF r THEN g ELSE NoGrant] \in Grant
    BY DEF Grant
  <2>3. QED
    BY <1>9, <2>1, <2>2 DEF Exchange, GotoPlace, meetingUnitVars, MeetTyped, MeetWorldTyped, Places
<1>10. CASE Refresh(s)
  <2>1. seen[s].refresh \in Grants
    BY <1>10 DEF Refresh, PlacedOK, MeetPlaced
  <2>2. QED
    BY <1>1, <1>10, <2>1 DEF Refresh, Still, GotoPlace, meetingUnitVars, googleVars, MeetTyped, MeetWorldTyped,
                             Places
<1>11. CASE Revoke(s)
  <2>1. seen[s] \in ConnectionRow /\ {seen[s].access, seen[s].refresh} \subseteq granted \cup {NoGrant}
    BY <1>11 DEF Revoke, PlacedOK, MeetPlaced, MeetTyped
  <2>2. Revocable(seen[s]) \in granted
    BY <2>1, MeetingsAssumption DEF ConnectionRow, Revocable
  <2>3. QED
    BY <1>11, <2>2 DEF Revoke, GotoPlace, meetingUnitVars, MeetTyped, MeetWorldTyped, Places
<1>12. CASE Book(s)
  BY <1>1, <1>12 DEF Book, GotoPlace, googleVars, MeetTyped, MeetWorldTyped, Places
<1>13. CASE AnswerLost(s)
  BY <1>13, DepartTyped DEF AnswerLost, MeetWorldTyped, googleVars
<1>14. CASE CommitMeeting(s)
  <2>1. cooling' \in BOOLEAN /\ expired' \in BOOLEAN
    BY <1>14 DEF CommitMeeting, MeetWorldTyped
  <2>2. MeetTyped'
    BY <1>14, DepartTyped DEF CommitMeeting
  <2>3. held' \in Nat /\ UNCHANGED <<lost, events, unanswered, granted, revoked, asked, tasks>>
    BY <1>14 DEF CommitMeeting, MeetWorldTyped, googleVars
  <2>4. QED
    BY <2>1, <2>2, <2>3 DEF MeetWorldTyped
<1>15. CASE Unfit(s) \/ GoogleFails(s) \/ Drop(s)
  BY <1>1, <1>2, <1>15 DEF Unfit, GoogleFails, Drop
<1>16. QED
  BY <1>3, <1>4, <1>5, <1>6, <1>7, <1>8, <1>9, <1>10, <1>11, <1>12, <1>13, <1>14, <1>15
     DEF MeetMove, Meet

LEMMA VariablesTyped ==
    ASSUME TypeInv, [NextAll]_allVars
    PROVE  ChatTyped' /\ MeetTyped' /\ WorldTyped'
<1> DEFINE Typed == ChatTyped' /\ MeetTyped' /\ WorldTyped'
<1> USE DEF TypeInv, WorldTyped
<1>1. UNCHANGED chatVars => ChatTyped' /\ ChatWorldTyped'
  BY DEF chatVars, jobVars, roundVars, unitVars, routeVars, ChatTyped, ChatWorldTyped
<1>2. UNCHANGED meetingVars => MeetTyped' /\ MeetWorldTyped'
  BY DEF meetingVars, taskVars, meetingUnitVars, googleVars, MeetTyped, MeetWorldTyped
<1>3. ASSUME NEW s \in Sessions, ChatMove(s), UNCHANGED meetingVars PROVE Typed
  BY <1>2, <1>3, ChatMoveTyped
<1>4. ASSUME NEW s \in Sessions, MeetMove(s), UNCHANGED chatVars PROVE Typed
  BY <1>1, <1>4, MeetMoveTyped
<1>5. ASSUME SetPreference \/ ChangeCatalogue \/ ChangePlan \/ TimePasses, UNCHANGED meetingVars
      PROVE  Typed
  <2>1. UNCHANGED <<jobVars, unitVars>>
    BY <1>5 DEF SetPreference, ChangeCatalogue, ChangePlan, TimePasses
  <2>2. ChatTyped'
    BY <2>1 DEF jobVars, roundVars, unitVars, ChatTyped
  <2>3. begun \in 0..MaxRequests /\ (begun' = begun \/ (begun < MaxRequests /\ begun' = begun + 1))
    BY <1>5 DEF SetPreference, ChangeCatalogue, ChangePlan, TimePasses, ChatWorldTyped
  <2>4. begun' \in 0..MaxRequests
    BY <2>3, ChatAssumption
  <2>5. choice' \in Preferences /\ active' \subseteq Models /\ planned' \subseteq Models
        /\ selects' \in BOOLEAN
    BY <1>5 DEF SetPreference, ChangeCatalogue, ChangePlan, TimePasses, ChatWorldTyped, routeVars,
                Choices, Offered, Preferences
  <2>6. ChatWorldTyped'
    BY <1>5, <2>1, <2>4, <2>5 DEF SetPreference, ChangeCatalogue, ChangePlan, TimePasses, unitVars,
                                  ChatWorldTyped
  <2>7. QED
    BY <1>2, <1>5, <2>2, <2>6
<1>6. ASSUME Withdraw \/ Expire \/ CoolDown, UNCHANGED chatVars PROVE Typed
  <2>1. MeetTyped'
    BY <1>6 DEF Withdraw, Expire, CoolDown, taskVars, meetingUnitVars, MeetTyped
  <2>2. tasks \in 0..MaxTasks /\ (tasks' = tasks \/ (tasks < MaxTasks /\ tasks' = tasks + 1))
    BY <1>6 DEF Withdraw, Expire, CoolDown, MeetWorldTyped
  <2>3. tasks' \in 0..MaxTasks
    BY <2>2, MeetingsAssumption
  <2>4. granted' \subseteq Grants /\ revoked' \subseteq granted' /\ asked' \subseteq granted'
    BY <1>6 DEF Withdraw, Expire, CoolDown, MeetWorldTyped, googleVars
  <2>5. QED
    BY <1>1, <1>6, <2>1, <2>3, <2>4 DEF Withdraw, Expire, CoolDown, meetingUnitVars, MeetWorldTyped
<1>7. ASSUME UNCHANGED allVars PROVE Typed
  BY <1>1, <1>2, <1>7 DEF allVars
<1> HIDE DEF Typed
<1>8. Typed
  BY NextCases, <1>3, <1>4, <1>5, <1>6, <1>7
<1>9. QED
  BY <1>8 DEF Typed

-----------------------------------------------------------------------------
(* A session stays where its work is. *)

LEMMA OneThingAtATime ==
    ASSUME TypeInv, NEW s \in Sessions
    PROVE  /\ ChatMove(s) => at[s] = "idle"
           /\ MeetMove(s) => pc[s] = "idle"
<1> USE DEF TypeInv, PlacedOK, ChatPlaced, MeetPlaced
<1>1. Proceed(s) \/ Abort(s) => pc[s] # "idle"
  BY DEF Proceed, Abort, StartSession, NotAvailable, Read, Scold, Admit, Reserve, CountUnit, Room,
         Listen, Merge, Note, Canned, Answer, NoAnswer, Record, Meter, WriteProfile, UpsertTokens,
         Close, Commit
<1>2. Meet(s) \/ Drop(s) => at[s] # "idle"
  BY DEF Meet, Drop, Unfit, LockCandidate, CheckRequests, ReserveMeeting, CountMeeting, Lookup,
         Exchange, Save, Refresh, SaveToken, GoogleFails, Revoke, Delete, Book, AnswerLost,
         RecordRequest, CommitMeeting
<1>3. QED
  BY <1>1, <1>2 DEF ChatMove, MeetMove, Idle

\* What a session writes as it works in a chat is not of the meetings, and conversely.
LEMMA DraftsApart ==
    ASSUME TypeInv, NEW s \in Sessions
    PROVE  /\ ChatMove(s) => \A i \in MeetingTables :
                 draft'[s][i] = draft[s][i] \/ draft'[s][i] = Unwritten
           /\ MeetMove(s) => \A i \in ChatTables :
                 draft'[s][i] = draft[s][i] \/ draft'[s][i] = Unwritten
<1> USE DEF TypeInv
<1>1. ASSUME NEW i \in Rows, UNCHANGED draft \/ draft' = [draft EXCEPT ![s] = Blank]
      PROVE  draft'[s][i] = draft[s][i] \/ draft'[s][i] = Unwritten
  BY <1>1, BlankEffect
<1>2. ASSUME NEW k \in Rows, NEW row, Write(s, k, row), NEW i \in Rows \ {k}
      PROVE  draft'[s][i] = draft[s][i]
  BY <1>2 DEF Write, TablesOK
<1>3. ASSUME ChatMove(s), NEW i \in MeetingTables
      PROVE  draft'[s][i] = draft[s][i] \/ draft'[s][i] = Unwritten
  <2> DEFINE P == draft'[s][i] = draft[s][i] \/ draft'[s][i] = Unwritten
  <2>1. i \in Rows
    BY RowNames
  <2>2. ASSUME NEW j, NEW row, ChatWrite(s, j, row), Write(s, j, row) PROVE P
    BY <1>2, <2>1, <2>2, ChatWritten, RowNames
  <2>3. ASSUME UNCHANGED tableVars \/ DiscardRows(s) \/ Commit(s) \/ Scold(s) PROVE P
    BY <1>1, <2>1, <2>3 DEF tableVars, DiscardRows, Commit, CommitRows, Scold
  <2> HIDE DEF P
  <2>4. P
    BY <1>3, <2>2, <2>3, ChatTableSteps
  <2>5. QED
    BY <2>4 DEF P
<1>4. ASSUME MeetMove(s), NEW i \in ChatTables
      PROVE  draft'[s][i] = draft[s][i] \/ draft'[s][i] = Unwritten
  <2> DEFINE P == draft'[s][i] = draft[s][i] \/ draft'[s][i] = Unwritten
  <2>1. i \in Rows
    BY RowNames
  <2>2. ASSUME NEW j, NEW row, MeetWrite(s, j, row), Write(s, j, row) PROVE P
    BY <1>2, <2>1, <2>2, MeetWritten, RowNames
  <2>3. ASSUME UNCHANGED tableVars \/ DiscardRows(s) \/ CommitMeeting(s) PROVE P
    BY <1>1, <2>1, <2>3 DEF tableVars, DiscardRows, CommitMeeting, CommitRows
  <2> HIDE DEF P
  <2>4. P
    BY <1>4, <2>2, <2>3, MeetTableSteps
  <2>5. QED
    BY <2>4 DEF P
<1>5. QED
  BY <1>3, <1>4

LEMMA KeptPlaced ==
    ASSUME TypeInv, [NextAll]_allVars, NEW s \in Sessions
    PROVE  /\ Kept(s) => ChatPlaced(s)' /\ MeetPlaced(s)'
           /\ ChatMove(s) /\ MeetKept(s) => MeetPlaced(s)'
           /\ MeetMove(s) /\ ChatKept(s) => ChatPlaced(s)'
<1> USE DEF TypeInv, PlacedOK
<1>1. ASSUME Kept(s) PROVE ChatPlaced(s)'
  <2>1. ASSUME pc[s] # "idle", Op(s) = "message"
        PROVE  /\ Existing(job[s].chat)'
               /\ Seen(s, Talk(job[s].chat)) # Absent => Seen(s, Talk(job[s].chat))' # Absent
    <3>1. Mine(s) \in ChatTables /\ Talk(job[s].chat) \in ChatTables
      BY <2>1, JobFields, RowNames
    <3>2. Existing(job[s].chat)
      BY <2>1 DEF ChatPlaced
    <3>3. QED
      BY <1>1, <3>1, <3>2, ChatsStay DEF Existing, Mine, Seen, Kept, ChatKept
  <2>2. pc'[s] = pc[s] /\ job'[s] = job[s] /\ read'[s] = read[s] /\ talk'[s] = talk[s]
        /\ left'[s] = left[s] /\ unit'[s] = unit[s] /\ draft'[s] = draft[s] /\ at'[s] = at[s]
    BY <1>1 DEF Kept, ChatKept, MeetKept
  <2>3. ChatPlaced(s)
    OBVIOUS
  <2>4. QED
    BY <2>1, <2>2, <2>3 DEF ChatPlaced, OpAt, Op
<1>2. ASSUME Kept(s) PROVE MeetPlaced(s)'
  <2>1. MeetPlaced(s)
    OBVIOUS
  <2>2. at'[s] = at[s] /\ task'[s] = task[s] /\ seen'[s] = seen[s] /\ token'[s] = token[s]
        /\ grant'[s] = grant[s] /\ holds'[s] = holds[s] /\ draft'[s] = draft[s] /\ pc'[s] = pc[s]
    BY <1>2 DEF Kept, ChatKept, MeetKept
  <2>3. QED
    BY <2>1, <2>2, GrantsGrow DEF MeetPlaced, KindAt, Kind
<1>3. ASSUME ChatMove(s), MeetKept(s) PROVE MeetPlaced(s)'
  <2>1. at[s] = "idle" /\ MeetPlaced(s)
    BY <1>3, OneThingAtATime
  <2>2. \A i \in MeetingTables : draft'[s][i] = Unwritten
    BY <1>3, <2>1, DraftsApart DEF MeetPlaced
  <2>3. QED
    BY <1>3, <2>1, <2>2, GrantsGrow DEF MeetKept, MeetPlaced
<1>4. ASSUME MeetMove(s), ChatKept(s) PROVE ChatPlaced(s)'
  <2>1. pc[s] = "idle" /\ ChatPlaced(s)
    BY <1>4, OneThingAtATime
  <2>2. \A i \in ChatTables : draft'[s][i] = Unwritten
    BY <1>4, <2>1, DraftsApart DEF ChatPlaced
  <2>3. QED
    BY <1>4, <2>1, <2>2 DEF ChatKept, ChatPlaced, OpAt
<1>5. QED
  BY <1>1, <1>2, <1>3, <1>4

LEMMA LeavePlaced ==
    ASSUME TypeInv, NEW s \in Sessions, Leave(s), at'[s] = "idle",
           \A i \in ChatTables : draft'[s][i] = Unwritten
    PROVE  ChatPlaced(s)'
BY DEF TypeInv, ChatTyped, Leave, Goto, ChatPlaced, OpAt

LEMMA BlankDraft ==
    ASSUME TypeInv, NEW s \in Sessions, draft' = [draft EXCEPT ![s] = Blank]
    PROVE  \A i \in Rows : draft'[s][i] = Unwritten
BY BlankEffect DEF TypeInv

LEMMA ChatMovePlaced ==
    ASSUME TypeInv, [NextAll]_allVars, NEW s \in Sessions, ChatMove(s), at'[s] = "idle"
    PROVE  ChatPlaced(s)'
<1>0. /\ ChatPlaced(s)
      /\ Op(s) = "message" /\ pc[s] # "idle" =>
            db[Chat(job[s].chat)] # Absent /\ db'[Chat(job[s].chat)] # Absent
  <2>1. ChatPlaced(s)
    BY DEF TypeInv, PlacedOK
  <2>2. ASSUME Op(s) = "message", pc[s] # "idle"
        PROVE  db[Mine(s)] # Absent /\ db'[Mine(s)] # Absent
    <3>1. Mine(s) \in ChatTables /\ db[Mine(s)] # Absent
      BY <2>1, <2>2, JobFields, RowNames DEF ChatPlaced, Existing, Mine
    <3>2. QED
      BY <3>1, ChatsStay
  <2>3. QED
    BY <2>1, <2>2 DEF Mine
<1> USE DEF TypeInv, ChatTyped, PlacedOK, Goto, Op, Existing
<1>1. ASSUME Fail(s) PROVE ChatPlaced(s)'
  BY <1>1, BlankDraft, LeavePlaced, RowNames DEF Fail, DiscardRows
<1>2. CASE Begin(s)
  <2>1. PICK j \in Job :
          /\ (j.op \in {"start", "message"}) <=> (j.chat # NoChat)
          /\ j.op = "message" => Existing(j.chat)
          /\ job' = [job EXCEPT ![s] = j]
          /\ \E n \in IF j.op = "sections" THEN 1..SectionsMax ELSE {0} :
                left' = [left EXCEPT ![s] = n]
          /\ pc' = [pc EXCEPT ![s] = IF j.op = "start" THEN "start" ELSE "read"]
    BY <1>2 DEF Begin
  <2>2. pc[s] = "idle" /\ UNCHANGED <<db, draft, unit>>
    BY <1>2 DEF Begin, tableVars, unitVars
  <2>3. j.op = "sections" => left'[s] \in 1..SectionsMax
    BY <2>1
  <2>4. QED
    BY <1>0, <2>1, <2>2, <2>3 DEF ChatPlaced, OpAt, Existing
<1>3. CASE StartSession(s) \/ CountUnit(s) \/ Record(s) \/ WriteProfile(s) \/ Close(s)
  BY <1>0, <1>3 DEF StartSession, CountUnit, Record, WriteProfile, Close, Writes, ChatPlaced, OpAt,
                    unitVars, roundVars
<1>4. CASE UpsertTokens(s)
  BY <1>0, <1>4, ChatAssumption DEF UpsertTokens, Writes, AfterTally, ChatPlaced, OpAt, unitVars
<1>5. CASE Note(s)
  BY <1>0, <1>1, <1>5 DEF Note, Writes, ChatPlaced, OpAt, unitVars, roundVars
<1>6. CASE Read(s)
  <2>1. Op(s) = "message" => Seen(s, Mine(s)) \in ChatRow
    BY <1>0, <1>6, SeenType, JobFields, RowNames DEF Read, RowOK, Existing, Mine
  <2>2. Op(s) \in Operations
    BY <1>6, JobFields DEF Read
  <2>3. QED
    BY <1>0, <1>6, <2>1, <2>2 DEF Read, AfterRead, Quiet, ChatPlaced, OpAt, unitVars, tableVars, Operations
<1>7. CASE Scold(s)
  BY <1>0, <1>7, LeavePlaced DEF Scold, ChatPlaced
<1>8. CASE Admit(s)
  BY <1>0, <1>1, <1>8 DEF Admit, AfterAdmit, Quiet, ChatPlaced, OpAt, unitVars, roundVars, tableVars
<1>9. CASE Room(s) \/ Reserve(s)
  BY <1>0, <1>1, <1>9 DEF Room, Reserve, Quiet, ChatPlaced, OpAt, unitVars, roundVars, tableVars
<1>10. CASE Listen(s) \/ Canned(s) \/ Answer(s)
  BY <1>0, <1>10 DEF Listen, Canned, Answer, Quiet, ChatPlaced, OpAt, unitVars, tableVars
<1>11. CASE Merge(s)
  <2>1. Seen(s, Talk(job[s].chat))' = Seen(s, Talk(job[s].chat)) /\ talk'[s] = Seen(s, Talk(job[s].chat))
    BY <1>11 DEF Merge, Quiet, tableVars, Seen
  <2>2. QED
    BY <1>0, <1>11, <2>1 DEF Merge, Quiet, ChatPlaced, OpAt, unitVars, roundVars, tableVars
<1>12. CASE Meter(s)
  BY <1>0, <1>12 DEF Meter, ChatPlaced, OpAt, unitVars, tableVars
<1>13. CASE NotAvailable(s) \/ NoAnswer(s)
  BY <1>1, <1>13 DEF NotAvailable, NoAnswer
<1>14. CASE Commit(s) \/ Abort(s)
  BY <1>14, BlankDraft, LeavePlaced, RowNames DEF Commit, CommitRows, Abort, DiscardRows
<1>15. QED
  BY <1>2, <1>3, <1>4, <1>5, <1>6, <1>7, <1>8, <1>9, <1>10, <1>11, <1>12, <1>13, <1>14
     DEF ChatMove, Proceed

LEMMA DepartPlaced ==
    ASSUME TypeInv, NEW s \in Sessions, Depart(s), pc'[s] = "idle",
           \A i \in MeetingTables : draft'[s][i] = Unwritten
    PROVE  MeetPlaced(s)'
BY DEF TypeInv, MeetTyped, Depart, GotoPlace, MeetPlaced, KindAt, NothingGranted

LEMMA MeetMovePlaced ==
    ASSUME TypeInv, [NextAll]_allVars, NEW s \in Sessions, MeetMove(s), pc'[s] = "idle"
    PROVE  MeetPlaced(s)'
<1> USE DEF TypeInv, MeetTyped, PlacedOK, GotoPlace, Kind
<1>0. MeetPlaced(s) /\ granted \subseteq granted'
  BY GrantsGrow
<1>1. ASSUME Decline(s) \/ Lose(s) PROVE MeetPlaced(s)'
  BY <1>1, BlankDraft, DepartPlaced, RowNames DEF Decline, Lose, DiscardRows
<1>2. CASE Arrive(s)
  <2>1. PICK t \in Task :
          /\ (t.kind = "request") <=> (t.room # NoRoom)
          /\ task' = [task EXCEPT ![s] = t]
          /\ at' = [at EXCEPT ![s] = FirstPlace(t.kind)]
    BY <1>2 DEF Arrive
  <2>2. t.kind \in Tasks
    BY DEF Task
  <2>3. QED
    BY <1>0, <1>2, <2>1, <2>2 DEF Arrive, FirstPlace, Tasks, MeetPlaced, KindAt
<1>3. CASE LockCandidate(s) \/ CheckRequests(s) \/ Book(s)
  BY <1>0, <1>1, <1>3 DEF LockCandidate, CheckRequests, Book, Still, MeetPlaced, KindAt, meetingUnitVars
<1>4. CASE ReserveMeeting(s)
  BY <1>0, <1>1, <1>4 DEF ReserveMeeting, MeetPlaced, KindAt
<1>5. CASE CountMeeting(s) \/ Delete(s)
  BY <1>0, <1>5 DEF CountMeeting, Delete, Writing, Still, MeetPlaced, KindAt, meetingUnitVars
<1>6. CASE Save(s) \/ SaveToken(s) \/ RecordRequest(s)
  <2>1. ASSUME NEW i, NEW row, Writing(s, i, row, "commit"), at[s] \notin {"idle", "exchange"}
        PROVE  MeetPlaced(s)'
    BY <1>0, <2>1 DEF Writing, MeetPlaced, KindAt, meetingUnitVars
  <2>2. ASSUME NEW i, NEW row, Writing(s, i, row, IF Kind(s) = "token" THEN "commit" ELSE "book"),
               at[s] = "update"
        PROVE  MeetPlaced(s)'
    <3>1. Kind(s) \in Tasks /\ KindAt(s)
      BY <1>0, <2>2, TaskFields DEF MeetPlaced
    <3>2. QED
      BY <1>0, <2>1, <2>2, <3>1 DEF Writing, MeetPlaced, KindAt, Tasks, meetingUnitVars
  <2>3. QED
    BY <1>1, <1>6, <2>1, <2>2 DEF Save, SaveToken, RecordRequest
<1>7. CASE Lookup(s)
  <2> DEFINE row == Seen(s, Connection)
  <2>1. row = Absent
        \/ (row \in ConnectionRow /\ {row.access, row.refresh} \subseteq granted \cup {NoGrant})
    BY SeenType, RowNames DEF RowOK
  <2> HIDE DEF row
  <2>2. CASE ~Decline(s)
    <3>1. /\ at[s] = "lookup" /\ seen'[s] = row /\ at'[s] = AfterLookup(s, row)
          /\ token'[s] = (IF row = Absent THEN NoGrant ELSE row.access)
          /\ UNCHANGED <<task, holds, grant>>
          /\ Kind(s) \notin {"callback", "disconnect"} => ~Unusable(row)
      BY <1>7, <2>2 DEF Lookup, Still, row, meetingUnitVars
    <3>2. at'[s] = "refresh" => seen'[s] # Absent /\ seen'[s].refresh \in Grants
      BY <2>1, <3>1 DEF AfterLookup, Unusable, ConnectionRow
    <3>3. at'[s] = "revoke" => seen'[s] # Absent
      BY <3>1 DEF AfterLookup
    <3>4. /\ at'[s] \notin {"idle", "exchange", "lock", "check", "record", "reserve", "count",
                           "delete", "update"}
          /\ KindAt(s)'
      BY <1>0, <3>1, TaskFields DEF AfterLookup, KindAt, MeetPlaced, Tasks
    <3>5. /\ seen'[s] # Absent => {seen'[s].access, seen'[s].refresh} \subseteq granted' \cup {NoGrant}
          /\ {grant'[s].access, grant'[s].refresh, token'[s]} \subseteq granted' \cup {NoGrant}
      BY <1>0, <2>1, <3>1 DEF MeetPlaced
    <3>6. QED
      BY <1>0, <3>1, <3>2, <3>3, <3>4, <3>5 DEF MeetPlaced
  <2>3. QED
    BY <1>1, <2>2
<1>8. CASE Exchange(s)
  <2>1. PICK g \in Grants \ granted, r \in {TRUE, FALSE} :
          /\ granted' = granted \cup {g}
          /\ grant' = [grant EXCEPT ![s] = [access |-> g, refresh |-> IF r THEN g ELSE NoGrant]]
    BY <1>8 DEF Exchange
  <2>2. grant'[s] \in Grant /\ {grant'[s].access, grant'[s].refresh} \subseteq granted' \cup {NoGrant}
    BY <2>1 DEF Grant
  <2>3. at[s] = "exchange" /\ at'[s] = "lookup" /\ UNCHANGED <<task, seen, token>>
    BY <1>8 DEF Exchange
  <2>4. QED
    BY <1>0, <2>2, <2>3 DEF MeetPlaced, KindAt
<1>9. CASE Refresh(s)
  BY <1>0, <1>1, <1>9 DEF Refresh, Still, MeetPlaced, KindAt, meetingUnitVars
<1>10. CASE Revoke(s)
  BY <1>0, <1>10 DEF Revoke, MeetPlaced, KindAt, meetingUnitVars
<1>11. CASE AnswerLost(s) \/ CommitMeeting(s)
  BY <1>11, BlankDraft, DepartPlaced, RowNames DEF AnswerLost, CommitMeeting, CommitRows, DiscardRows
<1>12. CASE Unfit(s) \/ GoogleFails(s) \/ Drop(s)
  BY <1>1, <1>12 DEF Unfit, GoogleFails, Drop
<1>13. QED
  BY <1>2, <1>3, <1>4, <1>5, <1>6, <1>7, <1>8, <1>9, <1>10, <1>11, <1>12 DEF MeetMove, Meet

LEMMA SessionsPlaced ==
    ASSUME TypeInv, [NextAll]_allVars
    PROVE  PlacedOK'
<1>1. SUFFICES ASSUME NEW s \in Sessions PROVE ChatPlaced(s)' /\ MeetPlaced(s)'
  BY DEF PlacedOK
<1>2. CASE ChatMove(s) /\ MeetKept(s)
  <2>1. at'[s] = "idle"
    BY <1>2, OneThingAtATime DEF MeetKept
  <2>2. QED
    BY <1>2, <2>1, ChatMovePlaced, KeptPlaced
<1>3. CASE MeetMove(s) /\ ChatKept(s)
  <2>1. pc'[s] = "idle"
    BY <1>3, OneThingAtATime DEF ChatKept
  <2>2. QED
    BY <1>3, <2>1, MeetMovePlaced, KeptPlaced
<1>4. QED
  BY <1>2, <1>3, KeptOrMoved, KeptPlaced

-----------------------------------------------------------------------------
LEMMA FirstRowsTyped ==
    ASSUME NEW first \in FirstChats, NEW i \in ChatTables
    PROVE  RowOK(i, FirstRow(first, i))
<1> DEFINE row == FirstRow(first, i)
<1>1. CASE i \in DOMAIN first
  <2>1. row = first[i] /\ i \in ChatRows \cup TalkRows
    <3>1. i \in ChatRows \cup TalkRows /\ i \notin CounterRows /\ i # Units
      BY <1>1, ChatAssumption, RowNames, RowsDiffer
    <3>2. QED
      BY <1>1, <3>1 DEF FirstRow
  <2>2. /\ i \in ChatRows => row \in ChatRow
        /\ i \in TalkRows => row \in TalkRow
    BY <1>1, <2>1, ChatAssumption DEF ChatRows, TalkRows
  <2>3. QED
    BY <2>1, <2>2, RowNames, RowsDiffer DEF RowOK
<1>2. CASE i \notin DOMAIN first /\ i = Units
  <2> DEFINE Paid == {c \in Chats : Chat(c) \in DOMAIN first /\ first[Chat(c)].answered}
  <2>1. IsFiniteSet(Paid)
    BY FS_Subset, ChatAssumption
  <2>2. Cardinality(Paid) \in Nat
    BY <2>1, FS_CardinalityType
  <2>3. row = Cardinality(Paid)
    BY <1>2 DEF FirstRow
  <2>4. QED
    BY <1>2, <2>2, <2>3, RowNames, RowsDiffer DEF RowOK
<1>3. CASE i \notin DOMAIN first /\ i # Units
  <2>1. row = IF i \in CounterRows THEN 0 ELSE Absent
    BY <1>3 DEF FirstRow
  <2>2. QED
    BY <2>1, RowNames, RowsDiffer DEF RowOK
<1>4. QED
  BY <1>1, <1>2, <1>3

LEMMA TypeInvInitially ==
    ASSUME Init
    PROVE  TypeInv
<1>1. PICK first \in FirstChats, connection \in Connections :
        db = [i \in Rows |-> IF i \in ChatTables THEN FirstRow(first, i)
                             ELSE FirstMeetingRow(connection, i)]
  BY DEF Init
<1>2. draft = [s \in Sessions |-> Blank] /\ InitChat /\ InitMeetings
  BY DEF Init
<1>3. draft = [s \in Sessions |-> [i \in Rows |-> Unwritten]]
  BY <1>2 DEF Blank
<1>4. db[Connection] = connection /\ connection \in ConnectionRow \cup {Absent}
  <2>1. Connection \in Rows /\ Connection \notin ChatTables /\ Connection # MeetingUnits
    BY RowNames, RowsDiffer
  <2>2. db[Connection] = connection
    BY <1>1, <2>1 DEF FirstMeetingRow
  <2>3. QED
    BY <2>2, ConversationsAssumption
<1>5. /\ granted \subseteq Grants
      /\ connection # Absent => {connection.access, connection.refresh} \subseteq granted \cup {NoGrant}
  BY <1>2, <1>4 DEF InitMeetings, ConnectionRow
<1>6. ASSUME NEW i \in Rows PROVE RowOK(i, db[i])
  <2>1. CASE i \in ChatTables
    <3>1. db[i] = FirstRow(first, i)
      BY <1>1, <2>1
    <3>2. QED
      BY <2>1, <3>1, FirstRowsTyped
  <2>2. CASE i \notin ChatTables
    <3>1. db[i] = FirstMeetingRow(connection, i)
      BY <1>1, <2>2
    <3>2. i \notin ChatRows /\ i \notin TalkRows /\ i \notin CounterRows
      BY <2>2, RowNames
    <3>3. db[i] = IF i = Connection THEN connection ELSE IF i = MeetingUnits THEN 0 ELSE Absent
      BY <3>1, RowsDiffer DEF FirstMeetingRow
    <3>4. CASE i = Connection
      BY <1>4, <1>5, <3>2, <3>4, RowsDiffer DEF RowOK
    <3>5. CASE i # Connection
      BY <3>2, <3>3, <3>5, RowsDiffer DEF RowOK
    <3>6. QED
      BY <3>4, <3>5
  <2>3. QED
    BY <2>1, <2>2
<1>7. TablesOK
  BY <1>1, <1>3, <1>6 DEF TablesOK, DraftRowOK
<1>8. ChatTyped
  BY <1>2, ChatAssumption DEF InitChat, ChatTyped, Steps
<1>9. MeetTyped
  BY <1>2, MeetingsAssumption DEF InitMeetings, MeetTyped, Places
<1>10. Cardinality(Answered) \in Nat
  BY FS_Subset, FS_CardinalityType, ChatAssumption DEF Answered
<1>11. messages \in [Chats -> Nat] /\ refused \in [Chats -> Nat]
  <2>1. \A c \in Chats : Existing(c) => db[Chat(c)] \in ChatRow
    BY <1>6, RowNames DEF RowOK, Existing
  <2>2. QED
    BY <1>2, <2>1 DEF InitChat, ChatRow
<1>12. recent \subseteq Chats
  BY <1>2 DEF InitChat, Answered
<1>13. WorldTyped
  <2>1. 0 \in 0..MaxRequests /\ 0 \in 0..MaxTasks
    BY ChatAssumption, MeetingsAssumption
  <2>2. ChatWorldTyped
    BY <1>2, <1>10, <1>11, <1>12, <2>1 DEF InitChat, ChatWorldTyped
  <2>3. MeetWorldTyped
    <3>1. /\ tasks = 0 /\ held = 0 /\ lost = 0 /\ events = 0 /\ unanswered = 0
          /\ cooling = FALSE /\ expired \in BOOLEAN /\ revoked = {} /\ asked = {}
      BY <1>2 DEF InitMeetings
    <3>2. QED
      BY <1>5, <2>1, <3>1 DEF MeetWorldTyped
  <2>4. QED
    BY <2>2, <2>3 DEF WorldTyped
<1>14. PlacedOK
  <2> SUFFICES ASSUME NEW s \in Sessions PROVE ChatPlaced(s) /\ MeetPlaced(s)
    BY DEF PlacedOK
  <2>1. \A i \in Rows : draft[s][i] = Unwritten
    BY <1>3
  <2>2. pc[s] = "idle" /\ ~unit[s]
    BY <1>2 DEF InitChat
  <2>3. /\ at[s] = "idle" /\ seen[s] = Absent /\ ~holds[s] /\ token[s] = NoGrant
        /\ grant[s] = NothingGranted
    BY <1>2 DEF InitMeetings
  <2>4. ChatPlaced(s)
    BY <2>1, <2>2, RowNames DEF ChatPlaced, OpAt
  <2>5. MeetPlaced(s)
    BY <2>1, <2>3, RowNames DEF MeetPlaced, KindAt, NothingGranted
  <2>6. QED
    BY <2>4, <2>5
<1>15. QED
  BY <1>7, <1>8, <1>9, <1>13, <1>14 DEF TypeInv

LEMMA TypeInvAlways == Spec => []TypeInv
<1>1. Init => TypeInv
  BY TypeInvInitially
<1>2. TypeInv /\ [NextAll]_allVars => TypeInv'
  BY TablesTyped, VariablesTyped, SessionsPlaced DEF TypeInv
<1>3. QED
  BY <1>1, <1>2, PTL DEF Spec

\* Every table, draft and variable holds what the services store in it.
THEOREM TypeCorrect == Spec => []ConversationsTypeOK
<1>1. TypeInv => ConversationsTypeOK
  <2> SUFFICES ASSUME TypeInv PROVE ConversationsTypeOK
    OBVIOUS
  <2>1. \A i \in Rows : RowOK(i, db[i])
    BY DEF TypeInv, TablesOK
  <2>2. \A s \in Sessions, i \in Rows : DraftRowOK(i, draft[s][i])
    BY DEF TypeInv, TablesOK
  <2>3. TypeOK
    <3>1. \A c \in Chats : /\ Chat(c) \in Rows /\ Chat(c) \in ChatRows /\ Chat(c) # Connection
                           /\ Talk(c) \in Rows /\ Talk(c) \in TalkRows /\ Talk(c) # Connection
      BY RowNames
    <3>2. \A i \in CounterRows : i \in Rows /\ i # Connection
      BY RowNames
    <3>3. \A c \in Chats : /\ db[Chat(c)] \in ChatRow \cup {Absent}
                           /\ db[Talk(c)] \in TalkRow \cup {Absent}
      BY <2>1, <3>1 DEF RowOK
    <3>4. \A i \in CounterRows : db[i] \in Nat
      BY <2>1, <3>2 DEF RowOK
    <3>5. \A s \in Sessions, c \in Chats :
             /\ draft[s][Chat(c)] \in ChatRow \cup {Unwritten}
             /\ draft[s][Talk(c)] \in TalkRow \cup {Unwritten}
      BY <2>2, <3>1 DEF DraftRowOK, RowOK
    <3>6. \A s \in Sessions, i \in CounterRows : draft[s][i] \in Nat \cup {Unwritten}
      BY <2>2, <3>2 DEF DraftRowOK, RowOK
    <3>7. QED
      BY <3>3, <3>4, <3>5, <3>6 DEF TypeInv, ChatTyped, WorldTyped, ChatWorldTyped, TypeOK
  <2>4. MeetingsTypeOK
    <3>1. \A r \in Rooms : /\ Request(r) \in Rows /\ Request(r) \in RequestRows
                           /\ Request(r) # Connection
      BY RowNames, RowsDiffer
    <3>2. Connection \in Rows /\ MeetingUnits \in Rows /\ MeetingUnits # Connection
      BY RowNames, RowsDiffer
    <3>3. /\ db[Connection] \in ConnectionRow \cup {Absent}
          /\ \A r \in Rooms : db[Request(r)] \in {Requested, Absent}
          /\ db[MeetingUnits] \in Nat
      BY <2>1, <3>1, <3>2 DEF RowOK
    <3>4. \A s \in Sessions :
             /\ draft[s][Connection] \in ConnectionRow \cup {Absent, Unwritten}
             /\ \A r \in Rooms : draft[s][Request(r)] \in {Requested, Unwritten}
             /\ draft[s][MeetingUnits] \in Nat \cup {Unwritten}
      BY <2>2, <3>1, <3>2 DEF DraftRowOK, RowOK
    <3>5. QED
      BY <3>3, <3>4 DEF TypeInv, MeetTyped, WorldTyped, MeetWorldTyped, MeetingsTypeOK
  <2>5. QED
    BY <2>3, <2>4 DEF ConversationsTypeOK
<1>2. QED
  BY <1>1, TypeInvAlways, PTL

-----------------------------------------------------------------------------
(***************************************************************************)
(* Locks.  A row is written by one transaction at a time, and each         *)
(* transaction writes its rows in the order of its steps: what a session   *)
(* has locked says how far it has come, but for the requests that generate *)
(* several sections, which start over.                                     *)
(***************************************************************************)
Exclusive ==
    \A i \in Rows, s, o \in Sessions :
        draft[s][i] # Unwritten /\ draft[o][i] # Unwritten => s = o

Replying == {"answer", "record", "meter", "tokens", "upsert", "close", "commit"}

ChatLocks(s) ==
    /\ \A c \in Chats : draft[s][Chat(c)] # Unwritten =>
          pc[s] = "commit" /\ Op(s) \in {"start", "message"} /\ job[s].chat = c
    /\ \A c \in Chats : draft[s][Talk(c)] # Unwritten =>
          Op(s) = "message" /\ job[s].chat = c /\ pc[s] \in Replying
    /\ draft[s][Units] # Unwritten =>
          Op(s) = "message" /\ pc[s] \in Replying \cup {"listen", "merge", "note"}
    /\ \A m \in Models \cup {Default} : draft[s][Usage(m)] # Unwritten =>
          Op(s) = "sections" \/ pc[s] \in {"meter", "tokens", "upsert", "close", "commit"}
    /\ draft[s][Profile] # Unwritten =>
          \/ pc[s] \in {"upsert", "close", "commit"}
          \/ Op(s) = "sections"
    /\ pc[s] = "upsert" => draft[s][Profile] # Unwritten
    /\ draft[s][Tokens] # Unwritten =>
          /\ Op(s) = "sections" \/ pc[s] \in {"close", "commit"}
          /\ draft[s][Profile] # Unwritten
    /\ (pc[s] \in {"meter", "tokens", "upsert"} \/ draft[s][Profile] # Unwritten)
          /\ Op(s) = "sections" =>
          \E m \in Models \cup {Default} : draft[s][Usage(m)] # Unwritten

MeetLocks(s) ==
    /\ \A r \in Rooms : draft[s][Request(r)] # Unwritten =>
          at[s] = "commit" /\ Kind(s) = "request" /\ task[s].room = r
    /\ draft[s][Connection] # Unwritten => at[s] \in {"book", "record", "commit"}
    /\ draft[s][MeetingUnits] # Unwritten =>
          /\ at[s] \notin {"idle", "exchange", "lock", "check", "reserve", "count"}
          /\ Kind(s) \in {"request", "schedule"}

\* Past the lock of the candidate, a recruiter's request holds it.
OwnerOK(s) ==
    /\ at[s] \notin {"idle", "lock"} /\ Kind(s) = "request" <=> owner = s

LocksOK == \A s \in Sessions : ChatLocks(s) /\ MeetLocks(s) /\ OwnerOK(s)

\* A committed row changes when a session that wrote it commits, or by a refusal.
LEMMA DbSteps ==
    ASSUME TypeInv, [NextAll]_allVars, NEW i \in Rows, db'[i] # db[i]
    PROVE  \E s \in Sessions :
              \/ /\ Commit(s) \/ CommitMeeting(s)
                 /\ draft[s][i] # Unwritten /\ db'[i] = draft[s][i]
              \/ Scold(s) /\ i = Mine(s)
<1> DEFINE P == \E s \in Sessions :
              \/ /\ Commit(s) \/ CommitMeeting(s)
                 /\ draft[s][i] # Unwritten /\ db'[i] = draft[s][i]
              \/ Scold(s) /\ i = Mine(s)
<1>1. ASSUME UNCHANGED db PROVE P
  BY <1>1
<1>2. ASSUME NEW s \in Sessions, Commit(s) \/ CommitMeeting(s) PROVE P
  <2>1. db'[i] = Seen(s, i)
    BY <1>2 DEF Commit, CommitMeeting, CommitRows
  <2>2. QED
    BY <1>2, <2>1 DEF Seen
<1>3. ASSUME NEW s \in Sessions, Scold(s) PROVE P
  BY <1>3, ScoldEffect
<1> HIDE DEF P
<1>4. P
  BY <1>1, <1>2, <1>3, TableSteps DEF tableVars, DiscardRows
<1>5. QED
  BY <1>4 DEF P

LEMMA ExclusiveKept ==
    ASSUME TypeInv, Exclusive, [NextAll]_allVars
    PROVE  Exclusive'
<1> USE DEF TypeInv
<1>1. ASSUME UNCHANGED draft PROVE Exclusive'
  BY <1>1 DEF Exclusive
<1>2. ASSUME NEW s \in Sessions, NEW i, NEW row, Write(s, i, row),
             ChatWrite(s, i, row) \/ MeetWrite(s, i, row)
      PROVE  Exclusive'
  <2>1. i \in Rows
    BY <1>2, ChatWritten, MeetWritten
  <2>2. /\ \A o \in Sessions, j \in Rows :
              draft'[o][j] = IF o = s /\ j = i THEN row ELSE draft[o][j]
        /\ \A o \in Sessions : o # s => draft[o][i] = Unwritten
    BY <1>2, <2>1 DEF Write, Writable, TablesOK
  <2>3. QED
    BY <2>2 DEF Exclusive
<1>3. ASSUME NEW s \in Sessions, draft' = [draft EXCEPT ![s] = Blank] PROVE Exclusive'
  <2>1. \A o \in Sessions, j \in Rows : draft'[o][j] = IF o = s THEN Unwritten ELSE draft[o][j]
    BY <1>3, BlankEffect
  <2>2. QED
    BY <2>1 DEF Exclusive
<1>4. QED
  BY <1>1, <1>2, <1>3, TableSteps DEF tableVars, DiscardRows, Commit, CommitMeeting, CommitRows, Scold

LEMMA RowsApart ==
    ASSUME NEW c, NEW e, NEW m, NEW n
    PROVE  /\ Chat(c) # Talk(e) /\ Chat(c) # Usage(m) /\ Chat(c) \notin {Profile, Tokens, Units}
           /\ Talk(c) # Usage(m) /\ Talk(c) \notin {Profile, Tokens, Units}
           /\ Usage(m) \notin {Profile, Tokens, Units}
           /\ Profile # Tokens /\ Profile # Units /\ Tokens # Units
           /\ Chat(c) = Chat(e) => c = e
           /\ Talk(c) = Talk(e) => c = e
           /\ Usage(m) = Usage(n) => m = n
BY DEF Chat, Talk, Usage, Profile, Tokens, Units

LEMMA MeetingRowsApart ==
    /\ \A r : Request(r) # Connection /\ Request(r) # MeetingUnits
    /\ Connection # MeetingUnits
    /\ \A q, r : Request(q) = Request(r) => q = r
BY DEF Request, Connection, MeetingUnits

LEMMA RowsThereAre ==
    /\ \A c \in Chats : Chat(c) \in Rows /\ Talk(c) \in Rows
    /\ \A m \in Models \cup {Default} : Usage(m) \in Rows
    /\ \A r \in Rooms : Request(r) \in Rows
    /\ {Profile, Tokens, Units, Connection, MeetingUnits} \subseteq Rows
BY RowNames

LEMMA OwnWrite ==
    ASSUME TypeInv, NEW s \in Sessions, NEW i \in Rows, NEW row, Write(s, i, row)
    PROVE  /\ draft'[s][i] = row
           /\ \A k \in Rows \ {i} : draft'[s][k] = draft[s][k]
BY DEF TypeInv, TablesOK, Write

LEMMA ChatLocksKept ==
    ASSUME TypeInv, LocksOK, NEW s \in Sessions, ChatMove(s)
    PROVE  ChatLocks(s)'
<1> USE DEF Op, Goto
<1>0. /\ ChatLocks(s) /\ ChatPlaced(s)
      /\ pc \in [Sessions -> Steps] /\ job = [o \in Sessions |-> job[o]]
  BY DEF TypeInv, ChatTyped, PlacedOK, LocksOK
<1>1. ASSUME \A i \in Rows : draft'[s][i] = Unwritten, pc'[s] = "idle" PROVE ChatLocks(s)'
  BY <1>1, RowsThereAre DEF ChatLocks
<1>2. ASSUME draft' = [draft EXCEPT ![s] = Blank], Leave(s) PROVE ChatLocks(s)'
  BY <1>0, <1>1, <1>2, BlankDraft DEF Leave
<1>3. ASSUME Fail(s) PROVE ChatLocks(s)'
  BY <1>2, <1>3 DEF Fail, DiscardRows
<1>4. CASE Begin(s)
  <2>1. \A i \in ChatTables : draft'[s][i] = Unwritten
    BY <1>0, <1>4 DEF Begin, tableVars, ChatPlaced
  <2>2. pc'[s] \in {"start", "read"}
    BY <1>0, <1>4 DEF Begin
  <2>3. QED
    BY <2>1, <2>2, RowNames DEF ChatLocks
<1>5. CASE StartSession(s)
  <2>1. Write(s, Mine(s), [answered |-> FALSE, rapid |-> 0, flagged |-> FALSE])
        /\ pc[s] = "start" /\ pc'[s] = "commit" /\ job'[s] = job[s]
    BY <1>0, <1>5 DEF StartSession, Writes
  <2>2. job[s].chat \in Chats /\ Op(s) = "start" /\ \A i \in ChatTables : draft[s][i] = Unwritten
    BY <1>0, <2>1, JobFields DEF ChatPlaced, OpAt
  <2>3. \A k \in Rows \ {Chat(job[s].chat)} : draft'[s][k] = draft[s][k]
    BY <2>1, <2>2, OwnWrite, RowsThereAre DEF Mine
  <2>4. QED
    BY <2>1, <2>2, <2>3, RowNames, RowsThereAre, RowsApart DEF ChatLocks
<1>6. CASE CountUnit(s)
  <2>1. Write(s, Units, Seen(s, Units) + 1)
        /\ pc[s] = "count" /\ pc'[s] = "listen" /\ job'[s] = job[s]
    BY <1>0, <1>6 DEF CountUnit, Writes
  <2>2. \A k \in Rows \ {Units} : draft'[s][k] = draft[s][k]
    BY <2>1, OwnWrite, RowsThereAre
  <2>3. QED
    BY <1>0, <2>1, <2>2, RowsThereAre, RowsApart DEF ChatLocks, ChatPlaced, OpAt, Replying
<1>7. CASE Note(s) /\ ~Fail(s)
  <2>1. pc[s] = "note" /\ pc'[s] = "answer" /\ job'[s] = job[s]
        /\ \E row : Write(s, Talk(job[s].chat), row)
    BY <1>0, <1>7 DEF Note, Writes
  <2>2. job[s].chat \in Chats /\ Op(s) = "message"
    BY <1>0, <2>1, JobFields DEF ChatPlaced, OpAt
  <2>3. \A k \in Rows \ {Talk(job[s].chat)} : draft'[s][k] = draft[s][k]
    BY <2>1, <2>2, OwnWrite, RowsThereAre
  <2>4. QED
    BY <1>0, <2>1, <2>2, <2>3, RowsThereAre, RowsApart DEF ChatLocks, Replying
<1>8. CASE Record(s)
  <2> DEFINE m == model[s]
  <2>1. Write(s, Usage(m), Seen(s, Usage(m)) + 1) /\ m \in Models \cup {Default}
        /\ pc[s] = "record" /\ pc'[s] = "meter" /\ job'[s] = job[s]
    BY <1>0, <1>8 DEF Record, Writes, TypeInv, ChatTyped
  <2> HIDE DEF m
  <2>2. /\ \A k \in Rows \ {Usage(m)} : draft'[s][k] = draft[s][k]
        /\ draft'[s][Usage(m)] = Seen(s, Usage(m)) + 1
    BY <2>1, OwnWrite, RowsThereAre
  <2>3. draft'[s][Usage(m)] # Unwritten
    <3>1. Usage(m) \in CounterRows /\ Usage(m) \in Rows
      BY <2>1, RowNames
    <3>2. Seen(s, Usage(m)) \in Nat
      BY <3>1, SeenType DEF TypeInv, RowOK
    <3>3. Seen(s, Usage(m)) + 1 \in Nat
      BY <3>2
    <3>4. QED
      BY <2>2, <3>3, RowsAreReal
  <2>4. QED
    BY <1>0, <2>1, <2>2, <2>3, RowsThereAre, RowsApart DEF ChatLocks, Replying
<1>9. CASE WriteProfile(s)
  <2>1. Write(s, Profile, TokensOfProfile(s))
        /\ pc[s] = "tokens" /\ pc'[s] = "upsert" /\ job'[s] = job[s]
    BY <1>0, <1>9 DEF WriteProfile, Writes
  <2>2. /\ \A k \in Rows \ {Profile} : draft'[s][k] = draft[s][k]
        /\ draft'[s][Profile] = TokensOfProfile(s)
    BY <2>1, OwnWrite, RowsThereAre
  <2>3. draft'[s][Profile] # Unwritten
    <3>1. TokensOfProfile(s) \in Nat
      BY DEF TypeInv, ChatTyped, TokensOfProfile
    <3>2. QED
      BY <2>2, <3>1, RowsAreReal
  <2>4. QED
    BY <1>0, <2>1, <2>2, <2>3, RowsThereAre, RowsApart DEF ChatLocks, Replying
<1>10. CASE UpsertTokens(s)
  <2>1. Write(s, Tokens, Seen(s, Tokens) + cost[s])
        /\ pc[s] = "upsert" /\ pc'[s] = AfterTally(s) /\ job'[s] = job[s]
    BY <1>0, <1>10 DEF UpsertTokens, Writes
  <2>2. \A k \in Rows \ {Tokens} : draft'[s][k] = draft[s][k]
    BY <2>1, OwnWrite, RowsThereAre
  <2>3. draft[s][Profile] # Unwritten
    BY <1>0, <2>1 DEF ChatLocks
  <2>4. AfterTally(s) \in {"close", "admit", "commit"} /\ (Op(s) # "sections" => AfterTally(s) # "admit")
    BY DEF AfterTally
  <2>5. QED
    BY <1>0, <2>1, <2>2, <2>3, <2>4, RowsThereAre, RowsApart DEF ChatLocks, Replying
<1>11. CASE Close(s)
  <2>1. pc[s] = "close" /\ pc'[s] = "commit" /\ job'[s] = job[s]
        /\ Write(s, Mine(s), Replied(read[s], Seen(s, Mine(s))))
    BY <1>0, <1>11 DEF Close, Writes
  <2>2. job[s].chat \in Chats /\ Op(s) = "message"
    BY <1>0, <2>1, JobFields DEF ChatPlaced, OpAt
  <2>3. \A k \in Rows \ {Chat(job[s].chat)} : draft'[s][k] = draft[s][k]
    BY <2>1, <2>2, OwnWrite, RowsThereAre DEF Mine
  <2>4. QED
    BY <1>0, <2>1, <2>2, <2>3, RowsThereAre, RowsApart DEF ChatLocks, Replying
<1>12. ASSUME UNCHANGED <<draft, job>>, pc[s] # "idle",
              \/ pc[s] = "read" /\ pc'[s] \in {"admit", "meter", "scold"}
                 /\ (Op(s) = "sections" => pc'[s] = "admit")
              \/ pc[s] = "admit" /\ pc'[s] \in {"room", "reserve", "answer"}
              \/ pc[s] = "reserve" /\ pc'[s] = "count"
              \/ pc[s] = "room" /\ pc'[s] = "listen"
              \/ pc[s] = "listen" /\ pc'[s] \in {"merge", "answer"}
              \/ pc[s] = "merge" /\ pc'[s] = "note"
              \/ pc[s] = "answer" /\ pc'[s] \in {"close", "meter"} /\ Op(s) = "message"
              \/ pc[s] = "answer" /\ pc'[s] = "record"
              \/ pc[s] = "meter" /\ pc'[s] = "tokens"
       PROVE  ChatLocks(s)'
  BY <1>0, <1>12, RowNames DEF ChatLocks, ChatPlaced, OpAt, Replying
<1>13. CASE Read(s)
  BY <1>0, <1>12, <1>13, JobFields DEF Read, AfterRead, Quiet, tableVars
<1>14. CASE Admit(s) \/ Reserve(s) \/ Room(s)
  BY <1>0, <1>3, <1>12, <1>14 DEF Admit, AfterAdmit, Reserve, Room, Quiet, tableVars
<1>15. CASE Listen(s) \/ Merge(s) \/ Canned(s) \/ Answer(s)
  BY <1>0, <1>12, <1>15 DEF Listen, Merge, Canned, Answer, Quiet, tableVars
<1>16. CASE Meter(s)
  BY <1>0, <1>12, <1>16 DEF Meter, tableVars
<1>17. CASE NotAvailable(s) \/ NoAnswer(s)
  BY <1>3, <1>17 DEF NotAvailable, NoAnswer
<1>18. CASE Commit(s) \/ Abort(s)
  BY <1>2, <1>18 DEF Commit, CommitRows, Abort, DiscardRows
<1>19. CASE Scold(s)
  <2>1. pc'[s] = "idle" /\ \A i \in ChatTables : draft'[s][i] = Unwritten
    BY <1>0, <1>19 DEF Scold, Leave, ChatPlaced
  <2>2. QED
    BY <2>1, RowNames DEF ChatLocks
<1>20. QED
  BY <1>3, <1>4, <1>5, <1>6, <1>7, <1>8, <1>9, <1>10, <1>11, <1>13, <1>14, <1>15, <1>16, <1>17, <1>18,
     <1>19 DEF ChatMove, Proceed

LEMMA MeetLocksKept ==
    ASSUME TypeInv, LocksOK, NEW s \in Sessions, MeetMove(s)
    PROVE  MeetLocks(s)'
<1> USE DEF Kind, GotoPlace
<1>0. /\ MeetLocks(s) /\ MeetPlaced(s)
      /\ at \in [Sessions -> Places] /\ task = [o \in Sessions |-> task[o]]
  BY DEF TypeInv, MeetTyped, PlacedOK, LocksOK
<1>1. ASSUME draft' = [draft EXCEPT ![s] = Blank] PROVE MeetLocks(s)'
  BY <1>1, BlankDraft, RowsThereAre DEF MeetLocks
<1>2. ASSUME Decline(s) \/ Lose(s) PROVE MeetLocks(s)'
  BY <1>1, <1>2 DEF Decline, Lose, DiscardRows
<1>3. CASE Arrive(s)
  <2>1. \A i \in MeetingTables : draft'[s][i] = Unwritten
    BY <1>0, <1>3 DEF Arrive, tableVars, MeetPlaced
  <2>2. QED
    BY <2>1, RowNames DEF MeetLocks
<1>4. CASE CountMeeting(s)
  <2>1. Write(s, MeetingUnits, Seen(s, MeetingUnits) + 1)
        /\ at[s] = "count" /\ at'[s] = "lookup" /\ task'[s] = task[s]
    BY <1>0, <1>4 DEF CountMeeting, Writing
  <2>2. \A k \in Rows \ {MeetingUnits} : draft'[s][k] = draft[s][k]
    BY <2>1, OwnWrite, RowsThereAre
  <2>3. QED
    BY <1>0, <2>1, <2>2, RowsThereAre, MeetingRowsApart DEF MeetLocks, MeetPlaced, KindAt
<1>5. ASSUME NEW row, NEW next \in {"commit", "book"}, Writing(s, Connection, row, next),
             at[s] \in {"save", "update", "delete"}
      PROVE  MeetLocks(s)'
  <2>1. Write(s, Connection, row) /\ at'[s] = next /\ task'[s] = task[s]
    BY <1>0, <1>5 DEF Writing
  <2>2. \A k \in Rows \ {Connection} : draft'[s][k] = draft[s][k]
    BY <2>1, OwnWrite, RowsThereAre
  <2>3. QED
    BY <1>0, <1>5, <2>1, <2>2, RowsThereAre, MeetingRowsApart DEF MeetLocks
<1>6. CASE Save(s) \/ SaveToken(s) \/ (Delete(s) /\ SameRow(s))
  BY <1>2, <1>5, <1>6 DEF Save, SaveToken, Delete
<1>7. CASE RecordRequest(s) /\ ~Lose(s)
  <2>1. Write(s, Request(task[s].room), Requested)
        /\ at[s] = "record" /\ at'[s] = "commit" /\ task'[s] = task[s]
    BY <1>0, <1>7 DEF RecordRequest, Writing
  <2>2. task[s].room \in Rooms /\ Kind(s) = "request"
    BY <1>0, <2>1, TaskFields DEF MeetPlaced, KindAt
  <2>3. \A k \in Rows \ {Request(task[s].room)} : draft'[s][k] = draft[s][k]
    BY <2>1, <2>2, OwnWrite, RowsThereAre
  <2>4. QED
    BY <1>0, <2>1, <2>2, <2>3, RowsThereAre, MeetingRowsApart DEF MeetLocks
<1>8. ASSUME UNCHANGED <<draft, task>>,
             \/ at[s] = "lock" /\ at'[s] = "check"
             \/ at[s] = "check" /\ at'[s] = "reserve"
             \/ at[s] = "reserve" /\ at'[s] = "count"
             \/ at[s] = "exchange" /\ at'[s] = "lookup"
             \/ at[s] = "lookup" /\ at'[s] \in {"save", "revoke", "refresh", "book", "commit"}
             \/ at[s] = "refresh" /\ at'[s] = "update"
             \/ at[s] = "revoke" /\ at'[s] = "delete"
             \/ at[s] = "delete" /\ at'[s] = "commit"
             \/ at[s] = "book" /\ at'[s] \in {"record", "commit"}
      PROVE  MeetLocks(s)'
  BY <1>0, <1>8 DEF MeetLocks
<1>9. CASE LockCandidate(s) \/ CheckRequests(s) \/ ReserveMeeting(s) \/ Refresh(s) \/ Book(s)
  BY <1>0, <1>2, <1>8, <1>9 DEF LockCandidate, CheckRequests, ReserveMeeting, Refresh, Book, Still,
                                tableVars
<1>10. CASE Lookup(s) \/ Exchange(s) \/ Revoke(s) \/ (Delete(s) /\ ~SameRow(s))
  BY <1>0, <1>2, <1>8, <1>10 DEF Lookup, AfterLookup, Exchange, Revoke, Delete, Still, tableVars
<1>11. CASE AnswerLost(s) \/ CommitMeeting(s)
  BY <1>1, <1>11 DEF AnswerLost, CommitMeeting, CommitRows, DiscardRows
<1>12. CASE Unfit(s) \/ GoogleFails(s) \/ Drop(s)
  BY <1>2, <1>12 DEF Unfit, GoogleFails, Drop
<1>13. QED
  BY <1>2, <1>3, <1>4, <1>6, <1>7, <1>9, <1>10, <1>11, <1>12 DEF MeetMove, Meet

\* The advisory lock is taken when it is free and given back at the end of the transaction.
LEMMA OwnerMoves ==
    ASSUME TypeInv, NEW s \in Sessions, MeetMove(s)
    PROVE  \/ LockCandidate(s)
           \/ Depart(s)
           \/ /\ UNCHANGED owner
              /\ at'[s] \notin {"idle", "lock"} /\ at[s] \notin {"idle", "lock"} /\ task'[s] = task[s]
           \/ /\ Arrive(s) /\ UNCHANGED owner
<1> USE DEF GotoPlace
<1>0. at \in [Sessions -> Places]
  BY DEF TypeInv, MeetTyped
<1>1. CASE Arrive(s)
  BY <1>1 DEF Arrive
<1>2. CASE Unfit(s) \/ GoogleFails(s) \/ Drop(s) \/ AnswerLost(s) \/ CommitMeeting(s)
  BY <1>2 DEF Unfit, GoogleFails, Drop, AnswerLost, CommitMeeting, Decline, Lose
<1>3. CASE CheckRequests(s) \/ Lookup(s) \/ Refresh(s)
  BY <1>0, <1>3 DEF CheckRequests, Lookup, AfterLookup, Refresh, Decline, Still
<1>4. CASE ReserveMeeting(s) \/ Book(s) \/ Exchange(s) \/ Revoke(s)
  BY <1>0, <1>4 DEF ReserveMeeting, Book, Exchange, Revoke, Decline
<1>5. CASE CountMeeting(s) \/ Save(s) \/ SaveToken(s) \/ Delete(s) \/ RecordRequest(s)
  BY <1>0, <1>5 DEF CountMeeting, Save, SaveToken, Delete, RecordRequest, Writing, Still, Decline, Lose
<1>6. QED
  BY <1>1, <1>2, <1>3, <1>4, <1>5 DEF MeetMove, Meet

LEMMA OwnerKept ==
    ASSUME TypeInv, LocksOK, [NextAll]_allVars, NEW o \in Sessions
    PROVE  OwnerOK(o)'
<1> DEFINE P == OwnerOK(o)'
<1> USE DEF Kind
<1>0. /\ \A s \in Sessions : OwnerOK(s)
      /\ owner \in Sessions \cup {Free}
      /\ at \in [Sessions -> Places] /\ task = [s \in Sessions |-> task[s]]
  BY DEF LocksOK, TypeInv, MeetTyped
<1>1. ASSUME UNCHANGED <<at, task, owner>> PROVE P
  BY <1>0, <1>1 DEF OwnerOK
<1>2. ASSUME NEW s \in Sessions, MeetMove(s) PROVE P
  <2>1. o # s => at'[o] = at[o] /\ task'[o] = task[o]
    BY <1>2, OthersKeptInMeetings DEF MeetKept
  <2>2. CASE LockCandidate(s)
    <3>1. Kind(s) = "request" /\ at[s] = "lock" /\ at'[s] = "check" /\ task'[s] = task[s]
          /\ owner = Free /\ owner' = s
      BY <1>0, <2>2 DEF LockCandidate, GotoPlace, TypeInv, PlacedOK, MeetPlaced, KindAt
    <3>2. Free \notin Sessions
      BY MeetingsAssumption
    <3>3. QED
      BY <1>0, <2>1, <3>1, <3>2 DEF OwnerOK
  <2>3. CASE Depart(s)
    <3>1. at'[s] = "idle" /\ owner' = IF owner = s THEN Free ELSE owner
      BY <1>0, <2>3 DEF Depart, GotoPlace, Unlock
    <3>2. Free \notin Sessions
      BY MeetingsAssumption
    <3>3. QED
      BY <1>0, <2>1, <3>1, <3>2 DEF OwnerOK
  <2>4. CASE /\ UNCHANGED owner
             /\ at'[s] \notin {"idle", "lock"} /\ at[s] \notin {"idle", "lock"} /\ task'[s] = task[s]
    BY <1>0, <2>1, <2>4 DEF OwnerOK
  <2>5. CASE Arrive(s) /\ UNCHANGED owner
    <3>1. PICK t \in Task : task'[s] = t /\ at'[s] = FirstPlace(t.kind)
      BY <1>0, <2>5 DEF Arrive, GotoPlace
    <3>2. at[s] = "idle" /\ owner # s
      BY <1>0, <2>5 DEF Arrive, OwnerOK
    <3>3. t.kind = "request" => at'[s] = "lock"
      BY <3>1 DEF FirstPlace
    <3>4. QED
      BY <1>0, <2>1, <2>5, <3>1, <3>2, <3>3 DEF OwnerOK
  <2>5a. QED
    BY <1>2, <2>2, <2>3, <2>4, <2>5, OwnerMoves
<1>3. ASSUME UNCHANGED meetingVars PROVE P
  BY <1>1, <1>3 DEF meetingVars, taskVars
<1>4. ASSUME Withdraw \/ Expire \/ CoolDown PROVE P
  BY <1>1, <1>4 DEF Withdraw, Expire, CoolDown, taskVars
<1> HIDE DEF P
<1>5. P
  BY NextCases, <1>2, <1>3, <1>4 DEF allVars
<1>6. QED
  BY <1>5 DEF P

LEMMA LocksKept ==
    ASSUME TypeInv, LocksOK, [NextAll]_allVars
    PROVE  LocksOK'
<1>1. SUFFICES ASSUME NEW s \in Sessions PROVE ChatLocks(s)' /\ MeetLocks(s)' /\ OwnerOK(s)'
  BY DEF LocksOK
<1>2. OwnerOK(s)'
  BY OwnerKept
<1>3. ChatPlaced(s)' /\ MeetPlaced(s)'
  BY SessionsPlaced DEF PlacedOK
<1>4. CASE Kept(s)
  <2>1. ChatLocks(s) /\ MeetLocks(s)
    BY DEF LocksOK
  <2>2. pc'[s] = pc[s] /\ job'[s] = job[s] /\ at'[s] = at[s] /\ task'[s] = task[s]
        /\ draft'[s] = draft[s]
    BY <1>4 DEF Kept, ChatKept, MeetKept
  <2>3. ChatLocks(s)'
    BY <2>1, <2>2 DEF ChatLocks, Op
  <2>4. MeetLocks(s)'
    BY <2>1, <2>2 DEF MeetLocks, Kind
  <2>5. QED
    BY <1>2, <2>3, <2>4
<1>5. CASE ChatMove(s) /\ MeetKept(s)
  <2>1. at'[s] = "idle"
    BY <1>5, OneThingAtATime DEF MeetKept
  <2>2. \A i \in MeetingTables : draft'[s][i] = Unwritten
    BY <1>3, <2>1 DEF MeetPlaced
  <2>3. MeetLocks(s)'
    BY <2>2, RowNames DEF MeetLocks
  <2>4. QED
    BY <1>2, <1>5, <2>3, ChatLocksKept
<1>6. CASE MeetMove(s) /\ ChatKept(s)
  <2>1. pc'[s] = "idle"
    BY <1>6, OneThingAtATime DEF ChatKept
  <2>2. \A i \in ChatTables : draft'[s][i] = Unwritten
    BY <1>3, <2>1 DEF ChatPlaced
  <2>3. ChatLocks(s)'
    BY <2>1, <2>2, RowNames DEF ChatLocks
  <2>4. QED
    BY <1>2, <1>6, <2>3, MeetLocksKept
<1>7. QED
  BY <1>4, <1>5, <1>6, KeptOrMoved

LocksInv == TypeInv /\ Exclusive /\ LocksOK

LEMMA LocksAlways == Spec => []LocksInv
<1>1. ASSUME Init PROVE Exclusive /\ LocksOK
  <2>1. /\ \A s \in Sessions, i \in Rows : draft[s][i] = Unwritten
        /\ \A s \in Sessions : pc[s] = "idle" /\ at[s] = "idle"
        /\ owner \notin Sessions
    BY <1>1, MeetingsAssumption DEF Init, Blank, InitChat, InitMeetings
  <2>2. Exclusive
    BY <2>1 DEF Exclusive
  <2>3. LocksOK
    BY <2>1, RowsThereAre DEF LocksOK, ChatLocks, MeetLocks, OwnerOK
  <2>4. QED
    BY <2>2, <2>3
<1>2. TypeInv /\ Exclusive /\ LocksOK /\ [NextAll]_allVars => Exclusive' /\ LocksOK'
  BY ExclusiveKept, LocksKept
<1>3. QED
  BY <1>1, <1>2, TypeInvAlways, PTL DEF Spec, LocksInv

-----------------------------------------------------------------------------
(* Deadlock *)

\* What s waits for, with the session o that has it; it is not a row of its own.
Wants(s, o, i) == draft[o][i] # Unwritten /\ draft[s][i] = Unwritten

LEMMA WaitCases ==
    ASSUME LocksInv, NEW s \in Sessions, NEW o \in Sessions, WaitsFor(s, o)
    PROVE  \/ pc[s] \in {"scold", "close"} /\ job[s].chat \in Chats /\ Wants(s, o, Chat(job[s].chat))
           \/ pc[s] = "count" /\ Wants(s, o, Units)
           \/ pc[s] = "note" /\ job[s].chat \in Chats /\ Wants(s, o, Talk(job[s].chat))
           \/ pc[s] = "record" /\ Wants(s, o, Usage(model[s]))
           \/ pc[s] = "tokens" /\ Wants(s, o, Profile)
           \/ pc[s] = "upsert" /\ Wants(s, o, Tokens)
           \/ at[s] = "lock" /\ owner = o
           \/ at[s] = "count" /\ Wants(s, o, MeetingUnits)
           \/ at[s] \in {"save", "update", "delete"} /\ Wants(s, o, Connection)
           \/ at[s] = "record" /\ task[s].room \in Rooms /\ Wants(s, o, Request(task[s].room))
<1>1. ASSUME NEW i \in Rows, draft[o][i] # Unwritten PROVE Wants(s, o, i)
  BY <1>1 DEF LocksInv, Exclusive, WaitsFor, Wants
<1>2. pc[s] \in {"scold", "close", "note", "count"} => job[s].chat \in Chats
  BY JobFields DEF LocksInv, TypeInv, PlacedOK, ChatPlaced, OpAt
<1>3. at[s] = "record" => task[s].room \in Rooms
  BY TaskFields DEF LocksInv, TypeInv, PlacedOK, MeetPlaced, KindAt
<1>4. pc[s] # "idle" => at[s] = "idle"
  BY DEF LocksInv, TypeInv, PlacedOK, ChatPlaced
<1>5. model[s] \in Models \cup {Default}
  BY DEF LocksInv, TypeInv, ChatTyped
<1>6. CASE \E i \in Awaited(s) : draft[o][i] # Unwritten
  BY <1>1, <1>2, <1>3, <1>4, <1>5, <1>6, RowsThereAre DEF Awaited, Mine
<1>7. QED
  BY <1>6 DEF WaitsFor

\* A circular wait goes through a request for sections that was answered by two models.
LEMMA WaitsEnd ==
    ASSUME LocksInv, NEW S \in SUBSET Sessions,
           \A s \in S : \E o \in S : WaitsFor(s, o),
           \A s \in S : pc[s] = "record" /\ Op(s) = "sections" =>
              \A m \in (Models \cup {Default}) \ {model[s]} : draft[s][Usage(m)] = Unwritten
    PROVE  S = {}
<1>0. \A s \in S : /\ ChatLocks(s) /\ MeetLocks(s) /\ OwnerOK(s)
                   /\ ChatPlaced(s) /\ MeetPlaced(s)
                   /\ model[s] \in Models \cup {Default}
  BY DEF LocksInv, LocksOK, TypeInv, PlacedOK, ChatTyped
<1>2. ASSUME NEW s \in S, pc[s] \in {"scold", "close"} PROVE FALSE
  <2>1. PICK o \in S : WaitsFor(s, o)
    OBVIOUS
  <2>2. pc[o] = "commit"
    BY <1>0, <1>2, <2>1, WaitCases DEF Wants, ChatLocks, ChatPlaced
  <2>3. PICK q \in S : WaitsFor(o, q)
    OBVIOUS
  <2>4. QED
    BY <1>0, <2>2, <2>3, WaitCases DEF ChatPlaced
<1>3. ASSUME NEW s \in S, pc[s] = "upsert" PROVE FALSE
  <2>1. PICK o \in S : WaitsFor(s, o)
    OBVIOUS
  <2>2. draft[o][Tokens] # Unwritten /\ draft[o][Profile] # Unwritten
        /\ (pc[o] \in {"close", "commit"} \/ Op(o) = "sections")
    BY <1>0, <1>3, <2>1, WaitCases DEF Wants, ChatLocks, ChatPlaced
  <2>3. PICK q \in S : WaitsFor(o, q)
    OBVIOUS
  <2>4. pc[o] # "idle"
    BY <1>0, <2>2, RowNames DEF ChatPlaced
  <2>5. at[o] = "idle" /\ pc[o] \notin {"scold", "close", "commit"}
    BY <1>0, <1>2, <2>3, <2>4, WaitCases DEF ChatPlaced
  <2>6. Op(o) = "sections" /\ pc[o] \notin {"scold", "close", "count", "note"}
    BY <1>0, <2>2, <2>5, <2>4 DEF ChatPlaced, OpAt
  <2>7. pc[o] = "record" /\ Wants(o, q, Usage(model[o]))
    BY <2>2, <2>3, <2>5, <2>6, WaitCases DEF Wants
  <2>8. QED
    BY <1>0, <2>2, <2>6, <2>7 DEF ChatLocks, Wants
<1>4. ASSUME NEW s \in S, pc[s] = "tokens" PROVE FALSE
  <2>1. PICK o \in S : WaitsFor(s, o)
    OBVIOUS
  <2>2. draft[o][Profile] # Unwritten /\ (pc[o] \in {"upsert", "close", "commit"} \/ Op(o) = "sections")
    BY <1>0, <1>4, <2>1, WaitCases DEF Wants, ChatLocks, ChatPlaced
  <2>3. PICK q \in S : WaitsFor(o, q)
    OBVIOUS
  <2>4. pc[o] # "idle"
    BY <1>0, <2>2, RowNames DEF ChatPlaced
  <2>5. at[o] = "idle" /\ pc[o] \notin {"scold", "close", "commit", "upsert"}
    BY <1>0, <1>2, <1>3, <2>3, <2>4, WaitCases DEF ChatPlaced
  <2>6. Op(o) = "sections" /\ pc[o] \notin {"scold", "close", "count", "note"}
    BY <1>0, <2>2, <2>5, <2>4 DEF ChatPlaced, OpAt
  <2>7. pc[o] = "record" /\ Wants(o, q, Usage(model[o]))
    BY <2>2, <2>3, <2>5, <2>6, WaitCases DEF Wants
  <2>8. QED
    BY <1>0, <2>2, <2>6, <2>7 DEF ChatLocks, Wants
<1>5. ASSUME NEW s \in S, pc[s] = "record" PROVE FALSE
  <2>1. PICK o \in S : WaitsFor(s, o)
    OBVIOUS
  <2>2. draft[o][Usage(model[s])] # Unwritten
        /\ (pc[o] \in {"meter", "tokens", "upsert", "close", "commit"} \/ Op(o) = "sections")
    BY <1>0, <1>5, <2>1, WaitCases DEF Wants, ChatLocks, ChatPlaced
  <2>3. PICK q \in S : WaitsFor(o, q)
    OBVIOUS
  <2>4. pc[o] # "idle"
    BY <1>0, <2>2, RowNames DEF ChatPlaced
  <2>5. at[o] = "idle" /\ pc[o] \notin {"scold", "close", "commit", "upsert", "tokens", "meter"}
    BY <1>0, <1>2, <1>3, <1>4, <2>3, <2>4, WaitCases DEF ChatPlaced
  <2>6. Op(o) = "sections" /\ pc[o] \notin {"scold", "close", "count", "note"}
    BY <1>0, <2>2, <2>5, <2>4 DEF ChatPlaced, OpAt
  <2>7. pc[o] = "record" /\ Wants(o, q, Usage(model[o]))
    BY <2>3, <2>5, <2>6, WaitCases
  <2>8. QED
    BY <1>0, <2>2, <2>6, <2>7 DEF Wants
<1>6. ASSUME NEW s \in S, pc[s] = "note" PROVE FALSE
  <2>1. PICK o \in S : WaitsFor(s, o)
    OBVIOUS
  <2>2. pc[o] \in Replying
    BY <1>0, <1>6, <2>1, WaitCases DEF Wants, ChatLocks, ChatPlaced
  <2>3. PICK q \in S : WaitsFor(o, q)
    OBVIOUS
  <2>4. QED
    BY <1>0, <1>2, <1>3, <1>4, <1>5, <2>2, <2>3, WaitCases DEF Replying, ChatPlaced
<1>7. ASSUME NEW s \in S, pc[s] = "count" PROVE FALSE
  <2>1. PICK o \in S : WaitsFor(s, o)
    OBVIOUS
  <2>2. pc[o] \in Replying \cup {"listen", "merge", "note"}
    BY <1>0, <1>7, <2>1, WaitCases DEF Wants, ChatLocks, ChatPlaced
  <2>3. PICK q \in S : WaitsFor(o, q)
    OBVIOUS
  <2>4. QED
    BY <1>0, <1>2, <1>3, <1>4, <1>5, <1>6, <2>2, <2>3, WaitCases DEF Replying, ChatPlaced
<1>8. ASSUME NEW s \in S, pc[s] # "idle" PROVE FALSE
  <2>1. PICK o \in S : WaitsFor(s, o)
    OBVIOUS
  <2>2. QED
    BY <1>0, <1>2, <1>3, <1>4, <1>5, <1>6, <1>7, <1>8, <2>1, WaitCases DEF ChatPlaced
<1>9. ASSUME NEW s \in S PROVE at[s] \in {"lock", "count", "save", "update", "delete", "record"}
  <2>1. PICK o \in S : WaitsFor(s, o)
    OBVIOUS
  <2>2. QED
    BY <1>8, <2>1, WaitCases
<1>10. ASSUME NEW s \in S, at[s] = "record" PROVE FALSE
  <2>1. PICK o \in S : WaitsFor(s, o)
    OBVIOUS
  <2>2. at[o] = "commit"
    BY <1>0, <1>8, <1>10, <2>1, WaitCases DEF Wants, MeetLocks
  <2>3. QED
    BY <1>9, <2>2
<1>11. ASSUME NEW s \in S, at[s] \in {"save", "update", "delete"} PROVE FALSE
  <2>1. PICK o \in S : WaitsFor(s, o)
    OBVIOUS
  <2>2. at[o] \in {"book", "record", "commit"}
    BY <1>0, <1>8, <1>11, <2>1, WaitCases DEF Wants, MeetLocks
  <2>3. QED
    BY <1>9, <1>10, <2>2
<1>12. ASSUME NEW s \in S, at[s] = "count" PROVE FALSE
  <2>1. PICK o \in S : WaitsFor(s, o)
    OBVIOUS
  <2>2. at[o] \notin {"lock", "count"}
    BY <1>0, <1>8, <1>12, <2>1, WaitCases DEF Wants, MeetLocks
  <2>3. QED
    BY <1>9, <1>10, <1>11, <2>2
<1>13. ASSUME NEW s \in S PROVE FALSE
  <2>1. at[s] = "lock"
    BY <1>9, <1>10, <1>11, <1>12
  <2>2. PICK o \in S : WaitsFor(s, o)
    OBVIOUS
  <2>3. owner = o
    BY <1>8, <2>1, <2>2, WaitCases
  <2>4. at[o] # "lock"
    BY <1>0, <2>3 DEF OwnerOK
  <2>5. QED
    BY <1>9, <1>10, <1>11, <1>12, <2>4
<1>14. QED
  BY <1>13

\* Whatever waits in a circle, one of those that wait is a request for several sections that
\* was answered by two models: for any number of sessions, chats and models, everything else
\* locks its rows in one order (record_model_usage, add_usage, consume, lock_candidate_requests).
THEOREM DeadlockAlwaysTakesTwoModels == Spec => []DeadlockTakesTwoModels
<1>1. LocksInv => DeadlockTakesTwoModels
  <2> SUFFICES ASSUME LocksInv, NEW S \in SUBSET Sessions,
                      S # {}, \A s \in S : \E o \in S : WaitsFor(s, o),
                      ~\E s \in S : /\ pc[s] = "record" /\ Op(s) = "sections"
                                    /\ \E m \in (Models \cup {Default}) \ {model[s]} :
                                          draft[s][Usage(m)] # Unwritten
               PROVE  FALSE
    BY DEF DeadlockTakesTwoModels
  <2>1. QED
    BY WaitsEnd
<1>2. QED
  BY <1>1, LocksAlways, PTL

-----------------------------------------------------------------------------
(***************************************************************************)
(* Requests for a meeting.  The advisory lock has one owner (OwnerOK), and *)
(* while a request that has passed its checks is under way only it could   *)
(* make them false.                                                        *)
(***************************************************************************)
ChecksHold ==
    \A s \in Sessions : Requesting(s) => ~cooling /\ db[Request(task[s].room)] = Absent

\* Nobody else's request is past its checks.
LEMMA OneRequestAtATime ==
    ASSUME LocksInv, NEW s \in Sessions, NEW o \in Sessions, Requesting(s), Requesting(o)
    PROVE  s = o
<1>1. OwnerOK(s) /\ OwnerOK(o)
  BY DEF LocksInv, LocksOK
<1>2. owner = s /\ owner = o
  BY <1>1 DEF OwnerOK, Requesting
<1>3. QED
  BY <1>2

\* The cool-down starts when a request is committed.
LEMMA CoolingSteps ==
    ASSUME TypeInv, [NextAll]_allVars, ~cooling, cooling'
    PROVE  \E s \in Sessions : CommitMeeting(s) /\ Kind(s) = "request"
<1> DEFINE P == \E s \in Sessions : CommitMeeting(s) /\ Kind(s) = "request"
<1>1. ASSUME UNCHANGED cooling PROVE P
  BY <1>1
<1>2. ASSUME NEW s \in Sessions, MeetMove(s) PROVE P
  <2>1. CASE CommitMeeting(s)
    BY <2>1 DEF CommitMeeting
  <2>2. CASE ~CommitMeeting(s)
    BY <1>1, <1>2, <2>2 DEF MeetMove, Arrive, Meet, Drop, Unfit, Decline, Lose, LockCandidate,
       CheckRequests, ReserveMeeting, CountMeeting, Lookup, Exchange, Save, Refresh, SaveToken,
       GoogleFails, Revoke, Delete, Book, AnswerLost, RecordRequest, Writing, Still
  <2>3. QED
    BY <2>1, <2>2
<1>3. ASSUME Withdraw \/ Expire \/ CoolDown PROVE P
  BY <1>1, <1>3 DEF Withdraw, Expire, CoolDown
<1> HIDE DEF P
<1>4. P
  BY NextCases, <1>1, <1>2, <1>3 DEF meetingVars, allVars
<1>5. QED
  BY <1>4 DEF P

\* A request passes its checks in one step, and keeps its chat.
LEMMA RequestingSteps ==
    ASSUME LocksInv, [NextAll]_allVars, NEW s \in Sessions, Requesting(s)'
    PROVE  \/ CheckRequests(s) /\ at'[s] = "reserve" /\ task'[s] = task[s]
           \/ Requesting(s) /\ task'[s] = task[s]
<1> USE DEF Kind, GotoPlace
<1>0. at \in [Sessions -> Places] /\ task = [o \in Sessions |-> task[o]] /\ MeetPlaced(s)
  BY DEF LocksInv, TypeInv, MeetTyped, PlacedOK
<1>1. CASE MeetKept(s)
  BY <1>1 DEF MeetKept, Requesting
<1>2. CASE MeetMove(s) /\ CheckRequests(s)
  <2>1. ~Decline(s)
    BY <1>0, <1>2 DEF Decline, Depart, Requesting
  <2>2. QED
    BY <1>0, <1>2, <2>1 DEF CheckRequests, Still
<1>3. CASE MeetMove(s) /\ ~CheckRequests(s)
  <2>1. ~Depart(s)
    BY <1>0 DEF Depart, Requesting
  <2>2. ~LockCandidate(s)
    BY <1>0 DEF LockCandidate, Requesting
  <2>3. ~Arrive(s)
    <3>1. SUFFICES ASSUME Arrive(s) PROVE FALSE
      OBVIOUS
    <3>2. PICK t \in Task : task'[s] = t /\ at'[s] = FirstPlace(t.kind)
      BY <1>0, <3>1 DEF Arrive
    <3>3. QED
      BY <3>2 DEF FirstPlace, Requesting
  <2>4. at[s] \notin {"idle", "lock"} /\ task'[s] = task[s]
    BY <1>3, <2>1, <2>2, <2>3, OwnerMoves DEF LocksInv
  <2>5. at[s] # "check"
    BY <1>3, <2>1, <2>2, <2>3 DEF MeetMove, Meet, Unfit, CheckRequests, ReserveMeeting, CountMeeting,
       Lookup, Exchange, Save, Refresh, SaveToken, GoogleFails, Revoke, Delete, Book, AnswerLost,
       RecordRequest, CommitMeeting, Decline, Lose, Drop
  <2>6. QED
    BY <2>4, <2>5 DEF Requesting
<1>4. QED
  BY <1>1, <1>2, <1>3, KeptOrMoved DEF LocksInv, Kept

LEMMA ChecksKept ==
    ASSUME LocksInv, ChecksHold, [NextAll]_allVars
    PROVE  ChecksHold'
<1>1. SUFFICES ASSUME NEW s \in Sessions, Requesting(s)'
               PROVE  ~cooling' /\ db'[Request(task'[s].room)] = Absent
  BY DEF ChecksHold
<1> DEFINE r == task[s].room
<1>2. task'[s] = task[s] /\ Kind(s) = "request" /\ at[s] \notin {"idle", "lock"} /\ at'[s] # "idle"
  BY <1>1, RequestingSteps DEF Requesting, CheckRequests, LocksInv, TypeInv, PlacedOK, MeetPlaced,
                               KindAt, Kind
<1>3. r \in Rooms /\ Request(r) \in Rows /\ Request(r) \notin ChatTables
  BY <1>2, TaskFields, RowNames DEF LocksInv
<1>4. ~cooling /\ db[Request(r)] = Absent
  <2>1. CASE CheckRequests(s) /\ at'[s] = "reserve"
    <3>1. ~Decline(s)
      BY <2>1 DEF Decline, Depart, GotoPlace, LocksInv, TypeInv, MeetTyped
    <3>2. QED
      BY <2>1, <3>1 DEF CheckRequests
  <2>2. CASE Requesting(s)
    BY <2>2 DEF ChecksHold
  <2>3. QED
    BY <1>1, <2>1, <2>2, RequestingSteps
<1>5. owner = s
  BY <1>2 DEF LocksInv, LocksOK, OwnerOK
<1>6. ASSUME NEW o \in Sessions, CommitMeeting(o), Kind(o) = "request" PROVE FALSE
  <2>1. at[o] = "commit" /\ at'[o] = "idle"
    BY <1>6 DEF CommitMeeting, Depart, GotoPlace, LocksInv, TypeInv, MeetTyped
  <2>2. owner = o
    BY <1>6, <2>1 DEF LocksInv, LocksOK, OwnerOK
  <2>3. QED
    BY <1>2, <1>5, <2>1, <2>2
<1>7. ~cooling'
  BY <1>4, <1>6, CoolingSteps DEF LocksInv
<1>8. db'[Request(r)] = Absent
  <2>1. SUFFICES ASSUME db'[Request(r)] # db[Request(r)] PROVE FALSE
    BY <1>4
  <2>2. PICK o \in Sessions :
           \/ (Commit(o) \/ CommitMeeting(o)) /\ draft[o][Request(r)] # Unwritten
           \/ Scold(o) /\ Request(r) = Mine(o)
    BY <1>3, <2>1, DbSteps DEF LocksInv
  <2>3. CASE Scold(o) /\ Request(r) = Mine(o)
    BY <1>3, <2>3, ScoldEffect, RowNames DEF LocksInv
  <2>4. CASE (Commit(o) \/ CommitMeeting(o)) /\ draft[o][Request(r)] # Unwritten
    <3>1. at[o] = "commit" /\ Kind(o) = "request"
      BY <1>3, <2>4 DEF LocksInv, LocksOK, MeetLocks
    <3>2. pc[o] = "idle"
      BY <3>1 DEF LocksInv, TypeInv, PlacedOK, MeetPlaced
    <3>3. CommitMeeting(o)
      BY <2>4, <3>2 DEF Commit
    <3>4. QED
      BY <1>6, <3>1, <3>3
  <2>5. QED
    BY <2>2, <2>3, <2>4
<1>9. QED
  BY <1>2, <1>7, <1>8

\* One recruiter's request is checked, booked and recorded at a time, however many sessions
\* there are and however long Google takes: what its checks found stays true
\* (lock_candidate_requests, schedule_public_meeting).
THEOREM BookingsOneAtATime == Spec => []OneBookingAtATime
<1>1. Init => ChecksHold
  BY DEF Init, InitMeetings, ChecksHold, Requesting
<1>2. LocksInv /\ ChecksHold /\ [NextAll]_allVars => ChecksHold'
  BY ChecksKept
<1>3. LocksInv /\ ChecksHold => OneBookingAtATime
  BY OneRequestAtATime DEF ChecksHold, OneBookingAtATime
<1>4. QED
  BY <1>1, <1>2, <1>3, LocksAlways, PTL DEF Spec

-----------------------------------------------------------------------------
(***************************************************************************)
(* Meeting units.  A request for a meeting holds its unit from its         *)
(* reservation to its end, and an event is in the calendar for each unit   *)
(* used up and for each request that Google has answered.                  *)
(***************************************************************************)

\* Two finite sets that differ in one element at most.
LEMMA OneElement ==
    ASSUME NEW T, NEW U, NEW x, IsFiniteSet(T), T \ {x} = U \ {x}
    PROVE  /\ IsFiniteSet(U) /\ Cardinality(T) \in Nat /\ Cardinality(U) \in Nat
           /\ (x \in T <=> x \in U) => Cardinality(U) = Cardinality(T)
           /\ x \in T /\ x \notin U => Cardinality(U) = Cardinality(T) - 1
           /\ x \notin T /\ x \in U => Cardinality(U) = Cardinality(T) + 1
<1>1. CASE (x \in T <=> x \in U)
  <2>1. T = U
    BY <1>1
  <2>2. QED
    BY <1>1, <2>1, FS_CardinalityType
<1>2. CASE x \in T /\ x \notin U
  <2>1. U = T \ {x}
    BY <1>2
  <2>2. QED
    BY <1>2, <2>1, FS_RemoveElement, FS_CardinalityType
<1>3. CASE x \notin T /\ x \in U
  <2>1. U = T \cup {x}
    BY <1>3
  <2>2. QED
    BY <1>3, <2>1, FS_AddElement, FS_CardinalityType
<1>4. QED
  BY <1>1, <1>2, <1>3

HoldsAt(s) ==
    holds[s] <=> /\ at[s] \notin {"idle", "lock", "check", "reserve"}
                 /\ Kind(s) \in {"request", "schedule"}

\* Google has the event, and the session goes on.
HasEvent(s) == holds[s] /\ at[s] \in {"record", "commit"}

Holders == {s \in Sessions : holds[s]}
Hosts == {s \in Sessions : HasEvent(s)}

UnitsInv ==
    /\ \A s \in Sessions : HoldsAt(s)
    /\ held + Cardinality(Hosts) <= events
    /\ events <= held + lost + Cardinality(Hosts) + unanswered
    /\ MeetingsBooked <= MeetingsLimit

\* What a step of a meeting does with the units and the events.
LEMMA UnitSteps ==
    ASSUME LocksInv, UnitsInv, NEW s \in Sessions, MeetMove(s)
    PROVE  /\ HoldsAt(s)'
           /\ \/ /\ holds'[s] = holds[s] /\ (HasEvent(s)' <=> HasEvent(s))
                 /\ UNCHANGED <<held, lost, events, unanswered>>
              \/ /\ ~holds[s] /\ holds'[s] /\ ~HasEvent(s)' /\ MeetingsBooked < MeetingsLimit
                 /\ UNCHANGED <<held, lost, events, unanswered>>
              \/ /\ ~holds'[s] /\ ~HasEvent(s)
                 /\ UNCHANGED <<held, lost, events, unanswered>>
              \/ /\ holds[s] /\ holds'[s] /\ ~HasEvent(s) /\ HasEvent(s)'
                 /\ events' = events + 1 /\ UNCHANGED <<held, lost, unanswered>>
              \/ /\ ~holds'[s] /\ ~HasEvent(s)
                 /\ events' = events + 1 /\ unanswered' = unanswered + 1
                 /\ UNCHANGED <<held, lost>>
              \/ /\ holds[s] /\ ~holds'[s] /\ lost' = lost + 1
                 /\ UNCHANGED <<held, events, unanswered>>
              \/ /\ HasEvent(s) /\ ~holds'[s] /\ held' = held + 1
                 /\ UNCHANGED <<lost, events, unanswered>>
<1> USE DEF GotoPlace, Kind
<1>0. /\ at \in [Sessions -> Places] /\ holds \in [Sessions -> BOOLEAN]
      /\ task = [o \in Sessions |-> task[o]] /\ MeetPlaced(s) /\ HoldsAt(s)
      /\ MeetingsBooked < MeetingsLimit \/ MeetingsBooked >= MeetingsLimit
  <2>1. /\ at \in [Sessions -> Places] /\ holds \in [Sessions -> BOOLEAN]
        /\ task = [o \in Sessions |-> task[o]] /\ MeetPlaced(s) /\ HoldsAt(s)
    BY DEF LocksInv, TypeInv, MeetTyped, PlacedOK, UnitsInv
  <2>2. Cardinality({o \in Sessions : holds[o]}) \in Nat
    BY FS_Subset, FS_CardinalityType, ChatAssumption
  <2>3. MeetingsBooked \in Nat
    BY <2>2 DEF MeetingsBooked, LocksInv, TypeInv, WorldTyped, MeetWorldTyped
  <2>4. QED
    BY <2>1, <2>3, MeetingsAssumption
<1> DEFINE P == /\ HoldsAt(s)'
           /\ \/ /\ holds'[s] = holds[s] /\ (HasEvent(s)' <=> HasEvent(s))
                 /\ UNCHANGED <<held, lost, events, unanswered>>
              \/ /\ ~holds[s] /\ holds'[s] /\ ~HasEvent(s)' /\ MeetingsBooked < MeetingsLimit
                 /\ UNCHANGED <<held, lost, events, unanswered>>
              \/ /\ ~holds'[s] /\ ~HasEvent(s)
                 /\ UNCHANGED <<held, lost, events, unanswered>>
              \/ /\ holds[s] /\ holds'[s] /\ ~HasEvent(s) /\ HasEvent(s)'
                 /\ events' = events + 1 /\ UNCHANGED <<held, lost, unanswered>>
              \/ /\ ~holds'[s] /\ ~HasEvent(s)
                 /\ events' = events + 1 /\ unanswered' = unanswered + 1
                 /\ UNCHANGED <<held, lost>>
              \/ /\ holds[s] /\ ~holds'[s] /\ lost' = lost + 1
                 /\ UNCHANGED <<held, events, unanswered>>
              \/ /\ HasEvent(s) /\ ~holds'[s] /\ held' = held + 1
                 /\ UNCHANGED <<lost, events, unanswered>>
<1>1. ASSUME Decline(s), at[s] \notin {"record", "commit"} PROVE P
  BY <1>0, <1>1 DEF Decline, Depart, HoldsAt, HasEvent
<1>2. ASSUME Lose(s) PROVE P
  BY <1>0, <1>2 DEF Lose, Lost, Depart, HoldsAt, HasEvent
<1>3. CASE Arrive(s)
  <2>1. PICK t \in Task : task'[s] = t /\ at'[s] = FirstPlace(t.kind)
    BY <1>0, <1>3 DEF Arrive
  <2>2. ~holds[s] /\ UNCHANGED meetingUnitVars
    BY <1>0, <1>3 DEF Arrive, HoldsAt
  <2>3. at'[s] \in {"exchange", "lock", "reserve", "lookup"}
        /\ (t.kind \in {"request", "schedule"} => at'[s] \in {"lock", "reserve"})
    BY <2>1 DEF FirstPlace
  <2>4. QED
    BY <2>1, <2>2, <2>3 DEF HoldsAt, HasEvent, meetingUnitVars
<1>4. CASE LockCandidate(s) \/ CheckRequests(s) \/ Exchange(s) \/ Revoke(s)
  BY <1>0, <1>1, <1>4 DEF LockCandidate, CheckRequests, Exchange, Revoke, Still, HoldsAt, HasEvent,
                          MeetPlaced, KindAt, meetingUnitVars
<1>5. CASE ReserveMeeting(s)
  BY <1>0, <1>1, <1>5 DEF ReserveMeeting, HoldsAt, HasEvent, MeetPlaced, KindAt
<1>6. CASE CountMeeting(s) \/ Delete(s)
  BY <1>0, <1>6 DEF CountMeeting, Delete, Writing, Still, HoldsAt, HasEvent, MeetPlaced, KindAt,
                    meetingUnitVars
<1>7. CASE Save(s) \/ SaveToken(s) \/ RecordRequest(s)
  BY <1>0, <1>1, <1>2, <1>7 DEF Save, SaveToken, RecordRequest, Writing, HoldsAt, HasEvent,
                                MeetPlaced, KindAt, meetingUnitVars
<1>8. CASE Lookup(s) \/ Refresh(s)
  BY <1>0, <1>1, <1>8 DEF Lookup, AfterLookup, Refresh, Still, HoldsAt, HasEvent, MeetPlaced, KindAt,
                          meetingUnitVars
<1>9. CASE Book(s)
  BY <1>0, <1>1, <1>9 DEF Book, HoldsAt, HasEvent, MeetPlaced, KindAt
<1>10. CASE AnswerLost(s)
  BY <1>0, <1>10 DEF AnswerLost, Depart, HoldsAt, HasEvent
<1>11. CASE CommitMeeting(s)
  BY <1>0, <1>11 DEF CommitMeeting, Depart, HoldsAt, HasEvent
<1>12. CASE Unfit(s) \/ GoogleFails(s) \/ Drop(s)
  BY <1>1, <1>2, <1>12 DEF Unfit, GoogleFails, Drop
<1>13. QED
  BY <1>3, <1>4, <1>5, <1>6, <1>7, <1>8, <1>9, <1>10, <1>11, <1>12 DEF MeetMove, Meet

LEMMA UnitsKept ==
    ASSUME LocksInv, UnitsInv, [NextAll]_allVars
    PROVE  UnitsInv'
<1> DEFINE P == UnitsInv'
           h == Cardinality(Holders)
           d == Cardinality(Hosts)
<1>0. /\ IsFiniteSet(Holders) /\ IsFiniteSet(Hosts) /\ h \in Nat /\ d \in Nat
      /\ held \in Nat /\ lost \in Nat /\ events \in Nat /\ unanswered \in Nat /\ MeetingsLimit \in Nat
      /\ MeetingsBooked = held + lost + h /\ MeetingsBooked' = held' + lost' + h'
      /\ held + d <= events /\ events <= held + lost + d + unanswered
      /\ held + lost + h <= MeetingsLimit
  BY FS_Subset, FS_CardinalityType, ChatAssumption, MeetingsAssumption
     DEF Holders, Hosts, UnitsInv, LocksInv, TypeInv, WorldTyped, MeetWorldTyped, MeetingsBooked
<1>1. ASSUME UNCHANGED <<at, task, holds, held, lost, events, unanswered>> PROVE P
  BY <1>1 DEF UnitsInv, HoldsAt, HasEvent, Hosts, MeetingsBooked, Kind
<1>2. ASSUME NEW s \in Sessions, MeetMove(s) PROVE P
  <2>1. \A o \in Sessions \ {s} : at'[o] = at[o] /\ task'[o] = task[o] /\ holds'[o] = holds[o]
    BY <1>2, OthersKeptInMeetings DEF LocksInv, MeetKept
  <2>2. \A o \in Sessions : HoldsAt(o)'
    BY <1>2, <2>1, UnitSteps DEF HoldsAt, UnitsInv, Kind
  <2>3. Holders \ {s} = Holders' \ {s} /\ Hosts \ {s} = Hosts' \ {s}
    BY <2>1 DEF Holders, Hosts, HasEvent
  <2>4. /\ s \in Holders <=> holds[s]
        /\ s \in Holders' <=> holds'[s]
        /\ s \in Hosts <=> HasEvent(s)
        /\ s \in Hosts' <=> HasEvent(s)'
    BY DEF Holders, Hosts
  <2>5. /\ h' \in Nat
        /\ (s \in Holders <=> s \in Holders') => h' = h
        /\ s \in Holders /\ s \notin Holders' => h' = h - 1
        /\ s \notin Holders /\ s \in Holders' => h' = h + 1
    BY <1>0, <2>3, OneElement
  <2>6. /\ d' \in Nat
        /\ (s \in Hosts <=> s \in Hosts') => d' = d
        /\ s \in Hosts /\ s \notin Hosts' => d' = d - 1
        /\ s \notin Hosts /\ s \in Hosts' => d' = d + 1
    BY <1>0, <2>3, OneElement
  <2>7. /\ HasEvent(s) => holds[s]
        /\ HasEvent(s)' => holds'[s]
    BY DEF HasEvent
  <2>8. \/ /\ holds'[s] = holds[s] /\ (HasEvent(s)' <=> HasEvent(s))
           /\ UNCHANGED <<held, lost, events, unanswered>>
        \/ /\ ~holds[s] /\ holds'[s] /\ ~HasEvent(s)' /\ MeetingsBooked < MeetingsLimit
           /\ UNCHANGED <<held, lost, events, unanswered>>
        \/ /\ ~holds'[s] /\ ~HasEvent(s)
           /\ UNCHANGED <<held, lost, events, unanswered>>
        \/ /\ holds[s] /\ holds'[s] /\ ~HasEvent(s) /\ HasEvent(s)'
           /\ events' = events + 1 /\ UNCHANGED <<held, lost, unanswered>>
        \/ /\ ~holds'[s] /\ ~HasEvent(s)
           /\ events' = events + 1 /\ unanswered' = unanswered + 1
           /\ UNCHANGED <<held, lost>>
        \/ /\ holds[s] /\ ~holds'[s] /\ lost' = lost + 1
           /\ UNCHANGED <<held, events, unanswered>>
        \/ /\ HasEvent(s) /\ ~holds'[s] /\ held' = held + 1
           /\ UNCHANGED <<lost, events, unanswered>>
    BY <1>2, UnitSteps
  <2> HIDE DEF h, d
  <2>9. /\ held' + d' <= events' /\ events' <= held' + lost' + d' + unanswered'
        /\ held' + lost' + h' <= MeetingsLimit
    BY <1>0, <2>4, <2>5, <2>6, <2>7, <2>8
  <2>10. QED
    BY <1>0, <2>2, <2>9 DEF UnitsInv, d
<1>3. ASSUME UNCHANGED meetingVars PROVE P
  BY <1>1, <1>3 DEF meetingVars, taskVars, meetingUnitVars
<1>4. ASSUME Withdraw \/ Expire \/ CoolDown PROVE P
  BY <1>1, <1>4 DEF Withdraw, Expire, CoolDown, taskVars, meetingUnitVars
<1> HIDE DEF P
<1>5. P
  BY NextCases, <1>2, <1>3, <1>4 DEF allVars
<1>6. QED
  BY <1>5 DEF P

\* Every event Google has created was paid for with a unit of the plan, unless its answer was
\* lost, and no unit is used up without an event, for any number of requests at once.
THEOREM EventsAlwaysPaidFor == Spec => []EventsArePaidFor
<1>1. Init => UnitsInv
  <2> SUFFICES ASSUME Init PROVE UnitsInv
    OBVIOUS
  <2>1. /\ \A s \in Sessions : at[s] = "idle" /\ ~holds[s]
        /\ held = 0 /\ lost = 0 /\ events = 0 /\ unanswered = 0
    BY DEF Init, InitMeetings
  <2>2. Hosts = {} /\ {s \in Sessions : holds[s]} = {}
    BY <2>1 DEF Hosts, HasEvent
  <2>3. Cardinality({}) = 0 /\ MeetingsLimit \in Nat
    BY FS_EmptySet, MeetingsAssumption
  <2>4. MeetingsBooked = 0
    BY <2>1, <2>2, <2>3 DEF MeetingsBooked
  <2>5. QED
    BY <2>1, <2>2, <2>3, <2>4 DEF UnitsInv, HoldsAt
<1>2. LocksInv /\ UnitsInv /\ [NextAll]_allVars => UnitsInv'
  BY UnitsKept
<1>3. LocksInv /\ UnitsInv => EventsArePaidFor
  <2> SUFFICES ASSUME LocksInv, UnitsInv PROVE EventsArePaidFor
    OBVIOUS
  <2> DEFINE h == Cardinality(Holders)
             d == Cardinality(Hosts)
  <2>1. Hosts \subseteq Holders /\ IsFiniteSet(Holders)
    BY FS_Subset, ChatAssumption DEF Hosts, Holders, HasEvent
  <2>2. d <= h /\ d \in Nat /\ h \in Nat
    BY <2>1, FS_Subset, FS_CardinalityType
  <2>3. /\ held + d <= events /\ events <= held + lost + d + unanswered
        /\ MeetingsBooked <= MeetingsLimit /\ MeetingsBooked = held + lost + h
        /\ held \in Nat /\ lost \in Nat /\ events \in Nat /\ unanswered \in Nat
    BY DEF UnitsInv, Holders, MeetingsBooked, LocksInv, TypeInv, WorldTyped, MeetWorldTyped
  <2> HIDE DEF h, d
  <2>4. held <= events /\ events <= held + lost + h + unanswered
    BY <2>2, <2>3
  <2>5. QED
    BY <2>3, <2>4 DEF EventsArePaidFor
<1>4. QED
  BY <1>1, <1>2, <1>3, LocksAlways, PTL DEF Spec

-----------------------------------------------------------------------------
(***************************************************************************)
(* Chats.  A reply that is stored carries the flag and the counter of the  *)
(* committed row, because its lock keeps refusals out; a chat that is      *)
(* started is started once; and a refusal counts from a row that was       *)
(* committed, of which the history knows.                                  *)
(***************************************************************************)
DraftedChat(s, c) ==
    draft[s][Chat(c)] # Unwritten =>
        IF Existing(c)
        THEN /\ draft[s][Chat(c)].answered
             /\ draft[s][Chat(c)].rapid = db[Chat(c)].rapid
             /\ draft[s][Chat(c)].flagged = db[Chat(c)].flagged
        ELSE Op(s) = "start" /\ draft[s][Chat(c)].rapid = 0

Starting(s) == pc[s] # "idle" /\ Op(s) = "start"

ChatsInv ==
    /\ \A s \in Sessions, c \in Chats : DraftedChat(s, c)
    /\ \A s \in Sessions : Starting(s) => ~Existing(job[s].chat)
    /\ \A s, o \in Sessions : Starting(s) /\ Starting(o) /\ job[s].chat = job[o].chat => s = o
    /\ \A c \in Chats : Existing(c) => db[Chat(c)].rapid <= refused[c]
    /\ \A s \in Sessions : pc[s] \notin {"idle", "read"} /\ Op(s) = "message" =>
          read[s].rapid <= refused[job[s].chat]

\* A chat changes when a session of its own commits it, or by a refusal.
LEMMA ChatRowSteps ==
    ASSUME LocksInv, [NextAll]_allVars, NEW c \in Chats, db'[Chat(c)] # db[Chat(c)]
    PROVE  \E s \in Sessions :
              \/ /\ Commit(s) /\ job[s].chat = c /\ Op(s) \in {"start", "message"}
                 /\ draft[s][Chat(c)] # Unwritten /\ draft[s][Chat(c)] \in ChatRow
                 /\ db'[Chat(c)] = draft[s][Chat(c)]
              \/ /\ Scold(s) /\ job[s].chat = c /\ Existing(c)
                 /\ read[s] \in ChatRow /\ db[Chat(c)] \in ChatRow
                 /\ db'[Chat(c)] = Scolded(read[s], db[Chat(c)])
<1>1. Chat(c) \in Rows /\ Chat(c) \in ChatRows /\ Chat(c) # Connection
  BY RowNames
<1>2. PICK s \in Sessions :
         \/ /\ Commit(s) \/ CommitMeeting(s)
            /\ draft[s][Chat(c)] # Unwritten /\ db'[Chat(c)] = draft[s][Chat(c)]
         \/ Scold(s) /\ Chat(c) = Mine(s)
  BY <1>1, DbSteps DEF LocksInv
<1>3. CASE Scold(s) /\ Chat(c) = Mine(s)
  BY <1>3, ScoldEffect, RowsDiffer, RowsAreReal DEF LocksInv, Mine, Existing
<1>4. CASE (Commit(s) \/ CommitMeeting(s)) /\ draft[s][Chat(c)] # Unwritten
           /\ db'[Chat(c)] = draft[s][Chat(c)]
  <2>1. pc[s] = "commit" /\ Op(s) \in {"start", "message"} /\ job[s].chat = c
    BY <1>4 DEF LocksInv, LocksOK, ChatLocks
  <2>2. at[s] = "idle"
    BY <2>1 DEF LocksInv, TypeInv, PlacedOK, ChatPlaced
  <2>3. Commit(s)
    BY <1>4, <2>2 DEF CommitMeeting
  <2>4. draft[s][Chat(c)] \in ChatRow
    BY <1>1, <1>4 DEF LocksInv, TypeInv, TablesOK, DraftRowOK, RowOK
  <2>5. QED
    BY <1>4, <2>1, <2>3, <2>4
<1>5. QED
  BY <1>2, <1>3, <1>4

LEMMA RefusedSteps ==
    ASSUME LocksInv, [NextAll]_allVars
    PROVE  /\ \A c \in Chats : refused[c] \in Nat /\ refused'[c] \in Nat /\ refused[c] <= refused'[c]
           /\ \A s \in Sessions : Scold(s) => refused'[job[s].chat] = refused[job[s].chat] + 1
<1> DEFINE P == \A c \in Chats : refused[c] <= refused'[c]
<1>0. refused \in [Chats -> Nat] /\ refused' \in [Chats -> Nat]
  BY VariablesTyped DEF LocksInv, TypeInv, WorldTyped, ChatWorldTyped
<1>1. ASSUME UNCHANGED refused PROVE P
  BY <1>0, <1>1
<1>2. ASSUME NEW s \in Sessions, ChatMove(s) PROVE P
  <2>1. CASE Scold(s)
    <3>1. job[s].chat \in Chats /\ refused' = [refused EXCEPT ![job[s].chat] = @ + 1]
      BY <2>1, ScoldEffect DEF Scold, LocksInv
    <3>2. QED
      BY <1>0, <3>1
  <2>2. CASE ~Scold(s)
    BY <1>1, <1>2, <2>2 DEF ChatMove, Begin, Proceed, Abort, StartSession, NotAvailable, Read, Admit,
       Reserve, CountUnit, Room, Listen, Merge, Note, Canned, Answer, NoAnswer, Record, Meter,
       WriteProfile, UpsertTokens, Close, Commit, Fail, Writes, Quiet
  <2>3. QED
    BY <2>1, <2>2
<1>3. ASSUME SetPreference \/ ChangeCatalogue \/ ChangePlan \/ TimePasses PROVE P
  BY <1>1, <1>3 DEF SetPreference, ChangeCatalogue, ChangePlan, TimePasses
<1>4. ASSUME UNCHANGED chatVars PROVE P
  BY <1>1, <1>4 DEF chatVars
<1> HIDE DEF P
<1>5. P
  BY NextCases, <1>2, <1>3, <1>4 DEF allVars
<1>6. \A s \in Sessions : Scold(s) => refused'[job[s].chat] = refused[job[s].chat] + 1
  BY <1>0, ScoldEffect DEF Scold, LocksInv
<1>7. QED
  BY <1>0, <1>5, <1>6 DEF P

\* What a session at work in a chat becomes.
LEMMA JobSteps ==
    ASSUME LocksInv, [NextAll]_allVars, NEW s \in Sessions, pc'[s] # "idle"
    PROVE  \/ /\ pc[s] # "idle" /\ job'[s] = job[s] /\ pc'[s] # "read"
              /\ read'[s] = read[s] \/ Read(s)
           \/ pc'[s] = pc[s] /\ job'[s] = job[s] /\ read'[s] = read[s]
           \/ /\ Begin(s) /\ pc'[s] \in {"start", "read"} /\ UNCHANGED db
              /\ pc[s] = "idle" /\ job'[s] \in Job
              /\ job'[s].op = "start" => /\ ~Existing(job'[s].chat)
                                         /\ \A o \in Sessions : job[o] # job'[s]
<1> USE DEF Goto
<1>0. /\ pc \in [Sessions -> Steps] /\ read = [o \in Sessions |-> read[o]]
      /\ job = [o \in Sessions |-> job[o]]
  BY DEF LocksInv, TypeInv, ChatTyped
<1>1. CASE ChatKept(s)
  BY <1>1 DEF ChatKept
<1>2. CASE ChatMove(s)
  <2>1. ~Leave(s) /\ ~Fail(s)
    BY <1>0 DEF Fail, Leave
  <2>2. CASE Begin(s)
    BY <1>0, <2>2 DEF Begin, tableVars
  <2>3. CASE Read(s)
    BY <1>0, <2>3 DEF Read, AfterRead, Quiet
  <2>4. CASE Admit(s) \/ Reserve(s) \/ Room(s)
    BY <1>0, <2>1, <2>4 DEF Admit, AfterAdmit, Reserve, Room, Quiet
  <2>5. CASE Listen(s) \/ Merge(s) \/ Canned(s) \/ Answer(s) \/ Meter(s)
    BY <1>0, <2>5 DEF Listen, Merge, Canned, Answer, Meter, Quiet
  <2>6. CASE StartSession(s) \/ CountUnit(s) \/ Record(s) \/ WriteProfile(s) \/ Close(s)
    BY <1>0, <2>6 DEF StartSession, CountUnit, Record, WriteProfile, Close, Writes
  <2>7. CASE UpsertTokens(s) \/ Note(s)
    BY <1>0, <2>1, <2>7 DEF UpsertTokens, AfterTally, Note, Writes
  <2>8. CASE NotAvailable(s) \/ NoAnswer(s) \/ Scold(s) \/ Commit(s) \/ Abort(s)
    BY <2>1, <2>8 DEF NotAvailable, NoAnswer, Scold, Commit, Abort
  <2>9. QED
    BY <1>2, <2>2, <2>3, <2>4, <2>5, <2>6, <2>7, <2>8 DEF ChatMove, Proceed
<1>3. QED
  BY <1>1, <1>2, KeptOrMoved DEF LocksInv, Kept

LEMMA DraftSteps ==
    ASSUME TypeInv, [NextAll]_allVars, NEW s \in Sessions, NEW i \in Rows,
           draft'[s][i] # Unwritten, draft'[s][i] # draft[s][i]
    PROVE  /\ UNCHANGED db
           /\ \E row : /\ draft'[s][i] = row
                       /\ Write(s, i, row)
                       /\ ChatWrite(s, i, row) \/ MeetWrite(s, i, row)
<1> DEFINE P == /\ UNCHANGED db
           /\ \E row : /\ draft'[s][i] = row
                       /\ Write(s, i, row)
                       /\ ChatWrite(s, i, row) \/ MeetWrite(s, i, row)
<1> USE DEF TypeInv
<1>1. ASSUME UNCHANGED draft PROVE P
  BY <1>1
<1>2. ASSUME NEW o \in Sessions, NEW j, NEW row, Write(o, j, row), UNCHANGED db,
             ChatWrite(o, j, row) \/ MeetWrite(o, j, row)
      PROVE  P
  <2>1. j \in Rows
    BY <1>2, ChatWritten, MeetWritten
  <2>2. draft' = [draft EXCEPT ![o][j] = row]
    BY <1>2 DEF Write
  <2>3. o = s /\ j = i /\ draft'[s][i] = row
    BY <2>1, <2>2 DEF TablesOK
  <2>4. QED
    BY <1>2, <2>3
<1>3. ASSUME NEW o \in Sessions, draft' = [draft EXCEPT ![o] = Blank] PROVE P
  BY <1>3, BlankEffect
<1> HIDE DEF P
<1>4. P
  BY <1>1, <1>2, <1>3, TableSteps DEF tableVars, DiscardRows, Commit, CommitMeeting, CommitRows, Scold
<1>5. QED
  BY <1>4 DEF P

\* A row that is locked changes only when its session commits, and is locked no more.
LEMMA LockedStays ==
    ASSUME LocksInv, [NextAll]_allVars, NEW s \in Sessions, NEW i \in Rows,
           draft[s][i] # Unwritten, draft'[s][i] # Unwritten
    PROVE  db'[i] = db[i]
<1>1. SUFFICES ASSUME db'[i] # db[i] PROVE FALSE
  OBVIOUS
<1>2. PICK o \in Sessions :
         \/ /\ Commit(o) \/ CommitMeeting(o)
            /\ draft[o][i] # Unwritten
         \/ Scold(o) /\ i = Mine(o)
  BY <1>1, DbSteps DEF LocksInv
<1>3. CASE (Commit(o) \/ CommitMeeting(o)) /\ draft[o][i] # Unwritten
  <2>1. o = s
    BY <1>3 DEF LocksInv, Exclusive
  <2>2. draft' = [draft EXCEPT ![s] = Blank]
    BY <1>3, <2>1 DEF Commit, CommitMeeting, CommitRows
  <2>3. QED
    BY <2>2, BlankDraft DEF LocksInv
<1>4. CASE Scold(o) /\ i = Mine(o)
  <2>1. o = s /\ pc[s] = "scold"
    BY <1>4, ScoldEffect DEF LocksInv, Scold
  <2>2. i \in ChatTables
    BY <1>4, <2>1, ScoldEffect, RowNames DEF LocksInv
  <2>3. QED
    BY <2>1, <2>2 DEF LocksInv, TypeInv, PlacedOK, ChatPlaced
<1>5. QED
  BY <1>2, <1>3, <1>4

LEMMA DraftedKept ==
    ASSUME LocksInv, ChatsInv, [NextAll]_allVars, NEW s \in Sessions, NEW c \in Chats
    PROVE  DraftedChat(s, c)'
<1> DEFINE i == Chat(c)
<1>1. SUFFICES ASSUME draft'[s][i] # Unwritten
               PROVE  IF db'[i] # Absent
                      THEN /\ draft'[s][i].answered
                           /\ draft'[s][i].rapid = db'[i].rapid
                           /\ draft'[s][i].flagged = db'[i].flagged
                      ELSE Op(s)' = "start" /\ draft'[s][i].rapid = 0
  BY DEF DraftedChat, Existing
<1>2. i \in Rows /\ i \in ChatRows /\ i \in ChatTables
  BY RowNames
<1>3. pc'[s] # "idle"
  BY <1>1, <1>2, SessionsPlaced DEF LocksInv, PlacedOK, ChatPlaced
<1>4. DraftedChat(s, c)
  BY DEF ChatsInv
<1>5. CASE draft'[s][i] = draft[s][i]
  <2>1. db'[i] = db[i]
    BY <1>1, <1>2, <1>5, LockedStays
  <2>2. pc[s] = "commit"
    BY <1>1, <1>5 DEF LocksInv, LocksOK, ChatLocks
  <2>3. job'[s] = job[s]
    BY <1>3, <2>2, JobSteps
  <2>4. QED
    BY <1>1, <1>4, <1>5, <2>1, <2>3 DEF DraftedChat, Existing, Op
<1>6. CASE draft'[s][i] # draft[s][i]
  <2>1. PICK row : /\ draft'[s][i] = row /\ Write(s, i, row)
                   /\ ChatWrite(s, i, row) \/ MeetWrite(s, i, row)
    BY <1>1, <1>2, <1>6, DraftSteps DEF LocksInv
  <2>2. UNCHANGED db
    BY <1>1, <1>2, <1>6, DraftSteps DEF LocksInv
  <2>3. ChatWrite(s, i, row)
    BY <1>2, <2>1, MeetWritten, RowNames DEF LocksInv
  <2>4. pc[s] \in {"start", "close"} /\ i = Mine(s)
    BY <2>3, RowsApart DEF ChatWrite
  <2>5. job[s].chat = c
    BY <2>4, RowsDiffer DEF Mine
  <2>6. job'[s] = job[s]
    BY <1>3, <2>4, JobSteps
  <2>7. CASE pc[s] = "start"
    <3>1. Op(s) = "start" /\ ~Existing(c)
      BY <2>5, <2>7 DEF ChatsInv, Starting, LocksInv, TypeInv, PlacedOK, ChatPlaced, OpAt
    <3>2. row = [answered |-> FALSE, rapid |-> 0, flagged |-> FALSE]
      BY <2>3, <2>7 DEF ChatWrite
    <3>3. QED
      BY <2>1, <2>2, <2>6, <3>1, <3>2 DEF Existing, Op
  <2>8. CASE pc[s] = "close"
    <3>1. Op(s) = "message" /\ db[i] # Absent /\ read[s] \in ChatRow
      BY <2>5, <2>8 DEF LocksInv, TypeInv, PlacedOK, ChatPlaced, OpAt, Existing
    <3>2. draft[s][i] = Unwritten
      BY <2>8 DEF LocksInv, LocksOK, ChatLocks
    <3>3. db[i] \in ChatRow
      BY <1>2, <3>1 DEF LocksInv, TypeInv, TablesOK, RowOK
    <3>4. row = Replied(read[s], db[i])
      BY <2>3, <2>4, <2>8, <3>2 DEF ChatWrite, Seen
    <3>5. QED
      BY <2>1, <2>2, <3>1, <3>3, <3>4, RepliedRow
  <2>9. QED
    BY <2>4, <2>7, <2>8
<1>7. QED
  BY <1>5, <1>6

LEMMA StartsKept ==
    ASSUME LocksInv, ChatsInv, [NextAll]_allVars
    PROVE  /\ \A s \in Sessions : Starting(s)' => ~Existing(job[s].chat)'
           /\ \A s, o \in Sessions :
                 Starting(s)' /\ Starting(o)' /\ job'[s].chat = job'[o].chat => s = o
<1> DEFINE Began(s) == pc[s] = "idle" /\ job'[s] \in Job /\ UNCHANGED db /\ ~Existing(job'[s].chat)
                       /\ \A o \in Sessions : job[o] # job'[s]
<1>1. ASSUME NEW s \in Sessions, Starting(s)'
      PROVE  (Starting(s) /\ job'[s] = job[s]) \/ Began(s)
  BY <1>1, JobSteps DEF Starting, Op
<1>2. ASSUME NEW s \in Sessions, Starting(s)
      PROVE  job[s] \in Job /\ job[s].chat \in Chats
  BY <1>2, JobFields DEF Starting, LocksInv, TypeInv, PlacedOK, ChatPlaced
<1>3. ASSUME NEW s \in Sessions, Starting(s)' PROVE ~Existing(job[s].chat)'
  <2>1. CASE Began(s)
    BY <2>1 DEF Existing
  <2>2. CASE Starting(s) /\ job'[s] = job[s]
    <3> DEFINE c == job[s].chat
    <3>1. c \in Chats /\ db[Chat(c)] = Absent
      BY <1>2, <2>2 DEF ChatsInv, Existing
    <3>2. SUFFICES ASSUME db'[Chat(c)] # db[Chat(c)] PROVE FALSE
      BY <2>2, <3>1 DEF Existing
    <3>3. PICK o \in Sessions :
             \/ /\ Commit(o) /\ job[o].chat = c
                /\ draft[o][Chat(c)] # Unwritten
             \/ Existing(c)
      BY <3>1, <3>2, ChatRowSteps
    <3>4. Commit(o) /\ job[o].chat = c /\ Op(o) = "start" /\ pc[o] # "idle"
      BY <3>1, <3>3 DEF ChatsInv, DraftedChat, Existing, Commit
    <3>5. o = s
      BY <2>2, <3>4 DEF ChatsInv, Starting
    <3>6. pc'[s] = "idle"
      BY <3>4, <3>5 DEF Commit, Leave, Goto, LocksInv, TypeInv, ChatTyped
    <3>7. QED
      BY <1>3, <3>6 DEF Starting
  <2>3. QED
    BY <1>1, <1>3, <2>1, <2>2
<1>4. ASSUME NEW s \in Sessions, NEW o \in Sessions, Starting(s)', Starting(o)',
             job'[s].chat = job'[o].chat
      PROVE  s = o
  <2>1. job'[s].op = "start" /\ job'[o].op = "start"
    BY <1>4 DEF Starting, Op
  <2>2. job'[s] \in Job /\ job'[o] \in Job
    BY <1>1, <1>2, <1>4
  <2>3. job'[s] = job'[o]
    BY <1>4, <2>1, <2>2 DEF Job
  <2>4. CASE Starting(s) /\ Starting(o) /\ job'[s] = job[s] /\ job'[o] = job[o]
    BY <1>4, <2>4 DEF ChatsInv
  <2>5. CASE Began(s) /\ job'[o] = job[o]
    BY <2>3, <2>5
  <2>6. CASE Began(o) /\ job'[s] = job[s]
    BY <2>3, <2>6
  <2>7. CASE Began(s) /\ Began(o) /\ s # o
    <3>1. Begin(s) /\ Begin(o)
      BY <1>4, <2>7, JobSteps DEF Starting, Op, LocksInv, TypeInv, PlacedOK, ChatPlaced
    <3>2. ChatMove(s) \/ ChatKept(s)
      BY KeptOrMoved DEF LocksInv, Kept
    <3>3. job'[s] # job[s] /\ job'[o] # job[o]
      BY <2>7
    <3>4. ChatMove(s)
      BY <3>2, <3>3 DEF ChatKept
    <3>5. ChatKept(o)
      BY <2>7, <3>4, OthersKeptInChat DEF LocksInv
    <3>6. QED
      BY <3>3, <3>5 DEF ChatKept
  <2>8. QED
    BY <1>1, <1>4, <2>4, <2>5, <2>6, <2>7
<1>5. QED
  BY <1>3, <1>4

LEMMA ChatsKept ==
    ASSUME LocksInv, ChatsInv, [NextAll]_allVars
    PROVE  ChatsInv'
<1>1. \A s \in Sessions, c \in Chats : DraftedChat(s, c)'
  BY DraftedKept
<1>2. ASSUME NEW c \in Chats, Existing(c)' PROVE db'[Chat(c)].rapid <= refused'[c]
  <2>1. refused[c] \in Nat /\ refused'[c] \in Nat /\ refused[c] <= refused'[c]
    BY RefusedSteps
  <2>2. CASE db'[Chat(c)] = db[Chat(c)]
    <3>1. db[Chat(c)] # Absent /\ Chat(c) \in Rows /\ Chat(c) \in ChatRows
      BY <1>2, <2>2, RowNames DEF Existing
    <3>2. db[Chat(c)].rapid \in Nat /\ db[Chat(c)].rapid <= refused[c]
      BY <3>1 DEF ChatsInv, Existing, LocksInv, TypeInv, TablesOK, RowOK, ChatRow
    <3>3. QED
      BY <2>1, <2>2, <3>2
  <2>3. CASE db'[Chat(c)] # db[Chat(c)]
    <3>1. PICK s \in Sessions :
             \/ /\ draft[s][Chat(c)] # Unwritten /\ draft[s][Chat(c)] \in ChatRow
                /\ db'[Chat(c)] = draft[s][Chat(c)]
             \/ /\ Scold(s) /\ job[s].chat = c
                /\ read[s] \in ChatRow /\ db[Chat(c)] \in ChatRow
                /\ db'[Chat(c)] = Scolded(read[s], db[Chat(c)])
      BY <2>3, ChatRowSteps
    <3>2. CASE draft[s][Chat(c)] # Unwritten /\ draft[s][Chat(c)] \in ChatRow
               /\ db'[Chat(c)] = draft[s][Chat(c)]
      <4>1. db'[Chat(c)].rapid \in Nat
        BY <3>2 DEF ChatRow
      <4>2. CASE Existing(c)
        <5>1. db'[Chat(c)].rapid = db[Chat(c)].rapid /\ db[Chat(c)].rapid <= refused[c]
          BY <3>2, <4>2 DEF ChatsInv, DraftedChat
        <5>2. QED
          BY <2>1, <4>1, <5>1
      <4>3. CASE ~Existing(c)
        <5>1. db'[Chat(c)].rapid = 0
          BY <3>2, <4>3 DEF ChatsInv, DraftedChat
        <5>2. QED
          BY <2>1, <5>1
      <4>4. QED
        BY <4>2, <4>3
    <3>3. CASE /\ Scold(s) /\ job[s].chat = c
               /\ read[s] \in ChatRow /\ db[Chat(c)] \in ChatRow
               /\ db'[Chat(c)] = Scolded(read[s], db[Chat(c)])
      <4>1. Op(s) = "message" /\ pc[s] = "scold"
        BY <3>3 DEF Scold, LocksInv, TypeInv, PlacedOK, ChatPlaced, OpAt
      <4>2. read[s].rapid <= refused[c] /\ read[s].rapid \in Nat
        BY <3>3, <4>1 DEF ChatsInv, ChatRow
      <4>3. db'[Chat(c)].rapid = read[s].rapid + 1
        BY <3>3, ScoldedRow
      <4>4. refused'[c] = refused[c] + 1
        BY <3>3, RefusedSteps
      <4>5. QED
        BY <2>1, <4>2, <4>3, <4>4
    <3>4. QED
      BY <3>1, <3>2, <3>3
  <2>4. QED
    BY <2>2, <2>3
<1>3. ASSUME NEW s \in Sessions, pc'[s] \notin {"idle", "read"}, Op(s)' = "message"
      PROVE  read'[s].rapid <= refused'[job'[s].chat]
  <2>1. pc[s] # "idle" /\ job'[s] = job[s] /\ Op(s) = "message"
    <3>1. pc'[s] = "start" => Op(s)' = "start"
      BY SessionsPlaced DEF LocksInv, PlacedOK, ChatPlaced, OpAt
    <3>2. QED
      BY <1>3, <3>1, JobSteps DEF Op
  <2> DEFINE c == job[s].chat
  <2>2. c \in Chats /\ refused[c] \in Nat /\ refused'[c] \in Nat /\ refused[c] <= refused'[c]
    BY <2>1, JobFields, RefusedSteps DEF LocksInv
  <2>3. read'[s] \in ChatRow
    BY <1>3, SessionsPlaced DEF LocksInv, PlacedOK, ChatPlaced
  <2>4. CASE read'[s] = read[s] /\ pc[s] # "read"
    <3>1. read[s].rapid <= refused[c] /\ read[s].rapid \in Nat
      BY <2>1, <2>3, <2>4 DEF ChatsInv, ChatRow
    <3>2. QED
      BY <2>1, <2>2, <2>4, <3>1
  <2>5. CASE Read(s)
    <3>1. pc[s] = "read" /\ read'[s] = Seen(s, Mine(s)) /\ Mine(s) \in ChatTables
      BY <2>1, <2>5, JobFields, RowNames DEF Read, LocksInv, TypeInv, ChatTyped
    <3>2. read'[s] = db[Chat(c)] /\ Existing(c)
      BY <2>1, <3>1 DEF Seen, Mine, LocksInv, TypeInv, PlacedOK, ChatPlaced
    <3>3. read'[s].rapid <= refused[c] /\ read'[s].rapid \in Nat
      BY <2>2, <2>3, <3>2 DEF ChatsInv, ChatRow
    <3>4. QED
      BY <2>1, <2>2, <3>3
  <2>6. QED
    <3>1. pc[s] = "read" => Read(s)
      <4>1. SUFFICES ASSUME pc[s] = "read" PROVE Read(s)
        OBVIOUS
      <4>2. pc'[s] # pc[s] /\ ~ChatKept(s)
        BY <1>3, <4>1 DEF ChatKept
      <4>3. ChatMove(s)
        BY <4>2, KeptOrMoved DEF LocksInv, Kept
      <4>4. ~Fail(s) /\ ~Leave(s)
        BY <1>3 DEF Fail, Leave, Goto, LocksInv, TypeInv, ChatTyped
      <4>5. QED
        BY <4>1, <4>3, <4>4 DEF ChatMove, Proceed, Idle, Abort, StartSession, NotAvailable, Read, Scold,
           Admit, Reserve, CountUnit, Room, Listen, Merge, Note, Canned, Answer, NoAnswer, Record,
           Meter, WriteProfile, UpsertTokens, Close, Commit
    <3>2. read'[s] = read[s] \/ Read(s)
      BY <1>3, <2>1, JobSteps
    <3>3. QED
      BY <2>4, <2>5, <3>1, <3>2
<1>4. QED
  BY <1>1, <1>2, <1>3, StartsKept DEF ChatsInv

LEMMA ChatsAlways == Spec => []ChatsInv
<1>1. ASSUME Init PROVE ChatsInv
  <2>1. TypeInv
    BY <1>1, TypeInvInitially
  <2>2. /\ \A s \in Sessions, i \in Rows : draft[s][i] = Unwritten
        /\ \A s \in Sessions : pc[s] = "idle"
        /\ refused = [c \in Chats |-> IF Existing(c) THEN db[Chat(c)].rapid ELSE 0]
    BY <1>1 DEF Init, Blank, InitChat
  <2>3. ASSUME NEW c \in Chats, Existing(c) PROVE db[Chat(c)].rapid <= refused[c]
    <3>1. db[Chat(c)].rapid \in Nat /\ refused[c] = db[Chat(c)].rapid
      BY <2>1, <2>2, <2>3, RowNames DEF TypeInv, TablesOK, RowOK, Existing, ChatRow
    <3>2. QED
      BY <3>1
  <2>4. QED
    BY <2>2, <2>3, RowsThereAre DEF ChatsInv, DraftedChat, Starting
<1>2. LocksInv /\ ChatsInv /\ [NextAll]_allVars => ChatsInv'
  BY ChatsKept
<1>3. QED
  BY <1>1, <1>2, LocksAlways, PTL DEF Spec

\* What a chat keeps, whatever happens to it.
LEMMA ChatKeeps ==
    ASSUME LocksInv, ChatsInv, [NextAll]_allVars, NEW c \in Chats, Existing(c)
    PROVE  /\ Existing(c)'
           /\ db[Chat(c)].flagged => db'[Chat(c)].flagged
           /\ db[Chat(c)].answered => db'[Chat(c)].answered
<1>1. db[Chat(c)] # Absent /\ db'[Chat(c)] # Absent
  BY RowNames, ChatsStay DEF LocksInv, Existing
<1>2. CASE db'[Chat(c)] = db[Chat(c)]
  BY <1>1, <1>2 DEF Existing
<1>3. CASE db'[Chat(c)] # db[Chat(c)]
  <2>1. PICK s \in Sessions :
           \/ /\ draft[s][Chat(c)] # Unwritten
              /\ db'[Chat(c)] = draft[s][Chat(c)]
           \/ /\ read[s] \in ChatRow /\ db[Chat(c)] \in ChatRow
              /\ db'[Chat(c)] = Scolded(read[s], db[Chat(c)])
    BY <1>3, ChatRowSteps
  <2>2. CASE draft[s][Chat(c)] # Unwritten /\ db'[Chat(c)] = draft[s][Chat(c)]
    BY <1>1, <2>2 DEF ChatsInv, DraftedChat, Existing
  <2>3. CASE /\ read[s] \in ChatRow /\ db[Chat(c)] \in ChatRow
             /\ db'[Chat(c)] = Scolded(read[s], db[Chat(c)])
    BY <1>1, <2>3, ScoldedRow DEF Existing
  <2>4. QED
    BY <2>1, <2>2, <2>3
<1>4. QED
  BY <1>2, <1>3

\* A flag that refusals have raised on a chat is never lowered, each refusal is counted at
\* most once, and an answered chat stays one, for any number of messages and refusals of the
\* chat at once (_enforce_cooldown, _reply, start_session).
THEOREM FlagAlwaysSticks == Spec => FlagSticks
<1>1. ASSUME LocksInv, ChatsInv, ChatsInv', [NextAll]_allVars, NEW c \in Chats, Existing(c)
      PROVE  /\ db[Chat(c)].flagged => db'[Chat(c)].flagged
             /\ db'[Chat(c)].rapid <= refused'[c]
             /\ db[Chat(c)].answered => db'[Chat(c)].answered
  <2>1. db'[Chat(c)].rapid <= refused'[c]
    BY <1>1, ChatKeeps DEF ChatsInv
  <2>2. QED
    BY <1>1, <2>1, ChatKeeps
<1>2. LocksInv /\ ChatsInv /\ ChatsInv' /\ [NextAll]_allVars =>
         [\A c \in Chats : Existing(c) =>
             /\ db[Chat(c)].flagged => db'[Chat(c)].flagged
             /\ db'[Chat(c)].rapid <= refused'[c]
             /\ db[Chat(c)].answered => db'[Chat(c)].answered]_allVars
  BY <1>1
<1>3. QED
  BY <1>2, LocksAlways, ChatsAlways, PTL DEF Spec, FlagSticks

-----------------------------------------------------------------------------
(***************************************************************************)
(* Limits.  Messages, tokens and chat units are compared with their limits *)
(* when a request comes in and counted when it is answered: what is        *)
(* counted, with the requests under way that have passed the comparison,   *)
(* exceeds the limit by the other sessions at most.                        *)
(***************************************************************************)

\* A message of chat c that nothing but a failure keeps from being counted.
Sent(s, c) ==
    /\ pc[s] \notin {"idle", "read"} /\ Op(s) = "message" /\ job[s].chat = c
    /\ pc[s] \in {"scold", "admit", "room"} => ~read[s].answered

\* An answer that was admitted, and is not tallied yet.
Admitted(s) ==
    /\ pc[s] \in {"reserve", "count", "room", "listen", "merge", "note", "answer", "record", "meter"}
    /\ Op(s) \in {"message", "sections"}

Sending(c) == {s \in Sessions : Sent(s, c)}
Admissions == {s \in Sessions : Admitted(s)}
UnitHolders == {s \in Sessions : unit[s]}

MessageLimit == Larger(MessagesMax, 1) + Cardinality(Sessions) - 1
TokenLimit == Larger(TokensLimit + Cardinality(Sessions) - 1, 0)

LimitsInv ==
    /\ \A c \in Chats : c \notin Answered => messages[c] = 0
    /\ \A s \in Sessions : pc[s] = "commit" /\ Op(s) = "message" =>
          draft[s][Chat(job[s].chat)] # Unwritten
    /\ MessagesMax # Unlimited =>
          \A c \in Chats : messages[c] + Cardinality(Sending(c)) <= MessageLimit
    /\ TokensLimit # Unlimited => tally - ungated + Cardinality(Admissions) <= TokenLimit
    /\ ChatsLimit # Unlimited => Booked <= Larger(ChatsLimit, Cardinality(Answered))

\* A step that only goes on to the next one.
MovesOn(s) ==
    \/ pc[s] \in {"start", "close"} /\ pc'[s] = "commit"
    \/ pc[s] = "reserve" /\ pc'[s] = "count"
    \/ pc[s] = "count" /\ pc'[s] = "listen"
    \/ pc[s] = "listen" /\ pc'[s] \in {"merge", "answer"}
    \/ pc[s] = "merge" /\ pc'[s] = "note"
    \/ pc[s] = "note" /\ pc'[s] = "answer"
    \/ pc[s] = "answer" /\ pc'[s] = "record"
    \/ pc[s] = "answer" /\ Op(s) = "message" /\ pc'[s] \in {"close", "meter"}
    \/ pc[s] = "record" /\ pc'[s] = "meter"
    \/ pc[s] = "tokens" /\ pc'[s] = "upsert"
    \/ pc[s] = "upsert" /\ pc'[s] = AfterTally(s)

\* The steps of a session in a chat, by what they count and compare.
LEMMA ChatPaths ==
    ASSUME LocksInv, NEW s \in Sessions, ChatMove(s)
    PROVE  \/ pc'[s] = "idle" /\ ~Commit(s) /\ UNCHANGED <<messages, tally, ungated>>
           \/ Commit(s) /\ pc'[s] = "idle" /\ UNCHANGED <<tally, ungated>>
           \/ /\ pc[s] = "idle" /\ pc'[s] \in {"start", "read"} /\ UNCHANGED <<messages, tally, ungated>>
           \/ Read(s) /\ job'[s] = job[s] /\ UNCHANGED <<messages, tally, ungated>>
           \/ /\ pc[s] = "admit" /\ Open /\ pc'[s] = AfterAdmit(s)
              /\ job'[s] = job[s] /\ read'[s] = read[s] /\ UNCHANGED <<messages, tally, ungated>>
           \/ /\ pc[s] = "room" /\ HasRoom(messages[job[s].chat]) /\ pc'[s] = "listen"
              /\ job'[s] = job[s] /\ read'[s] = read[s] /\ UNCHANGED <<messages, tally, ungated>>
           \/ Meter(s) /\ pc'[s] = "tokens" /\ job'[s] = job[s] /\ read'[s] = read[s]
           \/ /\ MovesOn(s)
              /\ job'[s] = job[s] /\ read'[s] = read[s] /\ UNCHANGED <<messages, tally, ungated>>
<1> USE DEF Goto
<1>0. /\ pc \in [Sessions -> Steps] /\ read = [o \in Sessions |-> read[o]]
      /\ job = [o \in Sessions |-> job[o]]
  BY DEF LocksInv, TypeInv, ChatTyped
<1>1. ASSUME Fail(s) PROVE pc'[s] = "idle" /\ UNCHANGED <<messages, tally, ungated>>
  BY <1>0, <1>1 DEF Fail, Leave
<1>2. CASE Begin(s)
  BY <1>0, <1>2 DEF Begin
<1>3. CASE Read(s)
  BY <1>3 DEF Read, Quiet
<1>4. CASE Admit(s)
  BY <1>0, <1>1, <1>4 DEF Admit, Quiet, Commit
<1>5. CASE Room(s)
  BY <1>0, <1>1, <1>5 DEF Room, Quiet, Commit
<1>6. CASE Reserve(s)
  <2>1. CASE Fail(s)
    BY <1>1, <1>6, <2>1 DEF Reserve, Commit
  <2>2. CASE ~Fail(s)
    BY <1>0, <1>6, <2>2 DEF Reserve, MovesOn
  <2>3. QED
    BY <2>1, <2>2
<1>7. CASE Meter(s)
  BY <1>0, <1>7 DEF Meter
<1>8. CASE Listen(s) \/ Merge(s) \/ Canned(s) \/ Answer(s)
  <2>1. CASE Listen(s)
    BY <1>0, <2>1 DEF Listen, Quiet, MovesOn
  <2>2. CASE Merge(s)
    BY <1>0, <2>2 DEF Merge, Quiet, MovesOn
  <2>3. CASE Canned(s)
    <3>1. PICK n \in 0..1 : Goto(s, IF n = 0 THEN "close" ELSE "meter")
      BY <2>3 DEF Canned
    <3>2. pc'[s] \in {"close", "meter"}
      BY <1>0, <3>1
    <3>3. QED
      BY <2>3, <3>2 DEF Canned, Quiet, MovesOn
  <2>4. CASE Answer(s)
    BY <1>0, <2>4 DEF Answer, Quiet, MovesOn
  <2>5. QED
    BY <1>8, <2>1, <2>2, <2>3, <2>4
<1>9. CASE StartSession(s) \/ CountUnit(s) \/ Record(s) \/ WriteProfile(s) \/ Close(s)
  <2>1. CASE StartSession(s)
    BY <1>0, <2>1 DEF StartSession, Writes, MovesOn
  <2>2. CASE CountUnit(s)
    BY <1>0, <2>2 DEF CountUnit, Writes, MovesOn
  <2>3. CASE Record(s)
    BY <1>0, <2>3 DEF Record, Writes, MovesOn
  <2>4. CASE WriteProfile(s)
    BY <1>0, <2>4 DEF WriteProfile, Writes, MovesOn
  <2>5. CASE Close(s)
    BY <1>0, <2>5 DEF Close, Writes, MovesOn
  <2>6. QED
    BY <1>9, <2>1, <2>2, <2>3, <2>4, <2>5
<1>10. CASE UpsertTokens(s)
  BY <1>0, <1>10 DEF UpsertTokens, Writes, MovesOn
<1>11. CASE Note(s)
  <2>1. CASE Fail(s)
    BY <1>1, <1>11, <2>1 DEF Note, Commit
  <2>2. CASE ~Fail(s)
    <3>1. \E row \in {Noted(talk[s], heard[s], Seen(s, Talk(job[s].chat))), heard[s]} :
             Writes(s, Talk(job[s].chat), row, "answer") /\ UNCHANGED <<read, talk, roundVars>>
      BY <1>11, <2>2 DEF Note
    <3>2. pc[s] = "note"
      BY <1>11 DEF Note
    <3>3. QED
      BY <1>0, <3>1, <3>2 DEF Writes, MovesOn
  <2>3. QED
    BY <2>1, <2>2
<1>12. CASE NotAvailable(s) \/ NoAnswer(s)
  BY <1>1, <1>12 DEF NotAvailable, NoAnswer, Commit
<1>13. CASE Commit(s)
  BY <1>0, <1>13 DEF Commit, Leave
<1>14. CASE Scold(s)
  BY <1>0, <1>14 DEF Scold, Leave, Commit
<1>15. CASE Abort(s) /\ ~Commit(s)
  BY <1>0, <1>15 DEF Abort, Leave
<1>16. QED
  BY <1>2, <1>3, <1>4, <1>5, <1>6, <1>7, <1>8, <1>9, <1>10, <1>11, <1>12, <1>13, <1>14, <1>15
     DEF ChatMove, Proceed

LEMMA MessageSteps ==
    ASSUME LocksInv, LimitsInv, NEW s \in Sessions, ChatMove(s), NEW c \in Chats
    PROVE  \/ /\ messages'[c] = messages[c]
              /\ Sent(s, c)' => Sent(s, c) \/ messages[c] = 0 \/ HasRoom(messages[c])
           \/ messages'[c] = messages[c] + 1 /\ Sent(s, c) /\ ~Sent(s, c)'
<1>1. pc \in [Sessions -> Steps] /\ read \in [Sessions -> ChatRow \cup {Absent}]
      /\ messages \in [Chats -> Nat]
  BY DEF LocksInv, TypeInv, ChatTyped, WorldTyped, ChatWorldTyped
<1>2. CASE pc'[s] = "idle" /\ UNCHANGED messages
  BY <1>2 DEF Sent
<1>3. CASE Commit(s) /\ pc'[s] = "idle"
  <2>1. pc[s] = "commit"
        /\ messages' = IF Op(s) = "message" THEN [messages EXCEPT ![job[s].chat] = @ + 1]
                       ELSE messages
    BY <1>3 DEF Commit
  <2>2. Op(s) = "message" => job[s].chat \in Chats
    BY <2>1, JobFields DEF LocksInv
  <2>3. ~Sent(s, c)' /\ (Sent(s, c) <=> Op(s) = "message" /\ job[s].chat = c)
    BY <1>3, <2>1 DEF Sent
  <2>4. QED
    BY <1>1, <2>1, <2>2, <2>3
<1>4. CASE pc'[s] \in {"start", "read"} /\ pc[s] = "idle" /\ UNCHANGED messages
  <2>1. pc'[s] = "start" => Op(s)' = "start"
    <3>1. CASE Begin(s)
      BY <1>1, <1>4, <3>1 DEF Begin, Goto, Op, LocksInv, TypeInv, ChatTyped
    <3>2. CASE ~Begin(s)
      BY <1>4, <3>2 DEF ChatMove, Proceed, Abort, StartSession, NotAvailable, Read, Scold, Admit,
         Reserve, CountUnit, Room, Listen, Merge, Note, Canned, Answer, NoAnswer, Record, Meter,
         WriteProfile, UpsertTokens, Close, Commit
    <3>3. QED
      BY <3>1, <3>2
  <2>2. QED
    BY <1>4, <2>1 DEF Sent
<1>5. CASE Read(s) /\ job'[s] = job[s] /\ UNCHANGED messages
  <2>1. SUFFICES ASSUME Sent(s, c)' PROVE messages[c] = 0 \/ Sent(s, c)
    BY <1>5
  <2>2. Op(s) = "message" /\ job[s].chat = c /\ pc[s] = "read"
    BY <1>5, <2>1 DEF Sent, Op, Read
  <2>3. read'[s] = db[Chat(c)]
    <3>1. Chat(c) \in ChatTables
      BY RowNames
    <3>2. Seen(s, Chat(c)) = db[Chat(c)]
      BY <2>2, <3>1 DEF Seen, LocksInv, TypeInv, PlacedOK, ChatPlaced
    <3>3. QED
      BY <1>1, <1>5, <2>2, <3>2 DEF Read, Mine
  <2>4. pc'[s] \in {"scold", "admit"}
    BY <1>1, <1>5, <2>2 DEF Read, AfterRead, Goto
  <2>5. ~db[Chat(c)].answered
    BY <2>1, <2>3, <2>4 DEF Sent
  <2>6. QED
    BY <2>5 DEF LimitsInv, Answered
<1>6. CASE pc[s] = "admit" /\ pc'[s] = AfterAdmit(s) /\ job'[s] = job[s] /\ read'[s] = read[s]
           /\ UNCHANGED messages
  BY <1>6 DEF AfterAdmit, Sent, Op
<1>7. CASE pc[s] = "room" /\ HasRoom(messages[job[s].chat]) /\ job'[s] = job[s]
           /\ UNCHANGED messages
  BY <1>7 DEF Sent, Op
<1>8. CASE Meter(s) /\ job'[s] = job[s]
  BY <1>8 DEF Meter, Sent, Op
<1>9. CASE /\ MovesOn(s)
           /\ job'[s] = job[s] /\ UNCHANGED messages
  <2>1. pc[s] \in {"start", "reserve", "count", "listen", "merge", "note", "answer", "record",
                   "tokens", "upsert", "close"}
    BY <1>9 DEF MovesOn
  <2>2. QED
    BY <1>9, <2>1 DEF MovesOn, Sent, Op
<1>10. QED
  BY <1>2, <1>3, <1>4, <1>5, <1>6, <1>7, <1>8, <1>9, ChatPaths

LEMMA TallySteps ==
    ASSUME LocksInv, NEW s \in Sessions, ChatMove(s)
    PROVE  \/ UNCHANGED <<tally, ungated>> /\ (Admitted(s)' => Admitted(s) \/ Open)
           \/ /\ tally' = tally + cost[s] /\ UNCHANGED ungated
              /\ Admitted(s) /\ ~Admitted(s)'
           \/ tally' = tally + cost[s] /\ ungated' = ungated + cost[s] /\ ~Admitted(s)'
<1>1. CASE pc'[s] \in {"idle", "start", "read"} /\ UNCHANGED <<tally, ungated>>
  BY <1>1 DEF Admitted
<1>2. CASE Read(s) /\ job'[s] = job[s] /\ UNCHANGED <<tally, ungated>>
  <2>1. pc'[s] = AfterRead(s)
    BY <1>2 DEF Read, Goto, LocksInv, TypeInv, ChatTyped
  <2>2. QED
    BY <1>2, <2>1 DEF AfterRead, Admitted, Op
<1>3. CASE Open /\ UNCHANGED <<tally, ungated>>
  BY <1>3
<1>4. CASE pc[s] = "room" /\ pc'[s] = "listen" /\ job'[s] = job[s] /\ UNCHANGED <<tally, ungated>>
  BY <1>4 DEF Admitted, Op
<1>5. CASE Meter(s) /\ pc'[s] = "tokens"
  <2>1. pc[s] = "meter" /\ Op(s) \in {"message", "sections", "parse"}
    BY <1>5, JobFields DEF Meter, LocksInv, TypeInv, PlacedOK, ChatPlaced, OpAt, Operations
  <2>2. QED
    BY <1>5, <2>1 DEF Meter, Admitted
<1>6. CASE /\ MovesOn(s)
           /\ job'[s] = job[s] /\ UNCHANGED <<tally, ungated>>
  BY <1>6 DEF MovesOn, Admitted, AfterTally, Op
<1>7. QED
  BY <1>1, <1>2, <1>3, <1>4, <1>5, <1>6, ChatPaths

LEMMA ChatUnitSteps ==
    ASSUME LocksInv, NEW s \in Sessions, ChatMove(s)
    PROVE  \/ unit'[s] = unit[s] /\ UNCHANGED <<spent, burned>>
           \/ /\ ~unit[s] /\ unit'[s] /\ pc[s] = "reserve" /\ UNCHANGED <<spent, burned>>
              /\ ChatsLimit # Unlimited => ~(Booked >= ChatsLimit)
           \/ ~unit'[s] /\ UNCHANGED <<spent, burned>>
           \/ unit[s] /\ ~unit'[s] /\ spent' = spent + 1 /\ UNCHANGED burned
           \/ unit[s] /\ ~unit'[s] /\ burned' = burned + 1 /\ UNCHANGED spent
<1>0. unit \in [Sessions -> BOOLEAN]
  BY DEF LocksInv, TypeInv, ChatTyped
<1>1. ASSUME Leave(s) PROVE ~unit'[s]
  BY <1>0, <1>1 DEF Leave
<1>2. CASE Fail(s)
  BY <1>1, <1>2 DEF Fail
<1>3. CASE Reserve(s) /\ ~Fail(s)
  <2>1. unit' = [unit EXCEPT ![s] = TRUE] /\ UNCHANGED <<spent, burned>> /\ pc[s] = "reserve"
        /\ (ChatsLimit # Unlimited => ~(Booked >= ChatsLimit))
    BY <1>3 DEF Reserve
  <2>2. QED
    BY <1>0, <2>1
<1>4. CASE Begin(s)
  BY <1>4 DEF Begin, unitVars
<1>5. CASE (Read(s) \/ Merge(s) \/ Listen(s) \/ Canned(s) \/ Answer(s) \/ Meter(s)) /\ ~Fail(s)
  BY <1>5 DEF Read, Merge, Listen, Canned, Answer, Meter, Quiet, unitVars
<1>6. CASE (Admit(s) \/ Room(s) \/ Note(s) \/ NotAvailable(s) \/ NoAnswer(s)) /\ ~Fail(s)
  BY <1>6 DEF Admit, Room, Note, NotAvailable, NoAnswer, Quiet, Writes, unitVars
<1>7. CASE StartSession(s) \/ CountUnit(s) \/ Record(s) \/ WriteProfile(s) \/ UpsertTokens(s)
           \/ Close(s)
  BY <1>7 DEF StartSession, CountUnit, Record, WriteProfile, UpsertTokens, Close, Writes, unitVars
<1>8. CASE Commit(s) \/ Abort(s) \/ Scold(s)
  BY <1>0, <1>1, <1>8 DEF Commit, Abort, Scold
<1>9. QED
  BY <1>2, <1>3, <1>4, <1>5, <1>6, <1>7, <1>8 DEF ChatMove, Proceed

\* What counts messages, tokens and units, for every other step of the system.
LEMMA CountsStay ==
    ASSUME LocksInv, [NextAll]_allVars
    PROVE  \/ \E s \in Sessions : ChatMove(s)
           \/ UNCHANGED <<messages, tally, ungated, pc, job, read, unit, spent, burned>>
<1> DEFINE P == \/ \E s \in Sessions : ChatMove(s)
                \/ UNCHANGED <<messages, tally, ungated, pc, job, read, unit, spent, burned>>
<1>1. ASSUME NEW s \in Sessions, ChatMove(s) PROVE P
  BY <1>1
<1>2. ASSUME UNCHANGED chatVars PROVE P
  BY <1>2 DEF chatVars, jobVars, unitVars
<1>3. ASSUME SetPreference \/ ChangeCatalogue \/ ChangePlan \/ TimePasses PROVE P
  BY <1>3 DEF SetPreference, ChangeCatalogue, ChangePlan, TimePasses, jobVars, unitVars
<1> HIDE DEF P
<1>4. P
  BY NextCases, <1>1, <1>2, <1>3 DEF allVars
<1>5. QED
  BY <1>4 DEF P

\* A message that is about to be committed has written its chat.
LEMMA CommitDrafted ==
    ASSUME LocksInv, LimitsInv, [NextAll]_allVars, NEW s \in Sessions,
           pc'[s] = "commit", Op(s)' = "message"
    PROVE  draft'[s][Chat(job'[s].chat)] # Unwritten
<1>1. CASE Kept(s)
  <2>1. pc[s] = "commit" /\ job'[s] = job[s] /\ draft'[s] = draft[s] /\ Op(s) = "message"
    BY <1>1 DEF Kept, ChatKept, Op
  <2>2. QED
    BY <2>1 DEF LimitsInv
<1>2. CASE MeetMove(s) /\ ChatKept(s)
  BY <1>2, OneThingAtATime DEF ChatKept, LocksInv
<1>3. CASE ChatMove(s)
  <2>1. Op(s) = "message" => pc[s] # "start"
    BY DEF LocksInv, TypeInv, PlacedOK, ChatPlaced, OpAt
  <2>2. ~Read(s)
    BY DEF Read, AfterRead, Goto, LocksInv, TypeInv, ChatTyped
  <2>3. pc[s] = "close" /\ job'[s] = job[s]
    BY <1>3, <2>1, <2>2, ChatPaths DEF MovesOn, AfterTally, AfterAdmit, Op
  <2>4. ~Leave(s)
    BY DEF Leave, Goto, LocksInv, TypeInv, ChatTyped
  <2>5. Close(s)
    BY <1>3, <2>3, <2>4 DEF ChatMove, Proceed, Idle, Abort, StartSession, NotAvailable, Read, Scold,
       Admit, Reserve, CountUnit, Room, Listen, Merge, Note, Canned, Answer, NoAnswer, Record,
       Meter, WriteProfile, UpsertTokens, Commit, Fail
  <2> DEFINE row == Replied(read[s], Seen(s, Mine(s)))
  <2>6. Write(s, Mine(s), row) /\ ChatWrite(s, Mine(s), row)
    BY <2>3, <2>5 DEF Close, Writes, ChatWrite
  <2>7. Mine(s) \in Rows /\ Mine(s) \in ChatRows /\ Existing(job[s].chat)
    <3>1. Op(s) = "message"
      BY <2>3 DEF Op
    <3>2. QED
      BY <2>3, <3>1, JobFields, RowNames DEF LocksInv, TypeInv, PlacedOK, ChatPlaced
  <2>8. draft'[s][Mine(s)] = row
    BY <2>6, <2>7, OwnWrite DEF LocksInv
  <2>9. row # Unwritten
    <3>1. Seen(s, Mine(s)) \in ChatRow
      BY <2>7, SeenType, RowNames DEF LocksInv, TypeInv, RowOK, Existing, Mine
    <3>2. read[s] \in ChatRow /\ Unwritten \notin ChatRow
      BY <2>3, ChatAssumption DEF LocksInv, TypeInv, PlacedOK, ChatPlaced, Op
    <3>3. QED
      BY <3>1, <3>2, RepliedRow
  <2>10. QED
    BY <2>3, <2>8, <2>9 DEF Mine
<1>4. QED
  BY <1>1, <1>2, <1>3, KeptOrMoved DEF LocksInv

\* Only an answered chat has messages.
LEMMA AnsweredCounts ==
    ASSUME LocksInv, ChatsInv, LimitsInv, [NextAll]_allVars, NEW c \in Chats, c \notin Answered'
    PROVE  messages'[c] = 0
<1>1. c \notin Answered
  BY ChatKeeps DEF Answered
<1>2. messages[c] = 0 /\ messages \in [Chats -> Nat]
  BY <1>1 DEF LimitsInv, LocksInv, TypeInv, WorldTyped, ChatWorldTyped
<1>3. CASE messages'[c] = messages[c]
  BY <1>2, <1>3
<1>4. CASE messages'[c] # messages[c]
  <2>1. PICK s \in Sessions : ChatMove(s)
    BY <1>4, CountsStay
  <2>2. Commit(s)
    BY <1>4, <2>1, ChatPaths DEF Meter
  <2>3. Op(s) = "message" /\ pc[s] = "commit" /\ job[s].chat = c
    BY <1>2, <1>4, <2>2 DEF Commit
  <2>4. draft[s][Chat(c)] # Unwritten
    BY <2>3 DEF LimitsInv
  <2>5. Existing(c) /\ draft[s][Chat(c)].answered
    BY <2>3, <2>4 DEF ChatsInv, DraftedChat
  <2>6. db'[Chat(c)] = draft[s][Chat(c)]
    BY <2>2, <2>4, RowsThereAre DEF Commit, CommitRows, Seen
  <2>7. Existing(c)'
    BY <2>5, ChatKeeps
  <2>8. QED
    BY <1>4, <2>5, <2>6, <2>7 DEF Answered
<1>5. QED
  BY <1>3, <1>4

\* What others do not do to the counts of a session, and what a set of sessions can count.
LEMMA MovesOne ==
    ASSUME LocksInv, NEW s \in Sessions, ChatMove(s)
    PROVE  /\ \A c \in Chats : Sending(c) \ {s} = Sending(c)' \ {s}
           /\ Admissions \ {s} = Admissions' \ {s}
           /\ UnitHolders \ {s} = UnitHolders' \ {s}
<1>1. \A o \in Sessions \ {s} : /\ pc'[o] = pc[o] /\ job'[o] = job[o] /\ read'[o] = read[o]
                                /\ unit'[o] = unit[o]
  BY OthersKeptInChat DEF ChatKept, LocksInv
<1>2. \A o \in Sessions \ {s} : /\ \A c \in Chats : Sent(o, c)' <=> Sent(o, c)
                                /\ Admitted(o)' <=> Admitted(o)
  BY <1>1 DEF Sent, Admitted, Op
<1>3. QED
  BY <1>1, <1>2 DEF Sending, Admissions, UnitHolders

LEMMA SomeSessions ==
    ASSUME NEW S \in SUBSET Sessions
    PROVE  /\ IsFiniteSet(S) /\ Cardinality(S) \in Nat /\ Cardinality(Sessions) \in Nat
           /\ Cardinality(S) <= Cardinality(Sessions)
           /\ Cardinality(Sessions) >= 1
<1>1. IsFiniteSet(Sessions) /\ Cardinality(Sessions) \in Nat /\ Cardinality(Sessions) # 0
  BY FS_CardinalityType, FS_EmptySet, ChatAssumption
<1>2. QED
  BY <1>1, FS_Subset, FS_CardinalityType

LEMMA LargerIs ==
    ASSUME NEW m \in Int, NEW n \in Int
    PROVE  Larger(m, n) \in Int /\ Larger(m, n) >= m /\ Larger(m, n) >= n
BY DEF Larger

LEMMA MessagesLimited ==
    ASSUME LocksInv, LimitsInv, [NextAll]_allVars, NEW c \in Chats, MessagesMax # Unlimited
    PROVE  messages'[c] + Cardinality(Sending(c))' <= MessageLimit
<1> DEFINE T == Sending(c)
           n == Cardinality(T)
           N == Cardinality(Sessions)
           L == Larger(MessagesMax, 1)
<1>1. /\ IsFiniteSet(T) /\ n \in Nat /\ N \in Nat /\ n <= N /\ n' \in Nat /\ n' <= N /\ N >= 1
  <2>1. T \in SUBSET Sessions /\ T' \in SUBSET Sessions
    BY DEF Sending
  <2>2. QED
    BY <2>1, SomeSessions
<1>2. /\ MessagesMax \in Nat /\ L \in Int /\ L >= MessagesMax /\ L >= 1
      /\ messages[c] \in Nat /\ messages[c] + n <= L + N - 1
  BY LargerIs, ChatAssumption
     DEF LocksInv, TypeInv, WorldTyped, ChatWorldTyped, LimitsInv, MessageLimit, Unlimited
<1>3. messages'[c] + n' <= L + N - 1
  <2>1. CASE UNCHANGED <<messages, pc, job, read>>
    <3>1. n' = n
      BY <2>1 DEF Sending, Sent, Op
    <3>2. QED
      BY <1>2, <2>1, <3>1
  <2>2. ASSUME NEW s \in Sessions, ChatMove(s) PROVE messages'[c] + n' <= L + N - 1
    <3>1. T \ {s} = T' \ {s}
      BY <2>2, MovesOne
    <3>2. /\ s \in T <=> Sent(s, c)
          /\ s \in T' <=> Sent(s, c)'
      BY DEF Sending
    <3>3. /\ (s \in T <=> s \in T') => n' = n
          /\ s \in T /\ s \notin T' => n' = n - 1
      BY <1>1, <3>1, OneElement
    <3>4. \/ /\ messages'[c] = messages[c]
             /\ s \in T' => s \in T \/ messages[c] = 0 \/ messages[c] < MessagesMax
          \/ messages'[c] = messages[c] + 1 /\ s \in T /\ s \notin T'
      BY <2>2, <3>2, MessageSteps DEF HasRoom
    <3> HIDE DEF n, N, L, T
    <3>5. QED
      BY <1>1, <1>2, <3>3, <3>4
  <2>3. QED
    BY <2>1, <2>2, CountsStay
<1>4. QED
  BY <1>3 DEF MessageLimit

LEMMA TallyLimited ==
    ASSUME LocksInv, LimitsInv, [NextAll]_allVars, TokensLimit # Unlimited
    PROVE  tally' - ungated' + Cardinality(Admissions)' <= TokenLimit
<1> DEFINE n == Cardinality(Admissions)
           N == Cardinality(Sessions)
           L == Larger(TokensLimit + N - 1, 0)
<1>1. /\ IsFiniteSet(Admissions) /\ n \in Nat /\ N \in Nat /\ n <= N /\ n' \in Nat /\ n' <= N /\ N >= 1
  <2>1. Admissions \in SUBSET Sessions /\ Admissions' \in SUBSET Sessions
    BY DEF Admissions
  <2>2. QED
    BY <2>1, SomeSessions
<1>2. TokensLimit \in Nat /\ tally \in Nat /\ ungated \in Nat /\ tally - ungated + n <= L
  BY ChatAssumption DEF LocksInv, TypeInv, WorldTyped, ChatWorldTyped, LimitsInv, TokenLimit, Unlimited
<1>3. L \in Int /\ L >= TokensLimit + N - 1
  <2>1. ASSUME NEW M \in Nat
        PROVE  LET K == Larger(TokensLimit + M - 1, 0) IN K \in Int /\ K >= TokensLimit + M - 1
    <3>1. TokensLimit + M - 1 \in Int /\ 0 \in Int
      BY <1>2
    <3>2. QED
      BY <3>1, LargerIs
  <2>2. QED
    BY <1>1, <2>1
<1>4. tally' - ungated' + n' <= L
  <2>1. CASE UNCHANGED <<tally, ungated, pc, job>>
    <3>1. n' = n
      BY <2>1 DEF Admissions, Admitted, Op
    <3>2. QED
      BY <1>2, <2>1, <3>1
  <2>2. ASSUME NEW s \in Sessions, ChatMove(s) PROVE tally' - ungated' + n' <= L
    <3>1. Admissions \ {s} = Admissions' \ {s}
      BY <2>2, MovesOne
    <3>2. /\ s \in Admissions <=> Admitted(s)
          /\ s \in Admissions' <=> Admitted(s)'
      BY DEF Admissions
    <3>3. /\ (s \in Admissions <=> s \in Admissions') => n' = n
          /\ s \in Admissions /\ s \notin Admissions' => n' = n - 1
      BY <1>1, <3>1, OneElement
    <3>4. \/ /\ UNCHANGED <<tally, ungated>>
             /\ s \in Admissions' => s \in Admissions \/ tally < TokensLimit
          \/ /\ tally' = tally + cost[s] /\ ungated' = ungated
             /\ s \in Admissions /\ s \notin Admissions'
          \/ tally' = tally + cost[s] /\ ungated' = ungated + cost[s] /\ s \notin Admissions'
      BY <2>2, <3>2, TallySteps DEF Open
    <3>5. cost[s] \in 0..1
      BY DEF LocksInv, TypeInv, ChatTyped
    <3> HIDE DEF n, N, L
    <3>6. QED
      BY <1>1, <1>2, <1>3, <3>3, <3>4, <3>5
  <2>3. QED
    BY <2>1, <2>2, CountsStay
<1>5. QED
  BY <1>4 DEF TokenLimit

LEMMA BookedLimited ==
    ASSUME LocksInv, ChatsInv, LimitsInv, [NextAll]_allVars, ChatsLimit # Unlimited
    PROVE  Booked' <= Larger(ChatsLimit, Cardinality(Answered)')
<1> DEFINE n == Cardinality(UnitHolders)
           a == Cardinality(Answered)
<1>1. IsFiniteSet(UnitHolders) /\ n \in Nat /\ n' \in Nat
  <2>1. UnitHolders \in SUBSET Sessions /\ UnitHolders' \in SUBSET Sessions
    BY DEF UnitHolders
  <2>2. QED
    BY <2>1, SomeSessions
<1>2. a \in Nat /\ a' \in Nat /\ a <= a'
  <2>1. Answered \subseteq Answered' /\ Answered' \subseteq Chats /\ IsFiniteSet(Answered')
    BY ChatKeeps, ChatAssumption, FS_Subset DEF Answered
  <2>2. QED
    BY <2>1, FS_Subset, FS_CardinalityType
<1>3. /\ ChatsLimit \in Nat /\ spent \in Nat /\ burned \in Nat
      /\ Booked = spent + burned + n /\ Booked' = spent' + burned' + n'
      /\ spent + burned + n <= Larger(ChatsLimit, a)
  BY ChatAssumption DEF LocksInv, TypeInv, WorldTyped, ChatWorldTyped, LimitsInv, Unlimited,
                        Booked, UnitHolders
<1>4. spent' + burned' + n' <= ChatsLimit \/ spent' + burned' + n' <= spent + burned + n
  <2>1. CASE UNCHANGED <<unit, spent, burned>>
    <3>1. n' = n
      BY <2>1 DEF UnitHolders
    <3>2. QED
      BY <1>1, <1>3, <2>1, <3>1
  <2>2. ASSUME NEW s \in Sessions, ChatMove(s)
        PROVE  spent' + burned' + n' <= ChatsLimit \/ spent' + burned' + n' <= spent + burned + n
    <3>1. UnitHolders \ {s} = UnitHolders' \ {s}
      BY <2>2, MovesOne
    <3>2. /\ s \in UnitHolders <=> unit[s]
          /\ s \in UnitHolders' <=> unit'[s]
      BY DEF UnitHolders
    <3>3. /\ (s \in UnitHolders <=> s \in UnitHolders') => n' = n
          /\ s \in UnitHolders /\ s \notin UnitHolders' => n' = n - 1
          /\ s \notin UnitHolders /\ s \in UnitHolders' => n' = n + 1
      BY <1>1, <3>1, OneElement
    <3>4. \/ (s \in UnitHolders <=> s \in UnitHolders') /\ UNCHANGED <<spent, burned>>
          \/ /\ s \notin UnitHolders /\ s \in UnitHolders' /\ UNCHANGED <<spent, burned>>
             /\ ~(spent + burned + n >= ChatsLimit)
          \/ s \notin UnitHolders' /\ UNCHANGED <<spent, burned>>
          \/ s \in UnitHolders /\ s \notin UnitHolders' /\ spent' = spent + 1 /\ UNCHANGED burned
          \/ s \in UnitHolders /\ s \notin UnitHolders' /\ burned' = burned + 1 /\ UNCHANGED spent
      BY <1>3, <2>2, <3>2, ChatUnitSteps
    <3> HIDE DEF n, a
    <3>5. QED
      BY <1>1, <1>3, <3>3, <3>4
  <2>3. QED
    BY <2>1, <2>2, CountsStay
<1> HIDE DEF n, a
<1>5. spent' + burned' + n' <= Larger(ChatsLimit, a')
  <2>1. CASE spent' + burned' + n' <= ChatsLimit
    BY <1>2, <1>3, <2>1 DEF Larger
  <2>2. CASE ~(spent' + burned' + n' <= ChatsLimit)
    BY <1>1, <1>2, <1>3, <1>4, <2>2 DEF Larger
  <2>3. QED
    BY <2>1, <2>2
<1>6. QED
  BY <1>3, <1>5 DEF a

LEMMA LimitsKept ==
    ASSUME LocksInv, ChatsInv, LimitsInv, [NextAll]_allVars
    PROVE  LimitsInv'
<1>1. \A c \in Chats : c \notin Answered' => messages'[c] = 0
  BY AnsweredCounts
<1>2. \A s \in Sessions : pc'[s] = "commit" /\ Op(s)' = "message" =>
         draft'[s][Chat(job'[s].chat)] # Unwritten
  BY CommitDrafted
<1>3. MessagesMax # Unlimited =>
         \A c \in Chats : messages'[c] + Cardinality(Sending(c))' <= MessageLimit
  BY MessagesLimited
<1>4. TokensLimit # Unlimited => tally' - ungated' + Cardinality(Admissions)' <= TokenLimit
  BY TallyLimited
<1>5. ChatsLimit # Unlimited => Booked' <= Larger(ChatsLimit, Cardinality(Answered)')
  BY BookedLimited
<1>6. QED
  BY <1>1, <1>2, <1>3, <1>4, <1>5 DEF LimitsInv, MessageLimit, TokenLimit

LEMMA LimitsInitially == Init => LimitsInv
<1> SUFFICES ASSUME Init PROVE LimitsInv
  OBVIOUS
<1>1. /\ \A s \in Sessions : pc[s] = "idle" /\ unit[s] = FALSE
      /\ messages = [c \in Chats |-> IF c \in Answered THEN 1 ELSE 0]
      /\ tally = 0 /\ ungated = 0 /\ burned = 0 /\ spent = Cardinality(Answered)
  BY DEF Init, InitChat
<1>2. /\ \A c \in Chats : Sending(c) = {}
      /\ Admissions = {} /\ {s \in Sessions : unit[s]} = {}
  BY <1>1 DEF Sending, Sent, Admissions, Admitted
<1>3. Cardinality({}) = 0 /\ Cardinality(Sessions) \in Nat /\ Cardinality(Sessions) >= 1
  BY FS_EmptySet, SomeSessions
<1>4. Cardinality(Answered) \in Nat
  BY FS_Subset, FS_CardinalityType, ChatAssumption DEF Answered
<1>5. ASSUME NEW c \in Chats, MessagesMax # Unlimited
      PROVE  messages[c] + Cardinality(Sending(c)) <= MessageLimit
  <2>1. messages[c] \in 0..1 /\ Cardinality(Sending(c)) = 0
    BY <1>1, <1>2, <1>3, <1>5
  <2>2. Larger(MessagesMax, 1) \in Int /\ Larger(MessagesMax, 1) >= 1
    <3>1. \A m \in Int : Larger(m, 1) \in Int /\ Larger(m, 1) >= 1
      BY LargerIs
    <3>2. QED
      BY <1>5, <3>1, ChatAssumption DEF Unlimited
  <2>3. QED
    BY <1>3, <2>1, <2>2 DEF MessageLimit
<1>6. ASSUME TokensLimit # Unlimited
      PROVE  tally - ungated + Cardinality(Admissions) <= TokenLimit
  <2>1. \A m \in Int : Larger(m, 0) \in Int /\ Larger(m, 0) >= 0
    BY LargerIs
  <2>2. TokensLimit + Cardinality(Sessions) - 1 \in Int
    BY <1>3, <1>6, ChatAssumption DEF Unlimited
  <2>3. QED
    BY <1>1, <1>2, <1>3, <2>1, <2>2 DEF TokenLimit
<1>7. ASSUME ChatsLimit # Unlimited PROVE Booked <= Larger(ChatsLimit, Cardinality(Answered))
  <2>1. Booked = Cardinality(Answered) + 0 + 0
    BY <1>1, <1>2, <1>3 DEF Booked
  <2>2. QED
    BY <1>4, <1>7, <2>1, LargerIs, ChatAssumption DEF Unlimited
<1>8. QED
  BY <1>1, <1>5, <1>6, <1>7 DEF LimitsInv

\* What was compared with the limits when it came in and counted when it was answered exceeds
\* them by what the other sessions had under way at most, and the chat units not at all, for
\* any number of sessions, chats and any limits (_ensure_session_room, ensure_open, consume).
THEOREM SoftLimitsAlwaysHold == Spec => []SoftLimitsHold
<1>1. LocksInv /\ ChatsInv /\ LimitsInv /\ [NextAll]_allVars => LimitsInv'
  BY LimitsKept
<1>2. LocksInv /\ LimitsInv => SoftLimitsHold
  <2>1. SUFFICES ASSUME LocksInv, LimitsInv PROVE SoftLimitsHold
    OBVIOUS
  <2>2. /\ \A c \in Chats : Cardinality(Sending(c)) \in Nat
        /\ Cardinality(Admissions) \in Nat /\ Cardinality(Sessions) \in Nat
    BY SomeSessions DEF Sending, Admissions
  <2>3. messages \in [Chats -> Nat] /\ tally \in Nat /\ ungated \in Nat
    BY <2>1 DEF LocksInv, TypeInv, WorldTyped, ChatWorldTyped
  <2>4. ASSUME MessagesMax # Unlimited, NEW c \in Chats PROVE messages[c] <= MessageLimit
    <3>1. Larger(MessagesMax, 1) \in Int
      BY <2>4, LargerIs, ChatAssumption DEF Unlimited
    <3>2. MessageLimit \in Int
      BY <2>2, <3>1 DEF MessageLimit
    <3>3. messages[c] + Cardinality(Sending(c)) <= MessageLimit
      BY <2>1, <2>4 DEF LimitsInv
    <3>4. QED
      BY <2>2, <2>3, <3>2, <3>3
  <2>5. ASSUME TokensLimit # Unlimited PROVE tally - ungated <= TokenLimit
    <3>1. TokensLimit + Cardinality(Sessions) - 1 \in Int
      BY <2>2, <2>5, ChatAssumption DEF Unlimited
    <3>2. TokenLimit \in Int
      BY <3>1, LargerIs DEF TokenLimit
    <3>3. tally - ungated + Cardinality(Admissions) <= TokenLimit
      BY <2>1, <2>5 DEF LimitsInv
    <3>4. QED
      BY <2>2, <2>3, <3>2, <3>3
  <2>6. QED
    BY <2>1, <2>4, <2>5 DEF SoftLimitsHold, LimitsInv, MessageLimit, TokenLimit
<1>3. QED
  BY <1>1, <1>2, LimitsInitially, LocksAlways, ChatsAlways, PTL DEF Spec

-----------------------------------------------------------------------------
(***************************************************************************)
(* Overlaps.  What a request writes is what it read, changed: the tokens   *)
(* it adds to the profile are those it adds to the tally, and what it      *)
(* notes of a recruiter starts from what it knew.                          *)
(***************************************************************************)

\* The call that s has tallied in Redis and not in the table yet.
Untallied(s) == IF pc[s] \in {"tokens", "upsert"} THEN cost[s] ELSE 0

UnitsForNewChats(s) ==
    /\ pc[s] = "reserve" => ~read[s].answered
    /\ unit[s] => Op(s) = "message" /\ ~read[s].answered /\ pc[s] # "idle"

TalliedOnce(s) ==
    /\ draft[s][Profile] # Unwritten /\ pc[s] # "tokens" =>
          draft[s][Profile] = base[s] + gained[s]
    /\ draft[s][Tokens] # Unwritten =>
          draft[s][Tokens] + Untallied(s) = db[Tokens] + gained[s]
    /\ draft[s][Tokens] = Unwritten => gained[s] = Untallied(s)

NotesWhatItKnew(s) ==
    \A c \in Chats : draft[s][Talk(c)] # Unwritten /\ talk[s] # Absent =>
        draft[s][Talk(c)] = Noted(talk[s], heard[s], db[Talk(c)])

OverlapInv == \A s \in Sessions : UnitsForNewChats(s) /\ TalliedOnce(s) /\ NotesWhatItKnew(s)

Remembers == UNCHANGED <<talk, heard, base, gained, cost>>

\* The steps of a session in a chat, by what they remember and write.
LEMMA ChatChanges ==
    ASSUME LocksInv, NEW s \in Sessions, ChatMove(s)
    PROVE  \/ Leave(s)
           \/ Begin(s) \/ Read(s) \/ Listen(s) \/ Merge(s) \/ Canned(s) \/ Answer(s) \/ Meter(s)
           \/ /\ pc[s] \in {"admit", "reserve", "room"} /\ UNCHANGED tableVars /\ Remembers
              /\ pc'[s] \in {"answer", "room", "reserve", "count", "listen"}
           \/ /\ \E i \in Rows : \E row : Write(s, i, row) /\ ChatWrite(s, i, row)
              /\ UNCHANGED db /\ Remembers
<1> DEFINE W == /\ \E i \in Rows : \E row : Write(s, i, row) /\ ChatWrite(s, i, row)
                /\ UNCHANGED db /\ Remembers
<1>0. pc \in [Sessions -> Steps]
  BY DEF LocksInv, TypeInv, ChatTyped
<1>1. ASSUME NEW i, NEW row, NEW next, Writes(s, i, row, next), ChatWrite(s, i, row), Remembers PROVE W
  BY <1>1, ChatWritten DEF Writes, LocksInv
<1>2. CASE StartSession(s) \/ CountUnit(s) \/ Record(s) \/ WriteProfile(s) \/ Close(s)
  <2>1. Remembers
    BY <1>2 DEF StartSession, CountUnit, Record, WriteProfile, Close, Remembers, roundVars
  <2>2. CASE StartSession(s)
    BY <1>0, <1>1, <2>1, <2>2 DEF StartSession, ChatWrite, Writes, Goto
  <2>3. CASE CountUnit(s)
    BY <1>0, <1>1, <2>1, <2>3 DEF CountUnit, ChatWrite, Writes, Goto
  <2>4. CASE Record(s)
    BY <1>0, <1>1, <2>1, <2>4 DEF Record, ChatWrite, Writes, Goto
  <2>5. CASE WriteProfile(s)
    BY <1>0, <1>1, <2>1, <2>5 DEF WriteProfile, ChatWrite, Writes, Goto
  <2>6. CASE Close(s)
    BY <1>0, <1>1, <2>1, <2>6 DEF Close, ChatWrite, Writes, Goto
  <2>7. QED
    BY <1>2, <2>2, <2>3, <2>4, <2>5, <2>6
<1>3. CASE UpsertTokens(s)
  <2>1. Remembers
    BY <1>3 DEF UpsertTokens, Remembers
  <2>2. QED
    BY <1>0, <1>1, <1>3, <2>1 DEF UpsertTokens, ChatWrite, Writes, Goto
<1>4. CASE Note(s) /\ ~Fail(s)
  <2>1. Remembers
    BY <1>4 DEF Note, Remembers, roundVars
  <2> DEFINE i == Talk(job[s].chat)
  <2>2. PICK row : /\ Writes(s, i, row, "answer")
                   /\ \/ talk[s] # Absent /\ row = Noted(talk[s], heard[s], Seen(s, i))
                      \/ talk[s] = Absent /\ db[i] = Absent /\ row = heard[s]
    BY <1>4 DEF Note
  <2>3. ChatWrite(s, i, row)
    BY <1>0, <1>4, <2>2 DEF Note, ChatWrite, Writes, Goto
  <2>4. QED
    BY <1>1, <2>1, <2>2, <2>3
<1>5. CASE (Admit(s) \/ Room(s)) /\ ~Fail(s)
  BY <1>0, <1>5 DEF Admit, AfterAdmit, Room, Quiet, Goto, Remembers, roundVars
<1>6. CASE Reserve(s) /\ ~Fail(s)
  BY <1>0, <1>6 DEF Reserve, Goto, Remembers, roundVars
<1>7. CASE Fail(s) \/ Scold(s) \/ Commit(s) \/ Abort(s) \/ NotAvailable(s) \/ NoAnswer(s)
  BY <1>7 DEF Fail, Scold, Commit, Abort, NotAvailable, NoAnswer
<1>8. QED
  BY <1>2, <1>3, <1>4, <1>5, <1>6, <1>7 DEF ChatMove, Proceed

\* A session whose transaction is over has written nothing.
LEMMA NothingDrafted ==
    ASSUME LocksInv, [NextAll]_allVars, NEW s \in Sessions, pc'[s] = "idle"
    PROVE  ~unit'[s] /\ \A i \in ChatTables : draft'[s][i] = Unwritten
BY SessionsPlaced DEF LocksInv, PlacedOK, ChatPlaced

LEMMA UnitsForNewKept ==
    ASSUME LocksInv, OverlapInv, [NextAll]_allVars, NEW s \in Sessions
    PROVE  UnitsForNewChats(s)'
<1>0. UnitsForNewChats(s) /\ (unit[s] \/ pc[s] = "reserve" => pc[s] \notin {"idle", "start", "read"})
  BY DEF OverlapInv, LocksInv, TypeInv, PlacedOK, ChatPlaced
<1>1. CASE ChatKept(s)
  BY <1>0, <1>1 DEF UnitsForNewChats, ChatKept, Op
<1>2. CASE ChatMove(s)
  <2>1. ASSUME pc'[s] = "reserve" PROVE ~read'[s].answered
    <3>1. ~Read(s) /\ ~Meter(s)
      BY <2>1 DEF Read, AfterRead, Meter, Goto, LocksInv, TypeInv, ChatTyped
    <3>2. pc[s] = "admit" /\ pc'[s] = AfterAdmit(s) /\ read'[s] = read[s]
      BY <1>2, <2>1, <3>1, ChatPaths DEF MovesOn, AfterTally
    <3>3. QED
      BY <2>1, <3>2 DEF AfterAdmit
  <2>2. ASSUME unit'[s] PROVE Op(s)' = "message" /\ ~read'[s].answered /\ pc'[s] # "idle"
    <3>1. pc'[s] # "idle"
      BY <2>2, NothingDrafted
    <3>2. unit[s] \/ pc[s] = "reserve"
      BY <1>2, <2>2, ChatUnitSteps
    <3>3. Op(s) = "message" /\ ~read[s].answered /\ pc[s] \notin {"idle", "start", "read"}
      BY <1>0, <3>2 DEF UnitsForNewChats, LocksInv, TypeInv, PlacedOK, ChatPlaced, OpAt
    <3>4. job'[s] = job[s] /\ read'[s] = read[s]
      BY <3>1, <3>3, JobSteps DEF Read
    <3>5. QED
      BY <3>1, <3>3, <3>4 DEF Op
  <2>3. QED
    BY <2>1, <2>2 DEF UnitsForNewChats
<1>3. QED
  BY <1>1, <1>2, KeptOrMoved DEF LocksInv, Kept

\* A session that does nothing keeps its rows, and so do they keep what they were made from.
LEMMA KeptDrafts ==
    ASSUME LocksInv, [NextAll]_allVars, NEW s \in Sessions, ~ChatMove(s), NEW i \in ChatTables
    PROVE  /\ ChatKept(s) /\ draft'[s][i] = draft[s][i]
           /\ draft[s][i] # Unwritten => db'[i] = db[i]
<1>1. i \in Rows
  BY RowNames
<1>2. CASE Kept(s)
  BY <1>1, <1>2, LockedStays DEF Kept
<1>3. CASE MeetMove(s) /\ ChatKept(s)
  <2>1. pc[s] = "idle" /\ pc'[s] = "idle"
    BY <1>3, OneThingAtATime DEF LocksInv, ChatKept
  <2>2. draft[s][i] = Unwritten /\ draft'[s][i] = Unwritten
    BY <2>1, NothingDrafted DEF LocksInv, TypeInv, PlacedOK, ChatPlaced
  <2>3. QED
    BY <1>3, <2>2
<1>4. QED
  BY <1>2, <1>3, KeptOrMoved DEF LocksInv

LEMMA TalliedKept ==
    ASSUME LocksInv, OverlapInv, [NextAll]_allVars, NEW s \in Sessions
    PROVE  TalliedOnce(s)'
<1> DEFINE P == TalliedOnce(s)'
           p == draft[s][Profile]
           t == draft[s][Tokens]
<1>0. /\ pc \in [Sessions -> Steps] /\ base \in [Sessions -> Nat] /\ gained \in [Sessions -> Nat]
      /\ cost \in [Sessions -> 0..1] /\ TalliedOnce(s)
      /\ db[Tokens] \in Nat /\ t \in Nat \cup {Unwritten} /\ p \in Nat \cup {Unwritten}
      /\ Unwritten \notin Nat
      /\ Profile \in ChatTables /\ Tokens \in ChatTables /\ Profile \in Rows /\ Tokens \in Rows
      /\ Profile # Tokens
  BY RowNames, RowsDiffer, RowsAreReal
     DEF OverlapInv, LocksInv, TypeInv, ChatTyped, TablesOK, RowOK, DraftRowOK
<1>1. CASE ~ChatMove(s)
  <2>1. /\ pc'[s] = pc[s] /\ base'[s] = base[s] /\ gained'[s] = gained[s] /\ cost'[s] = cost[s]
        /\ p' = p /\ t' = t /\ (t # Unwritten => db'[Tokens] = db[Tokens])
    BY <1>0, <1>1, KeptDrafts DEF ChatKept
  <2>2. QED
    BY <1>0, <2>1 DEF TalliedOnce, Untallied
<1>2. CASE Leave(s)
  <2>1. pc'[s] = "idle" /\ gained'[s] = 0
    BY <1>0, <1>2 DEF Leave, Goto
  <2>2. p' = Unwritten /\ t' = Unwritten
    BY <1>0, <2>1, NothingDrafted
  <2>3. QED
    BY <2>1, <2>2 DEF TalliedOnce, Untallied
<1>3. ASSUME /\ pc[s] \notin {"tokens", "upsert"} /\ pc'[s] \notin {"tokens", "upsert"}
             /\ base'[s] = base[s] /\ gained'[s] = gained[s]
             /\ p' = p /\ t' = t /\ db'[Tokens] = db[Tokens]
      PROVE  P
  BY <1>0, <1>3 DEF TalliedOnce, Untallied
<1>4. CASE Begin(s) \/ Listen(s) \/ Merge(s) \/ Canned(s) \/ Answer(s)
  <2>1. pc[s] \in {"idle", "listen", "merge", "answer"} /\ UNCHANGED <<tableVars, base, gained>>
    BY <1>4 DEF Begin, Listen, Merge, Canned, Answer, Quiet, roundVars
  <2>2. pc'[s] \in {"start", "read", "answer", "merge", "note", "close", "meter", "record"}
    BY <1>0, <1>4 DEF Begin, Listen, Merge, Canned, Answer, Goto
  <2>3. QED
    BY <1>3, <2>1, <2>2 DEF tableVars
<1>5. CASE Read(s)
  <2>1. pc[s] = "read" /\ UNCHANGED <<tableVars, gained>> /\ pc'[s] \notin {"tokens", "upsert"}
    BY <1>0, <1>5 DEF Read, AfterRead, Goto, Quiet
  <2>2. p = Unwritten /\ t = Unwritten
    BY <1>0, <2>1 DEF LocksInv, TypeInv, PlacedOK, ChatPlaced
  <2>3. QED
    BY <1>0, <2>1, <2>2 DEF TalliedOnce, Untallied, tableVars
<1>6. CASE Meter(s)
  <2>1. /\ pc[s] = "meter" /\ UNCHANGED <<tableVars, base, cost>> /\ pc'[s] = "tokens"
        /\ gained'[s] = gained[s] + cost[s]
    BY <1>0, <1>6 DEF Meter, Goto
  <2>2. QED
    BY <1>0, <2>1 DEF TalliedOnce, Untallied, tableVars
<1>7. CASE /\ pc[s] \in {"admit", "reserve", "room"} /\ UNCHANGED tableVars /\ Remembers
           /\ pc'[s] \in {"answer", "room", "reserve", "count", "listen"}
  BY <1>3, <1>7 DEF Remembers, tableVars
<1>8. ASSUME NEW i \in Rows, NEW row, Write(s, i, row), ChatWrite(s, i, row), UNCHANGED db, Remembers
      PROVE  P
  <2>1. /\ draft'[s][i] = row /\ \A k \in Rows \ {i} : draft'[s][k] = draft[s][k]
        /\ base'[s] = base[s] /\ gained'[s] = gained[s] /\ cost'[s] = cost[s]
        /\ db'[Tokens] = db[Tokens]
    BY <1>8, OwnWrite DEF LocksInv, Remembers
  <2>2. CASE pc[s] = "tokens" /\ pc'[s] = "upsert" /\ i = Profile /\ row = TokensOfProfile(s)
    BY <1>0, <2>1, <2>2 DEF TalliedOnce, Untallied, TokensOfProfile
  <2>3. CASE /\ pc[s] = "upsert" /\ pc'[s] = AfterTally(s) /\ i = Tokens
             /\ row = Seen(s, Tokens) + cost[s]
    <3>1. pc'[s] \notin {"tokens", "upsert"}
      BY <2>3 DEF AfterTally
    <3>2. row = (IF t = Unwritten THEN db[Tokens] ELSE t) + cost[s] /\ t' = row /\ p' = p
      BY <1>0, <2>1, <2>3 DEF Seen
    <3>3. row = db[Tokens] + gained[s]
      BY <1>0, <2>3, <3>2 DEF TalliedOnce, Untallied
    <3>4. QED
      BY <1>0, <2>1, <2>3, <3>1, <3>2, <3>3 DEF TalliedOnce, Untallied
  <2>4. CASE /\ pc[s] \in {"start", "count", "note", "record", "close"}
             /\ pc'[s] \in {"commit", "listen", "answer", "meter"}
             /\ i \notin {Profile, Tokens}
    BY <1>0, <1>3, <2>1, <2>4
  <2>5. QED
    BY <1>8, <2>2, <2>3, <2>4, RowsApart DEF ChatWrite, Mine
<1> HIDE DEF P
<1>9. P
  BY <1>1, <1>2, <1>4, <1>5, <1>6, <1>7, <1>8, ChatChanges DEF P
<1>10. QED
  BY <1>9 DEF P

LEMMA NotesKept ==
    ASSUME LocksInv, OverlapInv, [NextAll]_allVars, NEW s \in Sessions
    PROVE  NotesWhatItKnew(s)'
<1> SUFFICES ASSUME NEW c \in Chats, draft'[s][Talk(c)] # Unwritten, talk'[s] # Absent
             PROVE  draft'[s][Talk(c)] = Noted(talk'[s], heard'[s], db'[Talk(c)])
  BY DEF NotesWhatItKnew
<1> DEFINE i == Talk(c)
           P == draft'[s][i] = Noted(talk'[s], heard'[s], db'[i])
<1>0. /\ pc \in [Sessions -> Steps] /\ i \in ChatTables /\ i \in Rows /\ pc'[s] # "idle"
      /\ draft[s][i] # Unwritten => job[s].chat = c /\ pc[s] \in Replying
      /\ draft[s][i] # Unwritten /\ talk[s] # Absent =>
            draft[s][i] = Noted(talk[s], heard[s], db[i])
  BY RowNames, NothingDrafted
     DEF OverlapInv, NotesWhatItKnew, LocksInv, LocksOK, ChatLocks, TypeInv, ChatTyped
<1>1. ASSUME draft'[s][i] = draft[s][i], talk'[s] = talk[s], heard'[s] = heard[s], db'[i] = db[i]
      PROVE  P
  BY <1>0, <1>1
<1>2. CASE ~ChatMove(s)
  BY <1>0, <1>1, <1>2, KeptDrafts DEF ChatKept
<1>3. CASE Leave(s)
  BY <1>0, <1>3 DEF Leave, Goto
<1>4. CASE Begin(s) \/ Read(s) \/ Listen(s) \/ Merge(s)
  <2>1. pc[s] \in {"idle", "read", "listen", "merge"} /\ UNCHANGED draft
    BY <1>4 DEF Begin, Read, Listen, Merge, Quiet, tableVars
  <2>2. QED
    BY <1>0, <2>1 DEF Replying
<1>5. CASE Canned(s) \/ Answer(s) \/ Meter(s)
  BY <1>1, <1>5 DEF Canned, Answer, Meter, Quiet, tableVars
<1>6. CASE UNCHANGED tableVars /\ Remembers
  BY <1>1, <1>6 DEF Remembers, tableVars
<1>7. ASSUME NEW k \in Rows, NEW row, Write(s, k, row), ChatWrite(s, k, row), UNCHANGED db, Remembers
      PROVE  P
  <2>1. /\ draft'[s][k] = row /\ \A n \in Rows \ {k} : draft'[s][n] = draft[s][n]
        /\ talk'[s] = talk[s] /\ heard'[s] = heard[s] /\ db'[i] = db[i]
    BY <1>7, OwnWrite DEF LocksInv, Remembers
  <2>2. CASE k # i
    BY <1>0, <1>1, <2>1, <2>2
  <2>3. CASE k = i
    <3>1. pc[s] = "note" /\ row = Noted(talk[s], heard[s], Seen(s, i))
      BY <1>7, <2>1, <2>3, RowsApart DEF ChatWrite, Mine
    <3>2. Seen(s, i) = db[i]
      BY <1>0, <3>1 DEF Seen, Replying
    <3>3. QED
      BY <2>1, <2>3, <3>1, <3>2
  <2>4. QED
    BY <2>2, <2>3
<1> HIDE DEF P
<1>8. P
  BY <1>2, <1>3, <1>4, <1>5, <1>6, <1>7, ChatChanges DEF P
<1>9. QED
  BY <1>8 DEF P

LEMMA OverlapAlways == Spec => []OverlapInv
<1>1. ASSUME Init PROVE OverlapInv
  <2>1. /\ \A s \in Sessions, i \in Rows : draft[s][i] = Unwritten
        /\ \A s \in Sessions : pc[s] = "idle" /\ unit[s] = FALSE /\ gained[s] = 0
    BY <1>1 DEF Init, Blank, InitChat
  <2>2. QED
    BY <2>1, RowsThereAre
       DEF OverlapInv, UnitsForNewChats, TalliedOnce, Untallied, NotesWhatItKnew
<1>2. LocksInv /\ OverlapInv /\ [NextAll]_allVars => OverlapInv'
  BY UnitsForNewKept, TalliedKept, NotesKept DEF OverlapInv
<1>3. QED
  BY <1>1, <1>2, LocksAlways, PTL DEF Spec

\* A session that is about to commit and then is idle, has committed or has changed nothing.
LEMMA CommitsOrNothing ==
    ASSUME LocksInv, [NextAll]_allVars, NEW s \in Sessions,
           pc[s] = "commit", pc'[s] = "idle", db' # db
    PROVE  Commit(s)
<1>1. ~ChatKept(s) /\ ChatMove(s)
  BY KeptOrMoved DEF LocksInv, Kept, ChatKept
<1>2. ~Fail(s) /\ ~Abort(s)
  BY DEF Fail, Abort, DiscardRows
<1>3. QED
  BY <1>1, <1>2 DEF ChatMove, Proceed, Idle, StartSession, NotAvailable, Read, Scold,
     Admit, Reserve, CountUnit, Room, Listen, Merge, Note, Canned, Answer, NoAnswer, Record,
     Meter, WriteProfile, UpsertTokens, Close

\* What a request loses as it commits, it loses to another one that changed what it had read,
\* for any number of requests at once (send_message, _merge_recruiter_metadata,
\* profile.ai_tokens_used +=).
THEOREM OnlyOverlapEverLoses == Spec => OnlyOverlapLoses
<1> DEFINE Loses(s) ==
        /\ unit[s] /\ db[Chat(job[s].chat)].answered => read[s] # db[Chat(job[s].chat)]
        /\ base[s] = db[Profile] =>
              db'[Profile] - db[Profile] = db'[Tokens] - db[Tokens]
        /\ Op(s) = "message" =>
              \A i \in {Talk(job[s].chat)} :
                  db[i] = talk[s] => \A f \in Fields : db[i] # Absent /\ db[i][f] # Unsaid
                                                       => db'[i][f] = db[i][f]
<1>1. ASSUME LocksInv, OverlapInv, [NextAll]_allVars, NEW s \in Sessions,
             pc[s] = "commit", pc'[s] = "idle", db' # db
      PROVE  Loses(s)
  <2>1. \A i \in Rows : db'[i] = Seen(s, i)
    BY <1>1, CommitsOrNothing DEF Commit, CommitRows
  <2>2. unit[s] /\ db[Chat(job[s].chat)].answered => read[s] # db[Chat(job[s].chat)]
    BY <1>1 DEF OverlapInv, UnitsForNewChats
  <2>3. ASSUME base[s] = db[Profile]
        PROVE  db'[Profile] - db[Profile] = db'[Tokens] - db[Tokens]
    <3> DEFINE p == draft[s][Profile]
               t == draft[s][Tokens]
    <3>1. /\ db[Tokens] \in Nat /\ db[Profile] \in Nat /\ gained[s] \in Nat
          /\ t \in Nat \cup {Unwritten} /\ p \in Nat \cup {Unwritten}
          /\ Profile \in Rows /\ Tokens \in Rows
      BY <1>1, RowNames, RowsDiffer, RowsAreReal
         DEF LocksInv, TypeInv, ChatTyped, TablesOK, RowOK, DraftRowOK
    <3>2. /\ p # Unwritten => p = db[Profile] + gained[s]
          /\ t # Unwritten => t = db[Tokens] + gained[s] /\ p # Unwritten
          /\ t = Unwritten => gained[s] = 0
      BY <1>1, <2>3, <3>1 DEF OverlapInv, TalliedOnce, Untallied, LocksInv, LocksOK, ChatLocks
    <3>3. /\ db'[Profile] = IF p = Unwritten THEN db[Profile] ELSE p
          /\ db'[Tokens] = IF t = Unwritten THEN db[Tokens] ELSE t
      BY <2>1, <3>1 DEF Seen
    <3> HIDE DEF p, t
    <3>4. QED
      BY <3>1, <3>2, <3>3
  <2>4. ASSUME Op(s) = "message", NEW i \in {Talk(job[s].chat)}, db[i] = talk[s],
               NEW f \in Fields, db[i] # Absent, db[i][f] # Unsaid
        PROVE  db'[i][f] = db[i][f]
    <3>1. job[s].chat \in Chats /\ i = Talk(job[s].chat) /\ i \in Rows
      BY <1>1, <2>4, JobFields, RowNames DEF LocksInv
    <3>2. CASE draft[s][i] = Unwritten
      BY <2>1, <3>1, <3>2 DEF Seen
    <3>3. CASE draft[s][i] # Unwritten
      <4>1. db'[i] = Noted(talk[s], heard[s], db[i])
        BY <1>1, <2>1, <2>4, <3>1, <3>3 DEF Seen, OverlapInv, NotesWhatItKnew
      <4>2. QED
        BY <2>4, <4>1 DEF Noted
    <3>4. QED
      BY <3>2, <3>3
  <2>5. QED
    BY <2>2, <2>3, <2>4
<1>2. LocksInv /\ OverlapInv /\ [NextAll]_allVars =>
         [\A s \in Sessions : pc[s] = "commit" /\ pc'[s] = "idle" /\ db' # db => Loses(s)]_allVars
  BY <1>1
<1>3. QED
  BY <1>2, LocksAlways, OverlapAlways, PTL DEF Spec, OnlyOverlapLoses

-----------------------------------------------------------------------------
(***************************************************************************)
(* Consents.  What a session is about to write over the connection, by     *)
(* what it is doing.                                                       *)
(***************************************************************************)

ConnectionDrafted(s) ==
    draft[s][Connection] # Unwritten =>
        CASE Kind(s) = "callback" ->
                /\ db[Connection] = Absent => draft[s][Connection] = Connected(grant[s])
                /\ db[Connection] # Absent =>
                      draft[s][Connection] = Reconnected(db[Connection], grant[s])
          [] Kind(s) = "disconnect" -> SameRow(s) /\ draft[s][Connection] = Absent
          [] OTHER -> /\ SameRow(s) /\ draft[s][Connection] # Absent
                      /\ draft[s][Connection] = [db[Connection] EXCEPT !.access = seen[s].refresh]

Consent(s) ==
    /\ ConnectionDrafted(s)
    /\ at[s] = "update" => token[s] = seen[s].refresh
    /\ at[s] \in {"delete", "commit"} /\ Kind(s) = "disconnect" /\ seen[s] # Absent =>
          Revocable(seen[s]) \in asked
    /\ grant[s].refresh \in {grant[s].access, NoGrant}

ConsentInv == \A s \in Sessions : Consent(s)

\* A session that does nothing keeps the connection it has written, which nobody changes.
LEMMA KeptConnection ==
    ASSUME LocksInv, LocksInv', [NextAll]_allVars, NEW s \in Sessions, ~MeetMove(s)
    PROVE  /\ MeetKept(s) /\ draft'[s][Connection] = draft[s][Connection]
           /\ draft[s][Connection] # Unwritten => db'[Connection] = db[Connection]
<1>1. Connection \in Rows
  BY RowNames
<1>2. CASE Kept(s)
  BY <1>1, <1>2, LockedStays DEF Kept
<1>3. CASE ChatMove(s) /\ MeetKept(s)
  <2>1. at[s] = "idle" /\ at'[s] = "idle"
    BY <1>3, OneThingAtATime DEF LocksInv, MeetKept
  <2>2. draft[s][Connection] = Unwritten /\ draft'[s][Connection] = Unwritten
    BY <2>1 DEF LocksInv, LocksOK, MeetLocks
  <2>3. QED
    BY <1>3, <2>2
<1>4. QED
  BY <1>2, <1>3, KeptOrMoved DEF LocksInv

LEMMA AskedGrows ==
    ASSUME [NextAll]_allVars
    PROVE  asked \subseteq asked'
<1> DEFINE P == asked \subseteq asked'
<1>1. ASSUME UNCHANGED asked PROVE P
  BY <1>1
<1>2. ASSUME UNCHANGED meetingVars PROVE P
  BY <1>2 DEF meetingVars, googleVars
<1>3. ASSUME Withdraw \/ Expire \/ CoolDown PROVE P
  BY <1>3 DEF Withdraw, Expire, CoolDown, googleVars
<1>4. ASSUME NEW s \in Sessions, MeetMove(s) PROVE P
  <2>1. CASE Decline(s) \/ Lose(s)
    BY <2>1 DEF Decline, Lose, googleVars
  <2>2. CASE Arrive(s) \/ LockCandidate(s) \/ Lookup(s) \/ Exchange(s) \/ Book(s) \/ AnswerLost(s)
             \/ CommitMeeting(s) \/ Refresh(s) \/ CheckRequests(s) \/ ReserveMeeting(s)
    BY <2>1, <2>2 DEF Arrive, LockCandidate, Lookup, Exchange, Book, AnswerLost, CommitMeeting,
       Refresh, CheckRequests, ReserveMeeting, Still, googleVars
  <2>3. CASE CountMeeting(s) \/ Save(s) \/ SaveToken(s) \/ Delete(s) \/ RecordRequest(s)
    BY <2>1, <2>3 DEF CountMeeting, Save, SaveToken, Delete, RecordRequest, Writing, Still, googleVars
  <2>4. CASE Revoke(s)
    BY <2>4 DEF Revoke
  <2>5. CASE Unfit(s) \/ GoogleFails(s) \/ Drop(s)
    BY <2>1, <2>5 DEF Unfit, GoogleFails, Drop
  <2>6. QED
    BY <1>4, <2>2, <2>3, <2>4, <2>5 DEF MeetMove, Meet
<1> HIDE DEF P
<1>5. P
  BY NextCases, <1>2, <1>3, <1>4 DEF allVars
<1>6. QED
  BY <1>5 DEF P

LEMMA ConsentMoved ==
    ASSUME LocksInv, LocksInv', ConsentInv, [NextAll]_allVars, NEW s \in Sessions, MeetMove(s)
    PROVE  Consent(s)'
<1> USE DEF GotoPlace, Kind
<1> DEFINE P == Consent(s)'
           d == draft[s][Connection]
<1>0. /\ at \in [Sessions -> Places] /\ task = [o \in Sessions |-> task[o]]
      /\ seen = [o \in Sessions |-> seen[o]] /\ token = [o \in Sessions |-> token[o]]
      /\ grant = [o \in Sessions |-> grant[o]]
      /\ Consent(s) /\ MeetPlaced(s) /\ asked \subseteq asked'
      /\ d # Unwritten => at[s] \in {"book", "record", "commit"}
      /\ d' # Unwritten => at'[s] \in {"book", "record", "commit"}
      /\ Connection \in Rows
  BY AskedGrows, RowNames
     DEF LocksInv, LocksOK, MeetLocks, TypeInv, MeetTyped, PlacedOK, ConsentInv
<1>1. ASSUME Depart(s) PROVE P
  BY <1>0, <1>1 DEF Depart, Consent, ConnectionDrafted, NothingGranted
<1>2. ASSUME /\ d' = d /\ (d # Unwritten => db'[Connection] = db[Connection])
             /\ task'[s] = task[s] /\ seen'[s] = seen[s] /\ grant'[s] = grant[s]
      PROVE  ConnectionDrafted(s)' /\ grant'[s].refresh \in {grant'[s].access, NoGrant}
  BY <1>0, <1>2 DEF Consent, ConnectionDrafted, SameRow
<1>3. ASSUME d' = Unwritten PROVE ConnectionDrafted(s)'
  BY <1>3 DEF ConnectionDrafted
<1>4. CASE Arrive(s) \/ LockCandidate(s) \/ Exchange(s)
  <2>1. d' = Unwritten
    BY <1>0, <1>4 DEF Arrive, LockCandidate, Exchange, tableVars
  <2>2. at'[s] \notin {"update", "delete", "commit"}
    <3>1. CASE Arrive(s)
      BY <1>0, <3>1 DEF Arrive, FirstPlace
    <3>2. CASE ~Arrive(s)
      BY <1>0, <1>4, <3>2 DEF LockCandidate, Exchange
    <3>3. QED
      BY <3>1, <3>2
  <2>3. grant'[s].refresh \in {grant'[s].access, NoGrant}
    BY <1>0, <1>4 DEF Arrive, LockCandidate, Exchange, Consent
  <2>4. QED
    BY <1>3, <2>1, <2>2, <2>3 DEF Consent
<1>5. CASE Lookup(s) /\ ~Depart(s)
  <2>1. /\ d' = Unwritten /\ task'[s] = task[s] /\ grant'[s] = grant[s]
        /\ seen'[s] = Seen(s, Connection) /\ at'[s] = AfterLookup(s, seen'[s])
    BY <1>0, <1>5 DEF Lookup, Decline, Still, tableVars
  <2>2. /\ at'[s] \notin {"update", "delete"}
        /\ at'[s] = "commit" /\ Kind(s) = "disconnect" => seen'[s] = Absent
    BY <2>1 DEF AfterLookup
  <2>3. QED
    BY <1>0, <1>3, <2>1, <2>2 DEF Consent
<1>6. CASE Refresh(s) /\ ~Depart(s)
  <2>1. /\ d' = Unwritten /\ at'[s] = "update" /\ seen'[s] = seen[s] /\ grant'[s] = grant[s]
        /\ token'[s] = seen[s].refresh
    BY <1>0, <1>6 DEF Refresh, Decline, Still, tableVars
  <2>2. QED
    BY <1>0, <1>3, <2>1 DEF Consent
<1>7. CASE Revoke(s)
  <2>1. /\ d' = Unwritten /\ at'[s] = "delete" /\ seen'[s] = seen[s] /\ grant'[s] = grant[s]
        /\ Revocable(seen[s]) \in asked'
    BY <1>0, <1>7 DEF Revoke, tableVars
  <2>2. QED
    BY <1>0, <1>3, <2>1 DEF Consent
<1>8. CASE (CheckRequests(s) \/ ReserveMeeting(s) \/ Book(s)) /\ ~Depart(s)
  <2>1. /\ UNCHANGED <<tableVars, task, seen, token, grant>>
        /\ at[s] \in {"check", "reserve", "book"} /\ at'[s] \in {"reserve", "count", "record", "commit"}
    BY <1>0, <1>8 DEF CheckRequests, ReserveMeeting, Book, Decline, Still
  <2>2. at'[s] = "commit" => Kind(s) # "disconnect"
    BY <1>0, <2>1, <1>8 DEF CheckRequests, ReserveMeeting, Book, MeetPlaced, KindAt, Decline
  <2>3. QED
    BY <1>0, <1>2, <2>1, <2>2 DEF Consent, tableVars
<1>9. ASSUME NEW i, NEW row, NEW next, Writing(s, i, row, next), MeetWrite(s, i, row) PROVE P
  <2>1. /\ UNCHANGED <<db, task, seen, token, grant>> /\ i \in Rows
        /\ draft'[s][i] = row /\ \A k \in Rows \ {i} : draft'[s][k] = draft[s][k]
    BY <1>9, MeetWritten, OwnWrite DEF Writing, LocksInv
  <2>2. ConnectionDrafted(s)'
    <3>1. CASE i # Connection
      BY <1>0, <1>2, <2>1, <3>1
    <3>2. CASE i = Connection
      <4>1. \/ /\ at[s] = "save"
               /\ \/ db[i] = Absent /\ row = Connected(grant[s])
                  \/ db[i] # Absent /\ row = Reconnected(db[i], grant[s])
            \/ at[s] = "update" /\ SameRow(s) /\ row = [db[i] EXCEPT !.access = token[s]]
            \/ at[s] = "delete" /\ SameRow(s) /\ row = Absent
        BY <1>9, <3>2, MeetingRowsApart DEF MeetWrite, SameRow
      <4>2. /\ at[s] = "save" => Kind(s) = "callback"
            /\ at[s] = "delete" => Kind(s) = "disconnect"
            /\ at[s] = "update" => Kind(s) \notin {"callback", "disconnect"}
                                   /\ token[s] = seen[s].refresh
        BY <1>0 DEF MeetPlaced, KindAt, Consent
      <4>3. at[s] = "update" => row # Absent
        <5>1. at[s] = "update" /\ db[i] # Absent => db[i] \in ConnectionRow /\ token[s] \in Grants
          BY <1>0, <3>2, RowNames DEF MeetPlaced, LocksInv, TypeInv, TablesOK, RowOK
        <5>2. QED
          BY <3>2, <4>1, <5>1, RefreshedRow, RowsAreReal DEF SameRow
      <4>4. /\ Kind(s)' = Kind(s) /\ seen'[s] = seen[s] /\ grant'[s] = grant[s]
            /\ db'[Connection] = db[Connection] /\ d' = row /\ (SameRow(s) => SameRow(s)')
        BY <2>1, <3>2 DEF SameRow
      <4>5. QED
        BY <3>2, <4>1, <4>2, <4>3, <4>4 DEF ConnectionDrafted
    <3>3. QED
      BY <3>1, <3>2
  <2>3. /\ at'[s] \notin {"update", "delete"}
        /\ at'[s] = "commit" /\ Kind(s) = "disconnect" => at[s] = "delete"
    BY <1>0, <1>9 DEF MeetWrite, MeetPlaced, KindAt
  <2>4. QED
    BY <1>0, <2>1, <2>2, <2>3 DEF Consent
<1>10. CASE /\ CountMeeting(s) \/ Save(s) \/ SaveToken(s) \/ Delete(s) \/ RecordRequest(s)
            /\ ~Depart(s)
  <2>1. CASE CountMeeting(s)
    BY <1>0, <1>9, <2>1 DEF CountMeeting, MeetWrite, Writing
  <2>2. CASE Save(s)
    BY <1>0, <1>9, <1>10, <2>2 DEF Save, MeetWrite, Writing, Decline
  <2>3. CASE SaveToken(s)
    BY <1>0, <1>9, <1>10, <2>3 DEF SaveToken, Refreshed, MeetWrite, Writing, Decline
  <2>4. CASE Delete(s)
    <3>1. CASE SameRow(s)
      BY <1>0, <1>9, <2>4, <3>1 DEF Delete, MeetWrite, Writing
    <3>2. CASE ~SameRow(s)
      <4>1. /\ at[s] = "delete" /\ d' = Unwritten /\ at'[s] = "commit"
            /\ task'[s] = task[s] /\ seen'[s] = seen[s] /\ grant'[s] = grant[s]
        BY <1>0, <2>4, <3>2 DEF Delete, Still, tableVars
      <4>2. QED
        BY <1>0, <1>3, <4>1 DEF Consent
    <3>3. QED
      BY <3>1, <3>2
  <2>5. CASE RecordRequest(s)
    BY <1>0, <1>9, <1>10, <2>5 DEF RecordRequest, MeetWrite, Writing, Lose
  <2>6. QED
    BY <1>10, <2>1, <2>2, <2>3, <2>4, <2>5
<1>11. CASE Unfit(s) \/ GoogleFails(s) \/ AnswerLost(s) \/ CommitMeeting(s) \/ Drop(s)
  BY <1>1, <1>11 DEF Unfit, GoogleFails, AnswerLost, CommitMeeting, Drop, Decline, Lose
<1> HIDE DEF P
<1>12. P
  BY <1>1, <1>4, <1>5, <1>6, <1>7, <1>8, <1>10, <1>11 DEF P, MeetMove, Meet
<1>13. QED
  BY <1>12 DEF P

LEMMA ConsentAlways == Spec => []ConsentInv
<1>1. ASSUME Init PROVE ConsentInv
  <2>1. /\ \A s \in Sessions, i \in Rows : draft[s][i] = Unwritten
        /\ \A s \in Sessions : at[s] = "idle" /\ grant[s] = NothingGranted
    BY <1>1 DEF Init, Blank, InitMeetings
  <2>2. ASSUME NEW s \in Sessions PROVE Consent(s)
    <3>1. draft[s][Connection] = Unwritten /\ at[s] = "idle"
      BY <2>1, RowNames
    <3>2. grant[s].refresh = NoGrant
      BY <2>1 DEF NothingGranted
    <3>3. QED
      BY <3>1, <3>2 DEF Consent, ConnectionDrafted
  <2>3. QED
    BY <2>2 DEF ConsentInv
<1>2. ASSUME LocksInv, LocksInv', ConsentInv, [NextAll]_allVars, NEW s \in Sessions
      PROVE  Consent(s)'
  <2>1. CASE ~MeetMove(s)
    <3>1. /\ at'[s] = at[s] /\ task'[s] = task[s] /\ seen'[s] = seen[s] /\ token'[s] = token[s]
          /\ grant'[s] = grant[s] /\ draft'[s][Connection] = draft[s][Connection]
          /\ draft[s][Connection] # Unwritten => db'[Connection] = db[Connection]
      BY <1>2, <2>1, KeptConnection DEF MeetKept
    <3>2. Consent(s) /\ asked \subseteq asked'
      BY <1>2, AskedGrows DEF ConsentInv
    <3>3. QED
      BY <3>1, <3>2 DEF Consent, ConnectionDrafted, Kind, SameRow
  <2>2. QED
    BY <1>2, <2>1, ConsentMoved
<1>3. LocksInv /\ LocksInv' /\ ConsentInv /\ [NextAll]_allVars => ConsentInv'
  BY <1>2 DEF ConsentInv
<1>4. QED
  BY <1>1, <1>3, LocksAlways, PTL DEF Spec

\* The connection to Google appears by a consent only.  It goes only by a disconnection that
\* read this very connection and asked Google to revoke the token it had read.  It keeps the
\* tokens of one consent, but for a consent without a refresh token and for an access token
\* of before a reconnection (handle_callback, disconnect, get_valid_access_token).
THEOREM ConnectionAlwaysFollowsConsent == Spec => ConnectionFollowsConsent
<1> DEFINE Follows(s) ==
        \A row \in {db[Connection]}, new \in {db'[Connection]} :
            /\ row = Absent /\ new # Absent => Kind(s) = "callback"
            /\ row # Absent /\ new = Absent =>
                  Kind(s) = "disconnect" /\ SameRow(s) /\ Revocable(seen[s]) \in asked
            /\ row # Absent /\ new # Absent /\ OfOneGrant(row) /\ ~OfOneGrant(new) =>
                  IF Kind(s) = "callback" THEN grant[s].refresh = NoGrant
                  ELSE SameRow(s) /\ seen[s].refresh # row.refresh
<1>1. ASSUME LocksInv, ConsentInv, [NextAll]_allVars, NEW s \in Sessions,
             at[s] = "commit", at'[s] = "idle"
      PROVE  Follows(s)
  <2> DEFINE old == db[Connection]
             new == db'[Connection]
             d == draft[s][Connection]
  <2>1. Consent(s) /\ Connection \in Rows
    BY <1>1, RowNames DEF ConsentInv
  <2>2. new = old \/ (d # Unwritten /\ new = d)
    <3>1. MeetMove(s) /\ UNCHANGED chatVars
      BY <1>1, KeptOrMoved DEF LocksInv, Kept, MeetKept
    <3>2. CASE CommitMeeting(s)
      BY <2>1, <3>2 DEF CommitMeeting, CommitRows, Seen
    <3>3. CASE Lose(s) \/ Decline(s)
      BY <3>3 DEF Lose, Decline, DiscardRows
    <3>4. QED
      BY <1>1, <3>1, <3>2, <3>3 DEF MeetMove, Idle, Meet, Drop, Unfit, LockCandidate, CheckRequests,
         ReserveMeeting, CountMeeting, Lookup, Exchange, Save, Refresh, SaveToken, GoogleFails, Revoke,
         Delete, Book, AnswerLost, RecordRequest
  <2>3. CASE new = old
    BY <2>3
  <2>4. CASE d # Unwritten /\ new = d
    <3>1. CASE Kind(s) = "callback"
      <4>1. new # Absent /\ (old # Absent => new = Reconnected(old, grant[s]))
        <5>1. grant[s] \in Grant /\ (old # Absent => old \in ConnectionRow)
          BY <1>1, <2>1, <3>1, RowNames
             DEF LocksInv, TypeInv, PlacedOK, MeetPlaced, TablesOK, RowOK
        <5>2. old # Absent => d = Reconnected(old, grant[s]) /\ Reconnected(old, grant[s]) \in ConnectionRow
          BY <2>1, <2>4, <3>1, <5>1, ReconnectedRow DEF Consent, ConnectionDrafted
        <5>3. old = Absent => d = Connected(grant[s]) /\ Connected(grant[s]) \in ConnectionRow
          BY <2>1, <2>4, <3>1, <5>1, ConnectedRow DEF Consent, ConnectionDrafted
        <5>4. QED
          BY <2>4, <5>1, <5>2, <5>3, RowsAreReal
      <4>2. ASSUME old # Absent, grant[s].refresh # NoGrant PROVE OfOneGrant(new)
        <5>1. grant[s].refresh = grant[s].access
          BY <2>1, <4>2 DEF Consent
        <5>2. grant[s] \in Grant /\ old \in ConnectionRow
          BY <1>1, <2>1, <3>1, <4>2, RowNames
             DEF LocksInv, TypeInv, PlacedOK, MeetPlaced, TablesOK, RowOK
        <5>3. QED
          BY <4>1, <4>2, <5>1, <5>2, ReconnectedRow DEF OfOneGrant
      <4>3. QED
        BY <3>1, <4>1, <4>2
    <3>2. CASE Kind(s) = "disconnect"
      <4>1. new = Absent /\ SameRow(s)
        BY <2>1, <2>4, <3>2 DEF Consent, ConnectionDrafted
      <4>2. Revocable(seen[s]) \in asked
        BY <1>1, <2>1, <3>2, <4>1 DEF Consent, SameRow
      <4>3. QED
        BY <3>2, <4>1, <4>2
    <3>3. CASE Kind(s) \notin {"callback", "disconnect"}
      <4>1. /\ SameRow(s) /\ old # Absent /\ new # Absent
            /\ new = [old EXCEPT !.access = seen[s].refresh]
        BY <2>1, <2>4, <3>3 DEF Consent, ConnectionDrafted, SameRow
      <4>2. old \in ConnectionRow
        BY <1>1, <2>1, <4>1 DEF LocksInv, TypeInv, TablesOK, RowOK
      <4>3. new.access = seen[s].refresh /\ new.refresh = old.refresh
        BY <4>1, <4>2 DEF ConnectionRow
      <4>4. seen[s].refresh = old.refresh => OfOneGrant(new)
        BY <4>3 DEF OfOneGrant
      <4>5. QED
        BY <3>3, <4>1, <4>4
    <3>4. QED
      BY <3>1, <3>2, <3>3
  <2>5. QED
    BY <2>2, <2>3, <2>4
<1>2. LocksInv /\ ConsentInv /\ [NextAll]_allVars =>
         [\A s \in Sessions : at[s] = "commit" /\ at'[s] = "idle" => Follows(s)]_allVars
  BY <1>1
<1>3. QED
  BY <1>2, LocksAlways, ConsentAlways, PTL DEF Spec, ConnectionFollowsConsent

=============================================================================
