---------------------------------- MODULE Chat ----------------------------------
(***************************************************************************)
(* What the language models do for one candidate: the recruiters' chat     *)
(* (services/chat_service.py, services/rag_service.py), the generated      *)
(* sections (services/generation_service.py), the parsing of a CV          *)
(* (workers/jobs_cv.py), the model each of them is answered by             *)
(* (llm/model_router.py, llm/factory.py), and the counters all of them     *)
(* write: profile.ai_tokens_used, the token tally and the per-model usage. *)
(*                                                                         *)
(* An action of a session is a statement, a call to Redis or a call to a   *)
(* model, with what the code does up to the next one.  What a message says *)
(* is left out, but for what the classifier hears in it about the          *)
(* recruiter; a call to a model costs one token.                           *)
(***************************************************************************)
EXTENDS Tables, Integers, FiniteSets

CONSTANTS
    Chats,
    Fields,         \* what may be known about a recruiter
    Words,          \* what a recruiter may say of it
    Unsaid,         \* nothing, of a field
    Hearings,       \* bound: what the classifier may hear in one message
    Models,         \* the rows of the model catalogue
    Default,        \* the model of the environment, which is in no row
    MessagesMax,    \* the plan's messages per chat, or Unlimited
    ChatsLimit,     \* how many chats the window has units for, or Unlimited
    TokensLimit,    \* the token budget of the window, or Unlimited
    FlagThreshold,  \* RAPID_FIRE_FLAG_THRESHOLD
    SectionsMax,    \* bound: the sections one request generates
    FirstChats,     \* bound: the rows of the chats there are at the start
    NoChat,         \* the request is about no chat
    NoJob,          \* the session is idle
    MaxRequests     \* bound: requests and administrative changes in a behaviour

Unlimited == -1

Chat(c) == <<"chat", c>>
Talk(c) == <<"metadata", c>>
Usage(m) == <<"usage", m>>
Profile == <<"profile">>
Tokens == <<"tokens">>
Units == <<"units">>

ChatRows == {Chat(c) : c \in Chats}
TalkRows == {Talk(c) : c \in Chats}
UsageRows == {Usage(m) : m \in Models \cup {Default}}
CounterRows == UsageRows \cup {Profile, Tokens, Units}
ChatTables == ChatRows \cup TalkRows \cup CounterRows

ChatRow == [answered : BOOLEAN, rapid : Nat, flagged : BOOLEAN]

TalkRow == [Fields -> Words \cup {Unsaid}]

Nothing == [f \in Fields |-> Unsaid]

ASSUME ChatAssumption ==
    /\ ChatTables \subseteq Rows
    /\ Default \notin Models
    /\ Unsaid \notin Words /\ Nothing \in Hearings /\ Hearings \subseteq TalkRow
    /\ {MessagesMax, ChatsLimit, TokensLimit} \subseteq Nat \cup {Unlimited}
    /\ FlagThreshold \in Nat \ {0} /\ SectionsMax \in Nat \ {0} /\ MaxRequests \in Nat
    /\ \A first \in FirstChats : DOMAIN first \subseteq ChatRows \cup TalkRows
    /\ IsFiniteSet(Chats) /\ IsFiniteSet(Sessions) /\ Sessions # {}
    /\ \A first \in FirstChats, c \in Chats :
          /\ Chat(c) \in DOMAIN first => first[Chat(c)] \in ChatRow
          /\ Talk(c) \in DOMAIN first => first[Talk(c)] \in TalkRow
    /\ Absent # Unwritten
    /\ {Absent, Unwritten} \cap (ChatRow \cup TalkRow \cup Nat) = {}
    /\ NoChat \notin Chats

VARIABLES
    messages,  \* messages[c]: the recruiter's messages committed in chat c
    recent,    \* the chats answered less than COOLDOWN_SECONDS ago
    pc,        \* where each session is
    job,       \* what it does, and in which chat
    read,      \* the row of the chat as the session read it, or Absent
    talk,      \* the recruiter's metadata as it read them, or Absent
    heard,     \* what the classifier heard in the message
    base,      \* profile.ai_tokens_used as it read it
    gained,    \* the tokens it has added to that value
    cost,      \* the tokens of the call it made last
    model,     \* the model that answered it
    left,      \* the sections it still has to generate
    unit,      \* whether it holds a chat unit
    spent,     \* the chat units used up
    burned,    \* the chat units lost with their request
    tally,     \* the Redis counter of the tokens
    choice,    \* the model the candidate prefers, or Default
    active,    \* the models that are active, and configured
    planned,   \* the models of the candidate's plan
    selects,   \* whether the plan grants model_selection
    begun,     \* the requests and changes so far
    refused,   \* history: refused[c], the messages of chat c that came too fast
    ungated    \* history: the tokens tallied by CV parsing, which no budget stops

roundVars == <<heard, base, gained, cost, model, left>>
jobVars == <<pc, job, read, talk, roundVars>>
unitVars == <<unit, spent, burned>>
routeVars == <<choice, active, planned, selects>>
chatVars == <<messages, recent, jobVars, unitVars, tally, routeVars, begun, refused, ungated>>
vars == <<tableVars, chatVars>>

Operations == {"start", "message", "sections", "parse"}

Preferences == Models \cup {Default}

Job == [op : Operations, chat : Chats \cup {NoChat}]

Steps == {"idle", "start", "read", "scold", "admit", "reserve", "count", "room", "listen",
          "merge", "note", "answer", "record", "meter", "tokens", "upsert", "close", "commit"}

-----------------------------------------------------------------------------
TypeOK ==
    /\ \A c \in Chats :
        /\ db[Chat(c)] \in ChatRow \cup {Absent}
        /\ db[Talk(c)] \in TalkRow \cup {Absent}
    /\ \A i \in CounterRows : db[i] \in Nat
    /\ \A s \in Sessions :
        /\ \A c \in Chats :
            /\ draft[s][Chat(c)] \in ChatRow \cup {Unwritten}
            /\ draft[s][Talk(c)] \in TalkRow \cup {Unwritten}
        /\ \A i \in CounterRows : draft[s][i] \in Nat \cup {Unwritten}
    /\ messages \in [Chats -> Nat]
    /\ recent \subseteq Chats
    /\ pc \in [Sessions -> Steps]
    /\ job \in [Sessions -> Job \cup {NoJob}]
    /\ read \in [Sessions -> ChatRow \cup {Absent}]
    /\ talk \in [Sessions -> TalkRow \cup {Absent}]
    /\ heard \in [Sessions -> Hearings]
    /\ base \in [Sessions -> Nat] /\ gained \in [Sessions -> Nat]
    /\ cost \in [Sessions -> 0..1]
    /\ model \in [Sessions -> Models \cup {Default}]
    /\ left \in [Sessions -> 0..SectionsMax]
    /\ unit \in [Sessions -> BOOLEAN] /\ spent \in Nat /\ burned \in Nat
    /\ tally \in Nat
    /\ choice \in Preferences /\ active \subseteq Models /\ planned \subseteq Models
    /\ selects \in BOOLEAN
    /\ begun \in 0..MaxRequests
    /\ refused \in [Chats -> Nat] /\ ungated \in Nat

Existing(c) == db[Chat(c)] # Absent

Answered == {c \in Chats : Existing(c) /\ db[Chat(c)].answered}

\* The rows of `first` and no others; a chat that was answered was paid for.
FirstRow(first, i) ==
    CASE i \in DOMAIN first -> first[i]
      [] i = Units -> Cardinality({c \in Chats : Chat(c) \in DOMAIN first
                                                  /\ first[Chat(c)].answered})
      [] i \in CounterRows \ {Units} -> 0
      [] OTHER -> Absent

InitChat ==
    /\ messages = [c \in Chats |-> IF c \in Answered THEN 1 ELSE 0]
    /\ recent \in SUBSET Answered
    /\ pc = [s \in Sessions |-> "idle"]
    /\ job = [s \in Sessions |-> NoJob]
    /\ read = [s \in Sessions |-> Absent]
    /\ talk = [s \in Sessions |-> Absent]
    /\ heard = [s \in Sessions |-> Nothing]
    /\ base = [s \in Sessions |-> 0]
    /\ gained = [s \in Sessions |-> 0]
    /\ cost = [s \in Sessions |-> 0]
    /\ model = [s \in Sessions |-> Default]
    /\ left = [s \in Sessions |-> 0]
    /\ unit = [s \in Sessions |-> FALSE]
    /\ spent = Cardinality(Answered)
    /\ burned = 0
    /\ tally = 0
    /\ choice \in Preferences
    /\ active = Models /\ planned = Models
    /\ selects = TRUE
    /\ begun = 0
    /\ refused = [c \in Chats |-> IF Existing(c) THEN db[Chat(c)].rapid ELSE 0]
    /\ ungated = 0

-----------------------------------------------------------------------------
(* The model that answers *)

\* _catalog(): the models of the plan that are active.
Offered == active \cap planned

\* resolve(): the candidate's choice if the plan and the catalogue still allow it.
Resolve == IF selects /\ choice \in Offered THEN choice ELSE Default

\* choices_for(): the default is everyone's.
Choices == {Default} \cup Offered

\* set_preference(): only a model that is allowed.
SetPreference ==
    /\ begun < MaxRequests /\ selects
    /\ choice' \in Choices \ {choice}
    /\ begun' = begun + 1
    /\ UNCHANGED <<tableVars, messages, recent, jobVars, unitVars, tally, active, planned,
                   selects, refused, ungated>>

\* A model is added, switched on or off, or deleted, and then preferred by nobody.
ChangeCatalogue ==
    /\ begun < MaxRequests
    /\ active' \in SUBSET Models \ {active}
    /\ choice' \in IF choice \in active' THEN {choice} ELSE {choice, Default}
    /\ begun' = begun + 1
    /\ UNCHANGED <<tableVars, messages, recent, jobVars, unitVars, tally, planned, selects,
                   refused, ungated>>

\* The plan gains or loses models, or the selection of one.
ChangePlan ==
    /\ begun < MaxRequests
    /\ planned' \in SUBSET Models /\ selects' \in BOOLEAN
    /\ <<planned', selects'>> # <<planned, selects>>
    /\ begun' = begun + 1
    /\ UNCHANGED <<tableVars, messages, recent, jobVars, unitVars, tally, choice, active,
                   refused, ungated>>

-----------------------------------------------------------------------------
Op(s) == job[s].op

Mine(s) == Chat(job[s].chat)

Goto(s, step) == pc' = [pc EXCEPT ![s] = step]

\* The session's transaction is over.
Leave(s) ==
    /\ Goto(s, "idle")
    /\ job' = [job EXCEPT ![s] = NoJob]
    /\ read' = [read EXCEPT ![s] = Absent]
    /\ talk' = [talk EXCEPT ![s] = Absent]
    /\ heard' = [heard EXCEPT ![s] = Nothing]
    /\ base' = [base EXCEPT ![s] = 0]
    /\ gained' = [gained EXCEPT ![s] = 0]
    /\ cost' = [cost EXCEPT ![s] = 0]
    /\ model' = [model EXCEPT ![s] = Default]
    /\ left' = [left EXCEPT ![s] = 0]
    /\ unit' = [unit EXCEPT ![s] = FALSE]

\* The request fails: a unit it holds is given back, its transaction is rolled back, and the
\* tokens it has used stay tallied in Redis.
Fail(s) ==
    /\ Leave(s) /\ DiscardRows(s)
    /\ UNCHANGED <<messages, recent, spent, burned, tally, routeVars, begun, refused, ungated>>

\* A step that changes nothing but where the session is and what it remembers.
Quiet == UNCHANGED <<tableVars, messages, recent, job, unitVars, tally, routeVars, begun,
                     refused, ungated>>

\* A statement that writes row i.
Writes(s, i, row, next) ==
    /\ Write(s, i, row)
    /\ Goto(s, next)
    /\ UNCHANGED <<db, messages, recent, job, unitVars, tally, routeVars, begun, refused,
                   ungated>>

Begin(s) ==
    /\ pc[s] = "idle" /\ begun < MaxRequests
    /\ \E j \in Job :
        /\ (j.op \in {"start", "message"}) = (j.chat # NoChat)
        /\ j.op = "message" => Existing(j.chat)
        /\ j.op = "start" => ~Existing(j.chat) /\ \A o \in Sessions : job[o] # j
        /\ job' = [job EXCEPT ![s] = j]
        /\ \E n \in IF j.op = "sections" THEN 1..SectionsMax ELSE {0} :
              left' = [left EXCEPT ![s] = n]
        /\ Goto(s, IF j.op = "start" THEN "start" ELSE "read")
    /\ begun' = begun + 1
    /\ UNCHANGED <<tableVars, messages, recent, read, talk, heard, base, gained, cost, model,
                   unitVars, tally, routeVars, refused, ungated>>

-----------------------------------------------------------------------------
(* Before the reply *)

\* start_session(): a row of its own.
StartSession(s) ==
    /\ pc[s] = "start"
    /\ Writes(s, Mine(s), [answered |-> FALSE, rapid |-> 0, flagged |-> FALSE], "commit")
    /\ UNCHANGED <<read, talk, roundVars>>

\* There is no such page any more, or it is not published.
NotAvailable(s) == pc[s] \in {"start", "read"} /\ Op(s) # "parse" /\ Fail(s)

\* A message reads its chat and the profile; sections and a parsed CV only the profile.
AfterRead(s) ==
    CASE Op(s) = "sections" -> "admit"
      [] Op(s) = "parse" -> "meter"
      [] OTHER -> IF db[Mine(s)].answered /\ job[s].chat \in recent THEN "scold" ELSE "admit"

Read(s) ==
    /\ pc[s] = "read"
    /\ read' = [read EXCEPT ![s] = IF Op(s) = "message" THEN Seen(s, Mine(s)) ELSE Absent]
    /\ base' = [base EXCEPT ![s] = Seen(s, Profile)]
    /\ cost' = [cost EXCEPT ![s] = IF Op(s) = "parse" THEN 1 ELSE 0]
    /\ Goto(s, AfterRead(s))
    /\ Quiet /\ UNCHANGED <<talk, heard, gained, model, left>>

\* _enforce_cooldown(): counted from what was read, and committed before the refusal.
Scolded(row, found) ==
    [found EXCEPT !.rapid = row.rapid + 1,
                  !.flagged = @ \/ row.rapid + 1 >= FlagThreshold]

Scold(s) ==
    /\ pc[s] = "scold" /\ Writable(s, Mine(s))
    /\ db' = [db EXCEPT ![Mine(s)] = Scolded(read[s], @)]
    /\ refused' = [refused EXCEPT ![job[s].chat] = @ + 1]
    /\ Leave(s)
    /\ UNCHANGED <<draft, messages, recent, spent, burned, tally, routeVars, begun, ungated>>

\* ensure_open(): refused once the window's budget is spent.
Open_AtLimit == TokensLimit = Unlimited \/ tally <= TokensLimit

Open == TokensLimit = Unlimited \/ tally < TokensLimit

AfterAdmit(s) ==
    CASE Op(s) = "sections" -> "answer"
      [] OTHER -> IF read[s].answered THEN "room" ELSE "reserve"

Admit(s) ==
    /\ pc[s] = "admit"
    /\ IF Open
       THEN /\ Goto(s, AfterAdmit(s))
            /\ Quiet /\ UNCHANGED <<read, talk, roundVars>>
       ELSE Fail(s)

\* The chat units that the gate counts.
Booked == spent + burned + Cardinality({s \in Sessions : unit[s]})

\* consume(): the first message of a chat takes a unit of the plan ...
Reserve(s) ==
    /\ pc[s] = "reserve"
    /\ IF ChatsLimit # Unlimited /\ Booked >= ChatsLimit THEN Fail(s)
       ELSE /\ unit' = [unit EXCEPT ![s] = TRUE]
            /\ Goto(s, "count")
            /\ UNCHANGED <<tableVars, messages, recent, job, read, talk, roundVars, spent,
                           burned, tally, routeVars, begun, refused, ungated>>

\* ... and counts it on the candidate's row, which stays locked until the reply is there.
CountUnit(s) ==
    /\ pc[s] = "count"
    /\ Writes(s, Units, Seen(s, Units) + 1, "listen")
    /\ UNCHANGED <<read, talk, roundVars>>

\* _ensure_session_room(): the messages committed so far.
HasRoom(count) == MessagesMax = Unlimited \/ count < MessagesMax

Room(s) ==
    /\ pc[s] = "room"
    /\ IF HasRoom(messages[job[s].chat])
       THEN /\ Goto(s, "listen")
            /\ Quiet /\ UNCHANGED <<read, talk, roundVars>>
       ELSE Fail(s)

-----------------------------------------------------------------------------
(* The reply *)

\* classify_and_extract(): a failure of the model is swallowed, and nothing was heard.
Listen(s) ==
    /\ pc[s] = "listen"
    /\ \E h \in Hearings :
        /\ heard' = [heard EXCEPT ![s] = h]
        /\ Goto(s, IF h = Nothing THEN "answer" ELSE "merge")
    /\ Quiet /\ UNCHANGED <<read, talk, base, gained, cost, model, left>>

\* _merge_recruiter_metadata() reads what is known of the recruiter ...
Merge(s) ==
    /\ pc[s] = "merge"
    /\ talk' = [talk EXCEPT ![s] = Seen(s, Talk(job[s].chat))]
    /\ Goto(s, "note")
    /\ Quiet /\ UNCHANGED <<read, roundVars>>

\* ... and fills in what is missing, as far as it read.
Noted_LastWins(known, h, found) ==
    [f \in Fields |-> IF h[f] # Unsaid THEN h[f] ELSE found[f]]

Noted(known, h, found) ==
    [f \in Fields |-> IF known[f] = Unsaid /\ h[f] # Unsaid THEN h[f] ELSE found[f]]

Note(s) ==
    LET i == Talk(job[s].chat)
    IN  /\ pc[s] = "note" /\ Writable(s, i)
        /\ IF talk[s] # Absent
           THEN Writes(s, i, Noted(talk[s], heard[s], Seen(s, i)), "answer")
                   /\ UNCHANGED <<read, talk, roundVars>>
           ELSE IF db[i] = Absent
           THEN Writes(s, i, heard[s], "answer") /\ UNCHANGED <<read, talk, roundVars>>
           ELSE Fail(s)

\* generate_reply() without a model: a question about a fact, and nothing found on it.
Canned(s) ==
    /\ pc[s] = "answer" /\ Op(s) = "message"
    /\ \E n \in 0..1 : cost' = [cost EXCEPT ![s] = n] /\ Goto(s, IF n = 0 THEN "close" ELSE "meter")
    /\ Quiet /\ UNCHANGED <<read, talk, heard, base, gained, model, left>>

\* RoutedProvider.complete(): the candidate's model, or the default if that one fails.
Answer(s) ==
    /\ pc[s] = "answer"
    /\ \E m \in {Resolve, Default} : model' = [model EXCEPT ![s] = m]
    /\ cost' = [cost EXCEPT ![s] = 1]
    /\ Goto(s, "record")
    /\ Quiet /\ UNCHANGED <<read, talk, heard, base, gained, left>>

\* The default fails too, or the search for what to answer from does.
NoAnswer(s) == pc[s] = "answer" /\ Fail(s)

\* record_model_usage(): an upsert, whose lock stays until the request ends.
Record(s) ==
    LET i == Usage(model[s])
    IN  /\ pc[s] = "record"
        /\ Writes(s, i, Seen(s, i) + 1, "meter")
        /\ UNCHANGED <<read, talk, roundVars>>

-----------------------------------------------------------------------------
(* The tally: profile.ai_tokens_used += ..., and add_usage() *)

\* The counter in Redis.  The profile is written by the next statement.
Meter(s) ==
    /\ pc[s] = "meter"
    /\ tally' = tally + cost[s]
    /\ ungated' = IF Op(s) = "parse" THEN ungated + cost[s] ELSE ungated
    /\ gained' = [gained EXCEPT ![s] = @ + cost[s]]
    /\ Goto(s, "tokens")
    /\ UNCHANGED <<tableVars, messages, recent, job, read, talk, heard, base, cost, model,
                   left, unitVars, routeVars, begun, refused>>

\* The ORM writes the sum that was computed in Python.
TokensOfProfile(s) == base[s] + gained[s]

WriteProfile(s) ==
    /\ pc[s] = "tokens"
    /\ Writes(s, Profile, TokensOfProfile(s), "upsert")
    /\ UNCHANGED <<read, talk, roundVars>>

AfterTally_Retries(s) ==
    CASE Op(s) = "message" /\ gained[s] < 2 -> "answer"
      [] Op(s) = "sections" /\ left[s] > 1 -> "admit"
      [] Op(s) = "message" -> "close"
      [] OTHER -> "commit"

AfterTally(s) ==
    CASE Op(s) = "message" -> "close"
      [] Op(s) = "sections" /\ left[s] > 1 -> "admit"
      [] OTHER -> "commit"

\* The tally's own row; sections then go on with the next one.
UpsertTokens(s) ==
    /\ pc[s] = "upsert"
    /\ Writes(s, Tokens, Seen(s, Tokens) + cost[s], AfterTally(s))
    /\ left' = [left EXCEPT ![s] = IF Op(s) = "sections" THEN @ - 1 ELSE @]
    /\ UNCHANGED <<read, talk, heard, base, gained, cost, model>>

\* The reply is stored, and the chat was active just now.
Replied_WholeRow(row, found) == [row EXCEPT !.answered = TRUE]

Replied(row, found) == [found EXCEPT !.answered = TRUE]

Close(s) ==
    /\ pc[s] = "close"
    /\ Writes(s, Mine(s), Replied(read[s], Seen(s, Mine(s))), "commit")
    /\ UNCHANGED <<read, talk, roundVars>>

Commit(s) ==
    /\ pc[s] = "commit"
    /\ CommitRows(s)
    /\ IF Op(s) = "message"
       THEN /\ messages' = [messages EXCEPT ![job[s].chat] = @ + 1]
            /\ recent' = recent \cup {job[s].chat}
       ELSE UNCHANGED <<messages, recent>>
    /\ spent' = IF unit[s] THEN spent + 1 ELSE spent
    /\ Leave(s)
    /\ UNCHANGED <<burned, tally, routeVars, begun, refused, ungated>>

\* The client goes away, the process dies, or the commit fails: nothing is given back.
Abort(s) ==
    /\ pc[s] # "idle"
    /\ DiscardRows(s)
    /\ burned' = IF unit[s] THEN burned + 1 ELSE burned
    /\ Leave(s)
    /\ UNCHANGED <<messages, recent, spent, tally, routeVars, begun, refused, ungated>>

\* The cooldown of every chat is over.
TimePasses ==
    /\ recent # {}
    /\ recent' = {}
    /\ UNCHANGED <<tableVars, messages, jobVars, unitVars, tally, routeVars, begun, refused,
                   ungated>>

-----------------------------------------------------------------------------
Proceed(s) ==
    \/ StartSession(s) \/ NotAvailable(s) \/ Read(s) \/ Scold(s)
    \/ Admit(s) \/ Reserve(s) \/ CountUnit(s) \/ Room(s)
    \/ Listen(s) \/ Merge(s) \/ Note(s) \/ Canned(s) \/ Answer(s) \/ NoAnswer(s)
    \/ Record(s) \/ Meter(s) \/ WriteProfile(s) \/ UpsertTokens(s)
    \/ Close(s) \/ Commit(s)

Next ==
    \/ \E s \in Sessions : Begin(s) \/ Proceed(s) \/ Abort(s)
    \/ SetPreference \/ ChangeCatalogue \/ ChangePlan \/ TimePasses
=============================================================================
