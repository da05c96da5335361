----------------------------- MODULE Conversations -----------------------------
(***************************************************************************)
(* Everything that talks for one candidate, at once: Chat and Meetings on  *)
(* the same tables and the same sessions, a request being of the one or of *)
(* the other.  A meeting is requested from a chat (api/v1/public_chat.py). *)
(***************************************************************************)
EXTENDS Chat, Meetings

CONSTANTS
    Connections,  \* bound: the connections there may be at the start, Absent among them
    MaxBegun      \* bound: requests and administrative changes in a behaviour

ASSUME ConversationsAssumption ==
    /\ Rooms \subseteq Chats
    /\ Connections \subseteq ConnectionRow \cup {Absent}
    /\ MaxBegun \in Nat
    /\ ChatTables \cap MeetingTables = {}

allVars == <<tableVars, chatVars, meetingVars>>

FirstMeetingRow(connection, i) ==
    CASE i = Connection -> connection
      [] i = MeetingUnits -> 0
      [] OTHER -> Absent

Init ==
    /\ \E first \in FirstChats, connection \in Connections :
          db = [i \in Rows |-> IF i \in ChatTables THEN FirstRow(first, i)
                               ELSE FirstMeetingRow(connection, i)]
    /\ draft = [s \in Sessions |-> Blank]
    /\ InitChat /\ InitMeetings

Idle(s) == pc[s] = "idle" /\ at[s] = "idle"

MayBegin == begun + tasks < MaxBegun

Chatting == /\ \/ \E s \in Sessions :
                    \/ MayBegin /\ Idle(s) /\ Begin(s)
                    \/ Proceed(s)
                    \/ Abort(s)
               \/ MayBegin /\ (SetPreference \/ ChangeCatalogue \/ ChangePlan)
               \/ TimePasses
            /\ UNCHANGED meetingVars

\* A meeting is requested from a chat there is.
FromAChat(s) == task'[s].room # NoRoom => Existing(task'[s].room)

Meeting == /\ \/ \E s \in Sessions :
                   \/ MayBegin /\ Idle(s) /\ Arrive(s) /\ FromAChat(s)
                   \/ Meet(s)
                   \/ Drop(s)
              \/ MayBegin /\ Withdraw
              \/ Expire
              \/ CoolDown
           /\ UNCHANGED chatVars

NextAll == Chatting \/ Meeting

Spec == Init /\ [][NextAll]_allVars

-----------------------------------------------------------------------------
(* Properties *)

ConversationsTypeOK == TypeOK /\ MeetingsTypeOK

Larger(m, n) == IF m > n THEN m ELSE n

\* Requests are checked when they come in and counted when they are answered: a chat can
\* exceed the plan's messages, and the candidate the token budget, but only by what was
\* under way at once; the units of the chats are exact (_ensure_session_room, ensure_open,
\* consume).
SoftLimitsHold ==
    /\ MessagesMax # Unlimited =>
          \A c \in Chats : messages[c] <= Larger(MessagesMax, 1) + Cardinality(Sessions) - 1
    /\ TokensLimit # Unlimited =>
          tally - ungated <= Larger(TokensLimit + Cardinality(Sessions) - 1, 0)
    /\ ChatsLimit # Unlimited => Booked <= Larger(ChatsLimit, Cardinality(Answered))

\* What a commit loses, it loses to an overlap.  A chat unit is spent on a chat that was
\* not open already, the profile's tokens grow with the tally's row, and nothing known of a
\* recruiter is overwritten, unless another session changed what this one had read
\* (send_message, _merge_recruiter_metadata, profile.ai_tokens_used +=).
OnlyOverlapLoses ==
    [][\A s \in Sessions : pc[s] = "commit" /\ pc'[s] = "idle" /\ db' # db =>
          /\ unit[s] /\ db[Chat(job[s].chat)].answered => read[s] # db[Chat(job[s].chat)]
          /\ base[s] = db[Profile] =>
                db'[Profile] - db[Profile] = db'[Tokens] - db[Tokens]
          /\ Op(s) = "message" =>
                \A i \in {Talk(job[s].chat)} :
                    db[i] = talk[s] => \A f \in Fields : db[i] # Absent /\ db[i][f] # Unsaid
                                                         => db'[i][f] = db[i][f]]_allVars

\* Refusals that come too fast are counted at most once each, and the flag they raise on a
\* chat is never lowered, by a refusal that overlapped or by a reply that was under way
\* when it was raised (_enforce_cooldown, _reply).
FlagSticks ==
    [][\A c \in Chats : Existing(c) =>
          /\ db[Chat(c)].flagged => db'[Chat(c)].flagged
          /\ db'[Chat(c)].rapid <= refused'[c]
          /\ db[Chat(c)].answered => db'[Chat(c)].answered]_allVars

\* The row s waits for to go on, among those that others may have locked.
Awaited(s) ==
    CASE pc[s] = "scold" -> {Mine(s)}
      [] pc[s] = "count" -> {Units}
      [] pc[s] = "note" -> {Talk(job[s].chat)}
      [] pc[s] = "record" -> {Usage(model[s])}
      [] pc[s] = "tokens" -> {Profile}
      [] pc[s] = "upsert" -> {Tokens}
      [] pc[s] = "close" -> {Mine(s)}
      [] at[s] = "count" -> {MeetingUnits}
      [] at[s] \in {"save", "update", "delete"} -> {Connection}
      [] at[s] = "record" -> {Request(task[s].room)}
      [] OTHER -> {}

WaitsFor(s, o) ==
    /\ o # s
    /\ \/ \E i \in Awaited(s) : draft[o][i] # Unwritten
       \/ at[s] = "lock" /\ owner = o

\* A circular wait takes a request that generates several sections and was answered by two
\* models: it locked the usage of the first, the profile, and now wants the usage of the
\* second (list_sections, record_model_usage).  Nothing else locks in a dangerous order.
DeadlockTakesTwoModels ==
    \A S \in SUBSET Sessions :
        S # {} /\ (\A s \in S : \E o \in S : WaitsFor(s, o)) =>
            \E s \in S : /\ pc[s] = "record" /\ Op(s) = "sections"
                         /\ \E m \in (Models \cup {Default}) \ {model[s]} :
                               draft[s][Usage(m)] # Unwritten

Requesting(s) ==
    /\ at[s] \notin {"idle", "lock", "check"}
    /\ Kind(s) = "request"

\* While a recruiter's request is under way, past its checks, what they found still holds
\* and no other request is: the advisory lock makes checks, booking and record one step,
\* with calls to Google in the middle of it (schedule_public_meeting).
OneBookingAtATime ==
    \A s \in Sessions : Requesting(s) =>
        /\ ~cooling /\ db[Request(task[s].room)] = Absent
        /\ \A o \in Sessions \ {s} : ~Requesting(o)

\* Every event in the candidate's calendar was paid for with a unit, within the plan,
\* wherever its request failed after Google had accepted it, unless Google's answer itself
\* was lost; and no unit is used up without an event (schedule_meeting: release).
EventsArePaidFor ==
    /\ held <= events
    /\ events <= MeetingsBooked + unanswered
    /\ MeetingsBooked <= MeetingsLimit

\* The tokens of the connection come from one consent.
OfOneGrant(row) == row.refresh \in {row.access, NoGrant}

\* The connection appears only by a consent.  It goes only by a disconnection that read this
\* very connection, and asked Google to revoke the token it read in it before (disconnect:
\* what Google makes of that is another matter).  And it keeps the tokens of one consent,
\* but for a consent that brings no refresh token, and for an access token that was got with
\* the refresh token of before a reconnection (handle_callback, get_valid_access_token).
ConnectionFollowsConsent ==
    [][\A s \in Sessions : at[s] = "commit" /\ at'[s] = "idle" =>
          \A row \in {db[Connection]}, new \in {db'[Connection]} :
            /\ row = Absent /\ new # Absent => Kind(s) = "callback"
            /\ row # Absent /\ new = Absent =>
                  Kind(s) = "disconnect" /\ SameRow(s) /\ Revocable(seen[s]) \in asked
            /\ row # Absent /\ new # Absent /\ OfOneGrant(row) /\ ~OfOneGrant(new) =>
                  IF Kind(s) = "callback" THEN grant[s].refresh = NoGrant
                  ELSE SameRow(s) /\ seen[s].refresh # row.refresh]_allVars
=============================================================================
