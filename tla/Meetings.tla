-------------------------------- MODULE Meetings --------------------------------
(***************************************************************************)
(* Meetings with one candidate and the Google connection they go through   *)
(* (services/meeting_service.py, repositories/meeting_repository.py,       *)
(* services/google_oauth_client.py): a recruiter's request from a chat,    *)
(* the candidate's own bookings, the refresh of the access token, the      *)
(* callback of Google's consent screen, and the disconnection.             *)
(*                                                                         *)
(* An action of a session is a statement or a call to Google.  A grant is  *)
(* what one consent gives: tokens are told apart by the grant they belong  *)
(* to.  What an invitation says and to whom is left out.                   *)
(***************************************************************************)
EXTENDS Tables, Integers, FiniteSets

CONSTANTS
    Rooms,          \* the chats a meeting may be requested from
    Grants,         \* bound: the consents given to Google in a behaviour
    NoGrant,        \* no token
    MeetingsLimit,  \* how many meetings the window has units for
    NoRoom,         \* the request comes from no chat
    NoTask,         \* the session is idle
    Free,           \* nobody holds the candidate's lock
    MaxTasks        \* bound: the requests in a behaviour

Connection == <<"connection">>
Request(r) == <<"request", r>>
MeetingUnits == <<"meeting units">>

RequestRows == {Request(r) : r \in Rooms}
MeetingTables == RequestRows \cup {Connection, MeetingUnits}

\* The id of a connection is that of the consent that inserted it.
ConnectionRow == [id : Grants, access : Grants, refresh : Grants \cup {NoGrant}]

Requested == "requested"

ASSUME MeetingsAssumption ==
    /\ MeetingTables \subseteq Rows
    /\ NoGrant \notin Grants /\ NoRoom \notin Rooms /\ Free \notin Sessions
    /\ MeetingsLimit \in Nat /\ MaxTasks \in Nat
    /\ Absent # Unwritten
    /\ {Absent, Unwritten} \cap (ConnectionRow \cup {Requested} \cup Nat) = {}

VARIABLES
    at,          \* where each session is
    task,        \* what it does, and from which chat
    seen,        \* the connection as the session read it, or Absent
    token,       \* the grant of the access token it goes to Google with, or NoGrant
    grant,       \* what Google just gave it: [access, refresh]
    holds,       \* whether it holds a meeting unit
    held,        \* the meetings that used up a unit
    lost,        \* the units lost with their request
    events,      \* history: the events Google has created
    unanswered,  \* history: those of which its answer was lost
    owner,       \* the session that holds the candidate's advisory lock, or Free
    cooling,     \* a request was recorded less than _PUBLIC_REQUEST_COOLDOWN ago
    expired,     \* the access token in the committed connection is about to expire
    granted,     \* Google: the grants it has given
    revoked,     \* Google: the grants that are no longer valid
    asked,       \* history: the grants that Google was asked to revoke
    tasks        \* the requests so far

taskVars == <<at, task, seen, token, grant>>
meetingUnitVars == <<holds, held, lost, events, unanswered>>
googleVars == <<granted, revoked, asked>>
meetingVars == <<taskVars, meetingUnitVars, owner, cooling, expired, googleVars, tasks>>

Tasks == {"callback", "token", "disconnect", "schedule", "request"}

Task == [kind : Tasks, room : Rooms \cup {NoRoom}]

Grant == [access : Grants, refresh : Grants \cup {NoGrant}]

NothingGranted == [access |-> NoGrant, refresh |-> NoGrant]

Places == {"idle", "exchange", "lookup", "save", "revoke", "delete", "lock", "check",
           "reserve", "count", "refresh", "update", "book", "record", "commit"}

-----------------------------------------------------------------------------
MeetingsTypeOK ==
    /\ db[Connection] \in ConnectionRow \cup {Absent}
    /\ \A r \in Rooms : db[Request(r)] \in {Requested, Absent}
    /\ db[MeetingUnits] \in Nat
    /\ \A s \in Sessions :
        /\ draft[s][Connection] \in ConnectionRow \cup {Absent, Unwritten}
        /\ \A r \in Rooms : draft[s][Request(r)] \in {Requested, Unwritten}
        /\ draft[s][MeetingUnits] \in Nat \cup {Unwritten}
    /\ at \in [Sessions -> Places]
    /\ task \in [Sessions -> Task \cup {NoTask}]
    /\ seen \in [Sessions -> ConnectionRow \cup {Absent}]
    /\ token \in [Sessions -> Grants \cup {NoGrant}]
    /\ grant \in [Sessions -> Grant \cup {NothingGranted}]
    /\ holds \in [Sessions -> BOOLEAN]
    /\ {held, lost, events, unanswered} \subseteq Nat
    /\ owner \in Sessions \cup {Free}
    /\ cooling \in BOOLEAN /\ expired \in BOOLEAN
    /\ granted \subseteq Grants /\ {revoked, asked} \subseteq SUBSET granted
    /\ tasks \in 0..MaxTasks

InitMeetings ==
    /\ at = [s \in Sessions |-> "idle"]
    /\ task = [s \in Sessions |-> NoTask]
    /\ seen = [s \in Sessions |-> Absent]
    /\ token = [s \in Sessions |-> NoGrant]
    /\ grant = [s \in Sessions |-> NothingGranted]
    /\ holds = [s \in Sessions |-> FALSE]
    /\ held = 0 /\ lost = 0 /\ events = 0 /\ unanswered = 0
    /\ owner = Free
    /\ cooling = FALSE
    /\ expired \in BOOLEAN
    /\ granted = IF db[Connection] = Absent THEN {}
                 ELSE {db[Connection].id, db[Connection].access, db[Connection].refresh} \ {NoGrant}
    /\ revoked = {} /\ asked = {}
    /\ tasks = 0

-----------------------------------------------------------------------------
Kind(s) == task[s].kind

GotoPlace(s, place) == at' = [at EXCEPT ![s] = place]

Unlock(s) == owner' = IF owner = s THEN Free ELSE owner

\* The session's transaction is over, and with it the advisory lock.
Depart(s) ==
    /\ GotoPlace(s, "idle")
    /\ task' = [task EXCEPT ![s] = NoTask]
    /\ seen' = [seen EXCEPT ![s] = Absent]
    /\ token' = [token EXCEPT ![s] = NoGrant]
    /\ grant' = [grant EXCEPT ![s] = NothingGranted]
    /\ holds' = [holds EXCEPT ![s] = FALSE]
    /\ Unlock(s)

\* The request fails: a unit it holds is given back and its transaction rolled back.
Decline(s) ==
    /\ Depart(s) /\ DiscardRows(s)
    /\ UNCHANGED <<held, lost, events, unanswered, cooling, expired, googleVars, tasks>>

\* It fails where nothing is given back: outside the try, or with its process.
Lost_Released(s) == lost

Lost(s) == IF holds[s] THEN lost + 1 ELSE lost

Lose(s) ==
    /\ Depart(s) /\ DiscardRows(s)
    /\ lost' = Lost(s)
    /\ UNCHANGED <<held, events, unanswered, cooling, expired, googleVars, tasks>>

Still == UNCHANGED <<tableVars, task, meetingUnitVars, owner, cooling, expired, googleVars,
                     tasks>>

Writing(s, i, row, next) ==
    /\ Write(s, i, row)
    /\ GotoPlace(s, next)
    /\ UNCHANGED <<db, task, seen, token, grant, meetingUnitVars, owner, cooling, expired,
                   googleVars, tasks>>

FirstPlace(kind) ==
    CASE kind = "callback" -> "exchange"
      [] kind = "request" -> "lock"
      [] kind = "schedule" -> "reserve"
      [] OTHER -> "lookup"

\* The routes of api/v1/meeting_settings.py and POST /public/chat/sessions/{id}/meetings.
Arrive(s) ==
    /\ at[s] = "idle" /\ tasks < MaxTasks
    /\ \E t \in Task :
        /\ (t.kind = "request") = (t.room # NoRoom)
        /\ task' = [task EXCEPT ![s] = t]
        /\ GotoPlace(s, FirstPlace(t.kind))
    /\ tasks' = tasks + 1
    /\ UNCHANGED <<tableVars, seen, token, grant, meetingUnitVars, owner, cooling, expired,
                   googleVars>>

-----------------------------------------------------------------------------
(* Who may ask *)

\* The chat, its page or its profile is gone; a forged state; a meeting in the past.
Unfit(s) == at[s] \in {"lock", "exchange", "lookup"} /\ Kind(s) # "disconnect" /\ Decline(s)

LockCandidate_Unlocked(s) ==
    /\ at[s] = "lock"
    /\ GotoPlace(s, "check")
    /\ Still /\ UNCHANGED <<seen, token, grant>>

\* lock_candidate_requests(): pg_advisory_xact_lock.
LockCandidate(s) ==
    /\ at[s] = "lock" /\ owner = Free
    /\ owner' = s
    /\ GotoPlace(s, "check")
    /\ UNCHANGED <<tableVars, task, seen, token, grant, meetingUnitVars, cooling, expired,
                   googleVars, tasks>>

\* session_has_request() and latest_request_at(): one request of a chat, and a cool-down of
\* the candidate.
CheckRequests(s) ==
    /\ at[s] = "check"
    /\ IF db[Request(task[s].room)] # Absent \/ cooling THEN Decline(s)
       ELSE GotoPlace(s, "reserve") /\ Still /\ UNCHANGED <<seen, token, grant>>

MeetingsBooked == held + lost + Cardinality({s \in Sessions : holds[s]})

\* consume(): refused without the feature or without a unit left ...
ReserveMeeting(s) ==
    /\ at[s] = "reserve"
    /\ IF MeetingsBooked >= MeetingsLimit THEN Decline(s)
       ELSE /\ holds' = [holds EXCEPT ![s] = TRUE]
            /\ GotoPlace(s, "count")
            /\ UNCHANGED <<tableVars, task, seen, token, grant, held, lost, events, unanswered,
                           owner, cooling, expired, googleVars, tasks>>

\* ... and counted on the candidate's row.
CountMeeting(s) ==
    /\ at[s] = "count"
    /\ Writing(s, MeetingUnits, Seen(s, MeetingUnits) + 1, "lookup")

-----------------------------------------------------------------------------
(* The connection *)

AfterLookup(s, row) ==
    CASE Kind(s) = "callback" -> "save"
      [] Kind(s) = "disconnect" -> IF row = Absent THEN "commit" ELSE "revoke"
      [] OTHER -> IF expired THEN "refresh" ELSE IF Kind(s) = "token" THEN "commit" ELSE "book"

Unusable_IfAbsent(row) == row = Absent

Unusable(row) == row = Absent \/ (expired /\ row.refresh = NoGrant)

\* get_by_user_id(), and what _valid_access_token_for() makes of it: no connection, or an
\* expired access with nothing to refresh it, ends the request.
Lookup(s) ==
    LET row == Seen(s, Connection)
    IN  /\ at[s] = "lookup"
        /\ IF Kind(s) \notin {"callback", "disconnect"} /\ Unusable(row) THEN Decline(s)
           ELSE /\ seen' = [seen EXCEPT ![s] = row]
                /\ token' = [token EXCEPT ![s] = IF row = Absent THEN NoGrant ELSE row.access]
                /\ GotoPlace(s, AfterLookup(s, row))
                /\ Still /\ UNCHANGED grant

\* exchange_code(): a new grant, not always with a refresh token.
Exchange(s) ==
    /\ at[s] = "exchange"
    /\ \E g \in Grants \ granted, r \in {TRUE, FALSE} :
        /\ granted' = granted \cup {g}
        /\ grant' = [grant EXCEPT ![s] = [access |-> g, refresh |-> IF r THEN g ELSE NoGrant]]
    /\ GotoPlace(s, "lookup")
    /\ UNCHANGED <<tableVars, task, seen, token, meetingUnitVars, owner, cooling, expired,
                   revoked, asked, tasks>>

\* What a first consent inserts.
Connected(g) == [id |-> g.access, access |-> g.access, refresh |-> g.refresh]

\* What a reconnection writes: a consent without a refresh token keeps the old one.
Reconnected_KeepsRefresh(row, g) == [row EXCEPT !.access = g.access]

Reconnected(row, g) ==
    [row EXCEPT !.access = g.access, !.refresh = IF g.refresh = NoGrant THEN @ ELSE g.refresh]

\* The connection that the session read is there, and not another in its place: the ORM
\* updates and deletes by the id.
SameRow(s) ==
    seen[s] # Absent /\ db[Connection] # Absent /\ seen[s].id = db[Connection].id

\* handle_callback() inserts the connection or overwrites it.  The row it read may be gone,
\* or another callback may have inserted one: then it fails.
Save(s) ==
    /\ at[s] = "save" /\ Writable(s, Connection)
    /\ \/ seen[s] = Absent /\ db[Connection] = Absent
          /\ Writing(s, Connection, Connected(grant[s]), "commit")
       \/ SameRow(s) /\ Writing(s, Connection, Reconnected(db[Connection], grant[s]), "commit")
       \/ ~SameRow(s) /\ (seen[s] = Absent => db[Connection] # Absent) /\ Decline(s)

\* refresh_access_token(): Google refuses a grant that was revoked.
Refresh(s) ==
    /\ at[s] = "refresh"
    /\ IF seen[s].refresh \in revoked THEN Decline(s)
       ELSE /\ token' = [token EXCEPT ![s] = seen[s].refresh]
            /\ GotoPlace(s, "update")
            /\ Still /\ UNCHANGED <<seen, grant>>

\* The access token and its expiry are saved, if the row that was read is still there.
Refreshed_Upsert(s) ==
    IF SameRow(s) THEN [db[Connection] EXCEPT !.access = token[s]]
    ELSE [seen[s] EXCEPT !.access = token[s]]

Refreshed(s) ==
    IF SameRow(s) THEN [db[Connection] EXCEPT !.access = token[s]] ELSE Absent

SaveToken(s) ==
    /\ at[s] = "update" /\ Writable(s, Connection)
    /\ IF Refreshed(s) = Absent THEN Decline(s)
       ELSE Writing(s, Connection, Refreshed(s), IF Kind(s) = "token" THEN "commit" ELSE "book")

\* Google does not answer, or answers a code, a refresh or an event with an error.  Of a
\* revocation only the missing answer is an error; that Google revoked the grant all the
\* same is then a Withdraw.
GoogleFails(s) == at[s] \in {"exchange", "refresh", "revoke", "book"} /\ Decline(s)

Revocable(row) == IF row.refresh # NoGrant THEN row.refresh ELSE row.access

\* disconnect(): first Google is asked.  What it answers is not looked at: a grant that it
\* did not revoke stays valid.
Revoke(s) ==
    /\ at[s] = "revoke"
    /\ asked' = asked \cup {Revocable(seen[s])}
    /\ revoked' \in {revoked, revoked \cup {Revocable(seen[s])}}
    /\ GotoPlace(s, "delete")
    /\ UNCHANGED <<tableVars, task, seen, token, grant, meetingUnitVars, owner, cooling,
                   expired, granted, tasks>>

\* ... then the row that was read is deleted, if it is still there.
Delete(s) ==
    /\ at[s] = "delete" /\ Writable(s, Connection)
    /\ \/ SameRow(s) /\ Writing(s, Connection, Absent, "commit")
       \/ ~SameRow(s) /\ GotoPlace(s, "commit") /\ Still /\ UNCHANGED <<seen, token, grant>>

\* The candidate withdraws a consent at Google.
Withdraw ==
    /\ tasks < MaxTasks
    /\ revoked' \in {revoked \cup {g} : g \in granted \ revoked}
    /\ tasks' = tasks + 1
    /\ UNCHANGED <<tableVars, taskVars, meetingUnitVars, owner, cooling, expired, granted, asked>>

-----------------------------------------------------------------------------
(* The booking *)

\* create_calendar_event(): Google has the event, and has sent the invitations.
Book(s) ==
    /\ at[s] = "book"
    /\ IF token[s] \in revoked THEN Decline(s)
       ELSE /\ events' = events + 1
            /\ GotoPlace(s, IF Kind(s) = "request" THEN "record" ELSE "commit")
            /\ UNCHANGED <<tableVars, task, seen, token, grant, holds, held, lost, unanswered,
                           owner, cooling, expired, googleVars, tasks>>

\* The event is there, but the answer is lost: the unit is given back.
AnswerLost(s) ==
    /\ at[s] = "book" /\ token[s] \notin revoked
    /\ events' = events + 1 /\ unanswered' = unanswered + 1
    /\ Depart(s) /\ DiscardRows(s)
    /\ UNCHANGED <<held, lost, cooling, expired, googleVars, tasks>>

\* record_request(): unique per chat.
RecordRequest(s) ==
    LET i == Request(task[s].room)
    IN  /\ at[s] = "record" /\ Writable(s, i)
        /\ IF db[i] = Absent THEN Writing(s, i, Requested, "commit") ELSE Lose(s)

\* The committed connection has a new access token if the session got one from Google.
NewToken(s) ==
    draft[s][Connection] \notin {Unwritten, Absent}

CommitMeeting(s) ==
    /\ at[s] = "commit"
    /\ CommitRows(s)
    /\ expired' = IF NewToken(s) THEN FALSE ELSE expired
    /\ cooling' = (cooling \/ Kind(s) = "request")
    /\ held' = IF holds[s] THEN held + 1 ELSE held
    /\ Depart(s)
    /\ UNCHANGED <<lost, events, unanswered, googleVars, tasks>>

\* The client goes away, the process dies, or the commit fails.
Drop(s) == at[s] # "idle" /\ Lose(s)

\* The access token comes close to its expiry.
Expire ==
    /\ ~expired /\ db[Connection] # Absent
    /\ expired' = TRUE
    /\ UNCHANGED <<tableVars, taskVars, meetingUnitVars, owner, cooling, googleVars, tasks>>

\* Five minutes go by, which no request takes: every call to Google ends within 15 seconds.
CoolDown ==
    /\ cooling /\ {s \in Sessions : at[s] # "idle" /\ Kind(s) = "request"} = {}
    /\ cooling' = FALSE
    /\ UNCHANGED <<tableVars, taskVars, meetingUnitVars, owner, expired, googleVars, tasks>>

-----------------------------------------------------------------------------
Meet(s) ==
    \/ Unfit(s) \/ LockCandidate(s) \/ CheckRequests(s) \/ ReserveMeeting(s) \/ CountMeeting(s)
    \/ Lookup(s) \/ Exchange(s) \/ Save(s) \/ Refresh(s) \/ SaveToken(s) \/ GoogleFails(s)
    \/ Revoke(s) \/ Delete(s) \/ Book(s) \/ AnswerLost(s)
    \/ RecordRequest(s) \/ CommitMeeting(s)
=============================================================================
