-------------------------------- MODULE Pipeline --------------------------------
(***************************************************************************)
(* From what a candidate enters to what the recruiters' chat can find: the *)
(* facts of the profile (api/v1/profiles.py), the sections that must be    *)
(* approved (api/v1/sections.py), the uploaded CVs (services/cv_service.py)*)
(* and the worker that embeds and parses them (workers/).                  *)
(*                                                                         *)
(* A session is a request or a job of the worker.  It acts on one item; an *)
(* action is a statement, or a call to the queue, to Chroma or to a model. *)
(* A text stands for what is embedded of it.                               *)
(***************************************************************************)
EXTENDS Tables, Integers, FiniteSets, Bags

CONSTANTS
    Facts,        \* experiences, projects, skills, education, the profile's own facts
    Sections,     \* the sections of the portfolio
    Cvs,
    Texts,
    Pending, Processing, Parsed, Failed,  \* the statuses of a CV
    NoText,       \* the text of a fact with nothing in it
    FirstTables,  \* bound: what is stored and embedded at the start
    NoWork,       \* the session is idle
    NoAudit,      \* the worker is not starting
    MaxRequests,  \* bound: requests in a behaviour
    MaxFaults     \* bound: worker crashes and losses in Chroma in a behaviour

Items == Facts \cup Sections

Item(i) == <<"item", i>>
Pointer(i) == <<"pointer", i>>
Cv(v) == <<"cv", v>>

ItemRow == [text : Texts \cup {NoText}, approved : BOOLEAN]

Statuses == {Pending, Processing, Parsed, Failed}

FactOperations == {"create", "update", "delete"}

SectionOperations == {"generate", "edit", "approve"}

CvOperations == {"upload", "retry"}

Operations == FactOperations \cup SectionOperations \cup CvOperations

Jobs == {"embed", "parse"}

Work == [op : Operations \cup Jobs, item : Items \cup Cvs, text : Texts \cup {NoText}]

ASSUME PipelineAssumption ==
    /\ {Item(i) : i \in Items} \cup {Pointer(i) : i \in Items} \cup {Cv(v) : v \in Cvs} = Rows
    /\ Facts \cap Sections = {} /\ Items \cap Cvs = {}
    /\ NoText \notin Texts /\ NoWork \notin Work
    /\ Cardinality(Statuses) = 4 /\ Absent # Unwritten
    /\ {Absent, Unwritten} \cap (ItemRow \cup Texts \cup {NoText} \cup Statuses) = {}
    /\ MaxRequests \in Nat /\ MaxFaults \in Nat
    /\ IsFiniteSet(Sessions)

\* At the start a fact is approved, as it is when it is created, and a section has a text.
ASSUME FirstTablesAssumption ==
    \A first \in FirstTables :
        /\ \A i \in Items : Item(i) \in DOMAIN first =>
              /\ first[Item(i)] \in ItemRow
              /\ i \in Facts => first[Item(i)].approved
              /\ i \in Sections => first[Item(i)].text \in Texts
        /\ \A v \in Cvs : Cv(v) \in DOMAIN first => first[Cv(v)] \in Statuses

VARIABLES
    vectors,   \* Chroma: the text embedded for each item, or Absent
    queue,     \* the jobs that wait, a bag
    audit,     \* the pointers the starting worker has read, or NoAudit
    pc,        \* where each session is
    work,      \* what it does
    read,      \* the row as the session read it, or Absent
    begun,     \* the requests so far
    faults,    \* the faults so far
    reviewed,  \* history: the texts an approval has read, of each section
    orphans,   \* history: the CVs whose job was dropped or failed
    clean,     \* history: nothing else has touched the item since the session began
    tangled,   \* history: the items whose last requests and jobs overlapped, or failed
    lost       \* history: the items whose vector Chroma lost, not embedded again since

workVars == <<pc, work, read, begun>>
historyVars == <<reviewed, orphans, clean, tangled, lost>>
vars == <<tableVars, vectors, queue, audit, workVars, faults, historyVars>>

Steps == {"idle", "read", "write", "enqueue", "unembed", "unpoint", "commit",
          "embed", "find", "point", "load", "mark", "parse"}

-----------------------------------------------------------------------------
TypeOK ==
    /\ \A i \in Items :
        /\ db[Item(i)] \in ItemRow \cup {Absent}
        /\ db[Pointer(i)] \in Texts \cup {Absent}
    /\ \A v \in Cvs : db[Cv(v)] \in Statuses \cup {Absent}
    /\ \A s \in Sessions :
        /\ \A i \in Items :
            /\ draft[s][Item(i)] \in ItemRow \cup {Absent, Unwritten}
            /\ draft[s][Pointer(i)] \in Texts \cup {Absent, Unwritten}
        /\ \A v \in Cvs : draft[s][Cv(v)] \in Statuses \cup {Unwritten}
    /\ vectors \in [Items -> Texts \cup {Absent}]
    /\ BagToSet(queue) \subseteq Work /\ \A j \in BagToSet(queue) : queue[j] \in Nat
    /\ audit \in [Items -> Texts \cup {Absent}] \cup {NoAudit}
    /\ pc \in [Sessions -> Steps]
    /\ work \in [Sessions -> Work \cup {NoWork}]
    /\ read \in [Sessions -> ItemRow \cup Texts \cup Statuses \cup {Absent}]
    /\ begun \in 0..MaxRequests /\ faults \in 0..MaxFaults
    /\ reviewed \in [Sections -> SUBSET Texts]
    /\ orphans \subseteq Cvs /\ tangled \subseteq Items /\ lost \subseteq Items
    /\ clean \in [Sessions -> BOOLEAN]

\* At the start the rows of `first` are there, and all of them that should be embedded are.
Embedded(row) == IF row # Absent /\ row.approved /\ row.text # NoText THEN row.text ELSE Absent

FirstRow(first, i) == IF i \in DOMAIN first THEN first[i] ELSE Absent

Init ==
    \E first \in FirstTables :
        /\ vectors = [i \in Items |-> Embedded(FirstRow(first, Item(i)))]
        /\ db = [r \in Rows |-> IF r \in {Pointer(i) : i \in Items}
                                THEN Embedded(FirstRow(first, Item(r[2])))
                                ELSE FirstRow(first, r)]
        /\ draft = [s \in Sessions |-> Blank]
        /\ queue = EmptyBag
        /\ audit = NoAudit
        /\ pc = [s \in Sessions |-> "idle"]
        /\ work = [s \in Sessions |-> NoWork]
        /\ read = [s \in Sessions |-> Absent]
        /\ begun = 0 /\ faults = 0
        /\ reviewed = [i \in Sections |->
                          IF Embedded(FirstRow(first, Item(i))) = Absent THEN {}
                          ELSE {Embedded(FirstRow(first, Item(i)))}]
        /\ orphans = {}
        /\ clean = [s \in Sessions |-> FALSE]
        /\ tangled = {} /\ lost = {}

-----------------------------------------------------------------------------
Op(s) == work[s].op
Subject(s) == work[s].item

On(s, i) == work[s] # NoWork /\ Subject(s) = i

Busy(i) == (\E s \in Sessions : On(s, i)) \/ \E j \in BagToSet(queue) : j.item = i

\* The row a session reads and writes first.
Home(s) ==
    CASE Op(s) = "embed" -> Pointer(Subject(s))
      [] Op(s) # "embed" /\ Subject(s) \in Cvs -> Cv(Subject(s))
      [] OTHER -> Item(Subject(s))

Goto(s, step) == pc' = [pc EXCEPT ![s] = step]

\* Whatever else is being done with these items has been interfered with.
Tangle(S) ==
    /\ tangled' = tangled \cup (S \cap Items)
    /\ clean' = [s \in Sessions |-> clean[s] /\ ~\E i \in S : On(s, i)]

Untangled == UNCHANGED <<clean, tangled>>

Over(s) == clean' = [clean EXCEPT ![s] = FALSE] /\ UNCHANGED tangled

Leave(s) ==
    /\ Goto(s, "idle")
    /\ work' = [work EXCEPT ![s] = NoWork]
    /\ read' = [read EXCEPT ![s] = Absent]
    /\ UNCHANGED begun

Step(s, next) ==
    /\ Goto(s, next)
    /\ UNCHANGED <<work, read, begun>>

\* The request ends, and its transaction is rolled back.
Fail(s) ==
    /\ Leave(s) /\ DiscardRows(s)
    /\ UNCHANGED <<vectors, queue, audit, faults, reviewed, orphans, lost>>

-----------------------------------------------------------------------------
(* Requests *)

Asks(i) ==
    CASE i \in Facts -> FactOperations
      [] i \in Sections -> SectionOperations
      [] i \in Cvs -> CvOperations

WithText(op) == op \in {"create", "update", "generate", "edit"}

\* What is new gets an identity of its own.
Fresh(i) ==
    /\ ~Busy(i)
    /\ IF i \in Items THEN {db[Item(i)], db[Pointer(i)], vectors[i]} = {Absent}
       ELSE db[Cv(i)] = Absent /\ i \notin orphans

\* The routes of api/v1/profiles.py, sections.py, cv.py and the retry of api/v1/admin.py.
\* An edit is the candidate's, or another generation: either becomes a draft again.
Begin(s) ==
    /\ pc[s] = "idle" /\ begun < MaxRequests
    /\ \E i \in Items \cup Cvs, t \in Texts \cup {NoText} : \E op \in Asks(i) :
        /\ t = NoText => ~WithText(op) \/ (op = "update" /\ i \in Facts)
        /\ t # NoText => WithText(op)
        /\ op \in {"create", "upload"} => Fresh(i)
        /\ work' = [work EXCEPT ![s] = [op |-> op, item |-> i, text |-> t]]
        /\ Goto(s, IF op \in {"create", "upload"} THEN "write" ELSE "read")
        /\ tangled' = IF Busy(i) /\ i \in Items THEN tangled \cup {i} ELSE tangled
        /\ clean' = [o \in Sessions |->
                        IF o = s THEN ~Busy(i) ELSE clean[o] /\ ~On(o, i)]
    /\ begun' = begun + 1
    /\ UNCHANGED <<tableVars, vectors, queue, audit, read, faults, reviewed, orphans, lost>>

\* retry_cv_job(): only of an upload that failed.
Retryable(row) == row = Failed

\* get_owned_child() finds nothing; list_sections() finds the section there already.
Refused(s, row) ==
    CASE Op(s) = "generate" -> row # Absent
      [] Op(s) = "retry" -> ~Retryable(row)
      [] OTHER -> row = Absent

Read(s) ==
    /\ pc[s] = "read"
    /\ IF Refused(s, Seen(s, Home(s))) THEN Fail(s) /\ Over(s)
       ELSE /\ read' = [read EXCEPT ![s] = Seen(s, Home(s))]
            /\ Goto(s, "write")
            /\ reviewed' = IF Op(s) = "approve"
                           THEN [reviewed EXCEPT ![Subject(s)] = @ \cup {Seen(s, Home(s)).text}]
                           ELSE reviewed
            /\ Untangled
            /\ UNCHANGED <<tableVars, vectors, queue, audit, work, begun, faults, orphans, lost>>

\* update_content() and regenerate() make a draft of it, approve() ends that.  The ORM writes
\* the columns that differ from what was read.
Edited(row, t, found) ==
    [found EXCEPT !.text = t, !.approved = IF row.approved THEN FALSE ELSE @]

Approved(row, found) == [found EXCEPT !.approved = IF row.approved THEN @ ELSE TRUE]

NewRow(s, found) ==
    CASE Op(s) = "create" -> [text |-> work[s].text, approved |-> TRUE]
      [] Op(s) = "generate" -> [text |-> work[s].text, approved |-> FALSE]
      [] Op(s) = "update" -> [found EXCEPT !.text = work[s].text]
      [] Op(s) = "edit" -> Edited(read[s], work[s].text, found)
      [] Op(s) = "approve" -> Approved(read[s], found)
      [] Op(s) = "delete" -> Absent
      [] Op(s) \in {"upload", "retry"} -> Pending

\* The row to be updated was deleted, or the one to be inserted is there: the request fails.
Vanished(s, found) ==
    CASE Op(s) \in {"update", "edit", "approve"} -> found = Absent
      [] Op(s) = "generate" -> found # Absent
      [] OTHER -> FALSE

AfterWrite_KeepsEmbedding(op) ==
    CASE op = "delete" -> "unembed"
      [] op \in {"generate", "edit"} -> "commit"
      [] OTHER -> "enqueue"

AfterWrite_ForgetsJob(op) ==
    CASE op \in {"delete", "edit"} -> "unembed"
      [] op \in {"generate", "retry"} -> "commit"
      [] OTHER -> "enqueue"

AfterWrite(op) ==
    CASE op \in {"delete", "edit"} -> "unembed"
      [] op = "generate" -> "commit"
      [] OTHER -> "enqueue"

WriteRow(s) ==
    LET found == Seen(s, Home(s))
    IN  /\ pc[s] = "write" /\ Writable(s, Home(s))
        /\ IF Vanished(s, found) THEN Fail(s) /\ Over(s)
           ELSE /\ Write(s, Home(s), NewRow(s, found))
                /\ Step(s, AfterWrite(Op(s)))
                /\ Untangled
                /\ UNCHANGED <<db, vectors, queue, audit, faults, reviewed, orphans, lost>>

\* enqueue_embed(), enqueue_job("parse_cv_job"): before the transaction commits.
JobOf(s) ==
    [op |-> IF Subject(s) \in Cvs THEN "parse" ELSE "embed",
     item |-> Subject(s),
     text |-> IF Op(s) = "approve" THEN read[s].text ELSE work[s].text]

\* A text with nothing in it is not embedded, whatever is embedded of its predecessor.
Enqueued_Always(j) == TRUE

Enqueued(j) == j.op = "parse" \/ j.text # NoText

Enqueue(s) ==
    /\ pc[s] = "enqueue"
    /\ queue' = IF Enqueued(JobOf(s)) THEN queue (+) SetToBag({JobOf(s)}) ELSE queue
    /\ Step(s, "commit")
    /\ Untangled
    /\ UNCHANGED <<tableVars, vectors, audit, faults, reviewed, orphans, lost>>

\* delete_embed(): first in Chroma ...
Unembed(s) ==
    /\ pc[s] = "unembed"
    /\ vectors' = [vectors EXCEPT ![Subject(s)] = Absent]
    /\ Step(s, "unpoint")
    /\ Untangled
    /\ UNCHANGED <<tableVars, queue, audit, faults, reviewed, orphans, lost>>

\* ... then the pointer, if there is one.
Unpoint(s) ==
    LET p == Pointer(Subject(s))
    IN  /\ pc[s] = "unpoint"
        /\ IF Seen(s, p) = Absent THEN UNCHANGED draft ELSE Write(s, p, Absent)
        /\ Step(s, "commit")
        /\ Untangled
        /\ UNCHANGED <<db, vectors, queue, audit, faults, reviewed, orphans, lost>>

Commit(s) ==
    /\ pc[s] = "commit"
    /\ CommitRows(s)
    /\ Leave(s)
    /\ tangled' = IF clean[s] /\ Op(s) \notin Jobs \cup {"generate", "upload", "retry"}
                  THEN tangled \ {Subject(s)} ELSE tangled
    /\ clean' = [clean EXCEPT ![s] = FALSE]
    /\ UNCHANGED <<vectors, queue, audit, faults, reviewed, orphans, lost>>

\* Redis, Chroma or the database fails, or the client goes away: what was enqueued stays
\* enqueued, and what was deleted from Chroma stays deleted.
Abort(s) ==
    /\ pc[s] # "idle" /\ Op(s) \notin Jobs
    /\ Fail(s)
    /\ IF pc[s] \in {"enqueue", "unembed", "unpoint", "commit"} THEN Tangle({Subject(s)})
       ELSE Over(s)

-----------------------------------------------------------------------------
(* The worker *)

\* arq hands out a job, which stays its own until it is finished.
Take(s) ==
    /\ pc[s] = "idle" /\ audit = NoAudit
    /\ \E j \in BagToSet(queue) :
        /\ queue' = queue (-) SetToBag({j})
        /\ work' = [work EXCEPT ![s] = j]
        /\ Goto(s, IF j.op = "embed" THEN "embed" ELSE "load")
    /\ clean' = [clean EXCEPT ![s] = FALSE]
    /\ UNCHANGED <<tableVars, vectors, audit, read, begun, faults, reviewed, orphans, tangled,
                   lost>>

\* embed_content_job(): the vector first ...
Embed(s) ==
    /\ pc[s] = "embed"
    /\ vectors' = [vectors EXCEPT ![Subject(s)] = work[s].text]
    /\ lost' = lost \ {Subject(s)}
    /\ Step(s, "find")
    /\ Untangled
    /\ UNCHANGED <<tableVars, queue, audit, faults, reviewed, orphans>>

\* ... then the pointer: insert, or update if the text differs.
Find(s) ==
    /\ pc[s] = "find"
    /\ read' = [read EXCEPT ![s] = Seen(s, Home(s))]
    /\ Goto(s, "point")
    /\ Untangled
    /\ UNCHANGED <<tableVars, vectors, queue, audit, work, begun, faults, reviewed, orphans, lost>>

Point(s) ==
    /\ pc[s] = "point"
    /\ IF read[s] = work[s].text THEN UNCHANGED draft /\ Step(s, "commit")
       ELSE /\ Writable(s, Home(s))
            /\ (read[s] = Absent) = (db[Home(s)] = Absent)
            /\ Write(s, Home(s), work[s].text) /\ Step(s, "commit")
    /\ Untangled
    /\ UNCHANGED <<db, vectors, queue, audit, faults, reviewed, orphans, lost>>

\* The pointer was deleted, or inserted, since it was looked for: the job fails.
PointerMoved(s) ==
    /\ pc[s] = "point" /\ read[s] # work[s].text
    /\ Writable(s, Home(s))
    /\ (read[s] = Absent) # (db[Home(s)] = Absent)
    /\ Fail(s) /\ Tangle({Subject(s)})

\* parse_cv_job(): a CV that is not there is no work.
Load(s) ==
    /\ pc[s] = "load"
    /\ IF db[Home(s)] = Absent
       THEN /\ orphans' = orphans \cup {Subject(s)}
            /\ Leave(s)
       ELSE Step(s, "mark") /\ UNCHANGED orphans
    /\ Untangled
    /\ UNCHANGED <<tableVars, vectors, queue, audit, faults, reviewed, lost>>

Mark(s) ==
    /\ pc[s] = "mark" /\ Writable(s, Home(s))
    /\ db' = [db EXCEPT ![Home(s)] = Processing]
    /\ Step(s, "parse")
    /\ Untangled
    /\ UNCHANGED <<draft, vectors, queue, audit, faults, reviewed, orphans, lost>>

\* Whatever goes wrong with the file or the model, the CV is parsed or has failed.
Outcomes == {Parsed, Failed}

Parse(s) ==
    /\ pc[s] = "parse"
    /\ \E outcome \in Outcomes : Write(s, Home(s), outcome)
    /\ Step(s, "commit")
    /\ Untangled
    /\ UNCHANGED <<db, vectors, queue, audit, faults, reviewed, orphans, lost>>

\* The job fails where it does not expect to: the database before it has begun, the model of
\* the embeddings, Chroma, a commit, or arq's time limit on a job.  It is not run again.
JobFails(s) ==
    /\ pc[s] # "idle" /\ Op(s) \in Jobs
    /\ faults < MaxFaults /\ faults' = faults + 1
    /\ Leave(s) /\ DiscardRows(s)
    /\ orphans' = IF Op(s) = "parse" THEN orphans \cup {Subject(s)} ELSE orphans
    /\ Tangle({Subject(s)})
    /\ UNCHANGED <<vectors, queue, audit, reviewed, lost>>

Running == {s \in Sessions : work[s] # NoWork /\ work[s].op \in Jobs}

\* A bag of what the worker was doing.
Unfinished == [w \in {work[s] : s \in Running} |-> Cardinality({s \in Running : work[s] = w})]

\* The worker dies, or is stopped, and starts again: arq will run its jobs again, and the
\* pointers are read first.
Restart ==
    /\ faults < MaxFaults /\ faults' = faults + 1
    /\ queue' = queue (+) Unfinished
    /\ draft' = [s \in Sessions |-> IF s \in Running THEN Blank ELSE draft[s]]
    /\ pc' = [s \in Sessions |-> IF s \in Running THEN "idle" ELSE pc[s]]
    /\ work' = [s \in Sessions |-> IF s \in Running THEN NoWork ELSE work[s]]
    /\ read' = [s \in Sessions |-> IF s \in Running THEN Absent ELSE read[s]]
    /\ audit' = [i \in Items |-> db[Pointer(i)]]
    /\ UNCHANGED <<db, vectors, begun, historyVars>>

\* reconcile_missing_embeddings(): then the vectors are listed, and what is missing is
\* embedded again from the text the pointer had.
Missing == {i \in Items : audit[i] # Absent /\ vectors[i] = Absent}

Reconcile ==
    /\ audit # NoAudit
    /\ queue' = queue (+) SetToBag({[op |-> "embed", item |-> i, text |-> audit[i]] : i \in Missing})
    /\ Tangle({i \in Missing : Busy(i) \/ audit[i] # db[Pointer(i)]})
    /\ audit' = NoAudit
    /\ UNCHANGED <<tableVars, vectors, workVars, faults, reviewed, orphans, lost>>

\* Chroma loses a vector.
LoseVector(i) ==
    /\ faults < MaxFaults /\ faults' = faults + 1
    /\ vectors[i] # Absent
    /\ vectors' = [vectors EXCEPT ![i] = Absent]
    /\ lost' = lost \cup {i}
    /\ UNCHANGED <<tableVars, queue, audit, workVars, reviewed, orphans, clean, tangled>>

-----------------------------------------------------------------------------
Proceed(s) ==
    \/ Read(s) \/ WriteRow(s) \/ Enqueue(s) \/ Unembed(s) \/ Unpoint(s) \/ Commit(s)
    \/ Embed(s) \/ Find(s) \/ Point(s) \/ PointerMoved(s)
    \/ Load(s) \/ Mark(s) \/ Parse(s)

Next ==
    \/ \E s \in Sessions : Begin(s) \/ Take(s) \/ Proceed(s) \/ Abort(s) \/ JobFails(s)
    \/ Restart \/ Reconcile \/ \E i \in Items : LoseVector(i)

\* Every request ends, within its timeouts, and the worker goes on taking jobs; nothing
\* makes requests come, or faults.
Spec ==
    /\ Init /\ [][Next]_vars
    /\ \A s \in Sessions : WF_vars(Proceed(s))
    /\ WF_vars(\E s \in Sessions : Take(s)) /\ WF_vars(Reconcile)

-----------------------------------------------------------------------------
(* Properties *)

\* At rest the chat finds of an item exactly its text, if it is a fact or an approval has
\* read it, and nothing otherwise; the pointer says the same.  This holds again after every
\* request that nothing overlapped, however entangled the item was; but what was embedded
\* before a fact became empty stays (enqueue_embed, delete_embed, embed_content_job).
GroundedAtRest ==
    \A i \in Items : ~Busy(i) /\ i \notin tangled \cup lost =>
        \A row \in {db[Item(i)]} :
            /\ row = Absent \/ row.text # NoText =>
                  vectors[i] = Embedded(row) /\ db[Pointer(i)] = Embedded(row)
            /\ i \in Sections /\ row # Absent /\ row.approved => row.text \in reviewed[i]

\* Every CV that is uploaded, and every one that is retried, ends up parsed or failed,
\* unless its job came too early to see it, failed before it began to parse (no connection,
\* no commit of the PROCESSING), ran out of time or could not save the outcome: such a CV
\* stays PENDING or PROCESSING and is never taken up again (CVService.upload, parse_cv_job).
EveryUploadEnds ==
    \A v \in Cvs : db[Cv(v)] # Absent ~> db[Cv(v)] \in {Parsed, Failed} \/ v \in orphans
=============================================================================
