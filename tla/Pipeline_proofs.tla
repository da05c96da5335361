---------------------------- MODULE Pipeline_proofs ----------------------------
(***************************************************************************)
(* Proofs about Pipeline, for any number of sessions, items, CVs, requests *)
(* and faults: types, and what the chat finds of an item at rest.          *)
(***************************************************************************)
EXTENDS Pipeline, FiniteSetTheorems, TLAPS

-----------------------------------------------------------------------------
(***************************************************************************)
(* Types.  The invariant says which operations reach which step, with what *)
(* they have read and written there: so an ORM object that is written back *)
(* was read, and a job's text is never empty.                              *)
(***************************************************************************)

\* A fact needs no approval, a section always has a text.
RowsOf(i) ==
    {row \in ItemRow : /\ i \in Facts => row.approved
                       /\ i \in Sections => row.text \in Texts}

ItemRows == {Item(i) : i \in Items}
PointerRows == {Pointer(i) : i \in Items}
CvRows == {Cv(v) : v \in Cvs}

\* What a session may write to a row.
TableOf(r) ==
    CASE r \in ItemRows -> RowsOf(r[2]) \cup {Absent}
      [] r \in PointerRows -> Texts \cup {Absent}
      [] OTHER -> Statuses

Values == ItemRow \cup Texts \cup Statuses \cup {Absent, Unwritten}

WorkOK(w) ==
    /\ w \in Work
    /\ w.op \in FactOperations => w.item \in Facts
    /\ w.op \in SectionOperations => w.item \in Sections
    /\ w.op \in CvOperations \cup {"parse"} => w.item \in Cvs
    /\ w.op = "embed" => w.item \in Items
    /\ w.op \in {"create", "generate", "edit", "embed"} => w.text \in Texts

JobOK(j) == WorkOK(j) /\ j.op \in Jobs

OpsAt(step) ==
    CASE step = "read" -> Operations \ {"create", "upload"}
      [] step = "write" -> Operations
      [] step = "enqueue" -> Operations \ {"delete", "edit", "generate"}
      [] step \in {"unembed", "unpoint"} -> {"delete", "edit"}
      [] step = "commit" -> Operations \cup Jobs
      [] step \in {"embed", "find", "point"} -> {"embed"}
      [] OTHER -> {"parse"}

RowsTyped ==
    /\ db \in [Rows -> Values] /\ draft \in [Sessions -> [Rows -> Values]]
    /\ \A r \in Rows : db[r] \in TableOf(r) \cup {Absent}
    /\ \A s \in Sessions, r \in Rows : draft[s][r] \in TableOf(r) \cup {Unwritten}

\* What a session has read and written at its step.
Placed(s) ==
    /\ pc[s] = "idle" <=> work[s] = NoWork
    /\ work[s] # NoWork =>
        /\ WorkOK(work[s])
        /\ Op(s) \in OpsAt(pc[s])
        /\ pc[s] # "read" =>
            /\ Op(s) \in {"update", "edit", "approve"} => read[s] \in RowsOf(Subject(s))
            /\ Op(s) = "generate" => read[s] = Absent
        /\ pc[s] = "point" => read[s] \in Texts \cup {Absent}
    /\ \A r \in Rows : draft[s][r] # Unwritten =>
        /\ pc[s] \in {"enqueue", "unembed", "unpoint", "commit"}
        /\ \/ r = Home(s)
           \/ pc[s] = "commit" /\ Op(s) \in {"delete", "edit"} /\ r = Pointer(Subject(s))

VariablesTyped ==
    /\ vectors \in [Items -> Texts \cup {Absent}]
    /\ \A j \in BagToSet(queue) : JobOK(j) /\ queue[j] \in Nat \ {0}
    /\ audit \in [Items -> Texts \cup {Absent}] \cup {NoAudit}
    /\ pc \in [Sessions -> Steps]
    /\ work \in [Sessions -> Work \cup {NoWork}]
    /\ read \in [Sessions -> ItemRow \cup Texts \cup Statuses \cup {Absent}]
    /\ begun \in 0..MaxRequests /\ faults \in 0..MaxFaults
    /\ reviewed \in [Sections -> SUBSET Texts]
    /\ orphans \subseteq Cvs /\ tangled \subseteq Items /\ lost \subseteq Items
    /\ clean \in [Sessions -> BOOLEAN]

TypeInv == RowsTyped /\ VariablesTyped /\ \A s \in Sessions : Placed(s)

LEMMA RowNames ==
    /\ Rows = ItemRows \cup PointerRows \cup CvRows
    /\ \A i \in Items : Item(i) \in ItemRows /\ Pointer(i) \in PointerRows
    /\ \A v \in Cvs : Cv(v) \in CvRows
    /\ \A i, j : /\ Item(i) # Pointer(j) /\ Item(i) # Cv(j) /\ Pointer(i) # Cv(j)
                 /\ Item(i) = Item(j) => i = j
                 /\ Pointer(i) = Pointer(j) => i = j
                 /\ Cv(i) = Cv(j) => i = j
PROOF
<1>1. Rows = ItemRows \cup PointerRows \cup CvRows
    BY PipelineAssumption DEF ItemRows, PointerRows, CvRows
<1>2. /\ \A i \in Items : Item(i) \in ItemRows /\ Pointer(i) \in PointerRows
      /\ \A v \in Cvs : Cv(v) \in CvRows
    BY DEF ItemRows, PointerRows, CvRows
<1>3. \A i, j : /\ Item(i) # Pointer(j) /\ Item(i) # Cv(j) /\ Pointer(i) # Cv(j)
                /\ Item(i) = Item(j) => i = j
                /\ Pointer(i) = Pointer(j) => i = j
                /\ Cv(i) = Cv(j) => i = j
    BY DEF Item, Pointer, Cv
<1>. QED
    BY <1>1, <1>2, <1>3

LEMMA TableRows ==
    /\ \A i \in Items : /\ TableOf(Item(i)) = RowsOf(i) \cup {Absent}
                        /\ TableOf(Pointer(i)) = Texts \cup {Absent}
    /\ \A v \in Cvs : TableOf(Cv(v)) = Statuses
PROOF
<1>1. ASSUME NEW i \in Items
      PROVE  /\ TableOf(Item(i)) = RowsOf(i) \cup {Absent}
             /\ TableOf(Pointer(i)) = Texts \cup {Absent}
    <2>1. Item(i)[2] = i
        BY DEF Item
    <2>2. Pointer(i) \notin ItemRows
        BY RowNames DEF ItemRows
    <2>3. TableOf(Item(i)) = RowsOf(Item(i)[2]) \cup {Absent}
        <3>1. Item(i) \in ItemRows /\ Item(i) \notin PointerRows
            BY RowNames DEF PointerRows
        <3>. QED
            BY <3>1 DEF TableOf
    <2>4. TableOf(Pointer(i)) = Texts \cup {Absent}
        BY <2>2, RowNames DEF TableOf
    <2>. QED
        BY <2>1, <2>3, <2>4
<1>2. ASSUME NEW v \in Cvs PROVE TableOf(Cv(v)) = Statuses
    <2>1. Cv(v) \notin ItemRows /\ Cv(v) \notin PointerRows
        BY RowNames DEF ItemRows, PointerRows
    <2>. QED
        BY <2>1 DEF TableOf
<1>. QED
    BY <1>1, <1>2

\* None of the marks is a row, and every row has the type of some table.
LEMMA Marks ==
    /\ Absent # Unwritten
    /\ {Absent, Unwritten} \cap (ItemRow \cup Texts \cup {NoText} \cup Statuses) = {}
    /\ \A i : RowsOf(i) \subseteq ItemRow
    /\ \A r \in Rows : TableOf(r) \subseteq Values /\ Unwritten \notin TableOf(r)
PROOF
<1>1. /\ Absent # Unwritten
      /\ {Absent, Unwritten} \cap (ItemRow \cup Texts \cup {NoText} \cup Statuses) = {}
    BY PipelineAssumption
<1>2. \A i : RowsOf(i) \subseteq ItemRow
    BY DEF RowsOf
<1>3. ASSUME NEW r \in Rows PROVE TableOf(r) \subseteq Values /\ Unwritten \notin TableOf(r)
    BY <1>1, <1>2 DEF TableOf, Values
<1>. QED
    BY <1>1, <1>2, <1>3

LEMMA SeenRow ==
    ASSUME RowsTyped, NEW s \in Sessions, NEW r \in Rows
    PROVE  /\ Seen(s, r) \in TableOf(r) \cup {Absent}
           /\ Seen(s, r) # Unwritten
           /\ Seen(s, r) = IF draft[s][r] = Unwritten THEN db[r] ELSE draft[s][r]
PROOF
    BY Marks DEF RowsTyped, Seen

LEMMA HomeRow ==
    ASSUME NEW s \in Sessions, WorkOK(work[s])
    PROVE  /\ Op(s) \in {"embed"} => Home(s) = Pointer(Subject(s)) /\ Subject(s) \in Items
           /\ Op(s) \in CvOperations \cup {"parse"} => Home(s) = Cv(Subject(s)) /\ Subject(s) \in Cvs
           /\ Op(s) \in FactOperations \cup SectionOperations =>
                 Home(s) = Item(Subject(s)) /\ Subject(s) \in Items /\ Subject(s) \notin Cvs
           /\ Op(s) \in Operations \cup Jobs
           /\ Home(s) \in Rows
PROOF
<1>1. Op(s) \in Operations \cup Jobs /\ Subject(s) \in Items \cup Cvs
    BY DEF WorkOK, Work, Op, Subject
<1>2. Op(s) \in {"embed"} => Home(s) = Pointer(Subject(s)) /\ Subject(s) \in Items
    BY DEF WorkOK, Op, Subject, Home
<1>3. Op(s) \in CvOperations \cup {"parse"} => Home(s) = Cv(Subject(s)) /\ Subject(s) \in Cvs
    BY DEF WorkOK, Op, Subject, Home, CvOperations
<1>4. Op(s) \in FactOperations \cup SectionOperations =>
         Home(s) = Item(Subject(s)) /\ Subject(s) \in Items /\ Subject(s) \notin Cvs
    BY PipelineAssumption DEF WorkOK, Op, Subject, Home, FactOperations, SectionOperations, Items
<1>5. Home(s) \in Rows
    BY <1>1, <1>2, <1>3, <1>4, RowNames DEF Operations, Jobs
<1>. QED
    BY <1>1, <1>2, <1>3, <1>4, <1>5

-----------------------------------------------------------------------------
(* What a statement does to the rows *)

LEMMA TableDomain ==
    ASSUME RowsTyped, NEW s \in Sessions
    PROVE  /\ DOMAIN draft = Sessions /\ DOMAIN draft[s] = Rows /\ DOMAIN db = Rows
PROOF
    BY DEF RowsTyped

LEMMA RowWritten ==
    ASSUME RowsTyped, NEW s \in Sessions, NEW r \in Rows, NEW row \in TableOf(r),
           Write(s, r, row), UNCHANGED db
    PROVE  /\ RowsTyped'
           /\ \A o \in Sessions \ {s} : draft'[o] = draft[o] /\ draft[o][r] = Unwritten
           /\ draft'[s][r] = row /\ \A q \in Rows \ {r} : draft'[s][q] = draft[s][q]
PROOF
<1>1. draft \in [Sessions -> [Rows -> Values]] /\ row \in Values
    BY Marks DEF RowsTyped
<1>2. draft' = [draft EXCEPT ![s][r] = row]
    BY DEF Write
<1>3. /\ \A o \in Sessions \ {s} : draft'[o] = draft[o]
      /\ draft'[s][r] = row /\ \A q \in Rows \ {r} : draft'[s][q] = draft[s][q]
    BY <1>1, <1>2
<1>4. draft' \in [Sessions -> [Rows -> Values]]
    BY <1>1, <1>2
<1>5. \A o \in Sessions, q \in Rows : draft'[o][q] \in TableOf(q) \cup {Unwritten}
    BY <1>3 DEF RowsTyped
<1>6. RowsTyped'
    BY <1>4, <1>5 DEF RowsTyped
<1>. QED
    BY <1>3, <1>6 DEF Write, Writable

LEMMA RowsDiscarded ==
    ASSUME RowsTyped, NEW s \in Sessions, DiscardRows(s)
    PROVE  /\ RowsTyped' /\ db' = db
           /\ \A o \in Sessions \ {s} : draft'[o] = draft[o]
           /\ \A q \in Rows : draft'[s][q] = Unwritten
PROOF
<1>1. draft' = [draft EXCEPT ![s] = Blank] /\ db' = db
    BY DEF DiscardRows
<1>2. draft \in [Sessions -> [Rows -> Values]] /\ Blank \in [Rows -> Values]
    BY DEF RowsTyped, Blank, Values
<1>3. draft' \in [Sessions -> [Rows -> Values]]
    BY <1>1, <1>2
<1>4. /\ \A o \in Sessions \ {s} : draft'[o] = draft[o]
      /\ draft'[s] = Blank
    BY <1>1, <1>2
<1>5. \A q \in Rows : draft'[s][q] = Unwritten
    BY <1>4 DEF Blank
<1>6. \A o \in Sessions, q \in Rows : draft'[o][q] \in TableOf(q) \cup {Unwritten}
    BY <1>4, <1>5 DEF RowsTyped
<1>7. RowsTyped'
    BY <1>1, <1>3, <1>6 DEF RowsTyped
<1>. QED
    BY <1>1, <1>4, <1>5, <1>7

LEMMA RowsCommitted ==
    ASSUME RowsTyped, NEW s \in Sessions, CommitRows(s)
    PROVE  /\ RowsTyped'
           /\ \A q \in Rows : db'[q] = Seen(s, q)
           /\ \A o \in Sessions \ {s} : draft'[o] = draft[o]
           /\ \A q \in Rows : draft'[s][q] = Unwritten
PROOF
<1>1. draft' = [draft EXCEPT ![s] = Blank] /\ db' = [i \in Rows |-> Seen(s, i)]
    BY DEF CommitRows
<1>2. draft \in [Sessions -> [Rows -> Values]] /\ Blank \in [Rows -> Values]
    BY DEF RowsTyped, Blank, Values
<1>3. draft' \in [Sessions -> [Rows -> Values]]
    BY <1>1, <1>2
<1>4. /\ \A o \in Sessions \ {s} : draft'[o] = draft[o]
      /\ draft'[s] = Blank
    BY <1>1, <1>2
<1>5. \A q \in Rows : draft'[s][q] = Unwritten
    BY <1>4 DEF Blank
<1>6. \A o \in Sessions, q \in Rows : draft'[o][q] \in TableOf(q) \cup {Unwritten}
    BY <1>4, <1>5 DEF RowsTyped
<1>7. \A q \in Rows : db'[q] = Seen(s, q)
    BY <1>1
<1>8. \A q \in Rows : Seen(s, q) \in TableOf(q) \cup {Absent} /\ Seen(s, q) \in Values
    BY SeenRow, Marks DEF Values
<1>9. db' \in [Rows -> Values]
    BY <1>1, <1>8
<1>10. \A q \in Rows : db'[q] \in TableOf(q) \cup {Absent}
    BY <1>7, <1>8
<1>11. RowsTyped'
    BY <1>3, <1>6, <1>9, <1>10 DEF RowsTyped
<1>. QED
    BY <1>4, <1>5, <1>7, <1>11

LEMMA RowsKept ==
    ASSUME RowsTyped, UNCHANGED tableVars
    PROVE  RowsTyped' /\ db' = db /\ draft' = draft
PROOF
    BY DEF RowsTyped, tableVars

\* What a request writes is a row of its table: an update has the row it was read from.
LEMMA NewRowTyped ==
    ASSUME RowsTyped, NEW s \in Sessions, Placed(s), pc[s] = "write", work[s] # NoWork,
           NEW found, found = Seen(s, Home(s)), ~Vanished(s, found)
    PROVE  NewRow(s, found) \in TableOf(Home(s)) /\ Home(s) \in Rows
PROOF
<1>1. WorkOK(work[s]) /\ Op(s) \in Operations
    BY DEF Placed, OpsAt
<1>2. /\ work[s] \in Work /\ work[s].text \in Texts \cup {NoText}
      /\ Home(s) \in Rows
    BY <1>1, HomeRow DEF WorkOK, Work
<1>3. found \in TableOf(Home(s)) \cup {Absent}
    BY <1>2, SeenRow
<1>4. CASE Op(s) \in CvOperations
    <2>1. NewRow(s, found) = Pending /\ Home(s) = Cv(Subject(s)) /\ Subject(s) \in Cvs
        BY <1>1, <1>4, HomeRow DEF NewRow, CvOperations
    <2>. QED
        BY <1>2, <2>1, TableRows DEF Statuses
<1>5. CASE Op(s) \in FactOperations \cup SectionOperations
    <2> DEFINE i == Subject(s)
    <2>1. Home(s) = Item(i) /\ i \in Items
        BY <1>1, <1>5, HomeRow
    <2>2. TableOf(Home(s)) = RowsOf(i) \cup {Absent}
        BY <2>1, TableRows
    <2>3. /\ Op(s) \in FactOperations => i \in Facts /\ i \notin Sections
          /\ Op(s) \in SectionOperations => i \in Sections /\ i \notin Facts
          /\ Op(s) \in {"create", "generate", "edit"} => work[s].text \in Texts
        BY <1>1, PipelineAssumption DEF WorkOK, Op, Subject, FactOperations, SectionOperations
    <2>4. CASE Op(s) = "create"
        <3>1. NewRow(s, found) = [text |-> work[s].text, approved |-> TRUE]
            BY <2>4 DEF NewRow
        <3>. QED
            BY <1>2, <2>2, <2>3, <2>4, <3>1 DEF RowsOf, ItemRow, FactOperations
    <2>5. CASE Op(s) = "generate"
        <3>1. NewRow(s, found) = [text |-> work[s].text, approved |-> FALSE]
            BY <2>5 DEF NewRow
        <3>. QED
            BY <1>2, <2>2, <2>3, <2>5, <3>1 DEF RowsOf, ItemRow, SectionOperations
    <2>6. CASE Op(s) = "delete"
        BY <1>2, <2>2, <2>6 DEF NewRow
    <2>7. CASE Op(s) \in {"update", "edit", "approve"}
        <3>1. found \in RowsOf(i)
            BY <1>3, <2>2, <2>7 DEF Vanished
        <3>2. /\ found \in ItemRow
              /\ i \in Facts => found.approved
              /\ i \in Sections => found.text \in Texts
            BY <3>1 DEF RowsOf
        <3>3. read[s] \in ItemRow
            BY <2>7, Marks DEF Placed
        <3>4. found = [text |-> found.text, approved |-> found.approved]
            BY <3>2 DEF ItemRow
        <3>5. CASE Op(s) = "update"
            <4>1. NewRow(s, found) = [found EXCEPT !.text = work[s].text]
                BY <3>5 DEF NewRow
            <4>. QED
                BY <1>2, <2>2, <2>3, <3>2, <3>5, <4>1 DEF RowsOf, ItemRow, FactOperations
        <3>6. CASE Op(s) = "edit"
            <4>1. PICK b \in BOOLEAN : NewRow(s, found) = [text |-> work[s].text, approved |-> b]
                BY <3>2, <3>6 DEF NewRow, Edited, ItemRow
            <4>. QED
                BY <1>2, <2>2, <2>3, <3>6, <4>1 DEF RowsOf, ItemRow, SectionOperations
        <3>7. CASE Op(s) = "approve"
            <4>1. PICK b \in BOOLEAN : NewRow(s, found) = [text |-> found.text, approved |-> b]
                BY <3>2, <3>7 DEF NewRow, Approved, ItemRow
            <4>. QED
                BY <1>2, <2>2, <2>3, <3>2, <3>7, <4>1 DEF RowsOf, ItemRow, SectionOperations
        <3>. QED
            BY <2>7, <3>5, <3>6, <3>7
    <2>. QED
        BY <1>2, <1>5, <2>4, <2>5, <2>6, <2>7 DEF FactOperations, SectionOperations
<1>. QED
    BY <1>1, <1>4, <1>5 DEF Operations

-----------------------------------------------------------------------------
(* What a step does to the sessions *)

OthersSame(s) ==
    \A o \in Sessions \ {s} :
        pc'[o] = pc[o] /\ work'[o] = work[o] /\ read'[o] = read[o] /\ draft'[o] = draft[o]

LEMMA PlacedKept ==
    ASSUME NEW o \in Sessions, Placed(o),
           pc'[o] = pc[o], work'[o] = work[o], read'[o] = read[o], draft'[o] = draft[o]
    PROVE  Placed(o)'
PROOF
<1>1. Op(o)' = Op(o) /\ Subject(o)' = Subject(o)
    BY DEF Op, Subject
<1>2. Home(o)' = Home(o)
    BY <1>1 DEF Home
<1>. QED
    BY <1>1, <1>2 DEF Placed

LEMMA Assembled ==
    ASSUME TypeInv, NEW s \in Sessions, OthersSame(s), RowsTyped', VariablesTyped', Placed(s)'
    PROVE  TypeInv'
PROOF
<1>1. ASSUME NEW o \in Sessions, o # s PROVE Placed(o)'
    BY <1>1, PlacedKept DEF OthersSame, TypeInv
<1>. QED
    BY <1>1 DEF TypeInv

\* A step within the work of a session.
LEMMA StepMoves ==
    ASSUME VariablesTyped, NEW s \in Sessions, NEW next \in Steps, Step(s, next)
    PROVE  /\ pc' \in [Sessions -> Steps] /\ pc'[s] = next
           /\ \A o \in Sessions \ {s} : pc'[o] = pc[o]
           /\ work' = work /\ read' = read /\ begun' = begun
           /\ Op(s)' = Op(s) /\ Subject(s)' = Subject(s) /\ Home(s)' = Home(s)
PROOF
<1>1. /\ pc' = [pc EXCEPT ![s] = next] /\ pc \in [Sessions -> Steps]
      /\ work' = work /\ read' = read /\ begun' = begun
    BY DEF Step, Goto, VariablesTyped
<1>2. Op(s)' = Op(s) /\ Subject(s)' = Subject(s)
    BY <1>1 DEF Op, Subject
<1>3. Home(s)' = Home(s)
    BY <1>2 DEF Home
<1>. QED
    BY <1>1, <1>2, <1>3

\* The end of the work of a session.
LEMMA LeaveMoves ==
    ASSUME VariablesTyped, NEW s \in Sessions, Leave(s)
    PROVE  /\ pc' \in [Sessions -> Steps] /\ work' \in [Sessions -> Work \cup {NoWork}]
           /\ read' \in [Sessions -> ItemRow \cup Texts \cup Statuses \cup {Absent}]
           /\ pc'[s] = "idle" /\ work'[s] = NoWork /\ read'[s] = Absent
           /\ \A o \in Sessions \ {s} :
                 pc'[o] = pc[o] /\ work'[o] = work[o] /\ read'[o] = read[o]
           /\ begun' = begun
PROOF
<1>1. /\ pc' = [pc EXCEPT ![s] = "idle"] /\ pc \in [Sessions -> Steps]
      /\ work' = [work EXCEPT ![s] = NoWork] /\ work \in [Sessions -> Work \cup {NoWork}]
      /\ read' = [read EXCEPT ![s] = Absent]
      /\ read \in [Sessions -> ItemRow \cup Texts \cup Statuses \cup {Absent}]
      /\ begun' = begun
    BY DEF Leave, Goto, VariablesTyped
<1>2. "idle" \in Steps
    BY DEF Steps
<1>. QED
    BY <1>1, <1>2

\* A session that has left has written nothing.
LEMMA LeftPlaced ==
    ASSUME NEW s \in Sessions, pc'[s] = "idle", work'[s] = NoWork,
           \A r \in Rows : draft'[s][r] = Unwritten
    PROVE  Placed(s)'
PROOF
    BY DEF Placed

\* A session that goes on, with what it wrote before or one more row.
LEMMA StepPlaced ==
    ASSUME TypeInv, NEW s \in Sessions, work[s] # NoWork,
           NEW next \in Steps, Step(s, next), next # "idle", pc[s] # "read",
           Op(s) \in OpsAt(next), next = "point" => read[s] \in Texts \cup {Absent},
           \A r \in Rows : draft'[s][r] # Unwritten =>
              /\ next \in {"enqueue", "unembed", "unpoint", "commit"}
              /\ \/ r = Home(s)
                 \/ next = "commit" /\ Op(s) \in {"delete", "edit"} /\ r = Pointer(Subject(s))
    PROVE  Placed(s)'
PROOF
<1>1. /\ pc'[s] = next /\ work' = work /\ read' = read
      /\ Op(s)' = Op(s) /\ Subject(s)' = Subject(s) /\ Home(s)' = Home(s)
    BY StepMoves DEF TypeInv
<1>2. WorkOK(work[s]) /\ Placed(s)
    BY DEF TypeInv, Placed
<1>. QED
    BY <1>1, <1>2 DEF Placed

LEMMA WorkingSession ==
    ASSUME TypeInv, NEW s \in Sessions, pc[s] # "idle"
    PROVE  /\ work[s] # NoWork /\ WorkOK(work[s]) /\ Op(s) \in OpsAt(pc[s])
           /\ Home(s) \in Rows /\ Op(s) \in Operations \cup Jobs
           /\ Subject(s) \in Items \cup Cvs /\ work[s].text \in Texts \cup {NoText}
           /\ work[s] \in Work
PROOF
<1>1. work[s] # NoWork /\ WorkOK(work[s]) /\ Op(s) \in OpsAt(pc[s])
    BY DEF TypeInv, Placed
<1>. QED
    BY <1>1, HomeRow DEF WorkOK, Work, Subject

\* Before it writes, a session has written nothing.
LEMMA NothingWritten ==
    ASSUME TypeInv, NEW s \in Sessions,
           pc[s] \notin {"enqueue", "unembed", "unpoint", "commit"}
    PROVE  \A r \in Rows : draft[s][r] = Unwritten
PROOF
    BY DEF TypeInv, Placed

LEMMA HistoryTyped ==
    ASSUME VariablesTyped, NEW s \in Sessions, NEW S
    PROVE  /\ Tangle(S) => tangled' \subseteq Items /\ clean' \in [Sessions -> BOOLEAN]
           /\ Over(s) => tangled' \subseteq Items /\ clean' \in [Sessions -> BOOLEAN]
           /\ Untangled => tangled' \subseteq Items /\ clean' \in [Sessions -> BOOLEAN]
PROOF
<1>1. ASSUME Tangle(S) PROVE tangled' \subseteq Items /\ clean' \in [Sessions -> BOOLEAN]
    <2>1. /\ tangled' = tangled \cup (S \cap Items) /\ tangled \subseteq Items
          /\ clean' = [o \in Sessions |-> clean[o] /\ ~\E i \in S : On(o, i)]
        BY <1>1 DEF Tangle, VariablesTyped
    <2>2. \A o \in Sessions : (clean[o] /\ ~\E i \in S : On(o, i)) \in BOOLEAN
        OBVIOUS
    <2>. QED
        BY <2>1, <2>2
<1>2. ASSUME Over(s) PROVE tangled' \subseteq Items /\ clean' \in [Sessions -> BOOLEAN]
    BY <1>2 DEF Over, VariablesTyped
<1>3. ASSUME Untangled PROVE tangled' \subseteq Items /\ clean' \in [Sessions -> BOOLEAN]
    BY <1>3 DEF Untangled, VariablesTyped
<1>. QED
    BY <1>1, <1>2, <1>3

\* The end without a commit, of a request or a job.
LEMMA FailTypes ==
    ASSUME TypeInv, NEW s \in Sessions, Leave(s), DiscardRows(s),
           UNCHANGED <<vectors, queue, audit, reviewed, lost>>, faults' \in 0..MaxFaults,
           orphans' \subseteq Cvs, tangled' \subseteq Items, clean' \in [Sessions -> BOOLEAN]
    PROVE  TypeInv' /\ OthersSame(s)
PROOF
<1>1. RowsTyped /\ VariablesTyped
    BY DEF TypeInv
<1>2. /\ RowsTyped' /\ \A o \in Sessions \ {s} : draft'[o] = draft[o]
      /\ \A r \in Rows : draft'[s][r] = Unwritten
    BY <1>1, RowsDiscarded
<1>3. VariablesTyped'
    BY <1>1, LeaveMoves DEF VariablesTyped
<1>4. Placed(s)'
    BY <1>1, <1>2, LeaveMoves, LeftPlaced
<1>5. OthersSame(s)
    BY <1>1, <1>2, LeaveMoves DEF OthersSame
<1>. QED
    BY <1>2, <1>3, <1>4, <1>5, Assembled

\* A step within the work of a session keeps the types if what it changes has them.
LEMMA StepTypes ==
    ASSUME TypeInv, NEW s \in Sessions, pc[s] # "idle", pc[s] # "read",
           NEW next \in Steps, Step(s, next), next # "idle",
           Op(s) \in OpsAt(next), next = "point" => read[s] \in Texts \cup {Absent},
           RowsTyped', \A o \in Sessions \ {s} : draft'[o] = draft[o],
           \A r \in Rows : draft'[s][r] # Unwritten =>
              /\ next \in {"enqueue", "unembed", "unpoint", "commit"}
              /\ \/ r = Home(s)
                 \/ next = "commit" /\ Op(s) \in {"delete", "edit"} /\ r = Pointer(Subject(s)),
           vectors' \in [Items -> Texts \cup {Absent}],
           \A j \in BagToSet(queue') : JobOK(j) /\ queue'[j] \in Nat \ {0},
           lost' \subseteq Items,
           UNCHANGED <<audit, faults, reviewed, orphans>>, Untangled
    PROVE  TypeInv' /\ OthersSame(s)
PROOF
<1>1. RowsTyped /\ VariablesTyped
    BY DEF TypeInv
<1>2. VariablesTyped'
    BY <1>1, StepMoves, HistoryTyped DEF VariablesTyped
<1>3. Placed(s)'
    BY WorkingSession, StepPlaced
<1>4. OthersSame(s)
    BY <1>1, StepMoves DEF OthersSame
<1>. QED
    BY <1>2, <1>3, <1>4, Assembled

LEMMA QueueKept ==
    ASSUME VariablesTyped, UNCHANGED queue
    PROVE  \A j \in BagToSet(queue') : JobOK(j) /\ queue'[j] \in Nat \ {0}
PROOF
    BY DEF VariablesTyped

-----------------------------------------------------------------------------
(* The types step by step: requests *)

LEMMA RequestWork ==
    ASSUME NEW i \in Items \cup Cvs, NEW t \in Texts \cup {NoText}, NEW op \in Asks(i),
           t = NoText => ~WithText(op) \/ (op = "update" /\ i \in Facts)
    PROVE  /\ WorkOK([op |-> op, item |-> i, text |-> t]) /\ op \in Operations
           /\ op \in FactOperations => i \in Facts
           /\ op \in SectionOperations => i \in Sections
           /\ op \in CvOperations => i \in Cvs
PROOF
<1>1. /\ i \in Facts => op \in FactOperations
      /\ i \in Sections => op \in SectionOperations
      /\ i \in Cvs => op \in CvOperations
    BY PipelineAssumption DEF Asks, Items
<1>2. i \in Facts \/ i \in Sections \/ i \in Cvs
    BY DEF Items
<1>3. /\ op \in Operations
      /\ op \in FactOperations => i \in Facts
      /\ op \in SectionOperations => i \in Sections
      /\ op \in CvOperations => i \in Cvs
    BY <1>1, <1>2 DEF Operations, FactOperations, SectionOperations, CvOperations
<1>4. op \in {"create", "generate", "edit"} => t \in Texts
    BY <1>3 DEF WithText
<1>5. [op |-> op, item |-> i, text |-> t] \in Work
    BY <1>3 DEF Work
<1>6. op \notin Jobs
    BY <1>3 DEF Operations, FactOperations, SectionOperations, CvOperations, Jobs
<1>. QED
    BY <1>3, <1>4, <1>5, <1>6 DEF WorkOK, Jobs

LEMMA BeginTypes ==
    ASSUME TypeInv, NEW s \in Sessions, Begin(s)
    PROVE  TypeInv' /\ OthersSame(s)
PROOF
<1>1. RowsTyped /\ VariablesTyped
    BY DEF TypeInv
<1>0. PICK i \in Items \cup Cvs, t \in Texts \cup {NoText} : \E op \in Asks(i) :
        /\ t = NoText => ~WithText(op) \/ (op = "update" /\ i \in Facts)
        /\ work' = [work EXCEPT ![s] = [op |-> op, item |-> i, text |-> t]]
        /\ Goto(s, IF op \in {"create", "upload"} THEN "write" ELSE "read")
        /\ tangled' = IF Busy(i) /\ i \in Items THEN tangled \cup {i} ELSE tangled
        /\ clean' = [o \in Sessions |-> IF o = s THEN ~Busy(i) ELSE clean[o] /\ ~On(o, i)]
    BY DEF Begin
<1>2. PICK op \in Asks(i) :
        /\ t = NoText => ~WithText(op) \/ (op = "update" /\ i \in Facts)
        /\ work' = [work EXCEPT ![s] = [op |-> op, item |-> i, text |-> t]]
        /\ Goto(s, IF op \in {"create", "upload"} THEN "write" ELSE "read")
        /\ tangled' = IF Busy(i) /\ i \in Items THEN tangled \cup {i} ELSE tangled
        /\ clean' = [o \in Sessions |-> IF o = s THEN ~Busy(i) ELSE clean[o] /\ ~On(o, i)]
    BY <1>0
<1> DEFINE w == [op |-> op, item |-> i, text |-> t]
           next == IF op \in {"create", "upload"} THEN "write" ELSE "read"
<1>3. WorkOK(w) /\ op \in Operations /\ w \in Work
    BY <1>2, RequestWork DEF WorkOK
<1>4. /\ pc[s] = "idle" /\ begun < MaxRequests /\ begun' = begun + 1
      /\ UNCHANGED <<tableVars, vectors, queue, audit, read, faults, reviewed, orphans, lost>>
    BY DEF Begin
<1>5. RowsTyped' /\ db' = db /\ draft' = draft
    BY <1>1, <1>4, RowsKept
<1>6. /\ next \in Steps /\ next # "idle" /\ pc' = [pc EXCEPT ![s] = next]
      /\ op \in OpsAt(next)
    BY <1>2, <1>3 DEF Goto, Steps, OpsAt
<1> HIDE DEF next, w
<1>7. /\ pc' \in [Sessions -> Steps] /\ pc'[s] = next
      /\ \A o \in Sessions \ {s} : pc'[o] = pc[o]
    BY <1>1, <1>6 DEF VariablesTyped
<1>8. work' = [work EXCEPT ![s] = w]
    BY <1>2 DEF w
<1>9. /\ work' \in [Sessions -> Work \cup {NoWork}] /\ work'[s] = w
      /\ \A o \in Sessions \ {s} : work'[o] = work[o]
    BY <1>1, <1>3, <1>8 DEF VariablesTyped
<1>10. begun' \in 0..MaxRequests
    BY <1>1, <1>4, PipelineAssumption DEF VariablesTyped
<1>11. tangled' \subseteq Items
    BY <1>1, <1>2 DEF VariablesTyped
<1>12. clean' \in [Sessions -> BOOLEAN]
    <2>1. \A o \in Sessions : (IF o = s THEN ~Busy(i) ELSE clean[o] /\ ~On(o, i)) \in BOOLEAN
        BY DEF Busy
    <2>. QED
        BY <1>2, <2>1
<1>13. VariablesTyped'
    BY <1>1, <1>4, <1>7, <1>9, <1>10, <1>11, <1>12 DEF VariablesTyped
<1>14. OthersSame(s)
    BY <1>4, <1>5, <1>7, <1>9 DEF OthersSame
<1>15. Placed(s)'
    <2>1. \A r \in Rows : draft'[s][r] = Unwritten
        BY <1>4, <1>5, NothingWritten
    <2>2. Op(s)' = op /\ w # NoWork
        BY <1>3, <1>9, PipelineAssumption DEF Op, w
    <2>3. read'[s] = Absent \/ op \in {"create", "upload"} \/ next = "read"
        BY DEF next
    <2>4. op \in {"create", "upload"} => op \notin {"update", "edit", "approve", "generate"}
        OBVIOUS
    <2>5. next # "read" => op \in {"create", "upload"} /\ next = "write"
        BY DEF next
    <2>. QED
        BY <1>3, <1>6, <1>7, <1>9, <2>1, <2>2, <2>4, <2>5 DEF Placed
<1>. QED
    BY <1>5, <1>13, <1>14, <1>15, Assembled

LEMMA ReadTypes ==
    ASSUME TypeInv, NEW s \in Sessions, Read(s)
    PROVE  TypeInv' /\ OthersSame(s)
PROOF
<1> DEFINE row == Seen(s, Home(s))
<1>1. RowsTyped /\ VariablesTyped /\ pc[s] = "read"
    BY DEF TypeInv, Read
<1>2. /\ work[s] # NoWork /\ WorkOK(work[s]) /\ Home(s) \in Rows
      /\ Op(s) \in Operations \ {"create", "upload"}
    BY <1>1, WorkingSession DEF OpsAt
<1>3. row \in TableOf(Home(s)) \cup {Absent}
    BY <1>1, <1>2, SeenRow
<1>4. CASE Refused(s, row)
    <2>1. Fail(s) /\ Over(s)
        BY <1>4 DEF Read
    <2>2. /\ Leave(s) /\ DiscardRows(s)
          /\ UNCHANGED <<vectors, queue, audit, faults, reviewed, orphans, lost>>
        BY <2>1 DEF Fail
    <2>. QED
        BY <1>1, <2>1, <2>2, FailTypes, HistoryTyped DEF VariablesTyped
<1>5. CASE ~Refused(s, row)
    <2>1. /\ read' = [read EXCEPT ![s] = row] /\ Goto(s, "write") /\ Untangled
          /\ reviewed' = IF Op(s) = "approve"
                         THEN [reviewed EXCEPT ![Subject(s)] = @ \cup {row.text}] ELSE reviewed
          /\ UNCHANGED <<tableVars, vectors, queue, audit, work, begun, faults, orphans, lost>>
        BY <1>5 DEF Read
    <2>2. RowsTyped' /\ db' = db /\ draft' = draft
        BY <1>1, <2>1, RowsKept
    <2>3. /\ pc' \in [Sessions -> Steps] /\ pc'[s] = "write"
          /\ \A o \in Sessions \ {s} : pc'[o] = pc[o]
        BY <1>1, <2>1 DEF Goto, VariablesTyped, Steps
    <2>4. /\ Op(s) \in {"update", "edit", "approve"} =>
                row \in RowsOf(Subject(s)) /\ Subject(s) \in Items
          /\ Op(s) = "generate" => row = Absent
          /\ row \in ItemRow \cup Texts \cup Statuses \cup {Absent}
        <3>1. CASE Op(s) \in CvOperations
            <4>1. row \in Statuses \cup {Absent}
                BY <1>2, <1>3, <3>1, HomeRow, TableRows
            <4>. QED
                BY <3>1, <4>1 DEF CvOperations
        <3>2. CASE Op(s) \in FactOperations \cup SectionOperations
            <4>1. row \in RowsOf(Subject(s)) \cup {Absent} /\ Subject(s) \in Items
                BY <1>2, <1>3, <3>2, HomeRow, TableRows
            <4>2. Op(s) = "generate" => row = Absent
                BY <1>5 DEF Refused
            <4>3. Op(s) \in {"update", "edit", "approve"} => row # Absent
                BY <1>5 DEF Refused
            <4>. QED
                BY <4>1, <4>2, <4>3, Marks
        <3>. QED
            BY <1>2, <3>1, <3>2 DEF Operations
    <2>5. read' \in [Sessions -> ItemRow \cup Texts \cup Statuses \cup {Absent}]
          /\ read'[s] = row /\ \A o \in Sessions \ {s} : read'[o] = read[o]
        BY <1>1, <2>1, <2>4 DEF VariablesTyped
    <2>6. reviewed' \in [Sections -> SUBSET Texts]
        <3>1. CASE Op(s) = "approve"
            <4>1. row \in RowsOf(Subject(s)) /\ Subject(s) \in Sections
                BY <1>2, <2>4, <3>1 DEF WorkOK, Op, Subject, SectionOperations
            <4>2. row.text \in Texts
                BY <4>1 DEF RowsOf
            <4>. QED
                BY <1>1, <2>1, <3>1, <4>1, <4>2 DEF VariablesTyped
        <3>. QED
            BY <1>1, <2>1, <3>1 DEF VariablesTyped
    <2>7. VariablesTyped'
        BY <1>1, <2>1, <2>3, <2>5, <2>6, HistoryTyped DEF VariablesTyped
    <2>8. OthersSame(s)
        BY <2>1, <2>2, <2>3, <2>5 DEF OthersSame
    <2>9. Placed(s)'
        <3>1. \A r \in Rows : draft'[s][r] = Unwritten
            BY <1>1, <2>2, NothingWritten
        <3>2. work' = work /\ Op(s)' = Op(s) /\ Subject(s)' = Subject(s)
            BY <2>1 DEF Op, Subject
        <3>. QED
            BY <1>2, <2>3, <2>4, <2>5, <3>1, <3>2 DEF Placed, OpsAt
    <2>. QED
        BY <2>2, <2>7, <2>8, <2>9, Assembled
<1>. QED
    BY <1>4, <1>5

LEMMA WriteRowTypes ==
    ASSUME TypeInv, NEW s \in Sessions, WriteRow(s)
    PROVE  TypeInv' /\ OthersSame(s)
PROOF
<1> DEFINE found == Seen(s, Home(s))
<1>1. RowsTyped /\ VariablesTyped /\ pc[s] = "write" /\ Placed(s)
    BY DEF TypeInv, WriteRow
<1>2. work[s] # NoWork /\ Home(s) \in Rows /\ Op(s) \in Operations
    BY <1>1, WorkingSession DEF OpsAt
<1>3. CASE Vanished(s, found)
    <2>1. Fail(s) /\ Over(s)
        BY <1>3 DEF WriteRow
    <2>2. /\ Leave(s) /\ DiscardRows(s)
          /\ UNCHANGED <<vectors, queue, audit, faults, reviewed, orphans, lost>>
        BY <2>1 DEF Fail
    <2>. QED
        BY <1>1, <2>1, <2>2, FailTypes, HistoryTyped DEF VariablesTyped
<1>4. CASE ~Vanished(s, found)
    <2>1. /\ Write(s, Home(s), NewRow(s, found)) /\ Step(s, AfterWrite(Op(s))) /\ Untangled
          /\ UNCHANGED <<db, vectors, queue, audit, faults, reviewed, orphans, lost>>
        BY <1>4 DEF WriteRow
    <2>2. NewRow(s, found) \in TableOf(Home(s))
        BY <1>1, <1>2, <1>4, NewRowTyped
    <2>3. /\ RowsTyped' /\ \A o \in Sessions \ {s} : draft'[o] = draft[o]
          /\ \A q \in Rows \ {Home(s)} : draft'[s][q] = draft[s][q]
        BY <1>1, <1>2, <2>1, <2>2, RowWritten
    <2>4. \A q \in Rows \ {Home(s)} : draft'[s][q] = Unwritten
        BY <1>1, <2>3, NothingWritten
    <2>5. /\ AfterWrite(Op(s)) \in {"enqueue", "unembed", "commit"}
          /\ Op(s) \in OpsAt(AfterWrite(Op(s)))
        BY <1>2 DEF AfterWrite, OpsAt, Operations, FactOperations, SectionOperations, CvOperations
    <2>6. AfterWrite(Op(s)) \in Steps
        BY <2>5 DEF Steps
    <2> DEFINE next == AfterWrite(Op(s))
    <2> HIDE DEF next
    <2>7. /\ vectors' \in [Items -> Texts \cup {Absent}] /\ lost' \subseteq Items
          /\ \A j \in BagToSet(queue') : JobOK(j) /\ queue'[j] \in Nat \ {0}
        BY <1>1, <2>1, QueueKept DEF VariablesTyped
    <2>. QED
        BY <1>1, <2>1, <2>3, <2>4, <2>5, <2>6, <2>7, StepTypes
<1>. QED
    BY <1>3, <1>4

\* What a request has the worker do.
LEMMA JobTyped ==
    ASSUME TypeInv, NEW s \in Sessions, pc[s] = "enqueue", Enqueued(JobOf(s))
    PROVE  JobOK(JobOf(s))
PROOF
<1>1. /\ WorkOK(work[s]) /\ Op(s) \in Operations \ {"delete", "edit", "generate"}
      /\ Placed(s) /\ work[s] # NoWork /\ work[s].text \in Texts \cup {NoText}
    BY WorkingSession DEF OpsAt, TypeInv
<1>2. CASE Op(s) \in CvOperations
    <2>1. Subject(s) \in Cvs /\ Op(s) # "approve"
        BY <1>1, <1>2, HomeRow DEF CvOperations
    <2>2. JobOf(s) = [op |-> "parse", item |-> Subject(s), text |-> work[s].text]
        BY <2>1 DEF JobOf
    <2>. QED
        BY <1>1, <2>1, <2>2 DEF JobOK, WorkOK, Work, Jobs, FactOperations, SectionOperations,
           CvOperations
<1>3. CASE Op(s) \in FactOperations \cup SectionOperations
    <2>1. Subject(s) \in Items /\ Subject(s) \notin Cvs
        BY <1>1, <1>3, HomeRow
    <2>2. Op(s) = "approve" => read[s].text \in Texts \cup {NoText}
        <3>1. Op(s) = "approve" => read[s] \in ItemRow
            BY <1>1, Marks DEF Placed
        <3>. QED
            BY <3>1 DEF ItemRow
    <2>3. PICK t \in Texts \cup {NoText} :
              JobOf(s) = [op |-> "embed", item |-> Subject(s), text |-> t]
        BY <1>1, <2>1, <2>2 DEF JobOf
    <2>4. t \in Texts
        BY <2>3 DEF Enqueued
    <2>. QED
        BY <2>1, <2>3, <2>4 DEF JobOK, WorkOK, Work, Jobs, FactOperations, SectionOperations,
           CvOperations
<1>. QED
    BY <1>1, <1>2, <1>3 DEF Operations

\* A job put into the queue, or none.
LEMMA QueueGrows ==
    ASSUME VariablesTyped, NEW S, \A j \in S : JobOK(j), queue' = queue (+) SetToBag(S)
    PROVE  /\ \A j \in BagToSet(queue') : JobOK(j) /\ queue'[j] \in Nat \ {0}
           /\ BagToSet(queue') = BagToSet(queue) \cup S
           /\ \A j \in BagToSet(queue) \ S : queue'[j] = queue[j]
           /\ \A j \in S \ BagToSet(queue) : queue'[j] = 1
PROOF
<1>1. queue' = [j \in BagToSet(queue) \cup S |->
                   (IF j \in BagToSet(queue) THEN queue[j] ELSE 0) + (IF j \in S THEN 1 ELSE 0)]
    BY DEF SetToBag, BagToSet, (+)
<1>2. \A j \in BagToSet(queue) : JobOK(j) /\ queue[j] \in Nat \ {0}
    BY DEF VariablesTyped
<1>3. BagToSet(queue') = BagToSet(queue) \cup S
    BY <1>1 DEF BagToSet
<1>4. \A j \in BagToSet(queue') :
          queue'[j] = (IF j \in BagToSet(queue) THEN queue[j] ELSE 0) + (IF j \in S THEN 1 ELSE 0)
    BY <1>1, <1>3
<1>. QED
    BY <1>2, <1>3, <1>4

LEMMA EnqueueTypes ==
    ASSUME TypeInv, NEW s \in Sessions, Enqueue(s)
    PROVE  TypeInv' /\ OthersSame(s)
PROOF
<1>1. /\ RowsTyped /\ VariablesTyped /\ pc[s] = "enqueue" /\ Placed(s)
      /\ Step(s, "commit") /\ Untangled
      /\ UNCHANGED <<tableVars, vectors, audit, faults, reviewed, orphans, lost>>
      /\ queue' = IF Enqueued(JobOf(s)) THEN queue (+) SetToBag({JobOf(s)}) ELSE queue
    BY DEF TypeInv, Enqueue
<1>2. \A j \in BagToSet(queue') : JobOK(j) /\ queue'[j] \in Nat \ {0}
    <2>1. CASE Enqueued(JobOf(s))
        <3>1. \A j \in {JobOf(s)} : JobOK(j)
            BY <1>1, <2>1, JobTyped
        <3>2. queue' = queue (+) SetToBag({JobOf(s)})
            BY <1>1, <2>1
        <3>. QED
            BY <1>1, <3>1, <3>2, QueueGrows
    <2>2. CASE ~Enqueued(JobOf(s))
        BY <1>1, <2>2, QueueKept
    <2>. QED
        BY <2>1, <2>2
<1>3. RowsTyped' /\ draft' = draft
    BY <1>1, RowsKept
<1>4. "commit" \in Steps /\ Op(s) \in OpsAt("commit")
    BY <1>1, WorkingSession DEF Steps, OpsAt
<1>5. \A r \in Rows : draft'[s][r] # Unwritten => r = Home(s)
    BY <1>1, <1>3 DEF Placed
<1>6. vectors' \in [Items -> Texts \cup {Absent}] /\ lost' \subseteq Items
    BY <1>1 DEF VariablesTyped
<1>. QED
    BY <1>1, <1>2, <1>3, <1>4, <1>5, <1>6, StepTypes

LEMMA UnembedTypes ==
    ASSUME TypeInv, NEW s \in Sessions, Unembed(s)
    PROVE  TypeInv' /\ OthersSame(s)
PROOF
<1>1. /\ RowsTyped /\ VariablesTyped /\ pc[s] = "unembed" /\ Placed(s)
      /\ Step(s, "unpoint") /\ Untangled
      /\ UNCHANGED <<tableVars, queue, audit, faults, reviewed, orphans, lost>>
      /\ vectors' = [vectors EXCEPT ![Subject(s)] = Absent]
    BY DEF TypeInv, Unembed
<1>3. RowsTyped' /\ draft' = draft
    BY <1>1, RowsKept
<1>4. "unpoint" \in Steps /\ Op(s) \in OpsAt("unpoint")
    BY <1>1, WorkingSession DEF Steps, OpsAt
<1>5. \A r \in Rows : draft'[s][r] # Unwritten => r = Home(s)
    BY <1>1, <1>3 DEF Placed
<1>6. vectors' \in [Items -> Texts \cup {Absent}] /\ lost' \subseteq Items
    BY <1>1 DEF VariablesTyped
<1>7. \A j \in BagToSet(queue') : JobOK(j) /\ queue'[j] \in Nat \ {0}
    BY <1>1, QueueKept
<1>. QED
    BY <1>1, <1>3, <1>4, <1>5, <1>6, <1>7, StepTypes

LEMMA UnpointTypes ==
    ASSUME TypeInv, NEW s \in Sessions, Unpoint(s)
    PROVE  TypeInv' /\ OthersSame(s)
PROOF
<1> DEFINE p == Pointer(Subject(s))
<1>1. /\ RowsTyped /\ VariablesTyped /\ pc[s] = "unpoint" /\ Placed(s)
      /\ Step(s, "commit") /\ Untangled
      /\ UNCHANGED <<db, vectors, queue, audit, faults, reviewed, orphans, lost>>
      /\ draft' = draft \/ Write(s, p, Absent)
    BY DEF TypeInv, Unpoint
<1>2. work[s] # NoWork /\ WorkOK(work[s]) /\ Op(s) \in {"delete", "edit"}
    BY <1>1, WorkingSession DEF OpsAt
<1>3. Subject(s) \in Items /\ p \in Rows /\ Absent \in TableOf(p)
    BY <1>2, HomeRow, RowNames, TableRows DEF FactOperations, SectionOperations
<1>4. /\ RowsTyped' /\ \A o \in Sessions \ {s} : draft'[o] = draft[o]
      /\ \A q \in Rows \ {p} : draft'[s][q] = draft[s][q]
    <2>1. CASE draft' = draft
        BY <1>1, <2>1, RowsKept DEF tableVars
    <2>2. CASE Write(s, p, Absent)
        BY <1>1, <1>3, <2>2, RowWritten
    <2>. QED
        BY <1>1, <2>1, <2>2
<1>5. "commit" \in Steps /\ Op(s) \in OpsAt("commit")
    BY <1>2 DEF Steps, OpsAt, Operations, FactOperations, SectionOperations
<1>6. \A r \in Rows : draft'[s][r] # Unwritten => r = Home(s) \/ r = p
    BY <1>1, <1>4 DEF Placed
<1>7. /\ vectors' \in [Items -> Texts \cup {Absent}] /\ lost' \subseteq Items
      /\ \A j \in BagToSet(queue') : JobOK(j) /\ queue'[j] \in Nat \ {0}
    BY <1>1, QueueKept DEF VariablesTyped
<1>. QED
    BY <1>1, <1>2, <1>4, <1>5, <1>6, <1>7, StepTypes

LEMMA CommitTypes ==
    ASSUME TypeInv, NEW s \in Sessions, Commit(s)
    PROVE  TypeInv' /\ OthersSame(s)
PROOF
<1>1. /\ RowsTyped /\ VariablesTyped /\ CommitRows(s) /\ Leave(s)
      /\ tangled' = tangled \/ tangled' = tangled \ {Subject(s)}
      /\ clean' = [clean EXCEPT ![s] = FALSE]
      /\ UNCHANGED <<vectors, queue, audit, faults, reviewed, orphans, lost>>
    BY DEF TypeInv, Commit
<1>2. /\ RowsTyped' /\ \A o \in Sessions \ {s} : draft'[o] = draft[o]
      /\ \A r \in Rows : draft'[s][r] = Unwritten
    BY <1>1, RowsCommitted
<1>3. tangled' \subseteq Items /\ clean' \in [Sessions -> BOOLEAN]
    BY <1>1 DEF VariablesTyped
<1>4. VariablesTyped'
    BY <1>1, <1>3, LeaveMoves DEF VariablesTyped
<1>5. Placed(s)'
    BY <1>1, <1>2, LeaveMoves, LeftPlaced
<1>6. OthersSame(s)
    BY <1>1, <1>2, LeaveMoves DEF OthersSame
<1>. QED
    BY <1>2, <1>4, <1>5, <1>6, Assembled

LEMMA AbortTypes ==
    ASSUME TypeInv, NEW s \in Sessions, Abort(s)
    PROVE  TypeInv' /\ OthersSame(s)
PROOF
<1>1. VariablesTyped /\ Fail(s) /\ (Tangle({Subject(s)}) \/ Over(s))
    BY DEF TypeInv, Abort
<1>2. /\ Leave(s) /\ DiscardRows(s)
      /\ UNCHANGED <<vectors, queue, audit, faults, reviewed, orphans, lost>>
    BY <1>1 DEF Fail
<1>. QED
    BY <1>1, <1>2, FailTypes, HistoryTyped DEF VariablesTyped

-----------------------------------------------------------------------------
(* The types step by step: the worker *)

\* A job taken off the queue.
LEMMA QueueShrinks ==
    ASSUME VariablesTyped, NEW j \in BagToSet(queue), queue' = queue (-) SetToBag({j})
    PROVE  /\ \A k \in BagToSet(queue') : JobOK(k) /\ queue'[k] \in Nat \ {0}
           /\ BagToSet(queue') \subseteq BagToSet(queue)
           /\ \A k \in BagToSet(queue) \ {j} :
                 queue[k] > 0 => k \in BagToSet(queue') /\ queue'[k] = queue[k]
           /\ queue[j] = 1 => j \notin BagToSet(queue')
           /\ \A k \in BagToSet(queue') \ {j} : queue'[k] = queue[k]
PROOF
<1> DEFINE less == [k \in BagToSet(queue) |-> IF k \in {j} THEN queue[k] - 1 ELSE queue[k]]
           left == {k \in BagToSet(queue) : less[k] > 0}
<1>1. queue' = [k \in left |-> less[k]]
    BY DEF SetToBag, BagToSet, (-)
<1>2. \A k \in BagToSet(queue) : JobOK(k) /\ queue[k] \in Nat \ {0}
    BY DEF VariablesTyped
<1>3. \A k \in BagToSet(queue) : less[k] = IF k = j THEN queue[k] - 1 ELSE queue[k]
    OBVIOUS
<1>4. /\ left \subseteq BagToSet(queue)
      /\ \A k \in BagToSet(queue) : k \in left <=> less[k] > 0
    OBVIOUS
<1> HIDE DEF less, left
<1>5. BagToSet(queue') = left /\ \A k \in left : queue'[k] = less[k]
    BY <1>1 DEF BagToSet
<1>6. \A k \in left : JobOK(k) /\ less[k] \in Nat \ {0}
    <2>1. ASSUME NEW k \in left PROVE JobOK(k) /\ less[k] \in Nat \ {0}
        <3>1. k \in BagToSet(queue) /\ less[k] > 0 /\ queue[k] \in Nat \ {0} /\ JobOK(k)
            BY <1>2, <1>4
        <3>2. less[k] \in Int
            BY <1>3, <3>1
        <3>. QED
            BY <3>1, <3>2
    <2>. QED
        BY <2>1
<1>7. queue[j] = 1 => j \notin left
    BY <1>3, <1>4
<1>8. \A k \in BagToSet(queue) \ {j} : queue[k] > 0 => k \in left /\ less[k] = queue[k]
    BY <1>3, <1>4
<1>9. \A k \in left \ {j} : less[k] = queue[k]
    BY <1>3, <1>4
<1>. QED
    BY <1>4, <1>5, <1>6, <1>7, <1>8, <1>9

LEMMA TakeTypes ==
    ASSUME TypeInv, NEW s \in Sessions, Take(s)
    PROVE  TypeInv' /\ OthersSame(s)
PROOF
<1>1. /\ RowsTyped /\ VariablesTyped /\ pc[s] = "idle"
      /\ clean' = [clean EXCEPT ![s] = FALSE]
      /\ UNCHANGED <<tableVars, vectors, audit, read, begun, faults, reviewed, orphans, tangled,
                     lost>>
    BY DEF TypeInv, Take
<1>2. PICK j \in BagToSet(queue) :
        /\ queue' = queue (-) SetToBag({j})
        /\ work' = [work EXCEPT ![s] = j]
        /\ pc' = [pc EXCEPT ![s] = IF j.op = "embed" THEN "embed" ELSE "load"]
    BY DEF Take, Goto
<1>3. JobOK(j) /\ WorkOK(j) /\ j \in Work /\ j \in BagToSet(queue) /\ j.op \in Jobs
    BY <1>1 DEF VariablesTyped, JobOK, WorkOK
<1>4. \A k \in BagToSet(queue') : JobOK(k) /\ queue'[k] \in Nat \ {0}
    BY <1>1, <1>2, QueueShrinks
<1>5. RowsTyped' /\ draft' = draft
    BY <1>1, RowsKept
<1>6. /\ pc' \in [Sessions -> Steps]
      /\ pc'[s] = IF j.op = "embed" THEN "embed" ELSE "load"
      /\ \A o \in Sessions \ {s} : pc'[o] = pc[o]
    BY <1>1, <1>2 DEF VariablesTyped, Steps
<1>7. /\ work' \in [Sessions -> Work \cup {NoWork}] /\ work'[s] = j
      /\ \A o \in Sessions \ {s} : work'[o] = work[o]
    BY <1>1, <1>2, <1>3 DEF VariablesTyped
<1>8. clean' \in [Sessions -> BOOLEAN]
    BY <1>1 DEF VariablesTyped
<1>9. VariablesTyped'
    BY <1>1, <1>4, <1>6, <1>7, <1>8 DEF VariablesTyped
<1>10. OthersSame(s)
    BY <1>1, <1>5, <1>6, <1>7 DEF OthersSame
<1>11. Placed(s)'
    <2>1. \A r \in Rows : draft'[s][r] = Unwritten
        BY <1>1, <1>5, NothingWritten
    <2>2. Op(s)' = j.op /\ j # NoWork
        BY <1>3, <1>7, PipelineAssumption DEF Op
    <2>. QED
        BY <1>3, <1>6, <1>7, <2>1, <2>2 DEF Placed, OpsAt, Jobs
<1>. QED
    BY <1>5, <1>9, <1>10, <1>11, Assembled

LEMMA EmbedTypes ==
    ASSUME TypeInv, NEW s \in Sessions, Embed(s)
    PROVE  TypeInv' /\ OthersSame(s)
PROOF
<1>1. /\ RowsTyped /\ VariablesTyped /\ pc[s] = "embed" /\ Placed(s)
      /\ Step(s, "find") /\ Untangled
      /\ UNCHANGED <<tableVars, queue, audit, faults, reviewed, orphans>>
      /\ vectors' = [vectors EXCEPT ![Subject(s)] = work[s].text]
      /\ lost' = lost \ {Subject(s)}
    BY DEF TypeInv, Embed
<1>2. work[s] # NoWork /\ WorkOK(work[s]) /\ Op(s) = "embed"
    BY <1>1, WorkingSession DEF OpsAt
<1>3. work[s].text \in Texts
    BY <1>2 DEF WorkOK, Op
<1>4. RowsTyped' /\ draft' = draft
    BY <1>1, RowsKept
<1>5. "find" \in Steps /\ Op(s) \in OpsAt("find")
    BY <1>2 DEF Steps, OpsAt
<1>6. \A r \in Rows : draft'[s][r] = Unwritten
    BY <1>1, <1>4, NothingWritten
<1>7. vectors' \in [Items -> Texts \cup {Absent}] /\ lost' \subseteq Items
    BY <1>1, <1>3 DEF VariablesTyped
<1>8. \A j \in BagToSet(queue') : JobOK(j) /\ queue'[j] \in Nat \ {0}
    BY <1>1, QueueKept
<1>. QED
    BY <1>1, <1>4, <1>5, <1>6, <1>7, <1>8, StepTypes

LEMMA FindTypes ==
    ASSUME TypeInv, NEW s \in Sessions, Find(s)
    PROVE  TypeInv' /\ OthersSame(s) /\ read'[s] = Seen(s, Pointer(Subject(s)))
PROOF
<1>1. /\ RowsTyped /\ VariablesTyped /\ pc[s] = "find" /\ Placed(s)
      /\ read' = [read EXCEPT ![s] = Seen(s, Home(s))]
      /\ pc' = [pc EXCEPT ![s] = "point"] /\ Untangled
      /\ UNCHANGED <<tableVars, vectors, queue, audit, work, begun, faults, reviewed, orphans,
                     lost>>
    BY DEF TypeInv, Find, Goto
<1>2. work[s] # NoWork /\ WorkOK(work[s]) /\ Op(s) = "embed"
    BY <1>1, WorkingSession DEF OpsAt
<1>3. Home(s) = Pointer(Subject(s)) /\ Subject(s) \in Items /\ Home(s) \in Rows
    BY <1>2, HomeRow
<1>4. Seen(s, Home(s)) \in Texts \cup {Absent}
    BY <1>1, <1>3, SeenRow, TableRows
<1>5. RowsTyped' /\ draft' = draft
    BY <1>1, RowsKept
<1>6. /\ pc' \in [Sessions -> Steps] /\ pc'[s] = "point"
      /\ \A o \in Sessions \ {s} : pc'[o] = pc[o]
    BY <1>1 DEF VariablesTyped, Steps
<1>7. /\ read' \in [Sessions -> ItemRow \cup Texts \cup Statuses \cup {Absent}]
      /\ read'[s] = Seen(s, Home(s)) /\ \A o \in Sessions \ {s} : read'[o] = read[o]
    BY <1>1, <1>4 DEF VariablesTyped
<1>8. VariablesTyped'
    BY <1>1, <1>6, <1>7, HistoryTyped DEF VariablesTyped
<1>9. OthersSame(s)
    BY <1>1, <1>5, <1>6, <1>7 DEF OthersSame
<1>10. Placed(s)'
    <2>1. \A r \in Rows : draft'[s][r] = Unwritten
        BY <1>1, <1>5, NothingWritten
    <2>2. work' = work /\ Op(s)' = Op(s)
        BY <1>1 DEF Op
    <2>. QED
        BY <1>2, <1>4, <1>6, <1>7, <2>1, <2>2 DEF Placed, OpsAt
<1>. QED
    BY <1>3, <1>5, <1>7, <1>8, <1>9, <1>10, Assembled

LEMMA PointTypes ==
    ASSUME TypeInv, NEW s \in Sessions, Point(s)
    PROVE  TypeInv' /\ OthersSame(s)
PROOF
<1>1. /\ RowsTyped /\ VariablesTyped /\ pc[s] = "point" /\ Placed(s)
      /\ Step(s, "commit") /\ Untangled
      /\ UNCHANGED <<db, vectors, queue, audit, faults, reviewed, orphans, lost>>
      /\ draft' = draft \/ Write(s, Home(s), work[s].text)
    BY DEF TypeInv, Point
<1>2. work[s] # NoWork /\ WorkOK(work[s]) /\ Op(s) = "embed"
    BY <1>1, WorkingSession DEF OpsAt
<1>3. Home(s) = Pointer(Subject(s)) /\ Subject(s) \in Items /\ Home(s) \in Rows
    BY <1>2, HomeRow
<1>4. work[s].text \in TableOf(Home(s))
    BY <1>2, <1>3, TableRows DEF WorkOK, Op
<1>5. /\ RowsTyped' /\ \A o \in Sessions \ {s} : draft'[o] = draft[o]
      /\ \A q \in Rows \ {Home(s)} : draft'[s][q] = draft[s][q]
    <2>1. CASE draft' = draft
        BY <1>1, <2>1, RowsKept DEF tableVars
    <2>2. CASE Write(s, Home(s), work[s].text)
        BY <1>1, <1>3, <1>4, <2>2, RowWritten
    <2>. QED
        BY <1>1, <2>1, <2>2
<1>6. "commit" \in Steps /\ Op(s) \in OpsAt("commit")
    BY <1>2 DEF Steps, OpsAt, Jobs
<1>7. \A r \in Rows : draft'[s][r] # Unwritten => r = Home(s)
    BY <1>1, <1>5, NothingWritten
<1>8. /\ vectors' \in [Items -> Texts \cup {Absent}] /\ lost' \subseteq Items
      /\ \A j \in BagToSet(queue') : JobOK(j) /\ queue'[j] \in Nat \ {0}
    BY <1>1, QueueKept DEF VariablesTyped
<1>. QED
    BY <1>1, <1>5, <1>6, <1>7, <1>8, StepTypes

LEMMA PointerMovedTypes ==
    ASSUME TypeInv, NEW s \in Sessions, PointerMoved(s)
    PROVE  TypeInv' /\ OthersSame(s)
PROOF
<1>1. VariablesTyped /\ Fail(s) /\ Tangle({Subject(s)})
    BY DEF TypeInv, PointerMoved
<1>2. /\ Leave(s) /\ DiscardRows(s)
      /\ UNCHANGED <<vectors, queue, audit, faults, reviewed, orphans, lost>>
    BY <1>1 DEF Fail
<1>. QED
    BY <1>1, <1>2, FailTypes, HistoryTyped DEF VariablesTyped

LEMMA LoadTypes ==
    ASSUME TypeInv, NEW s \in Sessions, Load(s)
    PROVE  TypeInv' /\ OthersSame(s)
PROOF
<1>1. /\ RowsTyped /\ VariablesTyped /\ pc[s] = "load" /\ Placed(s) /\ Untangled
      /\ UNCHANGED <<tableVars, vectors, queue, audit, faults, reviewed, lost>>
    BY DEF TypeInv, Load
<1>2. work[s] # NoWork /\ WorkOK(work[s]) /\ Op(s) = "parse" /\ Subject(s) \in Cvs
    BY <1>1, WorkingSession, HomeRow DEF OpsAt
<1>3. RowsTyped' /\ draft' = draft
    BY <1>1, RowsKept
<1>4. \A r \in Rows : draft'[s][r] = Unwritten
    BY <1>1, <1>3, NothingWritten
<1>5. CASE Leave(s) /\ orphans' = orphans \cup {Subject(s)}
    <2>1. VariablesTyped'
        BY <1>1, <1>2, <1>5, LeaveMoves, HistoryTyped DEF VariablesTyped
    <2>2. Placed(s)'
        BY <1>1, <1>4, <1>5, LeaveMoves, LeftPlaced
    <2>3. OthersSame(s)
        BY <1>1, <1>3, <1>5, LeaveMoves DEF OthersSame
    <2>. QED
        BY <1>3, <2>1, <2>2, <2>3, Assembled
<1>6. CASE Step(s, "mark") /\ orphans' = orphans
    <2>1. "mark" \in Steps /\ Op(s) \in OpsAt("mark")
        BY <1>2 DEF Steps, OpsAt
    <2>2. /\ vectors' \in [Items -> Texts \cup {Absent}] /\ lost' \subseteq Items
          /\ \A j \in BagToSet(queue') : JobOK(j) /\ queue'[j] \in Nat \ {0}
        BY <1>1, QueueKept DEF VariablesTyped
    <2>. QED
        BY <1>1, <1>3, <1>4, <1>6, <2>1, <2>2, StepTypes
<1>. QED
    BY <1>5, <1>6 DEF Load

LEMMA MarkTypes ==
    ASSUME TypeInv, NEW s \in Sessions, Mark(s)
    PROVE  TypeInv' /\ OthersSame(s)
PROOF
<1>1. /\ RowsTyped /\ VariablesTyped /\ pc[s] = "mark" /\ Placed(s) /\ Untangled
      /\ Step(s, "parse") /\ db' = [db EXCEPT ![Home(s)] = Processing]
      /\ UNCHANGED <<draft, vectors, queue, audit, faults, reviewed, orphans, lost>>
    BY DEF TypeInv, Mark
<1>2. work[s] # NoWork /\ WorkOK(work[s]) /\ Op(s) = "parse"
    BY <1>1, WorkingSession DEF OpsAt
<1>3. Home(s) = Cv(Subject(s)) /\ Subject(s) \in Cvs /\ Home(s) \in Rows
    BY <1>2, HomeRow
<1>4. Processing \in TableOf(Home(s)) /\ Processing \in Values
    BY <1>3, TableRows DEF Statuses, Values
<1>5. RowsTyped'
    <2>1. db' \in [Rows -> Values]
        BY <1>1, <1>4 DEF RowsTyped
    <2>2. \A r \in Rows : db'[r] \in TableOf(r) \cup {Absent}
        BY <1>1, <1>4 DEF RowsTyped
    <2>. QED
        BY <1>1, <2>1, <2>2 DEF RowsTyped
<1>6. \A r \in Rows : draft'[s][r] = Unwritten
    BY <1>1, NothingWritten
<1>7. "parse" \in Steps /\ Op(s) \in OpsAt("parse")
    BY <1>2 DEF Steps, OpsAt
<1>8. /\ vectors' \in [Items -> Texts \cup {Absent}] /\ lost' \subseteq Items
      /\ \A j \in BagToSet(queue') : JobOK(j) /\ queue'[j] \in Nat \ {0}
    BY <1>1, QueueKept DEF VariablesTyped
<1>. QED
    BY <1>1, <1>5, <1>6, <1>7, <1>8, StepTypes

LEMMA ParseTypes ==
    ASSUME TypeInv, NEW s \in Sessions, Parse(s)
    PROVE  TypeInv' /\ OthersSame(s)
PROOF
<1>1. /\ RowsTyped /\ VariablesTyped /\ pc[s] = "parse" /\ Placed(s) /\ Untangled
      /\ Step(s, "commit")
      /\ UNCHANGED <<db, vectors, queue, audit, faults, reviewed, orphans, lost>>
    BY DEF TypeInv, Parse
<1>2. work[s] # NoWork /\ WorkOK(work[s]) /\ Op(s) = "parse"
    BY <1>1, WorkingSession DEF OpsAt
<1>3. Home(s) = Cv(Subject(s)) /\ Subject(s) \in Cvs /\ Home(s) \in Rows
    BY <1>2, HomeRow
<1>4. PICK outcome \in Outcomes : Write(s, Home(s), outcome)
    BY DEF Parse
<1>5. outcome \in TableOf(Home(s))
    BY <1>3, <1>4, TableRows DEF Statuses, Outcomes
<1>6. /\ RowsTyped' /\ \A o \in Sessions \ {s} : draft'[o] = draft[o]
      /\ \A q \in Rows \ {Home(s)} : draft'[s][q] = draft[s][q]
    BY <1>1, <1>3, <1>4, <1>5, RowWritten
<1>7. \A r \in Rows : draft'[s][r] # Unwritten => r = Home(s)
    BY <1>1, <1>6, NothingWritten
<1>8. "commit" \in Steps /\ Op(s) \in OpsAt("commit")
    BY <1>2 DEF Steps, OpsAt, Jobs
<1>9. /\ vectors' \in [Items -> Texts \cup {Absent}] /\ lost' \subseteq Items
      /\ \A j \in BagToSet(queue') : JobOK(j) /\ queue'[j] \in Nat \ {0}
    BY <1>1, QueueKept DEF VariablesTyped
<1>. QED
    BY <1>1, <1>6, <1>7, <1>8, <1>9, StepTypes

LEMMA JobFailsTypes ==
    ASSUME TypeInv, NEW s \in Sessions, JobFails(s)
    PROVE  TypeInv' /\ OthersSame(s)
PROOF
<1>1. /\ VariablesTyped /\ Leave(s) /\ DiscardRows(s) /\ Tangle({Subject(s)})
      /\ pc[s] # "idle" /\ Op(s) \in Jobs
      /\ faults < MaxFaults /\ faults' = faults + 1
      /\ orphans' = IF Op(s) = "parse" THEN orphans \cup {Subject(s)} ELSE orphans
      /\ UNCHANGED <<vectors, queue, audit, reviewed, lost>>
    BY DEF TypeInv, JobFails
<1>2. faults' \in 0..MaxFaults
    BY <1>1, PipelineAssumption DEF VariablesTyped
<1>3. WorkOK(work[s]) /\ work[s] # NoWork
    BY <1>1, WorkingSession
<1>4. orphans' \subseteq Cvs
    BY <1>1, <1>3, HomeRow DEF VariablesTyped
<1>. QED
    BY <1>1, <1>2, <1>4, FailTypes, HistoryTyped

\* What a restart puts back into the queue.
LEMMA QueueRefilled ==
    ASSUME TypeInv, queue' = queue (+) Unfinished
    PROVE  /\ \A j \in BagToSet(queue') : JobOK(j) /\ queue'[j] \in Nat \ {0}
           /\ BagToSet(queue') = BagToSet(queue) \cup {work[s] : s \in Running}
           /\ \A j \in BagToSet(queue) :
                 j \notin {work[s] : s \in Running} => queue'[j] = queue[j]
           /\ \A s \in Running : work[s] \notin BagToSet(queue) =>
                 queue'[work[s]] = Cardinality({o \in Running : work[o] = work[s]})
PROOF
<1> DEFINE done == {work[s] : s \in Running}
           count(j) == Cardinality({s \in Running : work[s] = j})
<1>1. Unfinished = [j \in done |-> count(j)]
    BY DEF Unfinished
<1>2. \A j \in done : count(j) \in Nat \ {0}
    <2>1. ASSUME NEW j \in done PROVE count(j) \in Nat \ {0}
        <3>1. {s \in Running : work[s] = j} \subseteq Sessions /\ IsFiniteSet(Sessions)
            BY PipelineAssumption DEF Running
        <3>2. IsFiniteSet({s \in Running : work[s] = j})
            BY <3>1, FS_Subset
        <3>3. {s \in Running : work[s] = j} # {}
            OBVIOUS
        <3>. QED
            BY <3>2, <3>3, FS_CardinalityType, FS_EmptySet
    <2>. QED
        BY <2>1
<1>3. \A j \in done : JobOK(j)
    <2>1. ASSUME NEW s \in Running PROVE JobOK(work[s])
        BY DEF Running, JobOK, TypeInv, Placed
    <2>. QED
        BY <2>1
<1>4. \A j \in BagToSet(queue) : JobOK(j) /\ queue[j] \in Nat \ {0}
    BY DEF TypeInv, VariablesTyped
<1> HIDE DEF done, count
<1>5. queue' = [j \in BagToSet(queue) \cup done |->
                   (IF j \in BagToSet(queue) THEN queue[j] ELSE 0)
                     + (IF j \in done THEN count(j) ELSE 0)]
    BY <1>1 DEF BagToSet, (+)
<1>6. BagToSet(queue') = BagToSet(queue) \cup done
    BY <1>5 DEF BagToSet
<1>7. \A j \in BagToSet(queue) \cup done :
          queue'[j] = (IF j \in BagToSet(queue) THEN queue[j] ELSE 0)
                         + (IF j \in done THEN count(j) ELSE 0)
    BY <1>5
<1>8. \A j \in BagToSet(queue') : JobOK(j) /\ queue'[j] \in Nat \ {0}
    BY <1>2, <1>3, <1>4, <1>6, <1>7
<1>9. \A j \in BagToSet(queue) : j \notin done => queue'[j] = queue[j]
    BY <1>4, <1>7
<1>10. \A j \in done \ BagToSet(queue) : queue'[j] = count(j)
    BY <1>2, <1>7
<1>11. \A s \in Running : work[s] \notin BagToSet(queue) => queue'[work[s]] = count(work[s])
    BY <1>10 DEF done
<1>. QED
    BY <1>6, <1>8, <1>9, <1>11 DEF done, count

LEMMA RestartTypes ==
    ASSUME TypeInv, Restart
    PROVE  TypeInv'
PROOF
<1>1. /\ RowsTyped /\ VariablesTyped /\ \A s \in Sessions : Placed(s)
      /\ faults < MaxFaults /\ faults' = faults + 1
      /\ queue' = queue (+) Unfinished
      /\ draft' = [s \in Sessions |-> IF s \in Running THEN Blank ELSE draft[s]]
      /\ pc' = [s \in Sessions |-> IF s \in Running THEN "idle" ELSE pc[s]]
      /\ work' = [s \in Sessions |-> IF s \in Running THEN NoWork ELSE work[s]]
      /\ read' = [s \in Sessions |-> IF s \in Running THEN Absent ELSE read[s]]
      /\ audit' = [i \in Items |-> db[Pointer(i)]]
      /\ UNCHANGED <<db, vectors, begun, historyVars>>
    BY DEF TypeInv, Restart
<1>2. \A j \in BagToSet(queue') : JobOK(j) /\ queue'[j] \in Nat \ {0}
    BY <1>1, QueueRefilled
<1>3. audit' \in [Items -> Texts \cup {Absent}]
    <2>1. \A i \in Items : db[Pointer(i)] \in Texts \cup {Absent}
        BY <1>1, RowNames, TableRows DEF RowsTyped
    <2>. QED
        BY <1>1, <2>1
<1>4. faults' \in 0..MaxFaults
    BY <1>1, PipelineAssumption DEF VariablesTyped
<1>5. pc' \in [Sessions -> Steps]
    BY <1>1 DEF VariablesTyped, Steps
<1>6. /\ work' \in [Sessions -> Work \cup {NoWork}]
      /\ read' \in [Sessions -> ItemRow \cup Texts \cup Statuses \cup {Absent}]
    BY <1>1 DEF VariablesTyped
<1>7. VariablesTyped'
    BY <1>1, <1>2, <1>3, <1>4, <1>5, <1>6 DEF VariablesTyped, historyVars
<1>8. RowsTyped'
    <2>1. Blank \in [Rows -> Values] /\ \A r \in Rows : Blank[r] = Unwritten
        BY DEF Blank, Values
    <2>2. draft' \in [Sessions -> [Rows -> Values]]
        BY <1>1, <2>1 DEF RowsTyped
    <2>3. \A s \in Sessions, r \in Rows : draft'[s][r] \in TableOf(r) \cup {Unwritten}
        BY <1>1, <2>1 DEF RowsTyped
    <2>. QED
        BY <1>1, <2>2, <2>3 DEF RowsTyped
<1>9. ASSUME NEW s \in Sessions PROVE Placed(s)'
    <2>1. CASE s \in Running
        <3>1. pc'[s] = "idle" /\ work'[s] = NoWork /\ \A r \in Rows : draft'[s][r] = Unwritten
            BY <1>1, <2>1 DEF Blank
        <3>. QED
            BY <3>1, LeftPlaced
    <2>2. CASE s \notin Running
        <3>1. pc'[s] = pc[s] /\ work'[s] = work[s] /\ read'[s] = read[s] /\ draft'[s] = draft[s]
            BY <1>1, <2>2
        <3>. QED
            BY <1>1, <3>1, PlacedKept
    <2>. QED
        BY <2>1, <2>2
<1>. QED
    BY <1>7, <1>8, <1>9 DEF TypeInv

\* The jobs that the reconciliation adds.
Repairs == {[op |-> "embed", item |-> i, text |-> audit[i]] : i \in Missing}

LEMMA RepairsTyped ==
    ASSUME TypeInv, audit # NoAudit
    PROVE  \A j \in Repairs : JobOK(j)
PROOF
<1>1. ASSUME NEW i \in Missing PROVE JobOK([op |-> "embed", item |-> i, text |-> audit[i]])
    <2>1. i \in Items /\ audit[i] \in Texts
        BY DEF Missing, TypeInv, VariablesTyped
    <2>2. /\ "embed" \in Jobs
          /\ "embed" \notin FactOperations \cup SectionOperations \cup CvOperations \cup {"parse"}
        BY DEF Jobs, FactOperations, SectionOperations, CvOperations
    <2>. QED
        BY <2>1, <2>2 DEF JobOK, WorkOK, Work
<1>. QED
    BY <1>1 DEF Repairs

LEMMA ReconcileTypes ==
    ASSUME TypeInv, Reconcile
    PROVE  TypeInv'
PROOF
<1>1. /\ RowsTyped /\ VariablesTyped /\ \A s \in Sessions : Placed(s)
      /\ audit # NoAudit /\ audit' = NoAudit
      /\ queue' = queue (+) SetToBag(Repairs)
      /\ UNCHANGED <<tableVars, vectors, workVars, faults, reviewed, orphans, lost>>
    BY DEF TypeInv, Reconcile, Repairs
<1>2. \A j \in BagToSet(queue') : JobOK(j) /\ queue'[j] \in Nat \ {0}
    BY <1>1, RepairsTyped, QueueGrows
<1>3. tangled' \subseteq Items /\ clean' \in [Sessions -> BOOLEAN]
    <2> DEFINE S == {i \in Missing : Busy(i) \/ audit[i] # db[Pointer(i)]}
    <2>1. /\ tangled' = tangled \cup (S \cap Items)
          /\ clean' = [s \in Sessions |-> clean[s] /\ ~\E i \in S : On(s, i)]
        BY DEF Reconcile, Tangle
    <2> HIDE DEF S
    <2>2. \A s \in Sessions : (clean[s] /\ ~\E i \in S : On(s, i)) \in BOOLEAN
        OBVIOUS
    <2>. QED
        BY <1>1, <2>1, <2>2 DEF VariablesTyped
<1>4. VariablesTyped'
    BY <1>1, <1>2, <1>3 DEF VariablesTyped, workVars
<1>5. RowsTyped'
    BY <1>1, RowsKept
<1>6. ASSUME NEW s \in Sessions PROVE Placed(s)'
    BY <1>1, PlacedKept DEF tableVars, workVars
<1>. QED
    BY <1>4, <1>5, <1>6 DEF TypeInv

LEMMA LoseVectorTypes ==
    ASSUME TypeInv, NEW i \in Items, LoseVector(i)
    PROVE  TypeInv'
PROOF
<1>1. /\ RowsTyped /\ VariablesTyped /\ \A s \in Sessions : Placed(s)
      /\ faults < MaxFaults /\ faults' = faults + 1
      /\ vectors' = [vectors EXCEPT ![i] = Absent] /\ lost' = lost \cup {i}
      /\ UNCHANGED <<tableVars, queue, audit, workVars, reviewed, orphans, clean, tangled>>
    BY DEF TypeInv, LoseVector
<1>2. faults' \in 0..MaxFaults
    BY <1>1, PipelineAssumption DEF VariablesTyped
<1>3. vectors' \in [Items -> Texts \cup {Absent}] /\ lost' \subseteq Items
    BY <1>1 DEF VariablesTyped
<1>4. VariablesTyped'
    BY <1>1, <1>2, <1>3 DEF VariablesTyped, workVars
<1>5. RowsTyped'
    BY <1>1, RowsKept
<1>6. ASSUME NEW s \in Sessions PROVE Placed(s)'
    BY <1>1, PlacedKept DEF tableVars, workVars
<1>. QED
    BY <1>4, <1>5, <1>6 DEF TypeInv

-----------------------------------------------------------------------------
(* The types at the start, and always *)

LEMMA FirstRows ==
    ASSUME NEW first \in FirstTables
    PROVE  /\ \A i \in Items : FirstRow(first, Item(i)) \in RowsOf(i) \cup {Absent}
           /\ \A i \in Items : Embedded(FirstRow(first, Item(i))) \in Texts \cup {Absent}
           /\ \A v \in Cvs : FirstRow(first, Cv(v)) \in Statuses \cup {Absent}
PROOF
<1>1. \A i \in Items : FirstRow(first, Item(i)) \in RowsOf(i) \cup {Absent}
    BY FirstTablesAssumption DEF FirstRow, RowsOf
<1>2. \A i \in Items : Embedded(FirstRow(first, Item(i))) \in Texts \cup {Absent}
    BY <1>1 DEF Embedded, RowsOf, ItemRow
<1>3. \A v \in Cvs : FirstRow(first, Cv(v)) \in Statuses \cup {Absent}
    BY FirstTablesAssumption DEF FirstRow
<1>. QED
    BY <1>1, <1>2, <1>3

\* The rows there are at the start.
LEMMA RowsAtFirst ==
    ASSUME NEW first \in FirstTables,
           db = [r \in Rows |-> IF r \in PointerRows THEN Embedded(FirstRow(first, Item(r[2])))
                                ELSE FirstRow(first, r)]
    PROVE  /\ \A i \in Items : /\ db[Item(i)] = FirstRow(first, Item(i))
                               /\ db[Pointer(i)] = Embedded(FirstRow(first, Item(i)))
           /\ \A v \in Cvs : db[Cv(v)] = FirstRow(first, Cv(v))
           /\ db \in [Rows -> Values]
           /\ \A r \in Rows : db[r] \in TableOf(r) \cup {Absent}
PROOF
<1>1. ASSUME NEW i \in Items
      PROVE  /\ db[Item(i)] = FirstRow(first, Item(i))
             /\ db[Pointer(i)] = Embedded(FirstRow(first, Item(i)))
    <2>1. Item(i) \in Rows /\ Item(i) \notin PointerRows
        BY RowNames DEF PointerRows
    <2>2. Pointer(i) \in Rows /\ Pointer(i) \in PointerRows /\ Pointer(i)[2] = i
        BY RowNames DEF Pointer
    <2>. QED
        BY <2>1, <2>2
<1>2. ASSUME NEW v \in Cvs PROVE db[Cv(v)] = FirstRow(first, Cv(v))
    <2>1. Cv(v) \in Rows /\ Cv(v) \notin PointerRows
        BY RowNames DEF PointerRows
    <2>. QED
        BY <2>1
<1>3. ASSUME NEW r \in Rows PROVE db[r] \in TableOf(r) \cup {Absent} /\ db[r] \in Values
    <2>1. CASE r \in ItemRows
        <3>1. PICK i \in Items : r = Item(i)
            BY <2>1 DEF ItemRows
        <3>2. db[r] \in RowsOf(i) \cup {Absent} /\ TableOf(r) = RowsOf(i) \cup {Absent}
            BY <1>1, <3>1, FirstRows, TableRows
        <3>. QED
            BY <3>2, Marks DEF Values
    <2>2. CASE r \in PointerRows
        <3>1. PICK i \in Items : r = Pointer(i)
            BY <2>2 DEF PointerRows
        <3>2. db[r] \in Texts \cup {Absent} /\ TableOf(r) = Texts \cup {Absent}
            BY <1>1, <3>1, FirstRows, TableRows
        <3>. QED
            BY <3>2 DEF Values
    <2>3. CASE r \in CvRows
        <3>1. PICK v \in Cvs : r = Cv(v)
            BY <2>3 DEF CvRows
        <3>2. db[r] \in Statuses \cup {Absent} /\ TableOf(r) = Statuses
            BY <1>2, <3>1, FirstRows, TableRows
        <3>. QED
            BY <3>2 DEF Values
    <2>. QED
        BY <2>1, <2>2, <2>3, RowNames
<1>4. db \in [Rows -> Values]
    BY <1>3
<1>. QED
    BY <1>1, <1>2, <1>3, <1>4

LEMMA InitTypes == Init => TypeInv
PROOF
<1>. SUFFICES ASSUME Init PROVE TypeInv
    OBVIOUS
<1>1. PICK first \in FirstTables :
        /\ vectors = [i \in Items |-> Embedded(FirstRow(first, Item(i)))]
        /\ db = [r \in Rows |-> IF r \in PointerRows THEN Embedded(FirstRow(first, Item(r[2])))
                                ELSE FirstRow(first, r)]
        /\ draft = [s \in Sessions |-> Blank]
        /\ queue = EmptyBag /\ audit = NoAudit
        /\ pc = [s \in Sessions |-> "idle"]
        /\ work = [s \in Sessions |-> NoWork]
        /\ read = [s \in Sessions |-> Absent]
        /\ begun = 0 /\ faults = 0
        /\ reviewed = [i \in Sections |->
                          IF Embedded(FirstRow(first, Item(i))) = Absent THEN {}
                          ELSE {Embedded(FirstRow(first, Item(i)))}]
        /\ orphans = {} /\ clean = [s \in Sessions |-> FALSE]
        /\ tangled = {} /\ lost = {}
    BY DEF Init, PointerRows
<1>2. RowsTyped
    <2>1. Blank \in [Rows -> Values] /\ \A r \in Rows : Blank[r] = Unwritten
        BY DEF Blank, Values
    <2>2. draft \in [Sessions -> [Rows -> Values]]
          /\ \A s \in Sessions, r \in Rows : draft[s][r] \in TableOf(r) \cup {Unwritten}
        BY <1>1, <2>1
    <2>. QED
        BY <1>1, <2>2, RowsAtFirst DEF RowsTyped
<1>3. vectors \in [Items -> Texts \cup {Absent}] /\ reviewed \in [Sections -> SUBSET Texts]
    BY <1>1, FirstRows DEF Items
<1>4. BagToSet(queue) = {}
    BY <1>1 DEF EmptyBag, SetToBag, BagToSet
<1>5. begun \in 0..MaxRequests /\ faults \in 0..MaxFaults
    BY <1>1, PipelineAssumption
<1>6. VariablesTyped
    BY <1>1, <1>3, <1>4, <1>5 DEF VariablesTyped, Steps
<1>7. ASSUME NEW s \in Sessions PROVE Placed(s)
    BY <1>1 DEF Placed, Blank
<1>. QED
    BY <1>2, <1>6, <1>7 DEF TypeInv

\* The steps of one session.
Acts(s) ==
    \/ Begin(s) \/ Read(s) \/ WriteRow(s) \/ Enqueue(s) \/ Unembed(s) \/ Unpoint(s)
    \/ Commit(s) \/ Abort(s) \/ Take(s) \/ Embed(s) \/ Find(s) \/ Point(s) \/ PointerMoved(s)
    \/ Load(s) \/ Mark(s) \/ Parse(s) \/ JobFails(s)

LEMMA NextCases ==
    ASSUME [Next]_vars
    PROVE  \/ \E s \in Sessions : Acts(s)
           \/ Restart
           \/ Reconcile
           \/ \E i \in Items : LoseVector(i)
           \/ UNCHANGED vars
PROOF
    BY DEF Next, Proceed, Acts

LEMMA ActTypes ==
    ASSUME TypeInv, NEW s \in Sessions, Acts(s)
    PROVE  TypeInv' /\ OthersSame(s)
PROOF
    BY BeginTypes, ReadTypes, WriteRowTypes, EnqueueTypes, UnembedTypes, UnpointTypes,
       CommitTypes, AbortTypes, TakeTypes, EmbedTypes, FindTypes, PointTypes, PointerMovedTypes,
       LoadTypes, MarkTypes, ParseTypes, JobFailsTypes DEF Acts

LEMMA TypesKept == TypeInv /\ [Next]_vars => TypeInv'
PROOF
<1>. SUFFICES ASSUME TypeInv, [Next]_vars PROVE TypeInv'
    OBVIOUS
<1>1. CASE UNCHANGED vars
    <2>1. /\ UNCHANGED tableVars /\ UNCHANGED <<vectors, queue, audit, faults>>
          /\ UNCHANGED workVars /\ UNCHANGED historyVars
        BY <1>1 DEF vars
    <2>2. RowsTyped' /\ db' = db /\ draft' = draft
        BY <2>1, RowsKept DEF TypeInv
    <2>3. VariablesTyped'
        BY <2>1 DEF TypeInv, VariablesTyped, workVars, historyVars
    <2>4. ASSUME NEW s \in Sessions PROVE Placed(s)'
        BY <2>1, <2>2, PlacedKept DEF TypeInv, workVars
    <2>. QED
        BY <2>2, <2>3, <2>4 DEF TypeInv
<1>. QED
    BY <1>1, NextCases, ActTypes, RestartTypes, ReconcileTypes, LoseVectorTypes

LEMMA TypesAlways == Spec => []TypeInv
PROOF
    BY InitTypes, TypesKept, PTL DEF Spec

\* In every reachable state the tables, the vectors and the queue hold what they are for: no
\* job has an empty text, and an object that is written back has been read.
THEOREM TypeCorrect == Spec => []TypeOK
PROOF
<1>1. ASSUME TypeInv PROVE TypeOK
    <2>1. RowsTyped /\ VariablesTyped
        BY <1>1 DEF TypeInv
    <2>2. ASSUME NEW i \in Items
          PROVE  /\ db[Item(i)] \in ItemRow \cup {Absent}
                 /\ db[Pointer(i)] \in Texts \cup {Absent}
        BY <2>1, RowNames, TableRows, Marks DEF RowsTyped
    <2>3. ASSUME NEW v \in Cvs PROVE db[Cv(v)] \in Statuses \cup {Absent}
        BY <2>1, RowNames, TableRows DEF RowsTyped
    <2>4. ASSUME NEW s \in Sessions, NEW i \in Items
          PROVE  /\ draft[s][Item(i)] \in ItemRow \cup {Absent, Unwritten}
                 /\ draft[s][Pointer(i)] \in Texts \cup {Absent, Unwritten}
        BY <2>1, RowNames, TableRows, Marks DEF RowsTyped
    <2>5. ASSUME NEW s \in Sessions, NEW v \in Cvs
          PROVE  draft[s][Cv(v)] \in Statuses \cup {Unwritten}
        BY <2>1, RowNames, TableRows DEF RowsTyped
    <2>6. \A j \in BagToSet(queue) : j \in Work /\ queue[j] \in Nat \ {0}
        BY <2>1 DEF VariablesTyped, JobOK, WorkOK
    <2>. QED
        BY <2>1, <2>2, <2>3, <2>4, <2>5, <2>6 DEF TypeOK, VariablesTyped
<1>. QED
    BY <1>1, TypesAlways, PTL

-----------------------------------------------------------------------------
(***************************************************************************)
(* What is found at rest.  The invariant follows an item that is orderly:  *)
(* nothing has interfered with it, or a request that is alone with it is   *)
(* about to set it right.  Such an item has one job at most, on the text   *)
(* it is to have, and only after the request that made it has written.     *)
(***************************************************************************)

Asking(s, i) == On(s, i) /\ Op(s) \notin Jobs
Embedding(s, i) == On(s, i) /\ Op(s) \in Jobs
Waiting(j, i) == j \in BagToSet(queue) /\ j.item = i

Worked(i) == (\E j \in BagToSet(queue) : Waiting(j, i)) \/ \E s \in Sessions : Embedding(s, i)

Orderly(i) == i \notin tangled \/ \E s \in Sessions : Asking(s, i) /\ clean[s]

\* The text for a row; of an empty one nothing is claimed.
Fits(text, row) == row = Absent \/ row.text # NoText => text = Embedded(row)

VectorIs(i, text) == i \in lost \/ vectors[i] = text

Settled(i, row, pointer) ==
    row = Absent \/ row.text # NoText => VectorIs(i, Embedded(row)) /\ pointer = Embedded(row)

OneJob(i) ==
    /\ \A j, k \in BagToSet(queue) : Waiting(j, i) /\ Waiting(k, i) => j = k /\ queue[j] = 1
    /\ \A s, o \in Sessions : Embedding(s, i) /\ Embedding(o, i) => s = o
    /\ \A s \in Sessions, j \in BagToSet(queue) : ~(Embedding(s, i) /\ Waiting(j, i))

JobsFit(i, row) ==
    /\ \A j \in BagToSet(queue) : Waiting(j, i) => Fits(j.text, row)
    /\ \A s \in Sessions : Embedding(s, i) => Fits(work[s].text, row)

\* How far a job has come.
Advanced(s, i) ==
    /\ pc[s] \in {"find", "point", "commit"} => VectorIs(i, work[s].text)
    /\ pc[s] = "point" => read[s] = db[Pointer(i)]
    /\ pc[s] = "commit" => Seen(s, Pointer(i)) = work[s].text

\* What the request of s has made of the item.
Made(s, i) ==
    LET row == Seen(s, Item(i))
    IN  /\ Op(s) \in {"delete", "edit", "generate"} => Embedded(row) = Absent
        /\ Op(s) \in {"create", "update", "approve"} =>
              row # Absent /\ row.approved /\ row.text = JobOf(s).text
        /\ i \in Sections /\ row # Absent /\ row.approved => row.text \in reviewed[i]

\* The request of s is alone with the item i.
Alone(s, i) ==
    /\ clean[s] /\ \A o \in Sessions : Asking(o, i) => o = s
    /\ Worked(i) => pc[s] = "commit" /\ Op(s) \in {"create", "update", "approve"}
    /\ JobsFit(i, Seen(s, Item(i)))
    /\ pc[s] # "read" /\ Op(s) # "create" => read[s] = db[Item(i)]
    /\ pc[s] # "read" /\ Op(s) = "approve" =>
          i \in Sections /\ read[s].text \in reviewed[i]
    /\ pc[s] \notin {"read", "write"} => Made(s, i)
    /\ pc[s] = "unpoint" => VectorIs(i, Absent)
    /\ pc[s] = "commit" /\ Op(s) # "generate" /\ ~Worked(i) =>
          Settled(i, Seen(s, Item(i)), Seen(s, Pointer(i)))
    /\ i \notin tangled /\ (pc[s] \in {"read", "write"} \/ Op(s) = "generate") =>
          Settled(i, db[Item(i)], db[Pointer(i)])

Undisturbed(i) ==
    (\A s \in Sessions : ~Asking(s, i)) =>
        /\ JobsFit(i, db[Item(i)])
        /\ Worked(i) \/ Settled(i, db[Item(i)], db[Pointer(i)])

Approvals(i) ==
    i \in Sections \ tangled /\ db[Item(i)] # Absent /\ db[Item(i)].approved
        => db[Item(i)].text \in reviewed[i]

Grounded(i) ==
    /\ OneJob(i)
    /\ Undisturbed(i) /\ Approvals(i)
    /\ \A s \in Sessions :
        /\ Asking(s, i) => Alone(s, i)
        /\ Embedding(s, i) => Advanced(s, i)

GroundInv == \A i \in Items : Orderly(i) => Grounded(i)

-----------------------------------------------------------------------------
(* A step that does not concern the item *)

StoreSame(i) ==
    /\ db'[Item(i)] = db[Item(i)] /\ db'[Pointer(i)] = db[Pointer(i)]
    /\ vectors'[i] = vectors[i]
    /\ i \in lost' <=> i \in lost
    /\ i \in tangled' <=> i \in tangled
    /\ i \in Sections => reviewed'[i] = reviewed[i]

QueueSame(i) ==
    \A j : /\ j \in BagToSet(queue') /\ j.item = i <=> j \in BagToSet(queue) /\ j.item = i
           /\ j \in BagToSet(queue) /\ j.item = i => queue'[j] = queue[j]

SessionsSame(i) ==
    \A o \in Sessions :
        /\ On(o, i)' <=> On(o, i)
        /\ On(o, i) => /\ pc'[o] = pc[o] /\ work'[o] = work[o] /\ read'[o] = read[o]
                       /\ draft'[o] = draft[o] /\ clean'[o] = clean[o]

\* What does not change with a session.
LEMMA SessionViews ==
    ASSUME NEW o \in Sessions, NEW i \in Items, work'[o] = work[o]
    PROVE  /\ Op(o)' = Op(o) /\ Subject(o)' = Subject(o) /\ On(o, i)' = On(o, i)
           /\ Asking(o, i)' = Asking(o, i) /\ Embedding(o, i)' = Embedding(o, i)
           /\ Home(o)' = Home(o)
PROOF
<1>1. Op(o)' = Op(o) /\ Subject(o)' = Subject(o)
    BY DEF Op, Subject
<1>2. On(o, i)' = On(o, i)
    BY <1>1 DEF On
<1>. QED
    BY <1>1, <1>2 DEF Asking, Embedding, Home

LEMMA JobOfKept ==
    ASSUME NEW o \in Sessions, work'[o] = work[o], read'[o] = read[o]
    PROVE  JobOf(o)' = JobOf(o)
PROOF
<1>1. Op(o)' = Op(o) /\ Subject(o)' = Subject(o)
    BY DEF Op, Subject
<1>. QED
    BY <1>1 DEF JobOf

LEMMA SettledKept ==
    ASSUME NEW i \in Items, StoreSame(i), NEW row, NEW pointer
    PROVE  Settled(i, row, pointer)' <=> Settled(i, row, pointer)
PROOF
<1>1. \A text : VectorIs(i, text)' <=> VectorIs(i, text)
    BY DEF VectorIs, StoreSame
<1>. QED
    BY <1>1 DEF Settled

LEMMA GroundedKept ==
    ASSUME NEW i \in Items, StoreSame(i), QueueSame(i), SessionsSame(i),
           Orderly(i) => Grounded(i)
    PROVE  Orderly(i)' => Grounded(i)'
PROOF
<1>1. /\ db'[Item(i)] = db[Item(i)] /\ db'[Pointer(i)] = db[Pointer(i)]
      /\ vectors'[i] = vectors[i]
      /\ i \in lost' <=> i \in lost
      /\ i \in tangled' <=> i \in tangled
      /\ i \in Sections => reviewed'[i] = reviewed[i]
    BY DEF StoreSame
<1>2. /\ \A j : Waiting(j, i)' <=> Waiting(j, i)
      /\ \A j : Waiting(j, i) => queue'[j] = queue[j]
      /\ \A j : Waiting(j, i) => j \in BagToSet(queue)
      /\ \A j : Waiting(j, i)' => j \in BagToSet(queue')
    BY DEF QueueSame, Waiting
<1>3. ASSUME NEW o \in Sessions
      PROVE  /\ Asking(o, i)' <=> Asking(o, i)
             /\ Embedding(o, i)' <=> Embedding(o, i)
             /\ Asking(o, i) \/ Embedding(o, i) =>
                   /\ pc'[o] = pc[o] /\ work'[o] = work[o] /\ read'[o] = read[o]
                   /\ draft'[o] = draft[o] /\ clean'[o] = clean[o]
                   /\ Op(o)' = Op(o)
                   /\ Seen(o, Item(i))' = Seen(o, Item(i))
                   /\ Seen(o, Pointer(i))' = Seen(o, Pointer(i))
                   /\ JobOf(o)' = JobOf(o)
    <2>1. CASE On(o, i)
        <3>1. /\ pc'[o] = pc[o] /\ work'[o] = work[o] /\ read'[o] = read[o]
              /\ draft'[o] = draft[o] /\ clean'[o] = clean[o]
            BY <2>1 DEF SessionsSame
        <3>2. /\ Seen(o, Item(i))' = Seen(o, Item(i))
              /\ Seen(o, Pointer(i))' = Seen(o, Pointer(i))
            BY <1>1, <3>1 DEF Seen
        <3>. QED
            BY <3>1, <3>2, SessionViews, JobOfKept
    <2>2. CASE ~On(o, i)
        BY <2>2 DEF SessionsSame, Asking, Embedding
    <2>. QED
        BY <2>1, <2>2
<1>4. Worked(i)' <=> Worked(i)
    BY <1>2, <1>3 DEF Worked
<1>5. Orderly(i)' <=> Orderly(i)
    BY <1>1, <1>3 DEF Orderly
<1>. SUFFICES ASSUME Orderly(i), Grounded(i) PROVE Grounded(i)'
    BY <1>5
<1>6. OneJob(i)'
    BY <1>2, <1>3 DEF Grounded, OneJob
<1>7. \A row : JobsFit(i, row) => JobsFit(i, row)'
    BY <1>2, <1>3 DEF JobsFit, Fits
<1>8. Undisturbed(i)'
    <2>1. ASSUME \A o \in Sessions : ~Asking(o, i)
          PROVE  JobsFit(i, db[Item(i)]) /\ (Worked(i) \/ Settled(i, db[Item(i)], db[Pointer(i)]))
        BY <2>1 DEF Grounded, Undisturbed
    <2>2. PICK row : row = db[Item(i)]
        OBVIOUS
    <2>3. PICK pointer : pointer = db[Pointer(i)]
        OBVIOUS
    <2>4. /\ JobsFit(i, row) => JobsFit(i, row)'
          /\ Settled(i, row, pointer)' <=> Settled(i, row, pointer)
        BY <1>7, SettledKept
    <2>. QED
        BY <1>1, <1>3, <1>4, <2>1, <2>2, <2>3, <2>4 DEF Undisturbed
<1>9. Approvals(i)'
    BY <1>1 DEF Grounded, Approvals
<1>10. ASSUME NEW o \in Sessions, Asking(o, i)' PROVE Alone(o, i)'
    <2>1. Asking(o, i) /\ Alone(o, i)
        BY <1>3, <1>10 DEF Grounded
    <2>2. PICK row : row = Seen(o, Item(i))
        OBVIOUS
    <2>3. PICK pointer : pointer = Seen(o, Pointer(i))
        OBVIOUS
    <2>4. PICK old : old = db[Item(i)]
        OBVIOUS
    <2>5. PICK was : was = db[Pointer(i)]
        OBVIOUS
    <2>6. /\ Seen(o, Item(i))' = row /\ Seen(o, Pointer(i))' = pointer
          /\ db'[Item(i)] = old /\ db'[Pointer(i)] = was
        BY <1>1, <1>3, <2>1, <2>2, <2>3, <2>4, <2>5
    <2>7. JobsFit(i, row)'
        BY <1>7, <2>1, <2>2 DEF Alone
    <2>8. Settled(i, row, pointer)' <=> Settled(i, row, pointer)
        BY SettledKept
    <2>9. Settled(i, old, was)' <=> Settled(i, old, was)
        BY SettledKept
    <2>10. /\ pc'[o] = pc[o] /\ clean'[o] = clean[o] /\ read'[o] = read[o] /\ Op(o)' = Op(o)
           /\ JobOf(o)' = JobOf(o)
        BY <1>3, <2>1
    <2>11. Made(o, i) => Made(o, i)'
        BY <1>1, <2>2, <2>6, <2>10 DEF Made
    <2>12. VectorIs(i, Absent)' <=> VectorIs(i, Absent)
        BY <1>1 DEF VectorIs
    <2>13. pc[o] # "read" /\ Op(o) = "approve" =>
              i \in Sections /\ read[o].text \in reviewed'[i]
        BY <1>1, <2>1 DEF Alone
    <2>. QED
        BY <1>1, <1>3, <1>4, <2>1, <2>2, <2>3, <2>4, <2>5, <2>6, <2>7, <2>8, <2>9, <2>10, <2>11,
           <2>12, <2>13 DEF Alone
<1>11. ASSUME NEW o \in Sessions, Embedding(o, i)' PROVE Advanced(o, i)'
    <2>1. Embedding(o, i) /\ Advanced(o, i)
        BY <1>3, <1>11 DEF Grounded
    <2>. QED
        BY <1>1, <1>3, <2>1 DEF Advanced, VectorIs
<1>. QED
    BY <1>6, <1>8, <1>9, <1>10, <1>11 DEF Grounded

-----------------------------------------------------------------------------
(* What one session does to the other items *)

LEMMA SessionsSameElsewhere ==
    ASSUME NEW i \in Items, NEW s \in Sessions, OthersSame(s), ~On(s, i), ~On(s, i)',
           \A o \in Sessions \ {s} : On(o, i) => clean'[o] = clean[o]
    PROVE  SessionsSame(i)
PROOF
<1>1. ASSUME NEW o \in Sessions, o # s
      PROVE  /\ On(o, i)' <=> On(o, i)
             /\ On(o, i) => /\ pc'[o] = pc[o] /\ work'[o] = work[o] /\ read'[o] = read[o]
                            /\ draft'[o] = draft[o] /\ clean'[o] = clean[o]
    BY <1>1, SessionViews DEF OthersSame
<1>. QED
    BY <1>1 DEF SessionsSame

\* The session of a row of the item is at work on the item.
LEMMA UnwrittenElsewhere ==
    ASSUME TypeInv, NEW s \in Sessions, NEW i \in Items, ~On(s, i)
    PROVE  draft[s][Item(i)] = Unwritten /\ draft[s][Pointer(i)] = Unwritten
PROOF
<1>1. Item(i) \in Rows /\ Pointer(i) \in Rows /\ Placed(s)
    BY RowNames DEF TypeInv
<1>2. CASE work[s] = NoWork
    BY <1>1, <1>2 DEF Placed
<1>3. CASE work[s] # NoWork
    <2>1. WorkOK(work[s]) /\ Subject(s) # i
        BY <1>1, <1>3 DEF Placed, On
    <2>2. /\ Home(s) # Item(i) /\ Home(s) # Pointer(i) /\ Pointer(Subject(s)) # Pointer(i)
          /\ Pointer(Subject(s)) # Item(i)
        BY <2>1, HomeRow, RowNames DEF Operations, Jobs
    <2>. QED
        BY <1>1, <2>2 DEF Placed
<1>. QED
    BY <1>2, <1>3

\* A commit of another item's rows.
LEMMA CommitElsewhere ==
    ASSUME TypeInv, NEW s \in Sessions, NEW i \in Items, ~On(s, i), CommitRows(s)
    PROVE  db'[Item(i)] = db[Item(i)] /\ db'[Pointer(i)] = db[Pointer(i)]
PROOF
<1>1. Item(i) \in Rows /\ Pointer(i) \in Rows
    BY RowNames
<1>2. db' = [r \in Rows |-> Seen(s, r)]
    BY DEF CommitRows
<1>. QED
    BY <1>1, <1>2, UnwrittenElsewhere DEF Seen

LEMMA TangleElsewhere ==
    ASSUME TypeInv, NEW s \in Sessions, NEW i \in Items, NEW k, k # i,
           Tangle({k}) \/ Over(s) \/ Untangled
    PROVE  /\ i \in tangled' <=> i \in tangled
           /\ \A o \in Sessions \ {s} : On(o, i) => clean'[o] = clean[o]
PROOF
<1>1. clean \in [Sessions -> BOOLEAN]
    BY DEF TypeInv, VariablesTyped
<1>2. CASE Tangle({k})
    <2>1. /\ tangled' = tangled \cup ({k} \cap Items)
          /\ clean' = [o \in Sessions |-> clean[o] /\ ~\E j \in {k} : On(o, j)]
        BY <1>2 DEF Tangle
    <2>2. ASSUME NEW o \in Sessions, On(o, i) PROVE clean'[o] = clean[o]
        <3>1. ~On(o, k)
            BY <2>2 DEF On
        <3>2. clean'[o] = (clean[o] /\ ~\E j \in {k} : On(o, j))
            BY <2>1
        <3>3. clean[o] \in BOOLEAN
            BY <1>1
        <3>. QED
            BY <3>1, <3>2, <3>3
    <2>. QED
        BY <2>1, <2>2
<1>3. CASE Over(s)
    BY <1>1, <1>3 DEF Over
<1>4. CASE Untangled
    BY <1>4 DEF Untangled
<1>. QED
    BY <1>2, <1>3, <1>4

\* A step of a session leaves the items it is not about as they are.
LEMMA ActElsewhere ==
    ASSUME TypeInv, NEW s \in Sessions, NEW i \in Items, Acts(s), ~On(s, i), ~On(s, i)'
    PROVE  StoreSame(i) /\ QueueSame(i) /\ SessionsSame(i)
PROOF
<1> DEFINE Same == /\ StoreSame(i) /\ QueueSame(i)
                   /\ \A o \in Sessions \ {s} : On(o, i) => clean'[o] = clean[o]
<1>1. VariablesTyped /\ RowsTyped /\ Item(i) \in Rows /\ Pointer(i) \in Rows
    BY RowNames DEF TypeInv
<1>2. work[s] # NoWork => Subject(s) # i
    BY DEF On
<1>3. pc[s] # "idle" => work[s] # NoWork /\ WorkOK(work[s]) /\ Op(s) \in OpsAt(pc[s])
    BY WorkingSession
<1>4. UNCHANGED queue => QueueSame(i)
    BY DEF QueueSame
<1>5. ASSUME Fail(s), pc[s] # "idle", Tangle({Subject(s)}) \/ Over(s) PROVE Same
    <2>1. db' = db /\ UNCHANGED <<vectors, queue, audit, faults, reviewed, orphans, lost>>
        BY <1>5 DEF Fail, DiscardRows
    <2>. QED
        BY <1>2, <1>3, <1>4, <1>5, <2>1, TangleElsewhere DEF StoreSame
<1>6. pc'[s] # "idle" => work'[s] # NoWork /\ Subject(s)' # i
    <2>1. TypeInv'
        BY ActTypes
    <2>2. Placed(s)'
        BY <2>1 DEF TypeInv
    <2>. QED
        BY <2>2 DEF Placed, On
<1>7. ASSUME Untangled PROVE /\ i \in tangled' <=> i \in tangled
                             /\ \A o \in Sessions \ {s} : On(o, i) => clean'[o] = clean[o]
    BY <1>7 DEF Untangled
<1>8. ASSUME Begin(s) PROVE Same
    <2>1. PICK k \in Items \cup Cvs, t \in Texts \cup {NoText} : \E op \in Asks(k) :
            /\ work' = [work EXCEPT ![s] = [op |-> op, item |-> k, text |-> t]]
            /\ Goto(s, IF op \in {"create", "upload"} THEN "write" ELSE "read")
            /\ tangled' = IF Busy(k) /\ k \in Items THEN tangled \cup {k} ELSE tangled
            /\ clean' = [o \in Sessions |-> IF o = s THEN ~Busy(k) ELSE clean[o] /\ ~On(o, k)]
        BY <1>8 DEF Begin
    <2>2. PICK op \in Asks(k) :
            /\ work' = [work EXCEPT ![s] = [op |-> op, item |-> k, text |-> t]]
            /\ Goto(s, IF op \in {"create", "upload"} THEN "write" ELSE "read")
        BY <2>1
    <2>3. pc'[s] # "idle" /\ work'[s].item = k
        BY <1>1, <2>2 DEF Goto, VariablesTyped
    <2>4. k # i
        BY <1>6, <2>3 DEF Subject
    <2>5. i \in tangled' <=> i \in tangled
        BY <2>1, <2>4
    <2>6. ASSUME NEW o \in Sessions \ {s}, On(o, i) PROVE clean'[o] = clean[o]
        <3>1. ~On(o, k) /\ clean[o] \in BOOLEAN
            BY <1>1, <2>4, <2>6 DEF On, VariablesTyped
        <3>2. clean'[o] = (clean[o] /\ ~On(o, k))
            BY <2>1
        <3>. QED
            BY <3>1, <3>2
    <2>. QED
        BY <1>4, <1>8, <2>5, <2>6 DEF Begin, StoreSame, tableVars
<1>9. ASSUME Read(s) PROVE Same
    <2>1. CASE Fail(s) /\ Over(s)
        BY <1>5, <1>9, <2>1 DEF Read
    <2>2. CASE /\ reviewed' = IF Op(s) = "approve"
                              THEN [reviewed EXCEPT ![Subject(s)] = @ \cup {Seen(s, Home(s)).text}]
                              ELSE reviewed
               /\ Untangled
               /\ UNCHANGED <<tableVars, vectors, queue, audit, work, begun, faults, orphans, lost>>
        <3>1. Subject(s) # i
            BY <1>2, <1>3, <1>9 DEF Read
        <3>2. i \in Sections => reviewed'[i] = reviewed[i]
            BY <1>1, <2>2, <3>1 DEF VariablesTyped
        <3>. QED
            BY <1>4, <1>7, <2>2, <3>2 DEF StoreSame, tableVars
    <2>. QED
        BY <1>9, <2>1, <2>2 DEF Read
<1>10. ASSUME WriteRow(s) PROVE Same
    <2>1. CASE Fail(s) /\ Over(s)
        BY <1>5, <1>10, <2>1 DEF WriteRow
    <2>2. CASE Untangled /\ UNCHANGED <<db, vectors, queue, audit, faults, reviewed, orphans, lost>>
        BY <1>4, <1>7, <2>2 DEF StoreSame
    <2>. QED
        BY <1>10, <2>1, <2>2 DEF WriteRow
<1>11. ASSUME Enqueue(s) PROVE Same
    <2>1. JobOf(s).item # i
        BY <1>2, <1>3, <1>11 DEF Enqueue, JobOf
    <2>2. \/ queue' = queue
          \/ Enqueued(JobOf(s)) /\ queue' = queue (+) SetToBag({JobOf(s)}) /\ JobOK(JobOf(s))
        BY <1>11, JobTyped DEF Enqueue
    <2>3. QueueSame(i)
        <3>1. CASE queue' = queue (+) SetToBag({JobOf(s)}) /\ JobOK(JobOf(s))
            <4>1. /\ BagToSet(queue') = BagToSet(queue) \cup {JobOf(s)}
                  /\ \A j \in BagToSet(queue) \ {JobOf(s)} : queue'[j] = queue[j]
                BY <1>1, <3>1, QueueGrows
            <4>. QED
                BY <2>1, <4>1 DEF QueueSame
        <3>. QED
            BY <1>4, <2>2, <3>1
    <2>. QED
        BY <1>7, <1>11, <2>3 DEF Enqueue, StoreSame, tableVars
<1>12. ASSUME Unembed(s) PROVE Same
    <2>1. Subject(s) # i /\ vectors' = [vectors EXCEPT ![Subject(s)] = Absent]
        BY <1>2, <1>3, <1>12 DEF Unembed
    <2>2. vectors'[i] = vectors[i]
        BY <1>1, <2>1 DEF VariablesTyped
    <2>. QED
        BY <1>4, <1>7, <1>12, <2>2 DEF Unembed, StoreSame, tableVars
<1>13. ASSUME Unpoint(s) PROVE Same
    BY <1>4, <1>7, <1>13 DEF Unpoint, StoreSame
<1>14. ASSUME Commit(s) PROVE Same
    <2>1. /\ Subject(s) # i /\ CommitRows(s)
          /\ clean' = [clean EXCEPT ![s] = FALSE]
          /\ tangled' = tangled \/ tangled' = tangled \ {Subject(s)}
          /\ UNCHANGED <<vectors, queue, audit, faults, reviewed, orphans, lost>>
        BY <1>2, <1>3, <1>14 DEF Commit
    <2>2. db'[Item(i)] = db[Item(i)] /\ db'[Pointer(i)] = db[Pointer(i)]
        BY <2>1, CommitElsewhere
    <2>3. \A o \in Sessions \ {s} : clean'[o] = clean[o]
        BY <1>1, <2>1 DEF VariablesTyped
    <2>. QED
        BY <1>4, <2>1, <2>2, <2>3 DEF StoreSame
<1>15. ASSUME Abort(s) PROVE Same
    BY <1>5, <1>15 DEF Abort
<1>16. ASSUME Take(s) PROVE Same
    <2>1. PICK j \in BagToSet(queue) :
            /\ queue' = queue (-) SetToBag({j})
            /\ work' = [work EXCEPT ![s] = j]
            /\ Goto(s, IF j.op = "embed" THEN "embed" ELSE "load")
        BY <1>16 DEF Take
    <2>2. pc'[s] # "idle" /\ work'[s] = j
        BY <1>1, <2>1 DEF Goto, VariablesTyped
    <2>3. j.item # i
        BY <1>6, <2>2 DEF Subject
    <2>4. QueueSame(i)
        <3>1. /\ BagToSet(queue') \subseteq BagToSet(queue)
              /\ \A k \in BagToSet(queue) \ {j} :
                    queue[k] > 0 => k \in BagToSet(queue') /\ queue'[k] = queue[k]
              /\ \A k \in BagToSet(queue') \ {j} : queue'[k] = queue[k]
            BY <1>1, <2>1, QueueShrinks
        <3>2. \A k \in BagToSet(queue) : queue[k] > 0
            BY <1>1 DEF VariablesTyped
        <3>. QED
            BY <2>3, <3>1, <3>2 DEF QueueSame
    <2>5. clean' = [clean EXCEPT ![s] = FALSE]
        BY <1>16 DEF Take
    <2>6. \A o \in Sessions \ {s} : clean'[o] = clean[o]
        BY <1>1, <2>5 DEF VariablesTyped
    <2>. QED
        BY <1>16, <2>4, <2>6 DEF Take, StoreSame, tableVars
<1>17. ASSUME Embed(s) PROVE Same
    <2>1. /\ Subject(s) # i /\ vectors' = [vectors EXCEPT ![Subject(s)] = work[s].text]
          /\ lost' = lost \ {Subject(s)}
        BY <1>2, <1>3, <1>17 DEF Embed
    <2>2. vectors'[i] = vectors[i] /\ (i \in lost' <=> i \in lost)
        BY <1>1, <2>1 DEF VariablesTyped
    <2>. QED
        BY <1>4, <1>7, <1>17, <2>2 DEF Embed, StoreSame, tableVars
<1>18. ASSUME Find(s) PROVE Same
    BY <1>4, <1>7, <1>18 DEF Find, StoreSame, tableVars
<1>19. ASSUME Point(s) PROVE Same
    BY <1>4, <1>7, <1>19 DEF Point, StoreSame
<1>20. ASSUME PointerMoved(s) PROVE Same
    BY <1>5, <1>20 DEF PointerMoved
<1>21. ASSUME Load(s) PROVE Same
    BY <1>4, <1>7, <1>21 DEF Load, StoreSame, tableVars
<1>22. ASSUME Mark(s) PROVE Same
    <2>1. Home(s) = Cv(Subject(s)) /\ db' = [db EXCEPT ![Home(s)] = Processing]
        BY <1>3, <1>22, HomeRow DEF Mark, OpsAt
    <2>2. db'[Item(i)] = db[Item(i)] /\ db'[Pointer(i)] = db[Pointer(i)]
        BY <1>1, <2>1, RowNames DEF RowsTyped
    <2>. QED
        BY <1>4, <1>7, <1>22, <2>2 DEF Mark, StoreSame
<1>23. ASSUME Parse(s) PROVE Same
    BY <1>4, <1>7, <1>23 DEF Parse, StoreSame
<1>24. ASSUME JobFails(s) PROVE Same
    <2>1. /\ db' = db /\ UNCHANGED <<vectors, queue, audit, reviewed, lost>>
          /\ Tangle({Subject(s)}) /\ Subject(s) # i
        BY <1>2, <1>3, <1>24 DEF JobFails, DiscardRows
    <2>. QED
        BY <1>4, <2>1, TangleElsewhere DEF StoreSame
<1> HIDE DEF Same
<1>25. Same
    BY <1>8, <1>9, <1>10, <1>11, <1>12, <1>13, <1>14, <1>15, <1>16, <1>17, <1>18, <1>19, <1>20,
       <1>21, <1>22, <1>23, <1>24 DEF Acts
<1>26. OthersSame(s)
    BY ActTypes
<1>. QED
    BY <1>25, <1>26, SessionsSameElsewhere DEF Same

-----------------------------------------------------------------------------
(* What a request does to its item *)

LEMMA OrderlyKept ==
    ASSUME NEW i \in Items, work' = work, Untangled
    PROVE  Orderly(i)' <=> Orderly(i)
PROOF
<1>1. tangled' = tangled /\ clean' = clean
    BY DEF Untangled
<1>2. \A o \in Sessions : Asking(o, i)' <=> Asking(o, i)
    BY SessionViews
<1>. QED
    BY <1>1, <1>2 DEF Orderly

LEMMA RequestMoves ==
    ASSUME TypeInv, NEW s \in Sessions, NEW i \in Items, Asking(s, i), pc[s] # "commit",
           work' = work, OthersSame(s), Untangled, db' = db,
           i \in Sections => reviewed[i] \subseteq reviewed'[i],
           Orderly(i), Grounded(i)
    PROVE  /\ ~Worked(i) /\ Alone(s, i) /\ clean'[s] /\ Asking(s, i)'
           /\ \A o \in Sessions : Asking(o, i)' => o = s
           /\ OneJob(i)' /\ Alone(s, i)' => Grounded(i)'
           /\ QueueSame(i) => ~Worked(i)' /\ OneJob(i)' /\ \A row : JobsFit(i, row)'
PROOF
<1>1. \A o \in Sessions : /\ Asking(o, i)' <=> Asking(o, i)
                          /\ Embedding(o, i)' <=> Embedding(o, i)
    BY SessionViews
<1>2. Alone(s, i) /\ clean' = clean /\ tangled' = tangled
    BY DEF Grounded, Untangled
<1>3. ~Worked(i)
    BY <1>2 DEF Alone
<1>4. \A o \in Sessions : ~Embedding(o, i)' /\ ~Embedding(o, i)
    BY <1>1, <1>3 DEF Worked
<1>5. \A o \in Sessions : Asking(o, i)' => o = s
    BY <1>1, <1>2 DEF Alone
<1>6. ASSUME OneJob(i)', Alone(s, i)' PROVE Grounded(i)'
    <2>1. Undisturbed(i)'
        BY <1>1 DEF Undisturbed
    <2>2. Approvals(i)'
        BY <1>2 DEF Grounded, Approvals
    <2>. QED
        BY <1>4, <1>5, <1>6, <2>1, <2>2 DEF Grounded
<1>7. ASSUME QueueSame(i) PROVE ~Worked(i)' /\ OneJob(i)' /\ \A row : JobsFit(i, row)'
    <2>1. \A j : ~Waiting(j, i)'
        BY <1>3, <1>7 DEF QueueSame, Worked, Waiting
    <2>2. ~Worked(i)'
        BY <1>4, <2>1 DEF Worked
    <2>3. OneJob(i)'
        BY <1>4, <2>1 DEF OneJob
    <2>4. \A row : JobsFit(i, row)'
        BY <1>4, <2>1 DEF JobsFit
    <2>. QED
        BY <2>2, <2>3, <2>4
<1>. QED
    BY <1>1, <1>2, <1>3, <1>5, <1>6, <1>7 DEF Alone

\* A request that fails before it has written anything leaves its item as it found it.
LEMMA FailKeepsGround ==
    ASSUME TypeInv, NEW s \in Sessions, NEW i \in Items, Asking(s, i),
           pc[s] \in {"read", "write"}, Fail(s), Over(s), Orderly(i) => Grounded(i)
    PROVE  Orderly(i)' => Grounded(i)'
PROOF
<1>1. /\ Leave(s) /\ DiscardRows(s) /\ VariablesTyped /\ RowsTyped
      /\ UNCHANGED <<vectors, queue, audit, faults, reviewed, orphans, lost>>
      /\ clean' = [clean EXCEPT ![s] = FALSE] /\ tangled' = tangled
    BY DEF Fail, Over, TypeInv
<1>2. /\ db' = db /\ work'[s] = NoWork /\ OthersSame(s)
    BY <1>1, LeaveMoves, RowsDiscarded DEF OthersSame
<1>3. ASSUME NEW o \in Sessions, o # s
      PROVE  /\ Asking(o, i)' <=> Asking(o, i)
             /\ Embedding(o, i)' <=> Embedding(o, i)
             /\ clean'[o] = clean[o]
    BY <1>1, <1>2, <1>3, SessionViews DEF OthersSame, VariablesTyped
<1>4. ~Asking(s, i)' /\ ~Embedding(s, i)' /\ ~Embedding(s, i)
    BY <1>2 DEF Asking, Embedding, On
<1>. SUFFICES ASSUME Orderly(i)' PROVE Grounded(i)'
    OBVIOUS
<1>5. Orderly(i)
    BY <1>1, <1>3, <1>4 DEF Orderly
<1>6. Grounded(i) /\ Alone(s, i)
    BY <1>5 DEF Grounded
<1>7. \A o \in Sessions : ~Asking(o, i)'
    BY <1>3, <1>4, <1>6 DEF Alone
<1>8. i \notin tangled
    BY <1>1, <1>7 DEF Orderly
<1>9. ~Worked(i)
    BY <1>6 DEF Alone
<1>10. (\A o \in Sessions : ~Embedding(o, i)') /\ \A j : ~Waiting(j, i)'
    BY <1>1, <1>3, <1>4, <1>9 DEF Worked, Waiting
<1>11. Settled(i, db[Item(i)], db[Pointer(i)])
    BY <1>6, <1>8 DEF Alone
<1>12. Settled(i, db[Item(i)], db[Pointer(i)])'
    BY <1>1, <1>2, <1>11 DEF Settled, VectorIs
<1>13. Undisturbed(i)'
    BY <1>10, <1>12 DEF Undisturbed, JobsFit
<1>14. OneJob(i)'
    BY <1>10 DEF OneJob
<1>15. Approvals(i)'
    BY <1>1, <1>2, <1>6 DEF Grounded, Approvals
<1>. QED
    BY <1>7, <1>10, <1>13, <1>14, <1>15 DEF Grounded

LEMMA RequestRow ==
    ASSUME TypeInv, NEW s \in Sessions, NEW i \in Items, Asking(s, i)
    PROVE  /\ pc[s] # "idle" /\ work[s] # NoWork /\ WorkOK(work[s]) /\ Subject(s) = i
           /\ Op(s) \in FactOperations \cup SectionOperations /\ Op(s) \in OpsAt(pc[s])
           /\ Home(s) = Item(i) /\ Item(i) \in Rows /\ Pointer(i) \in Rows
           /\ Item(i) # Pointer(i)
           /\ Op(s) \in FactOperations => i \in Facts /\ i \notin Sections
           /\ Op(s) \in SectionOperations => i \in Sections
PROOF
<1>1. work[s] # NoWork /\ Subject(s) = i /\ Op(s) \notin Jobs
    BY DEF Asking, On
<1>2. WorkOK(work[s]) /\ pc[s] # "idle" /\ Op(s) \in OpsAt(pc[s])
    BY <1>1 DEF TypeInv, Placed
<1>3. Op(s) \in FactOperations \cup SectionOperations
    BY <1>1, <1>2, PipelineAssumption, HomeRow DEF Operations
<1>4. /\ Op(s) \in FactOperations => i \in Facts /\ i \notin Sections
      /\ Op(s) \in SectionOperations => i \in Sections
    BY <1>1, <1>2, PipelineAssumption DEF WorkOK, Op, Subject
<1>. QED
    BY <1>1, <1>2, <1>3, <1>4, HomeRow, RowNames

LEMMA ReadKeepsGround ==
    ASSUME TypeInv, NEW s \in Sessions, NEW i \in Items, Asking(s, i), Read(s),
           Orderly(i) => Grounded(i)
    PROVE  Orderly(i)' => Grounded(i)'
PROOF
<1> DEFINE row == Seen(s, Home(s))
<1>1. pc[s] = "read" /\ VariablesTyped
    BY DEF Read, TypeInv
<1>2. Op(s) \in OpsAt("read") /\ Subject(s) = i /\ Home(s) = Item(i) /\ Item(i) \in Rows
      /\ Pointer(i) \in Rows /\ (Op(s) \in SectionOperations => i \in Sections)
    BY <1>1, RequestRow
<1>3. CASE Refused(s, row)
    BY <1>1, <1>3, FailKeepsGround DEF Read
<1>4. CASE ~Refused(s, row)
    <2>1. /\ read' = [read EXCEPT ![s] = row] /\ Goto(s, "write") /\ Untangled
          /\ reviewed' = IF Op(s) = "approve"
                         THEN [reviewed EXCEPT ![Subject(s)] = @ \cup {row.text}] ELSE reviewed
          /\ UNCHANGED <<tableVars, vectors, queue, audit, work, begun, faults, orphans, lost>>
        BY <1>4 DEF Read
    <2>2. OthersSame(s)
        BY ReadTypes
    <2>3. /\ work' = work /\ db' = db /\ draft' = draft /\ QueueSame(i)
          /\ pc'[s] = "write" /\ read'[s] = row
        BY <1>1, <2>1 DEF tableVars, Goto, VariablesTyped, QueueSame
    <2>4. i \in Sections => /\ reviewed[i] \subseteq reviewed'[i]
                            /\ Op(s) = "approve" => row.text \in reviewed'[i]
        BY <1>1, <1>2, <2>1 DEF VariablesTyped
    <2>. SUFFICES ASSUME Orderly(i)' PROVE Grounded(i)'
        OBVIOUS
    <2>5. Orderly(i) /\ Grounded(i)
        BY <2>1, <2>3, OrderlyKept
    <2>6. /\ Alone(s, i) /\ clean'[s] /\ \A o \in Sessions : Asking(o, i)' => o = s
          /\ OneJob(i)' /\ Alone(s, i)' => Grounded(i)'
          /\ ~Worked(i)' /\ OneJob(i)' /\ \A r : JobsFit(i, r)'
        BY <1>1, <2>1, <2>2, <2>3, <2>4, <2>5, RequestMoves
    <2>7. draft[s][Item(i)] = Unwritten
        BY <1>1, <1>2, NothingWritten
    <2>8. row = db[Item(i)]
        BY <1>2, <2>7 DEF Seen
    <2>9. PICK old : old = db[Item(i)]
        OBVIOUS
    <2>10. Seen(s, Item(i))' = old /\ JobsFit(i, old)'
        BY <2>3, <2>6, <2>7, <2>9 DEF Seen
    <2>11. Op(s)' = Op(s)
        BY <2>3 DEF Op
    <2>12. i \notin tangled => Settled(i, db[Item(i)], db[Pointer(i)])
        BY <1>1, <2>6 DEF Alone
    <2>13. Settled(i, db[Item(i)], db[Pointer(i)])' <=> Settled(i, db[Item(i)], db[Pointer(i)])
        BY <2>1, <2>3 DEF Settled, VectorIs
    <2>14. tangled' = tangled
        BY <2>1 DEF Untangled
    <2>15. Op(s) = "approve" => i \in Sections
        BY <1>2 DEF SectionOperations
    <2>16. Alone(s, i)'
        BY <2>3, <2>4, <2>6, <2>8, <2>9, <2>10, <2>11, <2>12, <2>13, <2>14, <2>15 DEF Alone
    <2>. QED
        BY <2>6, <2>16
<1>. QED
    BY <1>3, <1>4

\* What a request writes, of a row nobody has changed since it read it.
LEMMA NewRowMade ==
    ASSUME TypeInv, NEW s \in Sessions, NEW i \in Items, Asking(s, i), pc[s] = "write",
           NEW found, found = Seen(s, Home(s)), ~Vanished(s, found),
           Op(s) # "create" => read[s] = found,
           Op(s) = "approve" => read[s].text \in reviewed[i],
           NEW row, row = NewRow(s, found)
    PROVE  /\ Op(s) \in {"delete", "edit", "generate"} => Embedded(row) = Absent
           /\ Op(s) \in {"create", "update", "approve"} =>
                 row # Absent /\ row.approved /\ row.text = JobOf(s).text
           /\ i \in Sections /\ row # Absent /\ row.approved => row.text \in reviewed[i]
PROOF
<1>1. /\ work[s] # NoWork /\ WorkOK(work[s]) /\ Subject(s) = i
      /\ Op(s) \in FactOperations \cup SectionOperations /\ Home(s) = Item(i) /\ Item(i) \in Rows
      /\ Op(s) \in FactOperations => i \in Facts /\ i \notin Sections
      /\ Op(s) \in SectionOperations => i \in Sections
    BY RequestRow
<1>2. RowsTyped /\ Placed(s)
    BY DEF TypeInv
<1>3. found \in RowsOf(i) \cup {Absent}
    BY <1>1, <1>2, SeenRow, TableRows
<1>4. JobOf(s).text = IF Op(s) = "approve" THEN read[s].text ELSE work[s].text
    BY DEF JobOf
<1>5. \A r \in ItemRow : r # Absent /\ (~r.approved => Embedded(r) = Absent)
    BY Marks DEF Embedded
<1>6. work[s].text \in Texts \cup {NoText}
    BY <1>1 DEF WorkOK, Work
<1>7. CASE Op(s) = "create"
    <2>1. row = [text |-> work[s].text, approved |-> TRUE]
        BY <1>7 DEF NewRow
    <2>2. row \in ItemRow /\ row.approved /\ row.text = work[s].text
        BY <1>6, <2>1 DEF ItemRow
    <2>. QED
        BY <1>1, <1>4, <1>5, <1>7, <2>2 DEF FactOperations
<1>8. CASE Op(s) = "generate"
    <2>1. row = [text |-> work[s].text, approved |-> FALSE]
        BY <1>8 DEF NewRow
    <2>2. row \in ItemRow /\ ~row.approved
        BY <1>6, <2>1 DEF ItemRow
    <2>. QED
        BY <1>5, <1>8, <2>2
<1>9. CASE Op(s) = "delete"
    <2>1. row = Absent
        BY <1>9 DEF NewRow
    <2>. QED
        BY <1>9, <2>1 DEF Embedded
<1>10. CASE Op(s) \in {"update", "edit", "approve"}
    <2>1. found \in RowsOf(i)
        BY <1>3, <1>10 DEF Vanished
    <2>2. /\ found \in ItemRow /\ found.text \in Texts \cup {NoText} /\ found.approved \in BOOLEAN
          /\ i \in Facts => found.approved
          /\ found = [text |-> found.text, approved |-> found.approved]
        BY <2>1 DEF RowsOf, ItemRow
    <2>3. CASE Op(s) = "update"
        <3>1. row = [found EXCEPT !.text = work[s].text]
            BY <2>3 DEF NewRow
        <3>2. row \in ItemRow /\ row.approved = found.approved /\ row.text = work[s].text
            BY <1>6, <2>2, <3>1 DEF ItemRow
        <3>. QED
            BY <1>1, <1>4, <1>5, <2>2, <2>3, <3>2 DEF FactOperations
    <2>4. CASE Op(s) = "edit"
        <3>1. row = [found EXCEPT !.text = work[s].text,
                                  !.approved = IF found.approved THEN FALSE ELSE found.approved]
            BY <2>2, <2>4 DEF NewRow, Edited
        <3>2. row \in ItemRow /\ ~row.approved
            BY <1>6, <2>2, <3>1 DEF ItemRow
        <3>. QED
            BY <1>5, <2>4, <3>2
    <2>5. CASE Op(s) = "approve"
        <3>1. row = [found EXCEPT !.approved = IF found.approved THEN found.approved ELSE TRUE]
            BY <2>2, <2>5 DEF NewRow, Approved
        <3>2. row \in ItemRow /\ row.approved /\ row.text = found.text
            BY <2>2, <3>1 DEF ItemRow
        <3>. QED
            BY <1>4, <1>5, <2>5, <3>2
    <2>. QED
        BY <1>10, <2>3, <2>4, <2>5
<1>. QED
    BY <1>1, <1>7, <1>8, <1>9, <1>10 DEF FactOperations, SectionOperations

LEMMA WriteRowKeepsGround ==
    ASSUME TypeInv, NEW s \in Sessions, NEW i \in Items, Asking(s, i), WriteRow(s),
           Orderly(i) => Grounded(i)
    PROVE  Orderly(i)' => Grounded(i)'
PROOF
<1>1. pc[s] = "write" /\ VariablesTyped /\ RowsTyped
    BY DEF WriteRow, TypeInv
<1>2. /\ Op(s) \in FactOperations \cup SectionOperations /\ Subject(s) = i
      /\ Home(s) = Item(i) /\ Item(i) \in Rows /\ Pointer(i) \in Rows /\ Item(i) # Pointer(i)
      /\ Op(s) \in SectionOperations => i \in Sections
      /\ WorkOK(work[s]) /\ work[s] # NoWork
    BY RequestRow
<1>3. PICK found : found = Seen(s, Home(s))
    OBVIOUS
<1>4. CASE Vanished(s, found)
    BY <1>1, <1>3, <1>4, FailKeepsGround DEF WriteRow
<1>5. CASE ~Vanished(s, found)
    <2>1. PICK row : row = NewRow(s, found)
        OBVIOUS
    <2>2. /\ Write(s, Item(i), row) /\ Step(s, AfterWrite(Op(s))) /\ Untangled
          /\ UNCHANGED <<db, vectors, queue, audit, faults, reviewed, orphans, lost>>
        BY <1>2, <1>3, <1>5, <2>1 DEF WriteRow
    <2>3. OthersSame(s)
        BY WriteRowTypes
    <2>4. /\ Op(s) \in {"create", "update", "approve"} => AfterWrite(Op(s)) = "enqueue"
          /\ Op(s) \in {"delete", "edit"} => AfterWrite(Op(s)) = "unembed"
          /\ Op(s) = "generate" => AfterWrite(Op(s)) = "commit"
          /\ AfterWrite(Op(s)) \in Steps
          /\ Op(s) \in {"create", "update", "approve", "delete", "edit", "generate"}
        BY <1>2 DEF AfterWrite, Steps, FactOperations, SectionOperations
    <2>5. /\ pc'[s] = AfterWrite(Op(s)) /\ work' = work /\ read' = read /\ Op(s)' = Op(s)
        BY <1>1, <2>2, <2>4, StepMoves
    <2>6. QueueSame(i)
        BY <2>2 DEF QueueSame
    <2>. SUFFICES ASSUME Orderly(i)' PROVE Grounded(i)'
        OBVIOUS
    <2>7. Orderly(i) /\ Grounded(i)
        BY <2>2, <2>5, OrderlyKept
    <2>8. /\ Alone(s, i) /\ clean'[s] /\ \A o \in Sessions : Asking(o, i)' => o = s
          /\ OneJob(i)' /\ Alone(s, i)' => Grounded(i)'
          /\ ~Worked(i)' /\ OneJob(i)' /\ \A r : JobsFit(i, r)'
        BY <1>1, <2>2, <2>3, <2>5, <2>6, <2>7, RequestMoves
    <2>9. draft[s][Item(i)] = Unwritten /\ found = db[Item(i)]
        BY <1>1, <1>2, <1>3, NothingWritten DEF Seen
    <2>10. /\ Op(s) # "create" => read[s] = found
           /\ Op(s) = "approve" => i \in Sections /\ read[s].text \in reviewed[i]
        BY <1>1, <2>8, <2>9 DEF Alone
    <2>11. /\ Op(s) \in {"delete", "edit", "generate"} => Embedded(row) = Absent
           /\ Op(s) \in {"create", "update", "approve"} =>
                 row # Absent /\ row.approved /\ row.text = JobOf(s).text
           /\ i \in Sections /\ row # Absent /\ row.approved => row.text \in reviewed[i]
        BY <1>1, <1>3, <1>5, <2>1, <2>10, NewRowMade
    <2>12. row \in TableOf(Item(i))
        BY <1>1, <1>2, <1>3, <1>5, <2>1, NewRowTyped DEF TypeInv
    <2>13. draft'[s][Item(i)] = row /\ row # Unwritten
        BY <1>1, <1>2, <2>2, <2>12, RowWritten, Marks
    <2>14. Seen(s, Item(i))' = row
        BY <2>13 DEF Seen
    <2>15. JobOf(s)' = JobOf(s)
        BY <2>5, JobOfKept
    <2>16. Made(s, i)'
        BY <2>2, <2>5, <2>11, <2>14, <2>15 DEF Made
    <2>17. i \notin tangled => Settled(i, db[Item(i)], db[Pointer(i)])
        BY <1>1, <2>8 DEF Alone
    <2>18. Settled(i, db[Item(i)], db[Pointer(i)])' <=> Settled(i, db[Item(i)], db[Pointer(i)])
        BY <2>2 DEF Settled, VectorIs
    <2>19. tangled' = tangled
        BY <2>2 DEF Untangled
    <2>20. JobsFit(i, row)'
        BY <2>8
    <2>21. Alone(s, i)'
        BY <2>2, <2>4, <2>5, <2>8, <2>9, <2>10, <2>14, <2>16, <2>17, <2>18, <2>19, <2>20
           DEF Alone
    <2>. QED
        BY <2>8, <2>21
<1>. QED
    BY <1>4, <1>5

LEMMA UnembedKeepsGround ==
    ASSUME TypeInv, NEW s \in Sessions, NEW i \in Items, Asking(s, i), Unembed(s),
           Orderly(i) => Grounded(i)
    PROVE  Orderly(i)' => Grounded(i)'
PROOF
<1>1. /\ pc[s] = "unembed" /\ VariablesTyped /\ Step(s, "unpoint") /\ Untangled
      /\ vectors' = [vectors EXCEPT ![Subject(s)] = Absent]
      /\ UNCHANGED <<tableVars, queue, audit, faults, reviewed, orphans, lost>>
    BY DEF Unembed, TypeInv
<1>2. Subject(s) = i /\ Op(s) \in {"delete", "edit"}
    BY <1>1, RequestRow DEF OpsAt
<1>3. OthersSame(s)
    BY UnembedTypes
<1>4. pc'[s] = "unpoint" /\ work' = work /\ read' = read /\ Op(s)' = Op(s)
    BY <1>1, StepMoves DEF Steps
<1>5. /\ db' = db /\ draft' = draft /\ QueueSame(i) /\ VectorIs(i, Absent)'
    BY <1>1, <1>2 DEF tableVars, QueueSame, VariablesTyped, VectorIs
<1>. SUFFICES ASSUME Orderly(i)' PROVE Grounded(i)'
    OBVIOUS
<1>6. Orderly(i) /\ Grounded(i)
    BY <1>1, <1>4, OrderlyKept
<1>7. /\ Alone(s, i) /\ clean'[s] /\ \A o \in Sessions : Asking(o, i)' => o = s
      /\ OneJob(i)' /\ Alone(s, i)' => Grounded(i)'
      /\ ~Worked(i)' /\ OneJob(i)' /\ \A r : JobsFit(i, r)'
    BY <1>1, <1>3, <1>4, <1>5, <1>6, RequestMoves
<1>8. PICK row : row = Seen(s, Item(i))
    OBVIOUS
<1>9. Seen(s, Item(i))' = row /\ JobsFit(i, row)'
    BY <1>5, <1>7, <1>8 DEF Seen
<1>10. JobOf(s)' = JobOf(s)
    BY <1>4, JobOfKept
<1>11. Made(s, i)
    BY <1>1, <1>7 DEF Alone
<1>12. Made(s, i)'
    BY <1>1, <1>4, <1>8, <1>9, <1>10, <1>11 DEF Made
<1>13. Alone(s, i)'
    BY <1>1, <1>2, <1>4, <1>5, <1>7, <1>9, <1>12 DEF Alone
<1>. QED
    BY <1>7, <1>13

LEMMA UnpointKeepsGround ==
    ASSUME TypeInv, NEW s \in Sessions, NEW i \in Items, Asking(s, i), Unpoint(s),
           Orderly(i) => Grounded(i)
    PROVE  Orderly(i)' => Grounded(i)'
PROOF
<1>1. /\ pc[s] = "unpoint" /\ VariablesTyped /\ RowsTyped /\ Step(s, "commit") /\ Untangled
      /\ UNCHANGED <<db, vectors, queue, audit, faults, reviewed, orphans, lost>>
    BY DEF Unpoint, TypeInv
<1>2. /\ Subject(s) = i /\ Op(s) \in {"delete", "edit"} /\ Item(i) \in Rows
      /\ Pointer(i) \in Rows /\ Item(i) # Pointer(i)
    BY <1>1, RequestRow DEF OpsAt
<1>3. OthersSame(s)
    BY UnpointTypes
<1>4. pc'[s] = "commit" /\ work' = work /\ read' = read /\ Op(s)' = Op(s)
    BY <1>1, StepMoves DEF Steps
<1>5. QueueSame(i)
    BY <1>1 DEF QueueSame
<1>6. Seen(s, Pointer(i))' = Absent /\ draft'[s][Item(i)] = draft[s][Item(i)]
    <2>1. CASE Seen(s, Pointer(i)) = Absent /\ draft' = draft
        BY <1>1, <2>1 DEF Seen
    <2>2. CASE Write(s, Pointer(i), Absent)
        <3>1. Absent \in TableOf(Pointer(i))
            BY TableRows
        <3>2. draft'[s][Pointer(i)] = Absent /\ draft'[s][Item(i)] = draft[s][Item(i)]
            BY <1>1, <1>2, <2>2, <3>1, RowWritten
        <3>. QED
            BY <3>2, Marks DEF Seen
    <2>. QED
        BY <1>2, <2>1, <2>2 DEF Unpoint
<1>. SUFFICES ASSUME Orderly(i)' PROVE Grounded(i)'
    OBVIOUS
<1>7. Orderly(i) /\ Grounded(i)
    BY <1>1, <1>4, OrderlyKept
<1>8. /\ Alone(s, i) /\ clean'[s] /\ \A o \in Sessions : Asking(o, i)' => o = s
      /\ OneJob(i)' /\ Alone(s, i)' => Grounded(i)'
      /\ ~Worked(i)' /\ OneJob(i)' /\ \A r : JobsFit(i, r)'
    BY <1>1, <1>3, <1>4, <1>5, <1>7, RequestMoves
<1>9. PICK row : row = Seen(s, Item(i))
    OBVIOUS
<1>10. Seen(s, Item(i))' = row /\ JobsFit(i, row)'
    BY <1>1, <1>6, <1>8, <1>9 DEF Seen
<1>11. JobOf(s)' = JobOf(s)
    BY <1>4, JobOfKept
<1>12. Made(s, i) /\ VectorIs(i, Absent)
    BY <1>1, <1>8 DEF Alone
<1>13. Made(s, i)'
    BY <1>1, <1>4, <1>9, <1>10, <1>11, <1>12 DEF Made
<1>14. Embedded(row) = Absent
    BY <1>2, <1>9, <1>12 DEF Made
<1>15. VectorIs(i, Absent)'
    BY <1>1, <1>12 DEF VectorIs
<1>16. Settled(i, row, Absent)'
    BY <1>14, <1>15 DEF Settled
<1>17. Alone(s, i)'
    BY <1>1, <1>2, <1>4, <1>6, <1>8, <1>10, <1>13, <1>16 DEF Alone
<1>. QED
    BY <1>8, <1>17

LEMMA EnqueueKeepsGround ==
    ASSUME TypeInv, NEW s \in Sessions, NEW i \in Items, Asking(s, i), Enqueue(s),
           Orderly(i) => Grounded(i)
    PROVE  Orderly(i)' => Grounded(i)'
PROOF
<1> DEFINE w == JobOf(s)
<1>1. /\ pc[s] = "enqueue" /\ VariablesTyped /\ Step(s, "commit") /\ Untangled
      /\ UNCHANGED <<tableVars, vectors, audit, faults, reviewed, orphans, lost>>
      /\ queue' = IF Enqueued(w) THEN queue (+) SetToBag({w}) ELSE queue
    BY DEF Enqueue, TypeInv
<1>2. /\ Subject(s) = i /\ Op(s) \in {"create", "update", "approve"} /\ i \notin Cvs
    BY <1>1, RequestRow, PipelineAssumption DEF OpsAt, Operations, FactOperations,
       SectionOperations, CvOperations
<1>3. w.item = i /\ w.op = "embed"
    BY <1>2 DEF JobOf
<1>4. OthersSame(s)
    BY EnqueueTypes
<1>5. pc'[s] = "commit" /\ work' = work /\ read' = read /\ Op(s)' = Op(s)
    BY <1>1, StepMoves DEF Steps
<1>6. db' = db /\ draft' = draft
    BY <1>1 DEF tableVars
<1>. SUFFICES ASSUME Orderly(i)' PROVE Grounded(i)'
    OBVIOUS
<1>7. Orderly(i) /\ Grounded(i)
    BY <1>1, <1>5, OrderlyKept
<1>8. /\ ~Worked(i) /\ Alone(s, i) /\ clean'[s] /\ \A o \in Sessions : Asking(o, i)' => o = s
      /\ OneJob(i)' /\ Alone(s, i)' => Grounded(i)'
      /\ QueueSame(i) => ~Worked(i)' /\ OneJob(i)' /\ \A r : JobsFit(i, r)'
    BY <1>1, <1>4, <1>5, <1>6, <1>7, RequestMoves
<1>9. PICK row : row = Seen(s, Item(i))
    OBVIOUS
<1>10. Seen(s, Item(i))' = row
    BY <1>6, <1>9 DEF Seen
<1>11. JobOf(s)' = JobOf(s)
    BY <1>5, JobOfKept
<1>12. Made(s, i) /\ row # Absent /\ row.approved /\ row.text = w.text
    BY <1>1, <1>2, <1>8, <1>9 DEF Alone, Made
<1>13. Made(s, i)'
    BY <1>1, <1>5, <1>9, <1>10, <1>11, <1>12 DEF Made
<1>14. PICK pointer : pointer = Seen(s, Pointer(i))'
    OBVIOUS
<1>15. ASSUME OneJob(i)', JobsFit(i, row)', Worked(i)' \/ Settled(i, row, pointer)'
       PROVE  Grounded(i)'
    <2>1. Alone(s, i)'
        BY <1>1, <1>2, <1>5, <1>6, <1>8, <1>10, <1>13, <1>14, <1>15 DEF Alone
    <2>. QED
        BY <1>8, <1>15, <2>1
<1>16. CASE ~Enqueued(w)
    <2>1. QueueSame(i) /\ row.text = NoText
        BY <1>1, <1>3, <1>12, <1>16 DEF QueueSame, Enqueued
    <2>2. Settled(i, row, pointer)'
        BY <1>12, <2>1 DEF Settled
    <2>3. JobsFit(i, row)'
        BY <1>8, <2>1
    <2>. QED
        BY <1>8, <1>15, <2>1, <2>2, <2>3
<1>17. CASE Enqueued(w)
    <2>1. JobOK(w) /\ w.text # NoText
        BY <1>1, <1>3, <1>17, JobTyped DEF Enqueued
    <2>2. /\ BagToSet(queue') = BagToSet(queue) \cup {w}
          /\ \A j \in {w} \ BagToSet(queue) : queue'[j] = 1
        BY <1>1, <1>17, <2>1, QueueGrows
    <2>3. \A j : ~Waiting(j, i)
        BY <1>8 DEF Worked, Waiting
    <2>4. w \notin BagToSet(queue)
        BY <1>3, <2>3 DEF Waiting
    <2>5. \A j : Waiting(j, i)' <=> j = w
        BY <1>3, <2>2, <2>3 DEF Waiting
    <2>6. queue'[w] = 1 /\ w \in BagToSet(queue')
        BY <2>2, <2>4
    <2>7. \A o \in Sessions : ~Embedding(o, i)'
        BY <1>5, <1>8, SessionViews DEF Worked
    <2>8. PICK job : job = w
        OBVIOUS
    <2>9. OneJob(i)'
        BY <2>5, <2>6, <2>7, <2>8 DEF OneJob
    <2>10. Embedded(row) = w.text
        BY <1>12, <2>1 DEF Embedded
    <2>11. JobsFit(i, row)'
        BY <2>5, <2>7, <2>8, <2>10 DEF JobsFit, Fits
    <2>12. Worked(i)'
        BY <2>5, <2>6, <2>8 DEF Worked
    <2>. QED
        BY <1>15, <2>9, <2>11, <2>12
<1>. QED
    BY <1>16, <1>17

\* A request on an item that another request or a job is on disturbs both.
LEMMA BeginKeepsGround ==
    ASSUME TypeInv, NEW s \in Sessions, NEW i \in Items, On(s, i)', Begin(s),
           Orderly(i) => Grounded(i)
    PROVE  Orderly(i)' => Grounded(i)'
PROOF
<1>1. PICK k \in Items \cup Cvs, t \in Texts \cup {NoText} : \E op \in Asks(k) :
        /\ t = NoText => ~WithText(op) \/ (op = "update" /\ k \in Facts)
        /\ work' = [work EXCEPT ![s] = [op |-> op, item |-> k, text |-> t]]
        /\ Goto(s, IF op \in {"create", "upload"} THEN "write" ELSE "read")
        /\ tangled' = IF Busy(k) /\ k \in Items THEN tangled \cup {k} ELSE tangled
        /\ clean' = [o \in Sessions |-> IF o = s THEN ~Busy(k) ELSE clean[o] /\ ~On(o, k)]
    BY DEF Begin
<1>2. PICK op \in Asks(k) :
        /\ t = NoText => ~WithText(op) \/ (op = "update" /\ k \in Facts)
        /\ work' = [work EXCEPT ![s] = [op |-> op, item |-> k, text |-> t]]
        /\ Goto(s, IF op \in {"create", "upload"} THEN "write" ELSE "read")
    BY <1>1
<1>3. /\ pc[s] = "idle" /\ VariablesTyped /\ OthersSame(s)
      /\ UNCHANGED <<tableVars, vectors, queue, audit, read, faults, reviewed, orphans, lost>>
    BY BeginTypes DEF Begin, TypeInv
<1>4. op \in Operations /\ op \notin Jobs /\ (op \in CvOperations => k \in Cvs)
    BY <1>2, RequestWork DEF Operations, FactOperations, SectionOperations, CvOperations, Jobs
<1>5. /\ work'[s] = [op |-> op, item |-> k, text |-> t]
      /\ pc'[s] = IF op \in {"create", "upload"} THEN "write" ELSE "read"
    BY <1>2, <1>3 DEF Goto, VariablesTyped
<1>6. k = i /\ Op(s)' = op /\ Asking(s, i)' /\ ~Embedding(s, i)'
    BY <1>4, <1>5 DEF On, Subject, Op, Asking, Embedding
<1>7. work[s] = NoWork /\ ~Asking(s, i) /\ ~Embedding(s, i)
    BY <1>3 DEF TypeInv, Placed, Asking, Embedding, On
<1>8. ASSUME NEW o \in Sessions, o # s
      PROVE  /\ Asking(o, i)' <=> Asking(o, i)
             /\ Embedding(o, i)' <=> Embedding(o, i)
             /\ On(o, i)' <=> On(o, i)
             /\ clean'[o] = (clean[o] /\ ~On(o, i))
    BY <1>1, <1>3, <1>6, <1>8, SessionViews DEF OthersSame
<1>9. CASE Busy(i)
    <2>1. i \in tangled' /\ ~clean'[s]
        BY <1>1, <1>6, <1>9
    <2>2. \A o \in Sessions : ~(Asking(o, i)' /\ clean'[o])
        BY <1>8, <2>1 DEF Asking
    <2>. QED
        BY <2>1, <2>2 DEF Orderly
<1>10. CASE ~Busy(i)
    <2>1. tangled' = tangled /\ clean'[s]
        BY <1>1, <1>6, <1>10
    <2>2. (\A o \in Sessions : ~On(o, i)) /\ \A j : ~Waiting(j, i)
        BY <1>10 DEF Busy, Waiting
    <2>3. \A o \in Sessions : ~Asking(o, i) /\ ~Embedding(o, i)
        BY <2>2 DEF Asking, Embedding
    <2>4. \A o \in Sessions : ~Embedding(o, i)' /\ (Asking(o, i)' => o = s)
        BY <1>6, <1>8, <2>3
    <2>5. \A j : ~Waiting(j, i)'
        BY <1>3, <2>2 DEF Waiting
    <2>6. ~Worked(i)' /\ OneJob(i)' /\ \A r : JobsFit(i, r)'
        BY <2>4, <2>5 DEF Worked, OneJob, JobsFit
    <2>7. i \notin tangled => Settled(i, db[Item(i)], db[Pointer(i)]) /\ Approvals(i)
        BY <2>2, <2>3 DEF Orderly, Grounded, Undisturbed, Worked
    <2>8. db' = db /\ draft' = draft
        BY <1>3 DEF tableVars
    <2>9. Settled(i, db[Item(i)], db[Pointer(i)])' <=> Settled(i, db[Item(i)], db[Pointer(i)])
        BY <1>3, <2>8 DEF Settled, VectorIs
    <2>10. Approvals(i)'
        BY <1>3, <2>1, <2>7, <2>8 DEF Approvals
    <2>11. Undisturbed(i)'
        BY <1>6 DEF Undisturbed
    <2>12. pc'[s] \in {"read", "write"} /\ (pc'[s] # "read" => op = "create")
        BY <1>4, <1>5, <1>6, PipelineAssumption DEF CvOperations
    <2>13. PICK row : row = Seen(s, Item(i))'
        OBVIOUS
    <2>14. JobsFit(i, row)'
        BY <2>6
    <2>15. op = "create" => op # "approve"
        OBVIOUS
    <2>16. Alone(s, i)'
        BY <1>6, <2>1, <2>4, <2>6, <2>7, <2>9, <2>12, <2>13, <2>14, <2>15 DEF Alone
    <2>. QED
        BY <2>4, <2>6, <2>10, <2>11, <2>16 DEF Grounded
<1>. QED
    BY <1>9, <1>10

\* Who fails on an item in a way that leaves traces puts it, and whoever else is on it, in
\* disorder.
LEMMA TangleEndsOrder ==
    ASSUME TypeInv, NEW s \in Sessions, NEW i \in Items, Leave(s), OthersSame(s), Tangle({i})
    PROVE  ~Orderly(i)'
PROOF
<1>1. i \in tangled' /\ work'[s] = NoWork
    BY LeaveMoves DEF Tangle, TypeInv
<1>2. ASSUME NEW o \in Sessions PROVE ~(Asking(o, i)' /\ clean'[o])
    <2>1. CASE o = s
        BY <1>1, <2>1 DEF Asking, On
    <2>2. CASE o # s
        <3>1. On(o, i)' <=> On(o, i)
            BY <2>2, SessionViews DEF OthersSame
        <3>2. clean'[o] => ~On(o, i)
            BY DEF Tangle
        <3>. QED
            BY <3>1, <3>2 DEF Asking
    <2>. QED
        BY <2>1, <2>2
<1>. QED
    BY <1>1, <1>2 DEF Orderly

LEMMA AbortKeepsGround ==
    ASSUME TypeInv, NEW s \in Sessions, NEW i \in Items, On(s, i), Abort(s),
           Orderly(i) => Grounded(i)
    PROVE  Orderly(i)' => Grounded(i)'
PROOF
<1>1. Asking(s, i) /\ Fail(s) /\ Subject(s) = i /\ OthersSame(s) /\ Leave(s)
    BY AbortTypes DEF Abort, Asking, On, Fail
<1>2. CASE pc[s] \in {"enqueue", "unembed", "unpoint", "commit"}
    <2>1. Tangle({i})
        BY <1>1, <1>2 DEF Abort
    <2>. QED
        BY <1>1, <2>1, TangleEndsOrder
<1>3. CASE pc[s] \notin {"enqueue", "unembed", "unpoint", "commit"}
    <2>1. Op(s) \in FactOperations \cup SectionOperations /\ Op(s) \in OpsAt(pc[s])
          /\ pc[s] \in Steps /\ pc[s] # "idle"
        BY <1>1, RequestRow DEF TypeInv, VariablesTyped
    <2>2. Op(s) \notin {"embed", "parse"}
        BY <2>1 DEF FactOperations, SectionOperations
    <2>3. pc[s] \in {"read", "write"}
        BY <1>3, <2>1, <2>2 DEF OpsAt, Steps
    <2>4. Over(s)
        BY <1>3 DEF Abort
    <2>. QED
        BY <1>1, <2>3, <2>4, FailKeepsGround
<1>. QED
    BY <1>2, <1>3

\* A request that commits ends what it was about: the item is as its row says, or its job is
\* on the way.
LEMMA RequestCommits ==
    ASSUME TypeInv, NEW s \in Sessions, NEW i \in Items, Asking(s, i), Commit(s),
           Orderly(i) => Grounded(i)
    PROVE  Orderly(i)' => Grounded(i)'
PROOF
<1>1. /\ pc[s] = "commit" /\ VariablesTyped /\ RowsTyped /\ CommitRows(s) /\ Leave(s)
      /\ clean' = [clean EXCEPT ![s] = FALSE]
      /\ UNCHANGED <<vectors, queue, audit, faults, reviewed, orphans, lost>>
    BY DEF Commit, TypeInv
<1>2. /\ Subject(s) = i /\ Op(s) \in FactOperations \cup SectionOperations
      /\ Item(i) \in Rows /\ Pointer(i) \in Rows /\ Item(i) # Pointer(i) /\ Home(s) = Item(i)
      /\ work[s] # NoWork /\ Placed(s)
    BY RequestRow DEF TypeInv
<1>3. tangled' = IF clean[s] /\ Op(s) # "generate" THEN tangled \ {i} ELSE tangled
    <2>1. Op(s) \notin Jobs \cup {"upload", "retry"}
        BY <1>2 DEF Jobs, FactOperations, SectionOperations
    <2>. QED
        BY <1>2, <2>1 DEF Commit
<1>4. /\ \A q \in Rows : db'[q] = Seen(s, q)
      /\ work'[s] = NoWork /\ OthersSame(s)
    BY <1>1, RowsCommitted, LeaveMoves, CommitTypes
<1>5. ASSUME NEW o \in Sessions, o # s
      PROVE  /\ Asking(o, i)' <=> Asking(o, i)
             /\ Embedding(o, i)' <=> Embedding(o, i)
             /\ clean'[o] = clean[o] /\ work'[o] = work[o]
    BY <1>1, <1>4, <1>5, SessionViews DEF OthersSame, VariablesTyped
<1>6. ~Asking(s, i)' /\ ~Embedding(s, i)' /\ ~Embedding(s, i)
    BY <1>4 DEF Asking, Embedding, On
<1>. SUFFICES ASSUME Orderly(i)' PROVE Grounded(i)'
    OBVIOUS
<1>7. Orderly(i)
    <2>1. CASE i \notin tangled'
        BY <1>3, <2>1 DEF Orderly
    <2>2. CASE \E o \in Sessions : Asking(o, i)' /\ clean'[o]
        BY <1>5, <1>6, <2>2 DEF Orderly
    <2>. QED
        BY <2>1, <2>2 DEF Orderly
<1>8. OneJob(i) /\ Alone(s, i) /\ \A o \in Sessions : Embedding(o, i) => Advanced(o, i)
    BY <1>7 DEF Grounded
<1>9. \A o \in Sessions : ~Asking(o, i)'
    BY <1>5, <1>6, <1>8 DEF Alone
<1>10. i \notin tangled'
    BY <1>9 DEF Orderly
<1>11. PICK row : row = Seen(s, Item(i))
    OBVIOUS
<1>12. PICK pointer : pointer = Seen(s, Pointer(i))
    OBVIOUS
<1>13. db'[Item(i)] = row /\ db'[Pointer(i)] = pointer
    BY <1>2, <1>4, <1>11, <1>12
<1>14. Op(s) \notin {"delete", "edit"} => pointer = db[Pointer(i)]
    BY <1>2, <1>12 DEF Placed, Seen
<1>15. Made(s, i) /\ JobsFit(i, row)
    BY <1>1, <1>8, <1>11 DEF Alone
<1>16. Worked(i) \/ Settled(i, row, pointer)
    <2>1. CASE Op(s) # "generate"
        BY <1>1, <1>8, <1>11, <1>12, <2>1 DEF Alone
    <2>2. CASE Op(s) = "generate"
        <3>1. i \notin tangled
            BY <1>3, <1>10, <2>2
        <3>2. read[s] = db[Item(i)] /\ Settled(i, db[Item(i)], db[Pointer(i)])
            BY <1>1, <1>8, <2>2, <3>1 DEF Alone
        <3>3. read[s] = Absent
            BY <1>1, <1>2, <2>2 DEF Placed
        <3>4. VectorIs(i, Absent) /\ pointer = Absent
            BY <1>14, <2>2, <3>2, <3>3 DEF Settled, Embedded
        <3>5. Embedded(row) = Absent
            BY <1>11, <1>15, <2>2 DEF Made
        <3>. QED
            BY <3>4, <3>5 DEF Settled
    <2>. QED
        BY <2>1, <2>2
<1>17. Settled(i, row, pointer)' <=> Settled(i, row, pointer)
    BY <1>1 DEF Settled, VectorIs
<1>18. \A j : Waiting(j, i)' <=> Waiting(j, i)
    BY <1>1 DEF Waiting
<1>19. Worked(i) => Worked(i)'
    BY <1>5, <1>6, <1>18 DEF Worked, Waiting
<1>20. JobsFit(i, row)'
    BY <1>1, <1>5, <1>6, <1>15 DEF JobsFit, Waiting
<1>21. Undisturbed(i)'
    BY <1>13, <1>16, <1>17, <1>19, <1>20 DEF Undisturbed
<1>22. OneJob(i)'
    BY <1>1, <1>5, <1>6, <1>8 DEF OneJob, Waiting
<1>23. Approvals(i)'
    BY <1>1, <1>11, <1>13, <1>15 DEF Approvals, Made
<1>24. ASSUME NEW o \in Sessions, Embedding(o, i)' PROVE Advanced(o, i)'
    <2>1. o # s /\ Embedding(o, i)
        BY <1>5, <1>6, <1>24
    <2>2. Worked(i)
        BY <2>1 DEF Worked
    <2>3. Op(s) \in {"create", "update", "approve"}
        BY <1>8, <2>2 DEF Alone
    <2>4. db'[Pointer(i)] = db[Pointer(i)]
        BY <1>13, <1>14, <2>3
    <2>5. pc'[o] = pc[o] /\ work'[o] = work[o] /\ read'[o] = read[o] /\ draft'[o] = draft[o]
        BY <1>4, <2>1 DEF OthersSame
    <2>. QED
        BY <1>1, <1>8, <2>1, <2>4, <2>5 DEF Advanced, VectorIs, Seen
<1>. QED
    BY <1>9, <1>21, <1>22, <1>23, <1>24 DEF Grounded

-----------------------------------------------------------------------------
(* What a job does to its item *)

LEMMA WorkerJob ==
    ASSUME TypeInv, NEW s \in Sessions, NEW i \in Items, Embedding(s, i)
    PROVE  /\ pc[s] # "idle" /\ work[s] # NoWork /\ WorkOK(work[s]) /\ Subject(s) = i
           /\ Op(s) = "embed" /\ Op(s) \in OpsAt(pc[s]) /\ work[s].text \in Texts
           /\ Home(s) = Pointer(i) /\ Item(i) \in Rows /\ Pointer(i) \in Rows
           /\ Item(i) # Pointer(i)
PROOF
<1>1. work[s] # NoWork /\ Subject(s) = i /\ Op(s) \in Jobs
    BY DEF Embedding, On
<1>2. WorkOK(work[s]) /\ pc[s] # "idle" /\ Op(s) \in OpsAt(pc[s])
    BY <1>1 DEF TypeInv, Placed
<1>3. Op(s) = "embed"
    BY <1>1, <1>2, PipelineAssumption, HomeRow DEF Jobs
<1>4. work[s].text \in Texts
    BY <1>2, <1>3 DEF WorkOK, Op
<1>. QED
    BY <1>1, <1>2, <1>3, <1>4, HomeRow, RowNames

\* While a job of the item is at work, its request, if it is not over, only has to commit.
LEMMA WorkerMoves ==
    ASSUME TypeInv, NEW s \in Sessions, NEW i \in Items, Embedding(s, i),
           work' = work, OthersSame(s), Untangled, UNCHANGED <<db, queue, reviewed>>,
           Orderly(i) => Grounded(i)
    PROVE  Orderly(i)' => Advanced(s, i) /\ (Advanced(s, i)' => Grounded(i)')
PROOF
<1>1. \A o \in Sessions : /\ Asking(o, i)' <=> Asking(o, i)
                          /\ Embedding(o, i)' <=> Embedding(o, i)
    BY SessionViews
<1>. SUFFICES ASSUME Orderly(i)' PROVE Advanced(s, i) /\ (Advanced(s, i)' => Grounded(i)')
    OBVIOUS
<1>2. Orderly(i) /\ clean' = clean /\ tangled' = tangled
    BY OrderlyKept DEF Untangled
<1>3. OneJob(i) /\ Undisturbed(i) /\ Approvals(i) /\ Advanced(s, i)
    BY <1>2 DEF Grounded
<1>. SUFFICES ASSUME Advanced(s, i)' PROVE Grounded(i)'
    BY <1>3
<1>4. Worked(i) /\ Worked(i)'
    BY <1>1 DEF Worked
<1>5. OneJob(i)'
    BY <1>1, <1>3 DEF OneJob, Waiting
<1>6. \A row : JobsFit(i, row) => JobsFit(i, row)'
    BY <1>1 DEF JobsFit, Waiting
<1>7. Undisturbed(i)'
    <2>1. PICK row : row = db[Item(i)]
        OBVIOUS
    <2>2. db'[Item(i)] = row /\ (JobsFit(i, row) => JobsFit(i, row)')
        BY <1>6, <2>1
    <2>. QED
        BY <1>1, <1>3, <1>4, <2>1, <2>2 DEF Undisturbed
<1>8. Approvals(i)'
    BY <1>2, <1>3 DEF Approvals
<1>9. ASSUME NEW o \in Sessions, Asking(o, i)' PROVE Alone(o, i)'
    <2>1. Asking(o, i) /\ Alone(o, i) /\ o # s
        BY <1>1, <1>2, <1>9 DEF Grounded, Asking, Embedding
    <2>2. /\ pc'[o] = pc[o] /\ read'[o] = read[o] /\ draft'[o] = draft[o]
          /\ pc[o] = "commit" /\ Op(o) \in {"create", "update", "approve"}
        BY <1>4, <2>1 DEF OthersSame, Alone
    <2>3. Op(o)' = Op(o) /\ JobOf(o)' = JobOf(o)
        BY <2>2, SessionViews, JobOfKept
    <2>4. PICK row : row = Seen(o, Item(i))
        OBVIOUS
    <2>5. Seen(o, Item(i))' = row
        BY <2>2, <2>4 DEF Seen
    <2>6. JobsFit(i, row)'
        BY <1>6, <2>1, <2>4 DEF Alone
    <2>7. Made(o, i)'
        BY <2>1, <2>2, <2>3, <2>4, <2>5 DEF Alone, Made
    <2>. QED
        BY <1>1, <1>2, <1>4, <2>1, <2>2, <2>3, <2>5, <2>6, <2>7 DEF Alone
<1>10. \A o \in Sessions : Embedding(o, i)' => Advanced(o, i)'
    BY <1>1, <1>3 DEF OneJob
<1>. QED
    BY <1>5, <1>7, <1>8, <1>9, <1>10 DEF Grounded

LEMMA EmbedKeepsGround ==
    ASSUME TypeInv, NEW s \in Sessions, NEW i \in Items, Embedding(s, i), Embed(s),
           Orderly(i) => Grounded(i)
    PROVE  Orderly(i)' => Grounded(i)'
PROOF
<1>1. /\ VariablesTyped /\ Step(s, "find") /\ Untangled
      /\ vectors' = [vectors EXCEPT ![Subject(s)] = work[s].text]
      /\ UNCHANGED <<tableVars, queue, audit, faults, reviewed, orphans>>
    BY DEF Embed, TypeInv
<1>2. pc'[s] = "find" /\ work' = work
    BY <1>1, StepMoves DEF Steps
<1>3. UNCHANGED <<db, queue, reviewed>>
    BY <1>1 DEF tableVars
<1>4. vectors'[i] = work'[s].text
    BY <1>1, <1>2, WorkerJob DEF VariablesTyped
<1>5. Advanced(s, i)'
    BY <1>2, <1>4 DEF Advanced, VectorIs
<1>. QED
    BY <1>1, <1>2, <1>3, <1>5, EmbedTypes, WorkerMoves

LEMMA FindKeepsGround ==
    ASSUME TypeInv, NEW s \in Sessions, NEW i \in Items, Embedding(s, i), Find(s),
           Orderly(i) => Grounded(i)
    PROVE  Orderly(i)' => Grounded(i)'
PROOF
<1>1. /\ VariablesTyped /\ pc[s] = "find" /\ Untangled /\ Goto(s, "point")
      /\ UNCHANGED <<tableVars, vectors, queue, audit, work, begun, faults, reviewed, orphans,
                     lost>>
    BY DEF Find, TypeInv
<1>2. /\ UNCHANGED <<db, queue, reviewed, work, vectors, lost>>
      /\ pc'[s] = "point"
    BY <1>1 DEF tableVars, Goto, VariablesTyped
<1>3. Subject(s) = i /\ draft[s][Pointer(i)] = Unwritten
    BY <1>1, WorkerJob, NothingWritten
<1>4. read'[s] = db'[Pointer(i)]
    BY <1>2, <1>3, FindTypes DEF Seen
<1>5. Advanced(s, i) => Advanced(s, i)'
    BY <1>1, <1>2, <1>4 DEF Advanced, VectorIs
<1>. QED
    BY <1>1, <1>2, <1>5, FindTypes, WorkerMoves

LEMMA PointKeepsGround ==
    ASSUME TypeInv, NEW s \in Sessions, NEW i \in Items, Embedding(s, i), Point(s),
           Orderly(i) => Grounded(i)
    PROVE  Orderly(i)' => Grounded(i)'
PROOF
<1>1. /\ VariablesTyped /\ RowsTyped /\ pc[s] = "point" /\ Step(s, "commit") /\ Untangled
      /\ UNCHANGED <<db, vectors, queue, audit, faults, reviewed, orphans, lost>>
    BY DEF Point, TypeInv
<1>2. pc'[s] = "commit" /\ work' = work
    BY <1>1, StepMoves DEF Steps
<1>3. /\ Home(s) = Pointer(i) /\ Pointer(i) \in Rows /\ work[s].text \in Texts
      /\ draft[s][Pointer(i)] = Unwritten
    BY <1>1, WorkerJob, NothingWritten
<1>4. ASSUME Advanced(s, i) PROVE Advanced(s, i)'
    <2>1. VectorIs(i, work[s].text) /\ read[s] = db[Pointer(i)]
        BY <1>1, <1>4 DEF Advanced
    <2>2. Seen(s, Pointer(i))' = work[s].text
        <3>1. CASE read[s] = work[s].text /\ draft' = draft
            BY <1>1, <1>3, <2>1, <3>1 DEF Seen
        <3>2. CASE Write(s, Pointer(i), work[s].text)
            <4>1. work[s].text \in TableOf(Pointer(i))
                BY <1>3, TableRows
            <4>2. draft'[s][Pointer(i)] = work[s].text
                BY <1>1, <1>3, <3>2, <4>1, RowWritten
            <4>. QED
                BY <1>3, <4>2, Marks DEF Seen
        <3>. QED
            BY <1>3, <3>1, <3>2 DEF Point
    <2>. QED
        BY <1>1, <1>2, <2>1, <2>2 DEF Advanced, VectorIs
<1>. QED
    BY <1>1, <1>2, <1>4, PointTypes, WorkerMoves

\* A job that commits leaves the item as its row says.
LEMMA JobCommits ==
    ASSUME TypeInv, NEW s \in Sessions, NEW i \in Items, Embedding(s, i), Commit(s),
           Orderly(i) => Grounded(i)
    PROVE  Orderly(i)' => Grounded(i)'
PROOF
<1>1. /\ pc[s] = "commit" /\ VariablesTyped /\ RowsTyped /\ CommitRows(s) /\ Leave(s)
      /\ clean' = [clean EXCEPT ![s] = FALSE]
      /\ UNCHANGED <<vectors, queue, audit, faults, reviewed, orphans, lost>>
    BY DEF Commit, TypeInv
<1>2. /\ Subject(s) = i /\ Item(i) \in Rows /\ Pointer(i) \in Rows /\ Item(i) # Pointer(i)
      /\ Home(s) = Pointer(i) /\ Op(s) = "embed" /\ Placed(s)
    BY WorkerJob DEF TypeInv
<1>3. tangled' = tangled
    BY <1>2 DEF Commit, Jobs
<1>4. /\ db'[Item(i)] = db[Item(i)] /\ db'[Pointer(i)] = Seen(s, Pointer(i))
      /\ work'[s] = NoWork /\ OthersSame(s)
    <2>1. draft[s][Item(i)] = Unwritten
        BY <1>2 DEF Placed
    <2>. QED
        BY <1>1, <1>2, <2>1, RowsCommitted, LeaveMoves, CommitTypes DEF Seen
<1>5. ASSUME NEW o \in Sessions, o # s
      PROVE  /\ Asking(o, i)' <=> Asking(o, i)
             /\ Embedding(o, i)' <=> Embedding(o, i)
             /\ clean'[o] = clean[o]
    BY <1>1, <1>4, <1>5, SessionViews DEF OthersSame, VariablesTyped
<1>6. ~Asking(s, i)' /\ ~Embedding(s, i)' /\ ~Asking(s, i)
    BY <1>4 DEF Asking, Embedding, On
<1>. SUFFICES ASSUME Orderly(i)' PROVE Grounded(i)'
    OBVIOUS
<1>7. Orderly(i)
    BY <1>3, <1>5, <1>6 DEF Orderly
<1>8. OneJob(i) /\ Undisturbed(i) /\ Approvals(i) /\ Advanced(s, i)
    BY <1>7 DEF Grounded
<1>9. PICK text : text = work[s].text
    OBVIOUS
<1>10. VectorIs(i, text) /\ db'[Pointer(i)] = text
    BY <1>1, <1>4, <1>8, <1>9 DEF Advanced
<1>11. VectorIs(i, text)'
    BY <1>1, <1>10 DEF VectorIs
<1>12. (\A o \in Sessions : ~Embedding(o, i)') /\ \A j : ~Waiting(j, i)'
    BY <1>1, <1>5, <1>6, <1>8 DEF OneJob, Waiting
<1>13. ~Worked(i)' /\ OneJob(i)' /\ \A row : JobsFit(i, row)'
    BY <1>12 DEF Worked, OneJob, JobsFit
<1>14. \A row : Fits(text, row) => Settled(i, row, text)'
    BY <1>11 DEF Settled, Fits
<1>15. \A row : JobsFit(i, row) => Fits(text, row)
    BY <1>9 DEF JobsFit
<1>16. Undisturbed(i)'
    <2>1. PICK row : row = db[Item(i)]
        OBVIOUS
    <2>2. (\A o \in Sessions : ~Asking(o, i)) => JobsFit(i, row)
        BY <1>8, <2>1 DEF Undisturbed
    <2>3. JobsFit(i, row)' /\ (JobsFit(i, row) => Settled(i, row, text)')
        BY <1>13, <1>14, <1>15
    <2>. QED
        BY <1>4, <1>5, <1>6, <1>10, <2>1, <2>2, <2>3 DEF Undisturbed
<1>17. Approvals(i)'
    BY <1>1, <1>3, <1>4, <1>8 DEF Approvals
<1>18. ASSUME NEW o \in Sessions, Asking(o, i)' PROVE Alone(o, i)'
    <2>1. Asking(o, i) /\ Alone(o, i) /\ o # s
        BY <1>5, <1>6, <1>7, <1>18 DEF Grounded
    <2>2. Worked(i)
        BY DEF Worked
    <2>3. /\ pc'[o] = pc[o] /\ read'[o] = read[o] /\ draft'[o] = draft[o] /\ work'[o] = work[o]
          /\ pc[o] = "commit" /\ Op(o) \in {"create", "update", "approve"}
        BY <1>4, <2>1, <2>2 DEF OthersSame, Alone
    <2>4. Op(o)' = Op(o) /\ JobOf(o)' = JobOf(o)
        BY <2>3, SessionViews, JobOfKept
    <2>5. PICK row : row = Seen(o, Item(i))
        OBVIOUS
    <2>6. Seen(o, Item(i))' = row
        BY <1>4, <2>3, <2>5 DEF Seen
    <2>7. Seen(o, Pointer(i))' = text
        <3>1. Placed(o) /\ Home(o) = Item(i)
            BY <2>1, RequestRow DEF TypeInv
        <3>2. draft[o][Pointer(i)] = Unwritten
            BY <1>2, <2>3, <3>1 DEF Placed
        <3>. QED
            BY <1>10, <2>3, <3>2 DEF Seen
    <2>8. JobsFit(i, row)' /\ Settled(i, row, text)'
        BY <1>13, <1>14, <1>15, <2>1, <2>5 DEF Alone
    <2>9. Made(o, i)'
        BY <1>1, <2>1, <2>3, <2>4, <2>5, <2>6 DEF Alone, Made
    <2>10. \A p \in Sessions : Asking(p, i)' => p = o
        BY <1>5, <1>6, <2>1 DEF Alone
    <2>. QED
        BY <1>1, <1>4, <1>5, <1>13, <2>1, <2>3, <2>4, <2>6, <2>7, <2>8, <2>9, <2>10 DEF Alone
<1>. QED
    BY <1>12, <1>13, <1>16, <1>17, <1>18 DEF Grounded

LEMMA TakeKeepsGround ==
    ASSUME TypeInv, NEW s \in Sessions, NEW i \in Items, On(s, i)', Take(s),
           Orderly(i) => Grounded(i)
    PROVE  Orderly(i)' => Grounded(i)'
PROOF
<1>1. PICK j \in BagToSet(queue) :
        /\ queue' = queue (-) SetToBag({j})
        /\ work' = [work EXCEPT ![s] = j]
        /\ Goto(s, IF j.op = "embed" THEN "embed" ELSE "load")
    BY DEF Take
<1>2. /\ pc[s] = "idle" /\ VariablesTyped /\ OthersSame(s)
      /\ clean' = [clean EXCEPT ![s] = FALSE]
      /\ UNCHANGED <<tableVars, vectors, audit, read, begun, faults, reviewed, orphans, tangled,
                     lost>>
    BY TakeTypes DEF Take, TypeInv
<1>3. work'[s] = j /\ pc'[s] = IF j.op = "embed" THEN "embed" ELSE "load"
    BY <1>1, <1>2 DEF VariablesTyped, Goto
<1>4. j.item = i /\ JobOK(j)
    BY <1>2, <1>3 DEF On, Subject, VariablesTyped
<1>5. Waiting(j, i) /\ pc'[s] = "embed" /\ Embedding(s, i)' /\ ~Asking(s, i)'
    <2>1. j.op \in Jobs /\ j.op # "parse"
        BY <1>4, PipelineAssumption DEF JobOK, WorkOK
    <2>2. Op(s)' = j.op
        BY <1>3 DEF Op
    <2>. QED
        BY <1>3, <1>4, <2>1, <2>2 DEF Waiting, Embedding, Asking, Jobs
<1>6. work[s] = NoWork /\ ~Asking(s, i) /\ ~Embedding(s, i)
    BY <1>2 DEF TypeInv, Placed, Asking, Embedding, On
<1>7. ASSUME NEW o \in Sessions, o # s
      PROVE  /\ Asking(o, i)' <=> Asking(o, i)
             /\ Embedding(o, i)' <=> Embedding(o, i)
             /\ clean'[o] = clean[o]
    BY <1>2, <1>7, SessionViews DEF OthersSame, VariablesTyped
<1>. SUFFICES ASSUME Orderly(i)' PROVE Grounded(i)'
    OBVIOUS
<1>8. Orderly(i)
    BY <1>2, <1>5, <1>6, <1>7 DEF Orderly
<1>9. OneJob(i) /\ Undisturbed(i) /\ Approvals(i)
    BY <1>8 DEF Grounded
<1>10. Worked(i) /\ Worked(i)'
    BY <1>5 DEF Worked
<1>11. \A k : ~Waiting(k, i)'
    <2>1. queue[j] = 1 /\ \A k : Waiting(k, i) => k = j
        BY <1>5, <1>9 DEF OneJob, Waiting
    <2>2. BagToSet(queue') \subseteq BagToSet(queue) /\ j \notin BagToSet(queue')
        BY <1>1, <1>2, <2>1, QueueShrinks
    <2>. QED
        BY <2>1, <2>2 DEF Waiting
<1>12. \A o \in Sessions : Embedding(o, i)' <=> o = s
    BY <1>5, <1>7, <1>9 DEF OneJob
<1>13. OneJob(i)'
    BY <1>11, <1>12 DEF OneJob
<1>14. \A row : JobsFit(i, row) => JobsFit(i, row)'
    BY <1>3, <1>5, <1>11, <1>12 DEF JobsFit, Waiting
<1>15. db' = db /\ draft' = draft
    BY <1>2 DEF tableVars
<1>16. Undisturbed(i)'
    <2>1. PICK row : row = db[Item(i)]
        OBVIOUS
    <2>2. db'[Item(i)] = row /\ (JobsFit(i, row) => JobsFit(i, row)')
        BY <1>14, <1>15, <2>1
    <2>. QED
        BY <1>5, <1>6, <1>7, <1>9, <1>10, <2>1, <2>2 DEF Undisturbed
<1>17. Approvals(i)'
    BY <1>2, <1>9, <1>15 DEF Approvals
<1>18. ASSUME NEW o \in Sessions, Asking(o, i)' PROVE Alone(o, i)'
    <2>1. Asking(o, i) /\ Alone(o, i) /\ o # s
        BY <1>5, <1>7, <1>8, <1>18 DEF Grounded
    <2>2. /\ pc'[o] = pc[o] /\ read'[o] = read[o] /\ work'[o] = work[o]
          /\ pc[o] = "commit" /\ Op(o) \in {"create", "update", "approve"}
        BY <1>2, <1>10, <2>1 DEF OthersSame, Alone
    <2>3. Op(o)' = Op(o) /\ JobOf(o)' = JobOf(o)
        BY <2>2, SessionViews, JobOfKept
    <2>4. PICK row : row = Seen(o, Item(i))
        OBVIOUS
    <2>5. Seen(o, Item(i))' = row
        BY <1>15, <2>4 DEF Seen
    <2>6. JobsFit(i, row)'
        BY <1>14, <2>1, <2>4 DEF Alone
    <2>7. Made(o, i)'
        BY <1>2, <2>1, <2>2, <2>3, <2>4, <2>5 DEF Alone, Made
    <2>8. \A p \in Sessions : Asking(p, i)' => p = o
        BY <1>5, <1>7, <2>1 DEF Alone
    <2>. QED
        BY <1>2, <1>7, <1>10, <1>15, <2>1, <2>2, <2>3, <2>5, <2>6, <2>7, <2>8 DEF Alone
<1>19. Advanced(s, i)'
    BY <1>5 DEF Advanced
<1>. QED
    BY <1>12, <1>13, <1>16, <1>17, <1>18, <1>19 DEF Grounded

\* A job that fails leaves its item to whoever comes next.
LEMMA WorkerFails ==
    ASSUME TypeInv, NEW s \in Sessions, NEW i \in Items, Embedding(s, i),
           PointerMoved(s) \/ JobFails(s)
    PROVE  ~Orderly(i)'
PROOF
<1>1. Leave(s) /\ Tangle({i})
    BY DEF PointerMoved, JobFails, Fail, Embedding, On
<1>2. OthersSame(s)
    BY PointerMovedTypes, JobFailsTypes
<1>. QED
    BY <1>1, <1>2, TangleEndsOrder

-----------------------------------------------------------------------------
(* Every step *)

\* Only a request that begins and a job that is taken come to an item.
LEMMA Comes ==
    ASSUME TypeInv, NEW s \in Sessions, NEW i \in Items, Acts(s), On(s, i)'
    PROVE  On(s, i) \/ Begin(s) \/ Take(s)
PROOF
<1>1. work'[s] # NoWork
    BY DEF On
<1>2. ~Leave(s)
    BY <1>1, LeaveMoves DEF TypeInv
<1>3. \/ Begin(s) \/ Take(s)
      \/ work' = work
    BY <1>2 DEF Acts, Read, WriteRow, Enqueue, Unembed, Unpoint, Commit, Abort, Embed, Find, Point,
       PointerMoved, Load, Mark, Parse, JobFails, Fail, Step
<1>. QED
    BY <1>3, SessionViews

LEMMA ActKeepsGround ==
    ASSUME TypeInv, NEW s \in Sessions, NEW i \in Items, Acts(s), Orderly(i) => Grounded(i)
    PROVE  Orderly(i)' => Grounded(i)'
PROOF
<1>1. CASE ~On(s, i) /\ ~On(s, i)'
    BY <1>1, ActElsewhere, GroundedKept
<1>2. CASE Asking(s, i)
    <2>1. /\ On(s, i) /\ pc[s] # "idle" /\ Op(s) \in FactOperations \cup SectionOperations
          /\ Op(s) \in OpsAt(pc[s]) /\ Op(s) \notin Jobs
        BY <1>2, RequestRow DEF Asking
    <2>2. pc[s] \notin {"embed", "find", "point", "load", "mark", "parse"}
        BY <2>1 DEF OpsAt, Jobs
    <2>3. \/ Read(s) \/ WriteRow(s) \/ Enqueue(s) \/ Unembed(s) \/ Unpoint(s) \/ Commit(s)
          \/ Abort(s)
        BY <2>1, <2>2 DEF Acts, Begin, Take, Embed, Find, Point, PointerMoved, Load, Mark, Parse,
           JobFails
    <2>. QED
        BY <1>2, <2>1, <2>3, ReadKeepsGround, WriteRowKeepsGround, EnqueueKeepsGround,
           UnembedKeepsGround, UnpointKeepsGround, RequestCommits, AbortKeepsGround
<1>3. CASE Embedding(s, i)
    <2>1. pc[s] # "idle" /\ Op(s) = "embed" /\ Op(s) \in OpsAt(pc[s]) /\ Op(s) \in Jobs
        BY <1>3, WorkerJob DEF Embedding
    <2>2. pc[s] \notin {"read", "write", "enqueue", "unembed", "unpoint", "load", "mark", "parse"}
        BY <2>1 DEF OpsAt, Operations, FactOperations, SectionOperations, CvOperations
    <2>3. Commit(s) \/ Embed(s) \/ Find(s) \/ Point(s) \/ PointerMoved(s) \/ JobFails(s)
        BY <2>1, <2>2 DEF Acts, Begin, Take, Read, WriteRow, Enqueue, Unembed, Unpoint, Abort,
           Load, Mark, Parse
    <2>. QED
        BY <1>3, <2>3, JobCommits, EmbedKeepsGround, FindKeepsGround, PointKeepsGround,
           WorkerFails
<1>4. CASE On(s, i)' /\ (Begin(s) \/ Take(s))
    BY <1>4, BeginKeepsGround, TakeKeepsGround
<1>. QED
    BY <1>1, <1>2, <1>3, <1>4, Comes DEF Asking, Embedding

LEMMA LoseVectorKeepsGround ==
    ASSUME TypeInv, NEW k \in Items, LoseVector(k), NEW i \in Items, Orderly(i) => Grounded(i)
    PROVE  Orderly(i)' => Grounded(i)'
PROOF
<1>1. /\ vectors' = [vectors EXCEPT ![k] = Absent] /\ lost' = lost \cup {k} /\ VariablesTyped
      /\ UNCHANGED <<tableVars, queue, audit, workVars, reviewed, orphans, clean, tangled>>
    BY DEF LoseVector, TypeInv
<1>2. /\ db' = db /\ draft' = draft /\ queue' = queue /\ pc' = pc /\ work' = work
      /\ read' = read /\ reviewed' = reviewed /\ clean' = clean /\ tangled' = tangled
    BY <1>1 DEF tableVars, workVars
<1>3. \A text : VectorIs(i, text) => VectorIs(i, text)'
    BY <1>1 DEF VectorIs, VariablesTyped
<1>4. \A row, pointer : Settled(i, row, pointer) => Settled(i, row, pointer)'
    BY <1>3 DEF Settled
<1>5. ASSUME NEW o \in Sessions
      PROVE  /\ Asking(o, i)' <=> Asking(o, i)
             /\ Embedding(o, i)' <=> Embedding(o, i)
             /\ Op(o)' = Op(o) /\ JobOf(o)' = JobOf(o)
             /\ Seen(o, Item(i))' = Seen(o, Item(i))
             /\ Seen(o, Pointer(i))' = Seen(o, Pointer(i))
    BY <1>2, SessionViews, JobOfKept DEF Seen
<1>6. Orderly(i)' <=> Orderly(i)
    BY <1>2, <1>5 DEF Orderly
<1>. SUFFICES ASSUME Grounded(i) PROVE Grounded(i)'
    BY <1>6
<1>7. (\A j : Waiting(j, i)' <=> Waiting(j, i)) /\ (Worked(i)' <=> Worked(i))
    BY <1>2, <1>5 DEF Waiting, Worked
<1>8. OneJob(i)'
    BY <1>2, <1>5 DEF Grounded, OneJob, Waiting
<1>9. \A row : JobsFit(i, row) => JobsFit(i, row)'
    BY <1>2, <1>5 DEF JobsFit, Waiting
<1>10. Undisturbed(i)'
    <2>1. PICK row : row = db[Item(i)]
        OBVIOUS
    <2>2. PICK pointer : pointer = db[Pointer(i)]
        OBVIOUS
    <2>3. /\ JobsFit(i, row) => JobsFit(i, row)'
          /\ Settled(i, row, pointer) => Settled(i, row, pointer)'
        BY <1>4, <1>9
    <2>4. db'[Item(i)] = row /\ db'[Pointer(i)] = pointer
        BY <1>2, <2>1, <2>2
    <2>. QED
        BY <1>5, <1>7, <2>1, <2>2, <2>3, <2>4 DEF Grounded, Undisturbed
<1>11. Approvals(i)'
    BY <1>2 DEF Grounded, Approvals
<1>12. ASSUME NEW o \in Sessions, Asking(o, i)' PROVE Alone(o, i)'
    <2>1. Asking(o, i) /\ Alone(o, i)
        BY <1>5, <1>12 DEF Grounded
    <2>2. PICK row : row = Seen(o, Item(i))
        OBVIOUS
    <2>3. PICK pointer : pointer = Seen(o, Pointer(i))
        OBVIOUS
    <2>4. PICK old : old = db[Item(i)]
        OBVIOUS
    <2>5. PICK was : was = db[Pointer(i)]
        OBVIOUS
    <2>6. /\ Seen(o, Item(i))' = row /\ Seen(o, Pointer(i))' = pointer
          /\ db'[Item(i)] = old /\ db'[Pointer(i)] = was
        BY <1>2, <1>5, <2>2, <2>3, <2>4, <2>5
    <2>7. /\ JobsFit(i, row) => JobsFit(i, row)'
          /\ Settled(i, row, pointer) => Settled(i, row, pointer)'
          /\ Settled(i, old, was) => Settled(i, old, was)'
          /\ VectorIs(i, Absent) => VectorIs(i, Absent)'
        BY <1>3, <1>4, <1>9
    <2>8. Made(o, i) => Made(o, i)'
        BY <1>2, <1>5, <2>2, <2>6 DEF Made
    <2>9. Op(o)' = Op(o) /\ \A p \in Sessions : Asking(p, i)' <=> Asking(p, i)
        BY <1>5
    <2>. QED
        BY <1>2, <1>7, <2>1, <2>2, <2>3, <2>4, <2>5, <2>6, <2>7, <2>8, <2>9 DEF Alone
<1>13. ASSUME NEW o \in Sessions, Embedding(o, i)' PROVE Advanced(o, i)'
    <2>1. Advanced(o, i)
        BY <1>5, <1>13 DEF Grounded
    <2>2. PICK text : text = work[o].text
        OBVIOUS
    <2>3. VectorIs(i, text) => VectorIs(i, text)'
        BY <1>3
    <2>. QED
        BY <1>2, <1>5, <2>1, <2>2, <2>3 DEF Advanced
<1>. QED
    BY <1>8, <1>10, <1>11, <1>12, <1>13 DEF Grounded

\* What the worker was doing of an item is waiting again after a restart, once.
LEMMA RestartKeepsGround ==
    ASSUME TypeInv, Restart, NEW i \in Items, Orderly(i) => Grounded(i)
    PROVE  Orderly(i)' => Grounded(i)'
PROOF
<1>1. /\ queue' = queue (+) Unfinished
      /\ draft' = [s \in Sessions |-> IF s \in Running THEN Blank ELSE draft[s]]
      /\ pc' = [s \in Sessions |-> IF s \in Running THEN "idle" ELSE pc[s]]
      /\ work' = [s \in Sessions |-> IF s \in Running THEN NoWork ELSE work[s]]
      /\ read' = [s \in Sessions |-> IF s \in Running THEN Absent ELSE read[s]]
      /\ UNCHANGED <<db, vectors, begun, historyVars>>
    BY DEF Restart
<1>2. /\ db' = db /\ vectors' = vectors
      /\ reviewed' = reviewed /\ clean' = clean /\ tangled' = tangled /\ lost' = lost
    BY <1>1 DEF historyVars
<1>3. ASSUME NEW o \in Sessions, o \in Running
      PROVE  ~Asking(o, i)' /\ ~Embedding(o, i)' /\ ~Asking(o, i)
    BY <1>1, <1>3 DEF Asking, Embedding, On, Running, Op
<1>4. ASSUME NEW o \in Sessions, o \notin Running
      PROVE  /\ pc'[o] = pc[o] /\ work'[o] = work[o] /\ read'[o] = read[o]
             /\ draft'[o] = draft[o]
             /\ Asking(o, i)' <=> Asking(o, i)
             /\ ~Embedding(o, i) /\ ~Embedding(o, i)'
             /\ Op(o)' = Op(o) /\ JobOf(o)' = JobOf(o)
             /\ Seen(o, Item(i))' = Seen(o, Item(i))
             /\ Seen(o, Pointer(i))' = Seen(o, Pointer(i))
    <2>1. pc'[o] = pc[o] /\ work'[o] = work[o] /\ read'[o] = read[o] /\ draft'[o] = draft[o]
        BY <1>1, <1>4
    <2>2. ~Embedding(o, i)
        BY <1>4 DEF Embedding, On, Op, Running
    <2>. QED
        BY <1>2, <2>1, <2>2, SessionViews, JobOfKept DEF Seen
<1>5. Orderly(i)' => Orderly(i)
    BY <1>2, <1>3, <1>4 DEF Orderly
<1>. SUFFICES ASSUME Grounded(i) PROVE Grounded(i)'
    BY <1>5
<1>6. OneJob(i) /\ Undisturbed(i) /\ Approvals(i)
    BY DEF Grounded
<1>7. /\ BagToSet(queue') = BagToSet(queue) \cup {work[s] : s \in Running}
      /\ \A j \in BagToSet(queue) : j \notin {work[s] : s \in Running} => queue'[j] = queue[j]
      /\ \A s \in Running : work[s] \notin BagToSet(queue) =>
            queue'[work[s]] = Cardinality({o \in Running : work[o] = work[s]})
    BY <1>1, QueueRefilled
<1>8. \A s \in Sessions : Embedding(s, i) <=> s \in Running /\ work[s].item = i
    BY DEF Embedding, On, Op, Subject, Running
<1>9. \A j : Waiting(j, i)' <=> Waiting(j, i) \/ \E s \in Sessions : Embedding(s, i) /\ work[s] = j
    BY <1>7, <1>8 DEF Waiting, Running
<1>10. \A o \in Sessions : ~Embedding(o, i)'
    BY <1>3, <1>4
<1>11. Worked(i)' <=> Worked(i)
    <2>1. Worked(i)' <=> \E j : Waiting(j, i)'
        BY <1>10 DEF Worked, Waiting
    <2>2. Worked(i) <=> (\E j : Waiting(j, i)) \/ \E s \in Sessions : Embedding(s, i)
        BY DEF Worked, Waiting
    <2>. QED
        BY <1>9, <2>1, <2>2
<1>12. \A j, k : Waiting(j, i)' /\ Waiting(k, i)' => j = k /\ queue'[j] = 1
    <2>1. CASE \E s \in Sessions : Embedding(s, i)
        <3>1. PICK s \in Sessions : Embedding(s, i)
            BY <2>1
        <3>2. \A j : Waiting(j, i)' <=> j = work[s]
            BY <1>6, <1>9, <3>1 DEF OneJob, Waiting
        <3>3. work[s] \notin BagToSet(queue)
            BY <1>6, <1>8, <3>1 DEF OneJob, Waiting
        <3>4. {o \in Running : work[o] = work[s]} = {s}
            BY <1>6, <1>8, <3>1 DEF OneJob, Running
        <3>5. queue'[work[s]] = 1
            <4>1. queue'[work[s]] = Cardinality({o \in Running : work[o] = work[s]})
                BY <1>7, <1>8, <3>1, <3>3
            <4>2. Cardinality({s}) = 1
                BY FS_Singleton
            <4>. QED
                BY <3>4, <4>1, <4>2
        <3>. QED
            BY <3>2, <3>5
    <2>2. CASE \A s \in Sessions : ~Embedding(s, i)
        <3>1. \A j : Waiting(j, i)' <=> Waiting(j, i)
            BY <1>9, <2>2
        <3>2. \A j : Waiting(j, i) => j \notin {work[s] : s \in Running}
            BY <1>8, <2>2 DEF Waiting, Running
        <3>. QED
            BY <1>6, <1>7, <3>1, <3>2 DEF OneJob, Waiting
    <2>. QED
        BY <2>1, <2>2
<1>13. OneJob(i)'
    BY <1>10, <1>12 DEF OneJob
<1>14. \A row : JobsFit(i, row) => JobsFit(i, row)'
    BY <1>9, <1>10 DEF JobsFit, Waiting
<1>15. \A row, pointer : Settled(i, row, pointer)' <=> Settled(i, row, pointer)
    BY <1>2 DEF Settled, VectorIs
<1>16. Undisturbed(i)'
    <2>1. PICK row : row = db[Item(i)]
        OBVIOUS
    <2>2. PICK pointer : pointer = db[Pointer(i)]
        OBVIOUS
    <2>3. /\ JobsFit(i, row) => JobsFit(i, row)'
          /\ Settled(i, row, pointer)' <=> Settled(i, row, pointer)
          /\ db'[Item(i)] = row /\ db'[Pointer(i)] = pointer
        BY <1>2, <1>14, <1>15, <2>1, <2>2
    <2>. QED
        BY <1>3, <1>4, <1>6, <1>11, <2>1, <2>2, <2>3 DEF Undisturbed
<1>17. Approvals(i)'
    BY <1>2, <1>6 DEF Approvals
<1>18. ASSUME NEW o \in Sessions, Asking(o, i)' PROVE Alone(o, i)'
    <2>1. o \notin Running /\ Alone(o, i)
        BY <1>3, <1>4, <1>18 DEF Grounded
    <2>2. PICK row : row = Seen(o, Item(i))
        OBVIOUS
    <2>3. PICK pointer : pointer = Seen(o, Pointer(i))
        OBVIOUS
    <2>4. PICK old : old = db[Item(i)]
        OBVIOUS
    <2>5. PICK was : was = db[Pointer(i)]
        OBVIOUS
    <2>6. /\ Seen(o, Item(i))' = row /\ Seen(o, Pointer(i))' = pointer
          /\ db'[Item(i)] = old /\ db'[Pointer(i)] = was
        BY <1>2, <1>4, <2>1, <2>2, <2>3, <2>4, <2>5
    <2>7. /\ JobsFit(i, row) => JobsFit(i, row)'
          /\ Settled(i, row, pointer)' <=> Settled(i, row, pointer)
          /\ Settled(i, old, was)' <=> Settled(i, old, was)
          /\ VectorIs(i, Absent)' <=> VectorIs(i, Absent)
        BY <1>2, <1>14, <1>15 DEF VectorIs
    <2>8. /\ pc'[o] = pc[o] /\ read'[o] = read[o] /\ Op(o)' = Op(o) /\ JobOf(o)' = JobOf(o)
        BY <1>4, <2>1
    <2>9. Made(o, i) => Made(o, i)'
        BY <1>2, <2>2, <2>6, <2>8 DEF Made
    <2>10. \A p \in Sessions : Asking(p, i)' => Asking(p, i)
        BY <1>3, <1>4
    <2>. QED
        BY <1>2, <1>11, <2>1, <2>2, <2>3, <2>4, <2>5, <2>6, <2>7, <2>8, <2>9, <2>10 DEF Alone
<1>. QED
    BY <1>10, <1>13, <1>16, <1>17, <1>18 DEF Grounded

\* The reconciliation repairs an item that is at rest with its pointer's text, and disturbs
\* the others it repairs.
LEMMA ReconcileKeepsGround ==
    ASSUME TypeInv, Reconcile, NEW i \in Items, Orderly(i) => Grounded(i)
    PROVE  Orderly(i)' => Grounded(i)'
PROOF
<1>1. PICK S : /\ S = {k \in Missing : Busy(k) \/ audit[k] # db[Pointer(k)]}
               /\ Tangle(S)
    BY DEF Reconcile
<1>2. /\ tangled' = tangled \cup (S \cap Items)
      /\ clean' = [s \in Sessions |-> clean[s] /\ ~\E k \in S : On(s, k)]
    BY <1>1 DEF Tangle
<1>3. /\ audit # NoAudit /\ queue' = queue (+) SetToBag(Repairs) /\ VariablesTyped
      /\ UNCHANGED <<tableVars, vectors, workVars, faults, reviewed, orphans, lost>>
    BY DEF Reconcile, Repairs, TypeInv
<1>4. /\ db' = db /\ draft' = draft /\ pc' = pc /\ work' = work /\ read' = read
    BY <1>3 DEF tableVars, workVars
<1>5. ASSUME NEW o \in Sessions
      PROVE  /\ On(o, i)' <=> On(o, i)
             /\ Asking(o, i)' <=> Asking(o, i)
             /\ Embedding(o, i)' <=> Embedding(o, i)
    BY <1>4, SessionViews
<1>6. /\ BagToSet(queue') = BagToSet(queue) \cup Repairs
      /\ \A j \in BagToSet(queue) \ Repairs : queue'[j] = queue[j]
      /\ \A j \in Repairs \ BagToSet(queue) : queue'[j] = 1
    BY <1>3, RepairsTyped, QueueGrows
<1>7. CASE i \in S
    <2>1. i \in tangled' /\ \A o \in Sessions : On(o, i) => ~clean'[o]
        BY <1>2, <1>7
    <2>. QED
        BY <1>5, <2>1 DEF Orderly, Asking
<1>8. CASE i \notin Missing
    <2>1. StoreSame(i)
        BY <1>1, <1>2, <1>3, <1>4, <1>8 DEF StoreSame
    <2>2. \A j \in Repairs : j.item # i
        BY <1>8 DEF Repairs
    <2>3. QueueSame(i)
        BY <1>6, <2>2 DEF QueueSame
    <2>4. ASSUME NEW o \in Sessions, On(o, i) PROVE clean'[o] = clean[o]
        <3>1. ~\E k \in S : On(o, k)
            BY <1>1, <1>8, <2>4 DEF On
        <3>2. clean'[o] = (clean[o] /\ ~\E k \in S : On(o, k)) /\ clean[o] \in BOOLEAN
            BY <1>2, <1>3 DEF VariablesTyped
        <3>. QED
            BY <3>1, <3>2
    <2>5. SessionsSame(i)
        BY <1>4, <1>5, <2>4 DEF SessionsSame
    <2>. QED
        BY <2>1, <2>3, <2>5, GroundedKept
<1>9. CASE i \in Missing /\ i \notin S
    <2>1. ~Busy(i) /\ audit[i] = db[Pointer(i)] /\ (i \in tangled' <=> i \in tangled)
        BY <1>1, <1>2, <1>9
    <2>2. /\ \A o \in Sessions : ~Asking(o, i) /\ ~Embedding(o, i)
          /\ \A j : ~Waiting(j, i)
        BY <2>1 DEF Busy, Asking, Embedding, Waiting
    <2>3. \A o \in Sessions : ~Asking(o, i)' /\ ~Embedding(o, i)'
        BY <1>5, <2>2
    <2>. SUFFICES ASSUME Orderly(i)' PROVE Grounded(i)'
        OBVIOUS
    <2>4. Orderly(i) /\ Grounded(i)
        BY <2>1, <2>3 DEF Orderly
    <2>5. PICK row : row = db[Item(i)]
        OBVIOUS
    <2>6. Settled(i, row, audit[i])
        BY <2>1, <2>2, <2>4, <2>5 DEF Grounded, Undisturbed, Worked
    <2>7. PICK job : job = [op |-> "embed", item |-> i, text |-> audit[i]]
        OBVIOUS
    <2>8. job \in Repairs /\ \A j \in Repairs : j.item = i => j = job
        BY <1>9, <2>7 DEF Repairs
    <2>9. \A j : Waiting(j, i)' <=> j = job
        BY <1>6, <2>2, <2>7, <2>8 DEF Waiting
    <2>10. queue'[job] = 1
        <3>1. job \notin BagToSet(queue)
            BY <2>2, <2>7 DEF Waiting
        <3>. QED
            BY <1>6, <2>8, <3>1
    <2>11. OneJob(i)'
        BY <2>3, <2>9, <2>10 DEF OneJob
    <2>12. Fits(job.text, row)
        BY <2>6, <2>7 DEF Settled, Fits
    <2>13. JobsFit(i, row)'
        BY <2>3, <2>9, <2>12 DEF JobsFit
    <2>14. Worked(i)'
        BY <2>9 DEF Worked, Waiting
    <2>15. Undisturbed(i)'
        BY <1>4, <2>5, <2>13, <2>14 DEF Undisturbed
    <2>16. Approvals(i)'
        BY <1>3, <1>4, <2>1, <2>4 DEF Grounded, Approvals
    <2>. QED
        BY <2>3, <2>11, <2>15, <2>16 DEF Grounded
<1>. QED
    BY <1>7, <1>8, <1>9

-----------------------------------------------------------------------------
(* At rest *)

LEMMA GroundInit == Init => GroundInv
PROOF
<1>. SUFFICES ASSUME Init, NEW i \in Items PROVE Grounded(i)
    BY DEF GroundInv
<1>1. PICK first \in FirstTables :
        /\ vectors = [k \in Items |-> Embedded(FirstRow(first, Item(k)))]
        /\ db = [r \in Rows |-> IF r \in {Pointer(k) : k \in Items}
                                THEN Embedded(FirstRow(first, Item(r[2])))
                                ELSE FirstRow(first, r)]
        /\ queue = EmptyBag
        /\ work = [s \in Sessions |-> NoWork]
        /\ reviewed = [k \in Sections |->
                          IF Embedded(FirstRow(first, Item(k))) = Absent THEN {}
                          ELSE {Embedded(FirstRow(first, Item(k)))}]
    BY DEF Init
<1>2. PICK row : row = FirstRow(first, Item(i))
    OBVIOUS
<1>3. /\ Item(i) \in Rows /\ Pointer(i) \in Rows /\ Pointer(i)[2] = i
      /\ Item(i) \notin {Pointer(k) : k \in Items}
    BY RowNames DEF Pointer, ItemRows, PointerRows
<1>4. db[Item(i)] = row /\ db[Pointer(i)] = Embedded(row) /\ vectors[i] = Embedded(row)
    <2>1. Pointer(i) \in {Pointer(k) : k \in Items}
        OBVIOUS
    <2>. QED
        BY <1>1, <1>2, <1>3, <2>1
<1>5. \A s \in Sessions : ~Asking(s, i) /\ ~Embedding(s, i)
    BY <1>1 DEF Asking, Embedding, On
<1>6. \A j : ~Waiting(j, i)
    BY <1>1 DEF Waiting, EmptyBag, BagToSet, SetToBag
<1>7. Settled(i, row, Embedded(row))
    BY <1>4 DEF Settled, VectorIs
<1>8. Undisturbed(i) /\ OneJob(i)
    BY <1>4, <1>5, <1>6, <1>7 DEF Undisturbed, JobsFit, OneJob
<1>9. Approvals(i)
    <2>1. ASSUME i \in Sections, row # Absent, row.approved PROVE row.text \in reviewed[i]
        <3>1. row \in ItemRow /\ row.text \in Texts
            BY <1>2, <2>1, FirstTablesAssumption DEF FirstRow
        <3>2. row.text # NoText /\ Embedded(row) = row.text /\ row.text # Absent
            BY <2>1, <3>1, PipelineAssumption DEF Embedded
        <3>. QED
            BY <1>1, <1>2, <2>1, <3>2
    <2>. QED
        BY <1>4, <2>1 DEF Approvals
<1>. QED
    BY <1>5, <1>8, <1>9 DEF Grounded

LEMMA GroundKept == TypeInv /\ GroundInv /\ [Next]_vars => GroundInv'
PROOF
<1>. SUFFICES ASSUME TypeInv, GroundInv, [Next]_vars, NEW i \in Items
              PROVE  Orderly(i)' => Grounded(i)'
    BY DEF GroundInv
<1>1. Orderly(i) => Grounded(i)
    BY DEF GroundInv
<1>2. CASE UNCHANGED vars
    <2>1. /\ StoreSame(i) /\ QueueSame(i)
        BY <1>2 DEF vars, tableVars, workVars, historyVars, StoreSame, QueueSame
    <2>2. SessionsSame(i)
        BY <1>2, SessionViews DEF vars, tableVars, workVars, historyVars, SessionsSame
    <2>. QED
        BY <1>1, <2>1, <2>2, GroundedKept
<1>. QED
    BY <1>1, <1>2, NextCases, ActKeepsGround, RestartKeepsGround, ReconcileKeepsGround,
       LoseVectorKeepsGround

LEMMA GroundAlways == Spec => []GroundInv
PROOF
    BY GroundInit, GroundKept, TypesAlways, PTL DEF Spec

\* Whenever nothing is being done with an item, its last requests were not entangled and
\* Chroma has not lost its vector, the chat finds exactly its text if it is a fact or an
\* approved section, and nothing otherwise, and an approved text is one that was reviewed.
THEOREM GroundedWheneverAtRest == Spec => []GroundedAtRest
PROOF
<1>1. ASSUME TypeInv, GroundInv PROVE GroundedAtRest
    <2>1. ASSUME NEW i \in Items, ~Busy(i), i \notin tangled \cup lost,
                 NEW row, row = db[Item(i)]
          PROVE  /\ row = Absent \/ row.text # NoText =>
                       vectors[i] = Embedded(row) /\ db[Pointer(i)] = Embedded(row)
                 /\ i \in Sections /\ row # Absent /\ row.approved => row.text \in reviewed[i]
        <3>1. Grounded(i)
            BY <1>1, <2>1 DEF GroundInv, Orderly
        <3>2. (\A s \in Sessions : ~Asking(s, i)) /\ ~Worked(i)
            BY <2>1 DEF Busy, Asking, Embedding, Worked, Waiting
        <3>3. Settled(i, row, db[Pointer(i)])
            BY <2>1, <3>1, <3>2 DEF Grounded, Undisturbed
        <3>4. i \in Sections /\ row # Absent /\ row.approved => row.text \in reviewed[i]
            BY <2>1, <3>1 DEF Grounded, Approvals
        <3>. QED
            BY <2>1, <3>3, <3>4 DEF Settled, VectorIs
    <2>. QED
        BY <2>1 DEF GroundedAtRest
<1>. QED
    BY <1>1, TypesAlways, GroundAlways, PTL

=============================================================================
