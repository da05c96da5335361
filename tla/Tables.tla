-------------------------------- MODULE Tables --------------------------------
(***************************************************************************)
(* Postgres tables as the services see them: one transaction per session   *)
(* (db/session.py), READ COMMITTED.  A session sees its own uncommitted    *)
(* writes and otherwise what is committed when a statement runs; a row it  *)
(* has written stays locked until it commits or rolls back.                *)
(***************************************************************************)
CONSTANTS
    Sessions,   \* the sessions that may be open at once
    Rows,       \* the identities of the rows, whatever their table
    Absent,     \* there is no such row
    Unwritten   \* the session has not written the row

VARIABLES
    db,     \* db[i]: the committed row i, or Absent
    draft   \* draft[s][i]: the row as session s left it, uncommitted, or Unwritten

tableVars == <<db, draft>>

\* The row a statement of s sees.
Seen(s, i) == IF draft[s][i] = Unwritten THEN db[i] ELSE draft[s][i]

\* No other transaction has written the row.
Writable(s, i) == \A o \in Sessions \ {s} : draft[o][i] = Unwritten

Blank == [i \in Rows |-> Unwritten]

\* An UPDATE or INSERT of one row: it waits for whoever wrote the row before.
Write(s, i, row) ==
    /\ Writable(s, i)
    /\ draft' = [draft EXCEPT ![s][i] = row]

CommitRows(s) ==
    /\ db' = [i \in Rows |-> Seen(s, i)]
    /\ draft' = [draft EXCEPT ![s] = Blank]

\* A rollback, to the savepoint every write came after or of the whole transaction.
DiscardRows_KeepsUpdates(s) ==
    /\ db' = [i \in Rows |-> IF db[i] = Absent THEN Absent ELSE Seen(s, i)]
    /\ draft' = [draft EXCEPT ![s] = Blank]

DiscardRows(s) ==
    /\ draft' = [draft EXCEPT ![s] = Blank]
    /\ UNCHANGED db
=============================================================================
