---------------------------- MODULE Accounts_proofs ----------------------------
(***************************************************************************)
(* Proofs about Accounts, for any number of sessions, accounts, secrets    *)
(* and requests: types, one account per address with no secret left        *)
(* behind, secrets that are spent once, and sessions that end with a       *)
(* password reset.                                                         *)
(***************************************************************************)
EXTENDS Accounts, TLAPS

-----------------------------------------------------------------------------
(***************************************************************************)
(* Types.  What a flush writes is made from what the request is about and  *)
(* has read, so the invariant says, for each operation, from which table   *)
(* its secret, its new row and its argument are; and that a row there has  *)
(* been never becomes one that has never been.                             *)
(***************************************************************************)

Joining(s) == Op(s) \in {"register", "create"}

\* The secret has been found, in the database.
Certain(s) == ~(Op(s) = "enroll" /\ pc[s] = "code")

KeyTable(op) ==
    CASE op \in {"refresh", "logout"} -> Tokens
      [] op = "reset" -> Links
      [] op = "confirm" -> Moves
      [] op \in {"enroll", "verify"} -> Codes
      [] op = "resend" -> Codes \cup {NoRow}
      [] OTHER -> {NoRow}

NewTable(r) ==
    CASE r.op \in {"register", "create"} -> {r.who}
      [] r.op \in {"refresh", "verify"} -> Tokens
      [] r.op = "login" -> IF NeedsCode(r.me) THEN Codes ELSE Tokens
      [] r.op = "forgot" -> Links
      [] r.op = "ask" -> Moves
      [] r.op \in {"setup", "resend"} -> Codes
      [] OTHER -> {NoRow}

Arguments(op) ==
    CASE op \in {"reset", "change"} -> Passwords
      [] op \in {"register", "create", "ask", "confirm"} -> Addresses
      [] op \in {"setup", "enroll"} -> Methods
      [] op = "update" -> Addresses \cup {"on", "off"}
      [] OTHER -> {NoRow}

OpsAt(step) ==
    CASE step = "spend" -> {"refresh", "logout", "verify"}
      [] step = "owner" -> {"refresh", "verify", "reset", "confirm"}
      [] step = "taken" -> {"confirm", "ask", "update"}
      [] step = "code" -> {"enroll", "resend"}
      [] step = "revoke" -> {"reset"}
      [] step = "write" -> Operations \ {"logout"}
      [] OTHER -> Operations

\* Requests that read their account when they have spent their secret, or found it.
ReadLate == {"refresh", "logout", "verify", "reset", "confirm"}

\* What the request r, which is at a step, is about.
RequestOK(r, step) ==
    /\ r \in Request /\ r.op \in OpsAt(step)
    /\ r.key \in KeyTable(r.op) /\ r.new \in NewTable(r)
    /\ r.arg \in Arguments(r.op) \/ (r.op = "enroll" /\ step = "code")
    /\ r.op \in Operations \ (ReadLate \cup {"register", "create"}) => r.me \in AccountRow
    /\ r.op \in ReadLate \ {"logout"} /\ step \in {"write", "revoke", "commit"} => r.me \in AccountRow
    /\ r.op = "resend" => NeedsCode(r.me)

\* What the rows it is about have to do with each other.
About(s) ==
    /\ ~Joining(s) => db[req[s].who] # Absent
    /\ req[s].key # NoRow /\ Certain(s) =>
          /\ db[req[s].key] # Absent
          /\ Exists(db[req[s].key]) => db[req[s].key].owner = req[s].who
    /\ req[s].new # NoRow => db[req[s].new] = Absent

\* A row that a session has written is its account or a secret of its account.
Drafted(s, i) ==
    draft[s][i] # Unwritten =>
        /\ pc[s] \notin {"idle", "code"}
        /\ db[i] = Absent => i = req[s].new
        /\ i \in Accounts => i = req[s].who
        /\ draft[s][i] = Gone => Op(s) = "delete"
        /\ i \in Secrets /\ Exists(draft[s][i]) =>
              /\ draft[s][i].owner = req[s].who
              /\ db[i] # Absent => /\ Exists(db[i]) /\ db[i].owner = req[s].who
                                   /\ draft[s][i].used

Exclusive ==
    \A i \in Rows, s, o \in Sessions :
        draft[s][i] # Unwritten /\ draft[o][i] # Unwritten => s = o

NewApart ==
    \A s, o \in Sessions :
        pc[s] # "idle" /\ pc[o] # "idle" /\ req[s].new = req[o].new /\ req[s].new # NoRow => s = o

OwnersKnown == \A i \in Secrets : Exists(db[i]) => db[db[i].owner] # Absent

PlacedOK ==
    \A s \in Sessions : pc[s] # "idle" => RequestOK(req[s], pc[s]) /\ About(s)

DraftsOK == \A s \in Sessions, i \in Rows : Drafted(s, i)

TypeInv == TypeOK /\ PlacedOK /\ DraftsOK /\ Exclusive /\ NewApart /\ OwnersKnown

-----------------------------------------------------------------------------
(***************************************************************************)
(* Addresses and owners.  The two halves of OneAccountPerAddress hold of   *)
(* the tables, and of what each session sees; and two sessions that have   *)
(* both written can both commit: they have not written the same address,   *)
(* and neither has deleted the account for which the other has a secret.   *)
(***************************************************************************)

AddressInv ==
    /\ \A u, v \in Accounts :
          Exists(db[u]) /\ Exists(db[v]) /\ db[u].address = db[v].address => u = v
    /\ \A s \in Sessions, u, v \in Accounts :
          Exists(Seen(s, u)) /\ Exists(Seen(s, v)) /\ Seen(s, u).address = Seen(s, v).address
             => u = v
    /\ \A s, o \in Sessions, u, v \in Accounts :
          s # o /\ Exists(draft[s][u]) /\ Exists(draft[o][v])
                /\ draft[s][u].address = draft[o][v].address => u = v

OwnerInv ==
    /\ \A i \in Secrets : Exists(db[i]) => Exists(db[db[i].owner])
    /\ \A s \in Sessions, i \in Secrets :
          Exists(Seen(s, i)) => Exists(Seen(s, Seen(s, i).owner))
    /\ \A s, o \in Sessions, i \in Secrets :
          s # o /\ db[i] = Absent /\ Exists(draft[o][i]) =>
              draft[s][draft[o][i].owner] # Gone

-----------------------------------------------------------------------------
Claims(s) == pc[s] # "idle" /\ Spends(s)

SpendInv ==
    /\ \A s, o \in Sessions :
          s # o /\ Claims(s) /\ Claims(o) /\ req[s].key = req[o].key /\ req[s].who = req[o].who =>
              req[s].key \in contested
    /\ \A i \in Secrets \ contested :
          \/ uses[i] = 0
          \/ /\ uses[i] = 1 /\ db[i] # Absent /\ ~Usable(db[i])
             /\ \A s \in Sessions : Claims(s) /\ Certain(s) => req[s].key # i
    /\ \A s \in Sessions :
          Claims(s) /\ (pc[s] \in {"revoke", "commit"} \/ (Op(s) \in {"refresh", "verify"} /\ pc[s] # "spend"))
             => draft[s][req[s].key] # Unwritten

-----------------------------------------------------------------------------
ResetInv ==
    /\ \A s, o \in Sessions :
          s # o /\ pc[s] # "idle" /\ pc[o] # "idle" /\ req[s].who = req[o].who => s \in near
    /\ \A s \in Sessions : pc[s] = "commit" /\ Op(s) = "reset" /\ s \notin near =>
          \A t \in Tokens : Usable(Seen(s, t)) => Seen(s, t).owner # req[s].who
    /\ SessionsEndWithReset
    /\ \A s \in Sessions : pc[s] # "idle" /\ req[s].who \notin disturbed =>
          /\ Op(s) \in {"login", "refresh", "verify"} => req[s].era = resets[req[s].who]
          /\ \A t \in Tokens : Usable(draft[s][t]) => draft[s][t].era = resets[req[s].who]

-----------------------------------------------------------------------------
(* Tables and rows *)

LEMMA RowNames ==
    /\ Accounts \subseteq Rows /\ Secrets \subseteq Rows
    /\ \A i \in Rows : i \in Accounts \/ i \in Secrets
    /\ Tokens \subseteq Secrets /\ Links \subseteq Secrets /\ Moves \subseteq Secrets
    /\ Codes \subseteq Secrets
    /\ NoRow \notin Rows
PROOF
    BY AccountsAssumption DEF Secrets

LEMMA TablesApart ==
    /\ \A i \in Accounts : i \notin Secrets
    /\ \A i \in Tokens : i \notin Links /\ i \notin Moves /\ i \notin Codes
    /\ \A i \in Links : i \notin Moves /\ i \notin Codes
    /\ \A i \in Moves : i \notin Codes
    /\ \A i \in Rows : i[2] \in Int
PROOF
<1>1. Ids \subseteq Int
    BY AccountsAssumption
<1>2. \A i \in Accounts : i[1] = "account" /\ i[2] \in Int
    BY <1>1 DEF Accounts
<1>3. \A i \in Tokens : i[1] = "token" /\ i[2] \in Int
    BY <1>1 DEF Tokens
<1>4. \A i \in Links : i[1] = "link" /\ i[2] \in Int
    BY <1>1 DEF Links
<1>5. \A i \in Moves : i[1] = "move" /\ i[2] \in Int
    BY <1>1 DEF Moves
<1>6. \A i \in Codes : i[1] = "code" /\ i[2] \in Int
    BY <1>1 DEF Codes
<1>. QED
    BY <1>2, <1>3, <1>4, <1>5, <1>6, RowNames DEF Secrets

LEMMA RowKinds ==
    /\ \A i \in Accounts : \A row : IsRow(i, row) <=> row \in AccountRow
    /\ \A i \in Tokens : \A row : IsRow(i, row) <=> row \in TokenRow
    /\ \A i \in Links : \A row : IsRow(i, row) <=> row \in LinkRow
    /\ \A i \in Moves : \A row : IsRow(i, row) <=> row \in MoveRow
    /\ \A i \in Codes : \A row : IsRow(i, row) <=> row \in CodeRow
PROOF
<1>2. \A i \in Secrets : i \notin Accounts
    BY TablesApart
<1>1. \A i \in Accounts : \A row : IsRow(i, row) <=> row \in AccountRow
    BY <1>2, RowNames DEF IsRow
<1>3. \A i \in Tokens : \A row : IsRow(i, row) <=> row \in TokenRow
    BY <1>2, RowNames, TablesApart DEF IsRow
<1>4. \A i \in Links : \A row : IsRow(i, row) <=> row \in LinkRow
    BY <1>2, RowNames, TablesApart DEF IsRow
<1>5. \A i \in Moves : \A row : IsRow(i, row) <=> row \in MoveRow
    BY <1>2, RowNames, TablesApart DEF IsRow
<1>6. \A i \in Codes : \A row : IsRow(i, row) <=> row \in CodeRow
    BY <1>2, RowNames, TablesApart DEF IsRow
<1>. QED
    BY <1>1, <1>3, <1>4, <1>5, <1>6

\* A row of a table is there; one of a secret has an owner.
LEMMA RowsExist ==
    /\ \A i \in Rows : \A row : IsRow(i, row) => Exists(row)
    /\ \A i \in Secrets : \A row : IsRow(i, row) => row.owner \in Accounts /\ row.used \in BOOLEAN
    /\ Absent # Unwritten /\ Absent # Gone /\ Unwritten # Gone
PROOF
<1>1. Absent # Unwritten /\ Absent # Gone /\ Unwritten # Gone
    BY AccountsAssumption
<1>2. \A row \in AccountRow \cup TokenRow \cup LinkRow \cup MoveRow \cup CodeRow : Exists(row)
    BY AccountsAssumption DEF Exists
<1>3. \A i \in Rows : \A row : IsRow(i, row) => Exists(row)
    BY <1>2 DEF IsRow
<1>4. \A row \in TokenRow \cup LinkRow \cup MoveRow \cup CodeRow :
          row.owner \in Accounts /\ row.used \in BOOLEAN
    BY DEF TokenRow, LinkRow, MoveRow, CodeRow
<1>5. \A i \in Secrets : \A row : IsRow(i, row) => row.owner \in Accounts /\ row.used \in BOOLEAN
    BY <1>4, TablesApart DEF IsRow
<1>. QED
    BY <1>1, <1>3, <1>5

\* A spent row is a row of its table, of the same owner.
LEMMA SpentRow ==
    ASSUME NEW i \in Secrets, NEW row, IsRow(i, row)
    PROVE  /\ Spent(row) = [row EXCEPT !.used = TRUE]
           /\ IsRow(i, Spent(row)) /\ Spent(row).owner = row.owner /\ Spent(row).used
PROOF
<1>1. row # Gone
    BY RowsExist, RowNames DEF Exists
<1>2. Spent(row) = [row EXCEPT !.used = TRUE]
    BY <1>1 DEF Spent
<1>3. CASE i \in Tokens
    <2>1. row \in TokenRow
        BY <1>3, RowKinds
    <2>2. Spent(row) \in TokenRow /\ Spent(row).owner = row.owner /\ Spent(row).used
        BY <1>2, <2>1 DEF TokenRow
    <2>. QED
        BY <1>2, <1>3, <2>2, RowKinds
<1>4. CASE i \in Links
    <2>1. row \in LinkRow
        BY <1>4, RowKinds
    <2>2. Spent(row) \in LinkRow /\ Spent(row).owner = row.owner /\ Spent(row).used
        BY <1>2, <2>1 DEF LinkRow
    <2>. QED
        BY <1>2, <1>4, <2>2, RowKinds
<1>5. CASE i \in Moves
    <2>1. row \in MoveRow
        BY <1>5, RowKinds
    <2>2. Spent(row) \in MoveRow /\ Spent(row).owner = row.owner /\ Spent(row).used
        BY <1>2, <2>1 DEF MoveRow
    <2>. QED
        BY <1>2, <1>5, <2>2, RowKinds
<1>6. CASE i \in Codes
    <2>1. row \in CodeRow
        BY <1>6, RowKinds
    <2>2. Spent(row) \in CodeRow /\ Spent(row).owner = row.owner /\ Spent(row).used
        BY <1>2, <2>1 DEF CodeRow
    <2>. QED
        BY <1>2, <1>6, <2>2, RowKinds
<1>. QED
    BY <1>3, <1>4, <1>5, <1>6 DEF Secrets

\* What a session sees of a row is a row of the table, or that there is none.
LEMMA SeenRow ==
    ASSUME TypeOK, NEW s \in Sessions, NEW i \in Rows
    PROVE  /\ Seen(s, i) \in {Absent, Gone} \/ IsRow(i, Seen(s, i))
           /\ db[i] \in {Absent, Gone} \/ IsRow(i, db[i])
           /\ draft[s][i] \in {Unwritten, Gone} \/ IsRow(i, draft[s][i])
           /\ Seen(s, i) = Absent <=> db[i] = Absent /\ draft[s][i] = Unwritten
           /\ Exists(Seen(s, i)) <=> IsRow(i, Seen(s, i))
           /\ Exists(db[i]) <=> IsRow(i, db[i])
           /\ Exists(draft[s][i]) <=> IsRow(i, draft[s][i])
PROOF
<1>1. db[i] \in {Absent, Gone} \/ IsRow(i, db[i])
    BY DEF TypeOK
<1>2. draft[s][i] \in {Unwritten, Gone} \/ IsRow(i, draft[s][i])
    BY DEF TypeOK
<1>3. \/ Seen(s, i) = db[i] /\ draft[s][i] = Unwritten
      \/ Seen(s, i) = draft[s][i] /\ draft[s][i] # Unwritten
    BY DEF Seen
<1>. QED
    BY <1>1, <1>2, <1>3, RowsExist DEF Exists

\* An identity for a new row: there has never been such a row, and nobody else is to make it.
LEMMA FreshRow ==
    ASSUME NEW table, table \subseteq Rows, NEW i \in Fresh(table)
    PROVE  /\ i \in table /\ i \in Rows /\ db[i] = Absent
           /\ \A o \in Sessions : pc[o] # "idle" => req[o].new # i
PROOF
<1>1. i \in table /\ \A j \in table : InUse(j) => j[2] < i[2]
    BY DEF Fresh
<1>2. i[2] \in Int
    BY <1>1, TablesApart
<1>3. ~InUse(i)
    BY <1>1, <1>2
<1>. QED
    BY <1>1, <1>3 DEF InUse

-----------------------------------------------------------------------------
(* What a flush makes of the rows *)

LEMMA SettingsTyped ==
    ASSUME NEW s \in Sessions, RequestOK(req[s], "write")
    PROVE  /\ DOMAIN Settings(s) \subseteq {"address", "password", "active", "phone", "method"}
           /\ "address" \in DOMAIN Settings(s) => Settings(s)["address"] \in Addresses
           /\ "password" \in DOMAIN Settings(s) => Settings(s)["password"] \in Passwords
           /\ "active" \in DOMAIN Settings(s) => Settings(s)["active"] \in BOOLEAN
           /\ "phone" \in DOMAIN Settings(s) => Settings(s)["phone"] \in BOOLEAN
           /\ "method" \in DOMAIN Settings(s) => Settings(s)["method"] \in Methods
PROOF
<1> DEFINE r == req[s]
<1>1. r.op \in Operations /\ r.arg \in Arguments(r.op)
    BY DEF RequestOK, Request
<1>2. CASE r.op \in {"reset", "change"}
    <2>1. Settings(s) = [password |-> r.arg] /\ r.arg \in Passwords
        BY <1>1, <1>2 DEF Settings, Arguments
    <2>. QED
        BY <2>1
<1>3. CASE r.op = "confirm"
    <2>1. Settings(s) = [address |-> r.arg] /\ r.arg \in Addresses
        BY <1>1, <1>3 DEF Settings, Arguments
    <2>. QED
        BY <2>1
<1>4. CASE r.op = "setup"
    <2>1. r.me \in AccountRow
        BY <1>4 DEF RequestOK, ReadLate, Operations
    <2>2. r.me.phone \in BOOLEAN
        BY <2>1 DEF AccountRow
    <2>3. Settings(s) = [phone |-> r.arg = "phone" \/ r.me.phone]
        BY <1>4 DEF Settings
    <2>. QED
        BY <2>2, <2>3
<1>5. CASE r.op = "enroll"
    <2>1. Settings(s) = [method |-> r.arg] /\ r.arg \in Methods
        BY <1>1, <1>5 DEF Settings, Arguments
    <2>. QED
        BY <2>1
<1>6. CASE r.op = "update"
    <2>1. Settings(s) = IF r.arg \in Addresses THEN [address |-> r.arg]
                        ELSE [active |-> r.arg = "on"]
        BY <1>6 DEF Settings
    <2>. QED
        BY <2>1
<1>7. CASE r.op \notin {"reset", "change", "confirm", "setup", "enroll", "update"}
    <2>1. DOMAIN Settings(s) = {}
        BY <1>7 DEF Settings
    <2>. QED
        BY <2>1
<1>. QED
    BY <1>2, <1>3, <1>4, <1>5, <1>6, <1>7

LEMMA ChangedRow ==
    ASSUME NEW s \in Sessions, RequestOK(req[s], "write"),
           Seen(s, req[s].who) \in AccountRow
    PROVE  Changed(s) \in AccountRow
PROOF
<1> DEFINE now == Seen(s, req[s].who)
           f == [c \in DOMAIN now |-> IF c \in Dirty(s) THEN Settings(s)[c] ELSE now[c]]
<1>1. DOMAIN now = {"address", "password", "active", "phone", "method"}
    BY DEF AccountRow
<1>2. now # Gone
    BY AccountsAssumption
<1>3. Changed(s) = f
    BY <1>2 DEF Changed
<1>4. \A c \in Dirty(s) : c \in DOMAIN Settings(s)
    BY DEF Dirty
<1>5. /\ now.address \in Addresses /\ now.password \in Passwords /\ now.active \in BOOLEAN
      /\ now.phone \in BOOLEAN /\ now.method \in Methods \cup {NoMethod}
    BY DEF AccountRow
<1> HIDE DEF now
<1>6. f = [address |-> f["address"], password |-> f["password"], active |-> f["active"],
           phone |-> f["phone"], method |-> f["method"]]
    BY <1>1
<1>7. /\ f["address"] \in Addresses /\ f["password"] \in Passwords
      /\ f["active"] \in BOOLEAN /\ f["phone"] \in BOOLEAN
      /\ f["method"] \in Methods \cup {NoMethod}
    BY <1>1, <1>4, <1>5, SettingsTyped
<1> HIDE DEF f
<1>8. f \in AccountRow
    BY <1>6, <1>7 DEF AccountRow
<1>. QED
    BY <1>3, <1>8

LEMMA NewRow ==
    ASSUME NEW s \in Sessions, RequestOK(req[s], "write"), req[s].op # "delete",
           req[s].new # NoRow, NEW row \in NewRows(s)
    PROVE  /\ IsRow(req[s].new, row)
           /\ req[s].new \in Secrets => row.owner = req[s].who
           /\ req[s].new \in Accounts <=> Joining(s)
           /\ req[s].new \in Accounts => req[s].new = req[s].who
           /\ req[s].new \in Tokens => /\ row.era = req[s].era
                                       /\ Op(s) \in {"login", "refresh", "verify"}
PROOF
<1> DEFINE r == req[s]
<1>1. /\ r.op \in Operations /\ r.arg \in Arguments(r.op) /\ r.new \in NewTable(r)
      /\ r.who \in Accounts /\ r.era \in Nat
    BY DEF RequestOK, Request
<1>2. CASE r.op \in {"register", "create"}
    <2>1. PICK p \in Passwords, on \in BOOLEAN, given \in BOOLEAN :
              row = [address |-> r.arg, password |-> p, active |-> on,
                     phone |-> given, method |-> NoMethod]
        <3>1. CASE r.op = "register"
            <4>1. NewRows(s) = {[address |-> r.arg, password |-> p, active |-> TRUE, phone |-> given,
                                 method |-> NoMethod] : p \in Passwords, given \in BOOLEAN}
                BY <3>1 DEF NewRows
            <4>2. PICK p \in Passwords, given \in BOOLEAN :
                      row = [address |-> r.arg, password |-> p, active |-> TRUE, phone |-> given,
                             method |-> NoMethod]
                BY <4>1
            <4>. QED
                BY <4>2
        <3>2. CASE r.op = "create"
            <4>1. NewRows(s) = {[address |-> r.arg, password |-> p, active |-> on, phone |-> FALSE,
                                 method |-> NoMethod] : p \in Passwords, on \in BOOLEAN}
                BY <3>2 DEF NewRows
            <4>2. PICK p \in Passwords, on \in BOOLEAN :
                      row = [address |-> r.arg, password |-> p, active |-> on, phone |-> FALSE,
                             method |-> NoMethod]
                BY <4>1
            <4>. QED
                BY <4>2
        <3>. QED
            BY <1>2, <3>1, <3>2
    <2>2. r.arg \in Addresses
        BY <1>1, <1>2 DEF Arguments
    <2>3. row \in AccountRow
        BY <2>1, <2>2 DEF AccountRow
    <2>4. r.new = r.who
        BY <1>1, <1>2 DEF NewTable
    <2>. QED
        BY <1>1, <1>2, <2>3, <2>4, RowKinds, TablesApart, RowNames DEF Joining, Op
<1>3. CASE r.op \in {"refresh", "verify"} \/ (r.op = "login" /\ ~NeedsCode(r.me))
    <2>1. row = [owner |-> r.who, used |-> FALSE, era |-> r.era]
        BY <1>3 DEF NewRows
    <2>2. r.new \in Tokens
        BY <1>1, <1>3 DEF NewTable
    <2>3. row \in TokenRow /\ row.owner = r.who /\ row.era = r.era
        BY <1>1, <2>1 DEF TokenRow
    <2>. QED
        BY <1>3, <2>2, <2>3, RowKinds, TablesApart, RowNames DEF Joining, Op
<1>4. CASE r.op = "forgot"
    <2>1. row = [owner |-> r.who, used |-> FALSE]
        BY <1>4 DEF NewRows
    <2>2. r.new \in Links
        BY <1>1, <1>4 DEF NewTable
    <2>3. row \in LinkRow /\ row.owner = r.who
        BY <1>1, <2>1 DEF LinkRow
    <2>. QED
        BY <1>4, <2>2, <2>3, RowKinds, TablesApart, RowNames DEF Joining, Op
<1>5. CASE r.op = "ask"
    <2>1. row = [owner |-> r.who, used |-> FALSE, address |-> r.arg]
        BY <1>5 DEF NewRows
    <2>2. r.new \in Moves /\ r.arg \in Addresses
        BY <1>1, <1>5 DEF NewTable, Arguments
    <2>3. row \in MoveRow /\ row.owner = r.who
        BY <1>1, <2>1, <2>2 DEF MoveRow
    <2>. QED
        BY <1>5, <2>2, <2>3, RowKinds, TablesApart, RowNames DEF Joining, Op
<1>6. CASE r.op = "setup"
    <2>1. row = [owner |-> r.who, used |-> FALSE, purpose |-> "enroll", channel |-> r.arg]
        BY <1>6 DEF NewRows
    <2>2. r.new \in Codes /\ r.arg \in Methods
        BY <1>1, <1>6 DEF NewTable, Arguments
    <2>3. row \in CodeRow /\ row.owner = r.who
        BY <1>1, <2>1, <2>2 DEF CodeRow
    <2>. QED
        BY <1>6, <2>2, <2>3, RowKinds, TablesApart, RowNames DEF Joining, Op
<1>7. CASE (r.op = "login" /\ NeedsCode(r.me)) \/ r.op = "resend"
    <2>1. row = [owner |-> r.who, used |-> FALSE, purpose |-> "login", channel |-> r.me.method]
        BY <1>7 DEF NewRows
    <2>2. r.new \in Codes
        BY <1>1, <1>7 DEF NewTable
    <2>3. r.me \in AccountRow /\ NeedsCode(r.me)
        BY <1>7 DEF RequestOK, ReadLate, Operations
    <2>4. r.me.method \in Methods
        BY <2>3 DEF NeedsCode, AccountRow
    <2>5. row \in CodeRow /\ row.owner = r.who
        BY <1>1, <2>1, <2>4 DEF CodeRow
    <2>. QED
        BY <1>7, <2>2, <2>5, RowKinds, TablesApart, RowNames DEF Joining, Op
<1>8. CASE r.op \notin {"register", "create", "refresh", "verify", "login", "forgot", "ask",
                        "setup", "resend"}
    BY <1>1, <1>8 DEF NewTable
<1>. QED
    BY <1>2, <1>3, <1>4, <1>5, <1>6, <1>7, <1>8

-----------------------------------------------------------------------------
(* Flushes: what each row that is written is made from *)

Deleted(s, i, row) ==
    /\ Op(s) = "delete" /\ row = Gone
    /\ i = req[s].who \/ i \in Holdings(s, req[s].who)

Edited(s, i, row) ==
    i = req[s].who /\ ~Joining(s) /\ db[i] # Absent /\ row \in AccountRow

UsedUp(s, i, row) ==
    /\ i \in Secrets /\ db[i] # Absent /\ Exists(Seen(s, i)) /\ Seen(s, i).owner = req[s].who
    /\ row = Spent(Seen(s, i))

Made(s, i, row) ==
    /\ RequestOK(req[s], "write") /\ Op(s) # "delete" /\ req[s].new # NoRow
    /\ i = req[s].new /\ row \in NewRows(s)

Source(s, i, row) ==
    Deleted(s, i, row) \/ Edited(s, i, row) \/ UsedUp(s, i, row) \/ Made(s, i, row)

Flushes(s, w) ==
    /\ \A i \in DOMAIN w : i \in Rows /\ Writable(s, i) /\ Source(s, i, w[i])
    /\ \A i \in Rows : draft'[s][i] = IF i \in DOMAIN w THEN w[i] ELSE draft[s][i]
    /\ draft' = [o \in Sessions |-> IF o = s THEN draft'[s] ELSE draft[o]]
    /\ draft'[s] = [i \in Rows |-> draft'[s][i]]
    /\ UNCHANGED db

LEMMA FlushFlushes ==
    ASSUME TypeOK, NEW s \in Sessions, NEW w, Flush(s, w), UNCHANGED db,
           \A i \in DOMAIN w : i \in Rows /\ Source(s, i, w[i])
    PROVE  Flushes(s, w)
PROOF
<1> DEFINE mine == [i \in Rows |-> IF i \in DOMAIN w THEN w[i] ELSE draft[s][i]]
<1>1. draft = [o \in Sessions |-> draft[o]]
    BY DEF TypeOK
<1>2. draft' = [draft EXCEPT ![s] = mine] /\ \A i \in DOMAIN w : Writable(s, i)
    BY DEF Flush
<1>3. \A i \in Rows : mine[i] = IF i \in DOMAIN w THEN w[i] ELSE draft[s][i]
    OBVIOUS
<1>4. mine = [i \in Rows |-> mine[i]]
    OBVIOUS
<1> HIDE DEF mine
<1>5. draft'[s] = mine /\ draft' = [o \in Sessions |-> IF o = s THEN mine ELSE draft[o]]
    BY <1>1, <1>2
<1>. QED
    BY <1>2, <1>3, <1>4, <1>5 DEF Flushes

\* The secret of a request, once it is found, is one of its account.
LEMMA KeyRow ==
    ASSUME TypeInv, NEW s \in Sessions, pc[s] # "idle", Certain(s), req[s].key # NoRow
    PROVE  /\ req[s].key \in Secrets /\ db[req[s].key] # Absent
           /\ Exists(Seen(s, req[s].key)) => Seen(s, req[s].key).owner = req[s].who
PROOF
<1> DEFINE k == req[s].key
<1>1. RequestOK(req[s], pc[s]) /\ About(s)
    BY DEF TypeInv, PlacedOK
<1>2. k \in Secrets
    BY <1>1 DEF RequestOK, Request
<1>3. db[k] # Absent /\ (Exists(db[k]) => db[k].owner = req[s].who)
    BY <1>1 DEF About
<1>4. draft[s][k] # Unwritten /\ Exists(draft[s][k]) => draft[s][k].owner = req[s].who
    BY <1>2, RowNames DEF TypeInv, DraftsOK, Drafted
<1>5. \/ Seen(s, k) = db[k]
      \/ Seen(s, k) = draft[s][k] /\ draft[s][k] # Unwritten
    BY DEF Seen
<1>. QED
    BY <1>2, <1>3, <1>4, <1>5

LEMMA WritesFlush ==
    ASSUME TypeInv, NEW s \in Sessions, WriteRows(s)
    PROVE  \E w : /\ Flushes(s, w)
                  /\ \A i \in DOMAIN w : ~WriteWaits(s, i, w[i]) /\ ~WriteFails(s, i, w[i])
                  /\ Op(s) = "delete" =>
                        /\ DOMAIN w = {req[s].who} \cup Holdings(s, req[s].who)
                        /\ \A i \in DOMAIN w : w[i] = Gone
                  /\ Op(s) \in {"reset", "confirm", "enroll"} => req[s].key \in DOMAIN w
PROOF
<1> DEFINE r == req[s]
           u == req[s].who
           changed == IF Dirty(s) = {} THEN {} ELSE {u}
           used == IF Op(s) \in {"reset", "confirm", "enroll", "resend"}
                   THEN {r.key} \ {NoRow} ELSE {}
           rest == [i \in changed \cup used |-> IF i = u THEN Changed(s) ELSE Spent(Seen(s, i))]
<1>1. pc[s] = "write" /\ UNCHANGED db
    BY DEF WriteRows, Goto
<1>2. RequestOK(r, "write") /\ About(s)
    BY <1>1 DEF TypeInv, PlacedOK
<1>3. PICK w \in Writes(s) :
          /\ {i \in DOMAIN w : WriteWaits(s, i, w[i]) \/ WriteFails(s, i, w[i])} = {}
          /\ Flush(s, w)
    BY DEF WriteRows
<1>4. \A i \in DOMAIN w : ~WriteWaits(s, i, w[i]) /\ ~WriteFails(s, i, w[i])
    BY <1>3
<1>5. TypeOK /\ u \in Accounts /\ u \in Rows /\ r.op \in Operations
    BY <1>2, RowNames DEF TypeInv, RequestOK, Request
<1>6. CASE Op(s) = "delete"
    <2>1. w = [i \in {u} \cup Holdings(s, u) |-> Gone]
        BY <1>3, <1>6 DEF Writes
    <2>2. DOMAIN w = {u} \cup Holdings(s, u) /\ \A i \in DOMAIN w : w[i] = Gone
        BY <2>1
    <2>3. \A i \in DOMAIN w : i \in Rows
        BY <1>5, <2>2, RowNames DEF Holdings
    <2>4. \A i \in DOMAIN w : Source(s, i, w[i])
        BY <1>6, <2>2 DEF Source, Deleted
    <2>5. Flushes(s, w)
        BY <1>1, <1>3, <1>5, <2>3, <2>4, FlushFlushes
    <2>. QED
        BY <1>4, <1>6, <2>2, <2>5
<1>7. CASE Op(s) # "delete"
    <2>1. ASSUME NEW i \in used PROVE /\ i \in Secrets /\ i \in Rows /\ db[i] # Absent
                                      /\ Exists(Seen(s, i)) => Seen(s, i).owner = u
        <3>1. i = r.key /\ r.key # NoRow /\ pc[s] # "idle" /\ Certain(s)
            BY <1>1, <2>1 DEF Certain
        <3>. QED
            BY <3>1, KeyRow, RowNames
    <2>2. ASSUME NEW i \in changed PROVE i = u /\ ~Joining(s) /\ db[u] # Absent
        <3>1. i = u /\ Dirty(s) # {}
            BY <2>2
        <3>2. DOMAIN Settings(s) # {}
            BY <3>1 DEF Dirty
        <3>3. ~Joining(s)
            BY <3>2 DEF Settings, Joining, Op
        <3>. QED
            BY <1>2, <3>1, <3>3 DEF About
    <2>3. DOMAIN rest = changed \cup used
        OBVIOUS
    <2>4. ASSUME NEW i \in DOMAIN rest, ~WriteFails(s, i, rest[i])
          PROVE  i \in Rows /\ Source(s, i, rest[i])
        <3>1. rest[i] # Gone
            BY <1>7, <2>4 DEF WriteFails
        <3>2. CASE i = u
            <4>1. i \in changed
                BY <1>5, <2>1, <2>3, <3>2, TablesApart
            <4>2. rest[i] = Changed(s) /\ ~Joining(s) /\ db[u] # Absent
                BY <2>2, <2>3, <3>2, <4>1
            <4>3. Seen(s, u) # Gone
                BY <3>1, <4>2 DEF Changed
            <4>4. Seen(s, u) \in AccountRow
                BY <1>5, <4>2, <4>3, SeenRow, RowKinds
            <4>5. Changed(s) \in AccountRow
                BY <1>2, <4>4, ChangedRow
            <4>. QED
                BY <1>5, <3>2, <4>2, <4>5 DEF Source, Edited
        <3>3. CASE i # u
            <4>1. i \in used
                BY <2>2, <2>3, <3>3
            <4>2. rest[i] = Spent(Seen(s, i))
                BY <2>3, <3>3
            <4>3. i \in Secrets /\ i \in Rows /\ db[i] # Absent
                  /\ (Exists(Seen(s, i)) => Seen(s, i).owner = u)
                BY <2>1, <4>1
            <4>4. Seen(s, i) # Gone
                BY <3>1, <4>2 DEF Spent
            <4>5. Exists(Seen(s, i))
                BY <1>5, <4>3, <4>4, SeenRow
            <4>. QED
                BY <4>2, <4>3, <4>5 DEF Source, UsedUp
        <3>. QED
            BY <3>2, <3>3
    <2>5. Op(s) \in {"reset", "confirm", "enroll"} => r.key \in DOMAIN rest
        <3>1. Op(s) \in {"reset", "confirm", "enroll"} => r.key # NoRow
            BY <1>2, RowNames DEF RequestOK, KeyTable, Op
        <3>. QED
            BY <2>3, <3>1
    <2> HIDE DEF rest, used, changed
    <2>6. CASE r.new = NoRow
        <3>1. w = rest
            BY <1>3, <1>7, <2>6 DEF Writes, rest, used, changed
        <3>2. Flushes(s, w)
            BY <1>1, <1>3, <1>4, <1>5, <2>4, <3>1, FlushFlushes
        <3>. QED
            BY <1>4, <1>7, <2>5, <3>1, <3>2
    <2>7. CASE r.new # NoRow
        <3>1. Writes(s) = {[i \in DOMAIN rest \cup {r.new} |-> IF i = r.new THEN row ELSE rest[i]] :
                               row \in NewRows(s)}
            BY <1>7, <2>7 DEF Writes, rest, used, changed
        <3>2. PICK row \in NewRows(s) :
                  w = [i \in DOMAIN rest \cup {r.new} |-> IF i = r.new THEN row ELSE rest[i]]
            BY <1>3, <3>1
        <3>3. DOMAIN w = DOMAIN rest \cup {r.new}
            BY <3>2
        <3>4. ASSUME NEW i \in DOMAIN w PROVE i \in Rows /\ Source(s, i, w[i])
            <4>1. CASE i = r.new
                <5>1. w[i] = row /\ i \in Rows
                    BY <1>2, <2>7, <3>2, <4>1 DEF RequestOK, Request
                <5>. QED
                    BY <1>2, <1>7, <2>7, <4>1, <5>1 DEF Source, Made
            <4>2. CASE i # r.new
                <5>1. i \in DOMAIN rest /\ w[i] = rest[i]
                    BY <3>2, <3>4, <4>2
                <5>. QED
                    BY <1>4, <2>4, <3>4, <5>1
            <4>. QED
                BY <4>1, <4>2
        <3>5. Flushes(s, w)
            BY <1>1, <1>3, <1>5, <3>4, FlushFlushes
        <3>. QED
            BY <1>4, <1>7, <2>5, <3>3, <3>5
    <2>. QED
        BY <2>6, <2>7
<1>. QED
    BY <1>6, <1>7

LEMMA SpendFlushes ==
    ASSUME TypeInv, NEW s \in Sessions, Spend(s)
    PROVE  \E w : Flushes(s, w) /\ DOMAIN w = {req[s].key} /\ req[s].key \in Secrets
PROOF
<1> DEFINE k == req[s].key
           w == [i \in {k} |-> Spent(Seen(s, i))]
           mine == [draft[s] EXCEPT ![k] = w[k]]
<1>1. /\ pc[s] = "spend" /\ Exists(Seen(s, k)) /\ Writable(s, k) /\ UNCHANGED db
      /\ draft' = [draft EXCEPT ![s][k] = w[k]]
    BY DEF Spend, Write, Goto
<1>2. RequestOK(req[s], "spend") /\ TypeOK
    BY <1>1 DEF TypeInv, PlacedOK
<1>3. k # NoRow
    BY <1>2, RowNames DEF RequestOK, KeyTable, OpsAt
<1>4. pc[s] # "idle" /\ Certain(s)
    BY <1>1 DEF Certain
<1>5. k \in Secrets /\ k \in Rows /\ db[k] # Absent /\ Seen(s, k).owner = req[s].who
    BY <1>1, <1>3, <1>4, KeyRow, RowNames
<1>6. Source(s, k, w[k])
    BY <1>1, <1>5 DEF Source, UsedUp
<1>7. draft = [o \in Sessions |-> draft[o]] /\ draft[s] = [i \in Rows |-> draft[s][i]]
    BY <1>2 DEF TypeOK
<1>8. mine = [i \in Rows |-> mine[i]] /\ \A i \in Rows : mine[i] = IF i \in DOMAIN w THEN w[i] ELSE draft[s][i]
    BY <1>5, <1>7
<1>9. draft' = [draft EXCEPT ![s] = mine]
    BY <1>1
<1>10. \A i \in DOMAIN w : i \in Rows /\ Writable(s, i) /\ Source(s, i, w[i])
    BY <1>1, <1>5, <1>6
<1>11. DOMAIN w = {k}
    OBVIOUS
<1> HIDE DEF mine, w
<1>12. draft'[s] = mine /\ draft' = [o \in Sessions |-> IF o = s THEN mine ELSE draft[o]]
    BY <1>7, <1>9
<1>13. Flushes(s, w)
    BY <1>1, <1>8, <1>10, <1>12 DEF Flushes
<1>. QED
    BY <1>5, <1>11, <1>13

LEMMA RevokeFlushes ==
    ASSUME TypeInv, NEW s \in Sessions, RevokeAll(s)
    PROVE  \E w : Flushes(s, w) /\ DOMAIN w = LiveTokens(s, req[s].who)
PROOF
<1> DEFINE live == LiveTokens(s, req[s].who)
           w == [i \in live |-> Spent(Seen(s, i))]
<1>1. pc[s] = "revoke" /\ UNCHANGED db /\ Flush(s, w)
    BY DEF RevokeAll, Goto
<1>2. RequestOK(req[s], "revoke") /\ TypeOK
    BY <1>1 DEF TypeInv, PlacedOK
<1>3. req[s].new = NoRow
    BY <1>2 DEF RequestOK, OpsAt, NewTable
<1>4. ASSUME NEW i \in live PROVE i \in Rows /\ Source(s, i, w[i])
    <2>1. i \in Secrets /\ i \in Rows /\ Exists(Seen(s, i)) /\ Seen(s, i).owner = req[s].who
        BY RowNames DEF LiveTokens, Usable
    <2>2. db[i] # Absent
        <3>1. SUFFICES ASSUME draft[s][i] # Unwritten, db[i] = Absent PROVE FALSE
            BY <2>1 DEF Exists, Seen
        <3>2. i = req[s].new
            BY <2>1, <3>1 DEF TypeInv, DraftsOK, Drafted
        <3>. QED
            BY <1>3, <2>1, <3>2, RowNames
    <2>3. w[i] = Spent(Seen(s, i))
        OBVIOUS
    <2>. QED
        BY <2>1, <2>2, <2>3 DEF Source, UsedUp
<1>5. DOMAIN w = live
    OBVIOUS
<1>6. Flushes(s, w)
    BY <1>1, <1>2, <1>4, <1>5, FlushFlushes
<1>. QED
    BY <1>5, <1>6

\* What becomes of a row that is written.
LEMMA SourceRow ==
    ASSUME TypeInv, NEW s \in Sessions, pc[s] # "idle", NEW i \in Rows, NEW row, Source(s, i, row)
    PROVE  /\ row = Gone \/ IsRow(i, row)
           /\ db[i] = Absent => i = req[s].new
           /\ i \in Accounts => i = req[s].who
           /\ row = Gone => Op(s) = "delete"
           /\ i \in Secrets /\ Exists(row) =>
                 /\ row.owner = req[s].who
                 /\ db[i] # Absent => Exists(db[i]) /\ db[i].owner = req[s].who /\ row.used
           /\ i \in Secrets /\ Usable(row) => Made(s, i, row)
PROOF
<1>1. RequestOK(req[s], pc[s]) /\ About(s) /\ TypeOK
    BY DEF TypeInv, PlacedOK
<1>2. req[s].who \in Accounts /\ req[s].op \in Operations
    BY <1>1 DEF RequestOK, Request
<1>3. CASE Deleted(s, i, row)
    <2>1. Op(s) = "delete" /\ row = Gone /\ ~Exists(row) /\ ~Usable(row)
        BY <1>3 DEF Deleted, Exists, Usable
    <2>2. req[s].new = NoRow /\ ~Joining(s)
        BY <1>1, <2>1 DEF RequestOK, NewTable, Op, Joining
    <2>3. CASE i = req[s].who
        BY <1>1, <2>1, <2>2, <2>3 DEF About
    <2>4. CASE i \in Holdings(s, req[s].who)
        <3>1. i \in Secrets /\ Exists(Seen(s, i)) /\ i \notin Accounts
            BY <2>4, TablesApart DEF Holdings
        <3>2. db[i] # Absent
            <4>1. SUFFICES ASSUME draft[s][i] # Unwritten, db[i] = Absent PROVE FALSE
                BY <3>1 DEF Exists, Seen
            <4>2. i = req[s].new
                BY <4>1 DEF TypeInv, DraftsOK, Drafted
            <4>. QED
                BY <2>2, <4>2, RowNames
        <3>. QED
            BY <2>1, <3>1, <3>2
    <2>. QED
        BY <1>3, <2>3, <2>4 DEF Deleted
<1>4. CASE Edited(s, i, row)
    BY <1>2, <1>4, RowKinds, RowsExist, TablesApart DEF Edited, Exists
<1>5. CASE UsedUp(s, i, row)
    <2>1. /\ i \in Secrets /\ i \notin Accounts /\ db[i] # Absent /\ Exists(Seen(s, i))
          /\ Seen(s, i).owner = req[s].who /\ row = Spent(Seen(s, i))
        BY <1>5, TablesApart DEF UsedUp
    <2>2. IsRow(i, Seen(s, i))
        BY <1>1, <2>1, SeenRow
    <2>3. IsRow(i, row) /\ row.owner = req[s].who /\ row.used
        BY <2>1, <2>2, SpentRow
    <2>4. row # Gone /\ ~Usable(row)
        BY <2>3, RowsExist DEF Exists, Usable
    <2>5. Exists(db[i]) /\ db[i].owner = req[s].who
        <3>1. CASE draft[s][i] = Unwritten
            BY <2>1, <3>1 DEF Seen
        <3>2. CASE draft[s][i] # Unwritten
            <4>1. Seen(s, i) = draft[s][i]
                BY <3>2 DEF Seen
            <4>. QED
                BY <2>1, <3>2, <4>1 DEF TypeInv, DraftsOK, Drafted
        <3>. QED
            BY <3>1, <3>2
    <2>. QED
        BY <2>1, <2>3, <2>4, <2>5
<1>6. CASE Made(s, i, row)
    <2>1. /\ RequestOK(req[s], "write") /\ req[s].op # "delete" /\ req[s].new # NoRow
          /\ i = req[s].new /\ row \in NewRows(s)
        BY <1>6 DEF Made, Op
    <2>2. IsRow(i, row) /\ (i \in Secrets => row.owner = req[s].who)
          /\ (i \in Accounts => i = req[s].who)
        BY <2>1, NewRow
    <2>3. db[i] = Absent
        BY <1>1, <2>1 DEF About
    <2>4. row # Gone
        BY <2>2, RowsExist DEF Exists
    <2>. QED
        BY <1>6, <2>1, <2>2, <2>3, <2>4
<1>. QED
    BY <1>3, <1>4, <1>5, <1>6 DEF Source

-----------------------------------------------------------------------------
(* A request goes on *)

Continues(s) ==
    /\ pc[s] # "idle" /\ pc'[s] \in Steps \ {"idle", "code"}
    /\ pc' = [pc EXCEPT ![s] = pc'[s]]
    /\ req' = [req EXCEPT ![s] = req'[s]]
    /\ RequestOK(req'[s], pc'[s])
    /\ req'[s].op = req[s].op /\ req'[s].who = req[s].who /\ req'[s].new = req[s].new
    /\ req'[s].era = req[s].era
    /\ req'[s].key = req[s].key \/ (req[s].op = "resend" /\ pc[s] = "code")
    /\ req'[s].key # NoRow =>
          /\ db[req'[s].key] # Absent
          /\ Exists(db[req'[s].key]) => db[req'[s].key].owner = req[s].who
    /\ UNCHANGED <<db, menu, historyVars>>

\* A step of a request that keeps what it is about.
LEMMA SameRequestContinues ==
    ASSUME TypeInv, NEW s \in Sessions, pc[s] \notin {"idle", "code"},
           NEW step \in Steps \ {"idle", "code"}, Goto(s, step),
           req' = [req EXCEPT ![s] = req'[s]],
           RequestOK(req'[s], step), req'[s].op = req[s].op, req'[s].who = req[s].who,
           req'[s].new = req[s].new, req'[s].key = req[s].key, req'[s].era = req[s].era
    PROVE  Continues(s)
PROOF
<1>1. pc' = [pc EXCEPT ![s] = step] /\ UNCHANGED <<db, menu, historyVars>>
    BY DEF Goto
<1>2. pc \in [Sessions -> Steps]
    BY DEF TypeInv, TypeOK
<1>3. pc'[s] = step
    BY <1>1, <1>2
<1>4. About(s) /\ Certain(s)
    BY DEF TypeInv, PlacedOK, Certain
<1>. QED
    BY <1>1, <1>3, <1>4 DEF Continues, About

LEMMA SpendContinues ==
    ASSUME TypeInv, NEW s \in Sessions, Spend(s)
    PROVE  Continues(s)
PROOF
<1> DEFINE step == IF Op(s) = "logout" THEN "commit" ELSE "owner"
<1>1. pc[s] = "spend" /\ Goto(s, step) /\ UNCHANGED req
    BY DEF Spend
<1>2. RequestOK(req[s], "spend")
    BY <1>1 DEF TypeInv, PlacedOK
<1>3. RequestOK(req[s], step)
    <2>1. req[s].op \in {"refresh", "logout", "verify"}
        BY <1>2 DEF RequestOK, OpsAt
    <2>2. CASE req[s].op = "logout"
        BY <1>2, <2>2 DEF RequestOK, OpsAt, Op, ReadLate, Operations
    <2>3. CASE req[s].op # "logout"
        BY <1>2, <2>1, <2>3 DEF RequestOK, OpsAt, Op, ReadLate, Operations
    <2>. QED
        BY <2>2, <2>3
<1>4. step \in Steps \ {"idle", "code"}
    BY DEF Steps
<1>5. req = [o \in Sessions |-> req[o]]
    BY DEF TypeInv, TypeOK
<1> HIDE DEF step
<1>6. req' = [req EXCEPT ![s] = req'[s]]
    BY <1>1, <1>5
<1>. QED
    BY <1>1, <1>3, <1>4, <1>6, SameRequestContinues

LEMMA UntakenContinues ==
    ASSUME TypeInv, NEW s \in Sessions, Untaken(s)
    PROVE  Continues(s) /\ UNCHANGED draft
PROOF
<1> DEFINE step == IF Op(s) = "confirm" THEN "owner" ELSE "write"
<1>1. pc[s] = "taken" /\ Goto(s, step) /\ UNCHANGED <<draft, req>>
    BY DEF Untaken
<1>2. RequestOK(req[s], "taken")
    BY <1>1 DEF TypeInv, PlacedOK
<1>3. RequestOK(req[s], step)
    <2>1. req[s].op \in {"confirm", "ask", "update"}
        BY <1>2 DEF RequestOK, OpsAt
    <2>2. CASE req[s].op = "confirm"
        BY <1>2, <2>2 DEF RequestOK, OpsAt, Op, ReadLate, Operations
    <2>3. CASE req[s].op # "confirm"
        BY <1>2, <2>1, <2>3 DEF RequestOK, OpsAt, Op, ReadLate, Operations
    <2>. QED
        BY <2>2, <2>3
<1>4. step \in Steps \ {"idle", "code"}
    BY DEF Steps
<1>5. req = [o \in Sessions |-> req[o]]
    BY DEF TypeInv, TypeOK
<1> HIDE DEF step
<1>6. req' = [req EXCEPT ![s] = req'[s]]
    BY <1>1, <1>5
<1>. QED
    BY <1>1, <1>3, <1>4, <1>6, SameRequestContinues

LEMMA OwnerContinues ==
    ASSUME TypeInv, NEW s \in Sessions, Owner(s)
    PROVE  Continues(s) /\ UNCHANGED draft
PROOF
<1> DEFINE me == Seen(s, req[s].who)
           r == req[s]
<1>1. /\ pc[s] = "owner" /\ Exists(me) /\ req' = [req EXCEPT ![s].me = me]
      /\ Goto(s, "write") /\ UNCHANGED draft
    BY DEF Owner
<1>2. RequestOK(r, "owner")
    BY <1>1 DEF TypeInv, PlacedOK
<1>3. r.who \in Accounts /\ r \in Request
    BY <1>2 DEF RequestOK, Request
<1>4. me \in AccountRow
    BY <1>1, <1>3, SeenRow, RowKinds, RowNames DEF TypeInv
<1>5. req = [o \in Sessions |-> req[o]]
    BY DEF TypeInv, TypeOK
<1> HIDE DEF me
<1>6. req'[s] = [r EXCEPT !.me = me] /\ req' = [req EXCEPT ![s] = req'[s]]
    BY <1>1, <1>5
<1>7. /\ req'[s].op = r.op /\ req'[s].who = r.who /\ req'[s].key = r.key
      /\ req'[s].arg = r.arg /\ req'[s].new = r.new /\ req'[s].era = r.era
      /\ req'[s].me = me /\ req'[s] \in Request
    BY <1>3, <1>4, <1>6 DEF Request
<1>8. RequestOK(req'[s], "write")
    <2>1. r.op \in {"refresh", "verify", "reset", "confirm"}
        BY <1>2 DEF RequestOK, OpsAt
    <2>2. NewTable(req'[s]) = NewTable(r)
        BY <1>7, <2>1 DEF NewTable
    <2>3. r.op \in OpsAt("write")
        BY <2>1 DEF OpsAt, Operations
    <2>. QED
        BY <1>2, <1>4, <1>7, <2>1, <2>2, <2>3 DEF RequestOK, ReadLate
<1>. QED
    BY <1>1, <1>6, <1>7, <1>8, SameRequestContinues DEF Steps

LEMMA CodeContinues ==
    ASSUME TypeInv, NEW s \in Sessions, Code(s)
    PROVE  /\ Continues(s) /\ UNCHANGED draft
           /\ req'[s].key # NoRow => Usable(db[req'[s].key])
PROOF
<1> DEFINE r == req[s]
           latest == LatestCode(s, req[s].who, IF Op(s) = "enroll" THEN "enroll" ELSE "login")
<1>1. pc[s] = "code" /\ Goto(s, "write") /\ UNCHANGED draft
    BY DEF Code
<1>2. RequestOK(r, "code") /\ r \in Request
    BY <1>1 DEF TypeInv, PlacedOK, RequestOK
<1>3. req = [o \in Sessions |-> req[o]] /\ pc \in [Sessions -> Steps] /\ TypeOK
    BY DEF TypeInv, TypeOK
<1>4. pc' = [pc EXCEPT ![s] = "write"] /\ pc'[s] = "write" /\ UNCHANGED <<db, menu, historyVars>>
    BY <1>1, <1>3 DEF Goto
<1>5. ASSUME NEW i \in latest
      PROVE  /\ i \in Codes /\ Usable(db[i]) /\ db[i].owner = r.who /\ db[i] # Absent
             /\ Seen(s, i) = db[i] /\ db[i].channel \in Methods
    <2>1. i \in Codes /\ i \in Rows /\ Usable(Seen(s, i)) /\ Seen(s, i).owner = r.who
        BY RowNames DEF LatestCode
    <2>2. draft[s][i] = Unwritten
        BY <1>1, <2>1 DEF TypeInv, DraftsOK, Drafted
    <2>3. Seen(s, i) = db[i]
        BY <2>2 DEF Seen
    <2>4. Exists(db[i])
        BY <2>1, <2>3 DEF Usable
    <2>5. db[i] \in CodeRow
        BY <1>3, <2>1, <2>4, SeenRow, RowKinds
    <2>. QED
        BY <2>1, <2>3, <2>4, <2>5 DEF Exists, CodeRow
<1> HIDE DEF latest
<1>6. CASE /\ Op(s) = "enroll" /\ r.key \in latest
           /\ req' = [req EXCEPT ![s].arg = Seen(s, r.key).channel]
    <2>1. Seen(s, r.key).channel \in Methods
        BY <1>5, <1>6
    <2>2. req'[s] = [r EXCEPT !.arg = Seen(s, r.key).channel] /\ req' = [req EXCEPT ![s] = req'[s]]
        BY <1>3, <1>6
    <2>3. /\ req'[s].op = r.op /\ req'[s].who = r.who /\ req'[s].key = r.key
          /\ req'[s].arg \in Methods /\ req'[s].new = r.new /\ req'[s].era = r.era
          /\ req'[s].me = r.me /\ req'[s] \in Request
        BY <1>2, <2>1, <2>2 DEF Request
    <2>4. RequestOK(req'[s], "write")
        <3>1. r.op = "enroll"
            BY <1>6 DEF Op
        <3>2. NewTable(req'[s]) = NewTable(r)
            BY <2>3, <3>1 DEF NewTable
        <3>3. r.op \in OpsAt("write") /\ req'[s].arg \in Arguments(r.op)
            BY <2>3, <3>1 DEF OpsAt, Operations, Arguments
        <3>. QED
            BY <1>2, <2>3, <3>1, <3>2, <3>3 DEF RequestOK, ReadLate
    <2>5. Usable(db[r.key]) /\ db[r.key].owner = r.who /\ db[r.key] # Absent
        BY <1>5, <1>6
    <2>. QED
        BY <1>1, <1>4, <2>2, <2>3, <2>4, <2>5 DEF Continues, Steps
<1>7. CASE /\ Op(s) = "resend"
           /\ \E i \in IF latest = {} THEN {NoRow} ELSE latest : req' = [req EXCEPT ![s].key = i]
    <2>1. PICK i \in IF latest = {} THEN {NoRow} ELSE latest : req' = [req EXCEPT ![s].key = i]
        BY <1>7
    <2>2. i \in Codes \cup {NoRow} /\ (i # NoRow => i \in latest)
        BY <1>5, <2>1, RowNames
    <2>3. req'[s] = [r EXCEPT !.key = i] /\ req' = [req EXCEPT ![s] = req'[s]]
        BY <1>3, <2>1
    <2>4. /\ req'[s].op = r.op /\ req'[s].who = r.who /\ req'[s].key = i
          /\ req'[s].arg = r.arg /\ req'[s].new = r.new /\ req'[s].era = r.era
          /\ req'[s].me = r.me /\ req'[s] \in Request
        BY <1>2, <2>2, <2>3, RowNames DEF Request
    <2>5. RequestOK(req'[s], "write")
        <3>1. r.op = "resend"
            BY <1>7 DEF Op
        <3>2. NewTable(req'[s]) = NewTable(r)
            BY <2>4, <3>1 DEF NewTable
        <3>3. r.op \in OpsAt("write") /\ i \in KeyTable(r.op)
            BY <2>2, <3>1 DEF OpsAt, Operations, KeyTable
        <3>. QED
            BY <1>2, <2>4, <3>1, <3>2, <3>3 DEF RequestOK, ReadLate
    <2>6. i # NoRow => Usable(db[i]) /\ db[i].owner = r.who /\ db[i] # Absent
        BY <1>5, <2>2
    <2>. QED
        BY <1>1, <1>4, <1>7, <2>3, <2>4, <2>5, <2>6 DEF Continues, Steps, Op
<1>. QED
    BY <1>6, <1>7 DEF Code, latest

LEMMA WriteContinues ==
    ASSUME TypeInv, NEW s \in Sessions, WriteRows(s)
    PROVE  Continues(s)
PROOF
<1> DEFINE step == IF Op(s) = "reset" THEN "revoke" ELSE "commit"
<1>1. pc[s] = "write" /\ Goto(s, step) /\ UNCHANGED req
    BY DEF WriteRows
<1>2. RequestOK(req[s], "write")
    BY <1>1 DEF TypeInv, PlacedOK
<1>3. RequestOK(req[s], step)
    <2>1. req[s].op \in Operations
        BY <1>2 DEF RequestOK, Request
    <2>2. req[s].op \in OpsAt(step)
        BY <2>1 DEF OpsAt, Op
    <2>. QED
        BY <1>2, <2>2 DEF RequestOK
<1>4. step \in Steps \ {"idle", "code"}
    BY DEF Steps
<1>5. req = [o \in Sessions |-> req[o]]
    BY DEF TypeInv, TypeOK
<1> HIDE DEF step
<1>6. req' = [req EXCEPT ![s] = req'[s]]
    BY <1>1, <1>5
<1>. QED
    BY <1>1, <1>3, <1>4, <1>6, SameRequestContinues

LEMMA RevokeContinues ==
    ASSUME TypeInv, NEW s \in Sessions, RevokeAll(s)
    PROVE  Continues(s)
PROOF
<1>1. pc[s] = "revoke" /\ Goto(s, "commit") /\ UNCHANGED req
    BY DEF RevokeAll
<1>2. RequestOK(req[s], "revoke")
    BY <1>1 DEF TypeInv, PlacedOK
<1>3. RequestOK(req[s], "commit")
    <2>1. req[s].op \in Operations
        BY <1>2 DEF RequestOK, Request
    <2>2. req[s].op \in OpsAt("commit")
        BY <2>1 DEF OpsAt
    <2>. QED
        BY <1>2, <2>2 DEF RequestOK
<1>4. req = [o \in Sessions |-> req[o]]
    BY DEF TypeInv, TypeOK
<1>5. req' = [req EXCEPT ![s] = req'[s]]
    BY <1>1, <1>4
<1>. QED
    BY <1>1, <1>3, <1>5, SameRequestContinues DEF Steps

-----------------------------------------------------------------------------
(* A request begins *)

Begins(s, r, step) ==
    /\ Begin(s, r, step) /\ RequestOK(r, step)
    /\ step \in {"spend", "owner", "taken", "code", "write"}
    /\ r.op \notin {"register", "create"} => db[r.who] # Absent
    /\ r.key # NoRow /\ r.op # "enroll" =>
          db[r.key] # Absent /\ Usable(db[r.key]) /\ db[r.key].owner = r.who
    /\ r.new # NoRow =>
          db[r.new] = Absent /\ \A o \in Sessions : pc[o] # "idle" => req[o].new # r.new
    /\ r.op \in {"login", "verify"} => r.era = resets[r.who]
    /\ r.op = "refresh" => r.era = db[r.key].era
    /\ r.op = "enroll" => step = "code"
    /\ r.op \in {"refresh", "verify"} => step = "spend"

LEMMA AskFields ==
    ASSUME NEW op \in Operations, NEW u \in Accounts, NEW key \in Secrets \cup {NoRow},
           NEW arg \in Addresses \cup Passwords \cup Methods \cup {"on", "off", NoRow},
           NEW new \in Rows \cup {NoRow}, resets[u] \in Nat, NEW r, r = Ask(op, u, key, arg, new)
    PROVE  /\ r.op = op /\ r.who = u /\ r.me = db[u] /\ r.key = key /\ r.arg = arg
           /\ r.new = new /\ r.era = resets[u]
           /\ db[u] \in AccountRow \cup {Absent} => r \in Request
PROOF
    BY DEF Ask, Request

\* A request by an account that exists.
LEMMA OwnRequest ==
    ASSUME TypeInv, NEW op \in Operations \ (ReadLate \cup {"register", "create"}),
           NEW u \in Accounts, Exists(db[u]), NEW key \in KeyTable(op), key = NoRow \/ op = "enroll",
           NEW arg, arg \in Arguments(op) \/ (op = "enroll" /\ arg = NoRow),
           NEW step, op \in OpsAt(step), op = "enroll" => step = "code",
           NEW new, new \in NewTable([op |-> op, me |-> db[u], who |-> u]),
           op = "resend" => NeedsCode(db[u])
    PROVE  /\ RequestOK(Ask(op, u, key, arg, new), step) /\ db[u] # Absent
           /\ Ask(op, u, key, arg, new).who = u /\ Ask(op, u, key, arg, new).key = key
           /\ Ask(op, u, key, arg, new).new = new /\ Ask(op, u, key, arg, new).op = op
           /\ Ask(op, u, key, arg, new).era = resets[u]
PROOF
<1> DEFINE r == Ask(op, u, key, arg, new)
<1>1. db[u] \in AccountRow /\ db[u] # Absent
    BY SeenRow, RowKinds, RowNames DEF TypeInv, TypeOK, Exists
<1>2. resets[u] \in Nat
    BY DEF TypeInv, TypeOK
<1>3. key \in Secrets \cup {NoRow}
    BY RowNames DEF KeyTable, ReadLate, Operations
<1>4. arg \in Addresses \cup Passwords \cup Methods \cup {"on", "off", NoRow}
    BY DEF Arguments, ReadLate, Operations
<1>5. new \in Rows \cup {NoRow}
    BY RowNames DEF NewTable, ReadLate, Operations
<1>6. /\ r.op = op /\ r.who = u /\ r.me = db[u] /\ r.key = key /\ r.arg = arg
      /\ r.new = new /\ r.era = resets[u] /\ r \in Request
    BY <1>1, <1>2, <1>3, <1>4, <1>5, AskFields
<1> HIDE DEF r
<1>7. r.new \in NewTable(r)
    BY <1>6 DEF NewTable
<1>8. r.arg \in Arguments(r.op) \/ (r.op = "enroll" /\ step = "code")
    BY <1>6
<1>9. RequestOK(r, step)
    BY <1>1, <1>6, <1>7, <1>8 DEF RequestOK
<1>. QED
    BY <1>1, <1>6, <1>9 DEF r

\* A request by who holds a secret of the account.
LEMMA SecretOwner ==
    ASSUME TypeInv, NEW op \in ReadLate, NEW key \in KeyTable(op), Usable(db[key])
    PROVE  /\ key \in Secrets /\ db[key] # Absent /\ IsRow(key, db[key])
           /\ db[key].owner \in Accounts /\ db[db[key].owner] # Absent
           /\ resets[db[key].owner] \in Nat
PROOF
<1>1. key \in Secrets /\ Exists(db[key])
    BY RowNames DEF KeyTable, ReadLate, Usable
<1>2. IsRow(key, db[key])
    BY <1>1, RowNames DEF TypeInv, TypeOK, Exists
<1>. QED
    BY <1>1, <1>2, RowsExist DEF TypeInv, TypeOK, OwnersKnown, Exists

LEMMA SecretRequest ==
    ASSUME NEW op \in ReadLate, NEW step \in {"spend", "owner", "taken"}, op \in OpsAt(step),
           NEW r \in Request, r.op = op, r.key \in KeyTable(op), r.arg \in Arguments(op),
           r.new \in NewTable([op |-> op])
    PROVE  RequestOK(r, step)
PROOF
<1>1. r.new \in NewTable(r)
    BY DEF NewTable, ReadLate
<1>. QED
    BY <1>1 DEF RequestOK, ReadLate

\* What a request that begins is about.
LEMMA Arrivals ==
    ASSUME TypeInv, NEW s \in Sessions, Arrive(s)
    PROVE  \E r : \E step : Begins(s, r, step)
PROOF
<1> DEFINE NewRowFor(i) ==
        db[i] = Absent /\ \A o \in Sessions : pc[o] # "idle" => req[o].new # i
<1>1. TypeOK /\ \A u \in Accounts : u \in Rows /\ (Active(u) => Exists(db[u]))
    BY RowNames DEF TypeInv, Active
<1>2. \A table : table \subseteq Rows => \A i \in Fresh(table) : i \in table /\ NewRowFor(i)
    BY FreshRow
<1>3. pc \in [Sessions -> Steps] /\ resets \in [Accounts -> Nat]
    BY DEF TypeInv, TypeOK
<1> HIDE DEF NewRowFor
<1>4. ASSUME NEW op \in {"register", "create"}, Join(s, op)
      PROVE  \E r : \E step : Begins(s, r, step)
    <2>1. PICK a \in Addresses, u \in Fresh(Accounts) : Begin(s, Ask(op, u, NoRow, a, u), "write")
        BY <1>4 DEF Join
    <2>2. u \in Accounts /\ NewRowFor(u) /\ u \in Rows
        BY <1>2, RowNames
    <2> DEFINE r == Ask(op, u, NoRow, a, u)
    <2>3. db[u] = Absent /\ resets[u] \in Nat
        BY <1>3, <2>2 DEF NewRowFor
    <2>4. op \in Operations
        BY <1>4 DEF Operations
    <2>5. /\ r.op = op /\ r.who = u /\ r.me = db[u] /\ r.key = NoRow /\ r.arg = a
          /\ r.new = u /\ r \in Request
        BY <2>2, <2>3, <2>4, AskFields
    <2> HIDE DEF r
    <2>6. RequestOK(r, "write")
        BY <1>4, <2>5 DEF RequestOK, OpsAt, Operations, KeyTable, NewTable, Arguments, ReadLate
    <2>7. Begins(s, r, "write")
        BY <1>4, <2>1, <2>2, <2>5, <2>6 DEF Begins, NewRowFor, r
    <2>. QED
        BY <2>7
<1>5. CASE Register(s)
    BY <1>4, <1>5 DEF Register
<1>6. CASE CreateUser(s)
    BY <1>4, <1>6 DEF CreateUser
<1>7. ASSUME NEW op \in Operations \ (ReadLate \cup {"register", "create"}),
             NEW u \in Accounts, Exists(db[u]), NEW key \in KeyTable(op), key = NoRow \/ op = "enroll",
             NEW arg, arg \in Arguments(op) \/ (op = "enroll" /\ arg = NoRow),
             NEW step \in {"spend", "owner", "taken", "code", "write"},
             op \in OpsAt(step), op = "enroll" => step = "code",
             NEW new, new \in NewTable([op |-> op, me |-> db[u], who |-> u]),
             new # NoRow => NewRowFor(new),
             op = "resend" => NeedsCode(db[u]),
             Begin(s, Ask(op, u, key, arg, new), step)
      PROVE  \E r : \E st : Begins(s, r, st)
    <2> DEFINE r == Ask(op, u, key, arg, new)
    <2>1. /\ RequestOK(r, step) /\ db[u] # Absent
          /\ r.who = u /\ r.key = key /\ r.new = new /\ r.op = op /\ r.era = resets[u]
        BY <1>7, OwnRequest
    <2> HIDE DEF r
    <2>2. Begins(s, r, step)
        BY <1>7, <2>1 DEF Begins, NewRowFor, r, ReadLate, Operations
    <2>. QED
        BY <2>2
<1>8. CASE Login(s)
    <2>1. PICK u \in Accounts, p \in Passwords :
              /\ Active(u)
              /\ \E i \in Fresh(IF NeedsCode(db[u]) THEN Codes ELSE Tokens) :
                    Begin(s, Ask("login", u, NoRow, NoRow, i), "write")
        BY <1>8 DEF Login
    <2>2. PICK i \in Fresh(IF NeedsCode(db[u]) THEN Codes ELSE Tokens) :
              Begin(s, Ask("login", u, NoRow, NoRow, i), "write")
        BY <2>1
    <2>3. i \in (IF NeedsCode(db[u]) THEN Codes ELSE Tokens) /\ NewRowFor(i)
        BY <1>2, <2>2, RowNames
    <2>4. i \in NewTable([op |-> "login", me |-> db[u], who |-> u])
        BY <2>3 DEF NewTable
    <2>5. "login" \in Operations \ (ReadLate \cup {"register", "create"}) /\ "login" \in OpsAt("write")
          /\ NoRow \in KeyTable("login") /\ NoRow \in Arguments("login")
        BY DEF Operations, ReadLate, OpsAt, KeyTable, Arguments
    <2>. QED
        BY <1>1, <1>7, <2>1, <2>2, <2>3, <2>4, <2>5
<1>9. CASE ForgotPassword(s)
    <2>1. PICK u \in Accounts, i \in Fresh(Links) :
              Exists(db[u]) /\ Begin(s, Ask("forgot", u, NoRow, NoRow, i), "write")
        BY <1>9 DEF ForgotPassword
    <2>2. i \in Links /\ NewRowFor(i)
        BY <1>2, RowNames
    <2>3. i \in NewTable([op |-> "forgot", me |-> db[u], who |-> u])
        BY <2>2 DEF NewTable
    <2>4. "forgot" \in Operations \ (ReadLate \cup {"register", "create"}) /\ "forgot" \in OpsAt("write")
          /\ NoRow \in KeyTable("forgot") /\ NoRow \in Arguments("forgot")
        BY DEF Operations, ReadLate, OpsAt, KeyTable, Arguments
    <2>. QED
        BY <1>7, <2>1, <2>2, <2>3, <2>4
<1>10. CASE ChangePassword(s)
    <2>1. PICK u \in Accounts, p \in Passwords :
              Active(u) /\ Begin(s, Ask("change", u, NoRow, p, NoRow), "write")
        BY <1>10 DEF ChangePassword
    <2>2. NoRow \in NewTable([op |-> "change", me |-> db[u], who |-> u])
        BY DEF NewTable
    <2>3. "change" \in Operations \ (ReadLate \cup {"register", "create"}) /\ "change" \in OpsAt("write")
          /\ NoRow \in KeyTable("change") /\ p \in Arguments("change")
        BY DEF Operations, ReadLate, OpsAt, KeyTable, Arguments
    <2>. QED
        BY <1>1, <1>7, <2>1, <2>2, <2>3
<1>11. CASE RequestEmailChange(s)
    <2>1. PICK u \in Accounts, a \in Addresses, i \in Fresh(Moves) :
              Active(u) /\ Begin(s, Ask("ask", u, NoRow, a, i), "taken")
        BY <1>11 DEF RequestEmailChange
    <2>2. i \in Moves /\ NewRowFor(i)
        BY <1>2, RowNames
    <2>3. i \in NewTable([op |-> "ask", me |-> db[u], who |-> u])
        BY <2>2 DEF NewTable
    <2>4. "ask" \in Operations \ (ReadLate \cup {"register", "create"}) /\ "ask" \in OpsAt("taken")
          /\ NoRow \in KeyTable("ask") /\ a \in Arguments("ask")
        BY DEF Operations, ReadLate, OpsAt, KeyTable, Arguments
    <2>. QED
        BY <1>1, <1>7, <2>1, <2>2, <2>3, <2>4
<1>12. CASE SetupTwoFactor(s)
    <2>1. PICK u \in Accounts, m \in Methods, i \in Fresh(Codes) :
              Active(u) /\ Begin(s, Ask("setup", u, NoRow, m, i), "write")
        BY <1>12 DEF SetupTwoFactor
    <2>2. i \in Codes /\ NewRowFor(i)
        BY <1>2, RowNames
    <2>3. i \in NewTable([op |-> "setup", me |-> db[u], who |-> u])
        BY <2>2 DEF NewTable
    <2>4. "setup" \in Operations \ (ReadLate \cup {"register", "create"}) /\ "setup" \in OpsAt("write")
          /\ NoRow \in KeyTable("setup") /\ m \in Arguments("setup")
        BY DEF Operations, ReadLate, OpsAt, KeyTable, Arguments
    <2>. QED
        BY <1>1, <1>7, <2>1, <2>2, <2>3, <2>4
<1>13. CASE VerifyTwoFactorSetup(s)
    <2>1. PICK u \in Accounts, c \in Codes :
              Active(u) /\ Begin(s, Ask("enroll", u, c, NoRow, NoRow), "code")
        BY <1>13 DEF VerifyTwoFactorSetup
    <2>2. NoRow \in NewTable([op |-> "enroll", me |-> db[u], who |-> u])
        BY DEF NewTable
    <2>3. "enroll" \in Operations \ (ReadLate \cup {"register", "create"}) /\ "enroll" \in OpsAt("code")
          /\ c \in KeyTable("enroll")
        BY DEF Operations, ReadLate, OpsAt, KeyTable
    <2>. QED
        BY <1>1, <1>7, <2>1, <2>2, <2>3
<1>14. CASE ResendTwoFactorLoginCode(s)
    <2>1. PICK u \in Accounts, i \in Fresh(Codes) :
              /\ Exists(db[u]) /\ NeedsCode(db[u])
              /\ Begin(s, Ask("resend", u, NoRow, NoRow, i), "code")
        BY <1>14 DEF ResendTwoFactorLoginCode
    <2>2. i \in Codes /\ NewRowFor(i)
        BY <1>2, RowNames
    <2>3. i \in NewTable([op |-> "resend", me |-> db[u], who |-> u])
        BY <2>2 DEF NewTable
    <2>4. "resend" \in Operations \ (ReadLate \cup {"register", "create"}) /\ "resend" \in OpsAt("code")
          /\ NoRow \in KeyTable("resend") /\ NoRow \in Arguments("resend")
        BY DEF Operations, ReadLate, OpsAt, KeyTable, Arguments
    <2>. QED
        BY <1>7, <2>1, <2>2, <2>3, <2>4
<1>15. CASE UpdateUser(s)
    <2>1. PICK u \in Accounts, v \in Addresses \cup {"on", "off"} :
              /\ Exists(db[u])
              /\ Begin(s, Ask("update", u, NoRow, v, NoRow),
                       IF v \in Addresses \ {db[u].address} THEN "taken" ELSE "write")
        BY <1>15 DEF UpdateUser
    <2>2. NoRow \in NewTable([op |-> "update", me |-> db[u], who |-> u])
        BY DEF NewTable
    <2>3. "update" \in Operations \ (ReadLate \cup {"register", "create"}) /\ "update" \in OpsAt("write")
          /\ "update" \in OpsAt("taken")
          /\ NoRow \in KeyTable("update") /\ v \in Arguments("update")
        BY DEF Operations, ReadLate, OpsAt, KeyTable, Arguments
    <2>. QED
        BY <1>7, <2>1, <2>2, <2>3
<1>16. CASE DeleteUser(s)
    <2>1. PICK u \in Accounts :
              Exists(db[u]) /\ Begin(s, Ask("delete", u, NoRow, NoRow, NoRow), "write")
        BY <1>16 DEF DeleteUser
    <2>2. NoRow \in NewTable([op |-> "delete", me |-> db[u], who |-> u])
        BY DEF NewTable
    <2>3. "delete" \in Operations \ (ReadLate \cup {"register", "create"}) /\ "delete" \in OpsAt("write")
          /\ NoRow \in KeyTable("delete") /\ NoRow \in Arguments("delete")
        BY DEF Operations, ReadLate, OpsAt, KeyTable, Arguments
    <2>. QED
        BY <1>7, <2>1, <2>2, <2>3
<1>17. ASSUME NEW op \in ReadLate, NEW key \in KeyTable(op), Usable(db[key]),
              NEW arg, arg \in Arguments(op), NEW era \in Nat,
              NEW step \in {"spend", "owner", "taken"}, op \in OpsAt(step),
              op \in {"refresh", "verify"} => step = "spend",
              NEW new, new \in NewTable([op |-> op]), new # NoRow => NewRowFor(new), NEW r,
              \/ /\ r = [Ask(op, db[key].owner, key, arg, new) EXCEPT !.me = Absent]
                 /\ op # "refresh" /\ era = resets[db[key].owner]
              \/ /\ r = [Ask(op, db[key].owner, key, arg, new) EXCEPT !.me = Absent, !.era = era]
                 /\ op # "verify" /\ era = db[key].era,
              Begin(s, r, step)
       PROVE  \E rr : \E st : Begins(s, rr, st)
    <2>1. /\ key \in Secrets /\ db[key] # Absent /\ db[key].owner \in Accounts
          /\ db[db[key].owner] # Absent /\ resets[db[key].owner] \in Nat
        BY <1>17, SecretOwner
    <2>2. op \in Operations
        BY DEF ReadLate, Operations
    <2>3. arg \in Addresses \cup Passwords \cup Methods \cup {"on", "off", NoRow}
        BY <1>17 DEF Arguments, ReadLate
    <2>4. new \in Rows \cup {NoRow}
        BY <1>17, RowNames DEF NewTable, ReadLate
    <2>5. /\ r.op = op /\ r.who = db[key].owner /\ r.key = key /\ r.arg = arg
          /\ r.new = new /\ r.era = era /\ r \in Request
        BY <1>17, <2>1, <2>2, <2>3, <2>4 DEF Ask, Request
    <2>6. RequestOK(r, step)
        BY <1>17, <2>5, SecretRequest
    <2>7. Begins(s, r, step)
        BY <1>17, <2>1, <2>5, <2>6 DEF Begins, NewRowFor, ReadLate
    <2>. QED
        BY <2>7
<1>18. ASSUME NEW t \in Tokens, NEW new, NEW op \in {"refresh", "logout"}, Present(s, op, t, new),
              new \in NewTable([op |-> op]), new # NoRow => NewRowFor(new)
       PROVE  \E r : \E step : Begins(s, r, step)
    <2>1. /\ Usable(db[t])
          /\ Begin(s, [Ask(op, db[t].owner, t, NoRow, new) EXCEPT !.me = Absent,
                                                                 !.era = db[t].era], "spend")
        BY <1>18 DEF Present
    <2>2. db[t] \in TokenRow
        BY <1>1, <2>1, SeenRow, RowKinds, RowNames DEF Usable, TypeOK, Exists
    <2>3. db[t].era \in Nat
        BY <2>2 DEF TokenRow
    <2>4. op \in ReadLate /\ op \in OpsAt("spend") /\ t \in KeyTable(op) /\ NoRow \in Arguments(op)
        BY <1>18 DEF ReadLate, OpsAt, KeyTable, Arguments
    <2>. QED
        BY <1>17, <1>18, <2>1, <2>3, <2>4
<1>19. CASE Refresh(s)
    <2>1. PICK t \in Tokens, i \in Fresh(Tokens) : Present(s, "refresh", t, i)
        BY <1>19 DEF Refresh
    <2>2. i \in Tokens /\ NewRowFor(i)
        BY <1>2, RowNames
    <2>3. i \in NewTable([op |-> "refresh"])
        BY <2>2 DEF NewTable
    <2>. QED
        BY <1>18, <2>1, <2>2, <2>3
<1>20. CASE Logout(s)
    <2>1. NoRow \in NewTable([op |-> "logout"])
        BY DEF NewTable
    <2>. QED
        BY <1>18, <1>20, <2>1 DEF Logout
<1>21. CASE ResetPassword(s)
    <2>1. PICK l \in Links, p \in Passwords : Follow(s, "reset", l, p, "owner")
        BY <1>21 DEF ResetPassword
    <2>2. "reset" \in ReadLate /\ "reset" \in OpsAt("owner") /\ l \in KeyTable("reset")
          /\ p \in Arguments("reset") /\ NoRow \in NewTable([op |-> "reset"])
        BY DEF ReadLate, OpsAt, KeyTable, Arguments, NewTable
    <2>3. resets[db[l].owner] \in Nat
        BY <1>1, <1>3, <2>1, SeenRow, RowsExist, RowNames DEF Follow, Usable, TypeOK, Exists
    <2>. QED
        BY <1>17, <2>1, <2>2, <2>3 DEF Follow
<1>22. CASE ConfirmEmailChange(s)
    <2>1. PICK m \in Moves : Follow(s, "confirm", m, db[m].address, "taken")
        BY <1>22 DEF ConfirmEmailChange
    <2>2. db[m] \in MoveRow
        BY <1>1, <2>1, SeenRow, RowKinds, RowNames DEF Follow, Usable, TypeOK, Exists
    <2>3. db[m].address \in Addresses /\ db[m].owner \in Accounts
        BY <2>2 DEF MoveRow
    <2>4. "confirm" \in ReadLate /\ "confirm" \in OpsAt("taken") /\ m \in KeyTable("confirm")
          /\ db[m].address \in Arguments("confirm") /\ NoRow \in NewTable([op |-> "confirm"])
        BY <2>3 DEF ReadLate, OpsAt, KeyTable, Arguments, NewTable
    <2>. QED
        BY <1>3, <1>17, <2>1, <2>3, <2>4 DEF Follow
<1>23. CASE VerifyTwoFactorLogin(s)
    <2>1. PICK u \in Accounts, c \in Codes, i \in Fresh(Tokens) :
              /\ c \in LatestCode(s, u, "login")
              /\ Begin(s, [Ask("verify", u, c, NoRow, i) EXCEPT !.me = Absent], "spend")
        BY <1>23 DEF VerifyTwoFactorLogin
    <2>2. pc[s] = "idle" /\ c \in Rows
        BY <2>1, RowNames DEF Begin
    <2>3. Seen(s, c) = db[c]
        BY <2>2 DEF TypeInv, DraftsOK, Drafted, Seen
    <2>4. Usable(db[c]) /\ db[c].owner = u
        BY <2>1, <2>3 DEF LatestCode
    <2>5. i \in Tokens /\ NewRowFor(i)
        BY <1>2, RowNames
    <2>6. "verify" \in ReadLate /\ "verify" \in OpsAt("spend") /\ c \in KeyTable("verify")
          /\ NoRow \in Arguments("verify") /\ i \in NewTable([op |-> "verify"])
        BY <2>5 DEF ReadLate, OpsAt, KeyTable, Arguments, NewTable
    <2>. QED
        BY <1>3, <1>17, <2>1, <2>4, <2>5, <2>6
<1>. QED
    BY <1>5, <1>6, <1>8, <1>9, <1>10, <1>11, <1>12, <1>13, <1>14, <1>15, <1>16, <1>19, <1>20,
       <1>21, <1>22, <1>23 DEF Arrive

-----------------------------------------------------------------------------
(* The types are kept *)

Works(s) == Continues(s) /\ \E w : Flushes(s, w)

LEMMA QuietFlushes ==
    ASSUME TypeOK, NEW s \in Sessions, UNCHANGED <<db, draft>>
    PROVE  \E w : Flushes(s, w) /\ DOMAIN w = {}
PROOF
<1> DEFINE w == [i \in {} |-> Gone]
<1>1. DOMAIN w = {}
    OBVIOUS
<1> HIDE DEF w
<1>2. draft = [o \in Sessions |-> draft[o]] /\ draft[s] = [i \in Rows |-> draft[s][i]]
    BY DEF TypeOK
<1>3. Flushes(s, w)
    BY <1>1, <1>2 DEF Flushes
<1>. QED
    BY <1>1, <1>3

\* Every step of a request but its commit is one of these.
LEMMA StepsWork ==
    ASSUME TypeInv, NEW s \in Sessions,
           Spend(s) \/ Untaken(s) \/ Owner(s) \/ Code(s) \/ WriteRows(s) \/ RevokeAll(s)
    PROVE  Works(s)
PROOF
<1>1. TypeOK
    BY DEF TypeInv
<1>2. ASSUME Continues(s), UNCHANGED draft PROVE Works(s)
    BY <1>1, <1>2, QuietFlushes DEF Works, Continues
<1>3. CASE Spend(s)
    BY <1>3, SpendContinues, SpendFlushes DEF Works
<1>4. CASE Untaken(s)
    BY <1>2, <1>4, UntakenContinues
<1>5. CASE Owner(s)
    BY <1>2, <1>5, OwnerContinues
<1>6. CASE Code(s)
    BY <1>2, <1>6, CodeContinues
<1>7. CASE WriteRows(s)
    BY <1>7, WriteContinues, WritesFlush DEF Works
<1>8. CASE RevokeAll(s)
    BY <1>8, RevokeContinues, RevokeFlushes DEF Works
<1>. QED
    BY <1>3, <1>4, <1>5, <1>6, <1>7, <1>8

LEMMA OthersWait ==
    ASSUME TypeInv, NEW s \in Sessions, Continues(s), NEW w, Flushes(s, w),
           NEW o \in Sessions, o # s
    PROVE  pc'[o] = pc[o] /\ req'[o] = req[o] /\ draft'[o] = draft[o]
PROOF
<1>1. pc \in [Sessions -> Steps] /\ req = [x \in Sessions |-> req[x]]
    BY DEF TypeInv, TypeOK
<1>2. pc'[o] = pc[o]
    BY <1>1 DEF Continues
<1>3. req'[o] = req[o]
    BY <1>1 DEF Continues
<1>4. draft'[o] = draft[o]
    BY DEF Flushes
<1>. QED
    BY <1>2, <1>3, <1>4

LEMMA WorkKeepsDrafts ==
    ASSUME TypeInv, NEW s \in Sessions, Continues(s), NEW w, Flushes(s, w)
    PROVE  DraftsOK' /\ Exclusive'
           /\ \A i \in Rows : draft'[s][i] \in {Unwritten, Gone} \/ IsRow(i, draft'[s][i])
PROOF
<1>1. /\ pc[s] # "idle" /\ pc'[s] \notin {"idle", "code"} /\ UNCHANGED db
      /\ req'[s].op = req[s].op /\ req'[s].who = req[s].who /\ req'[s].new = req[s].new
    BY DEF Continues
<1>2. \A o \in Sessions \ {s} : pc'[o] = pc[o] /\ req'[o] = req[o] /\ draft'[o] = draft[o]
    BY OthersWait
<1>3. ASSUME NEW i \in DOMAIN w
      PROVE  i \in Rows /\ draft'[s][i] = w[i] /\ Source(s, i, w[i]) /\ Writable(s, i)
    BY DEF Flushes
<1>4. ASSUME NEW i \in Rows, i \notin DOMAIN w PROVE draft'[s][i] = draft[s][i]
    BY <1>4 DEF Flushes
<1>5. ASSUME NEW i \in Rows PROVE Drafted(s, i)'
    <2>1. CASE i \in DOMAIN w
        <3>1. draft'[s][i] = w[i] /\ Source(s, i, w[i])
            BY <1>3, <2>1
        <3> DEFINE row == w[i]
        <3> HIDE DEF row
        <3>2. /\ db[i] = Absent => i = req[s].new
              /\ i \in Accounts => i = req[s].who
              /\ row = Gone => Op(s) = "delete"
              /\ i \in Secrets /\ Exists(row) =>
                    /\ row.owner = req[s].who
                    /\ db[i] # Absent => Exists(db[i]) /\ db[i].owner = req[s].who /\ row.used
            BY <1>1, <3>1, SourceRow DEF row
        <3>. QED
            BY <1>1, <3>1, <3>2 DEF Drafted, Op, row
    <2>2. CASE i \notin DOMAIN w
        <3>1. draft'[s][i] = draft[s][i] /\ Drafted(s, i)
            BY <1>4, <2>2 DEF TypeInv, DraftsOK
        <3>. QED
            BY <1>1, <3>1 DEF Drafted, Op
    <2>. QED
        BY <2>1, <2>2
<1>6. ASSUME NEW i \in Rows, NEW o \in Sessions, o # s PROVE Drafted(o, i)'
    <2>1. Drafted(o, i)
        BY DEF TypeInv, DraftsOK
    <2>. QED
        BY <1>1, <1>2, <1>6, <2>1 DEF Drafted, Op
<1>7. ASSUME NEW i \in Rows, draft'[s][i] # Unwritten, NEW o \in Sessions \ {s}
      PROVE  draft'[o][i] = Unwritten
    <2>1. draft'[o][i] = draft[o][i]
        BY <1>2
    <2>2. CASE i \in DOMAIN w
        BY <1>3, <2>1, <2>2 DEF Writable
    <2>3. CASE i \notin DOMAIN w
        BY <1>4, <1>7, <2>1, <2>3 DEF TypeInv, Exclusive
    <2>. QED
        BY <2>2, <2>3
<1>8. Exclusive'
    BY <1>2, <1>7 DEF TypeInv, Exclusive
<1>9. \A i \in Rows : draft'[s][i] \in {Unwritten, Gone} \/ IsRow(i, draft'[s][i])
    <2>1. SUFFICES ASSUME NEW i \in Rows
                   PROVE  draft'[s][i] \in {Unwritten, Gone} \/ IsRow(i, draft'[s][i])
        OBVIOUS
    <2>2. CASE i \in DOMAIN w
        <3>1. w[i] = Gone \/ IsRow(i, w[i])
            BY <1>1, <1>3, <2>2, SourceRow
        <3>. QED
            BY <1>3, <2>2, <3>1
    <2>3. CASE i \notin DOMAIN w
        BY <1>4, <2>3 DEF TypeInv, TypeOK
    <2>. QED
        BY <2>2, <2>3
<1>. QED
    BY <1>5, <1>6, <1>8, <1>9 DEF DraftsOK

LEMMA WorkKeepsPlaces ==
    ASSUME TypeInv, NEW s \in Sessions, Continues(s), NEW w, Flushes(s, w)
    PROVE  PlacedOK' /\ NewApart' /\ OwnersKnown'
PROOF
<1>1. /\ pc[s] # "idle" /\ pc'[s] # "idle" /\ UNCHANGED db
      /\ req'[s].op = req[s].op /\ req'[s].who = req[s].who /\ req'[s].new = req[s].new
    BY DEF Continues
<1>2. \A o \in Sessions \ {s} : pc'[o] = pc[o] /\ req'[o] = req[o]
    BY OthersWait
<1>3. RequestOK(req'[s], pc'[s]) /\ About(s)'
    <2>1. About(s)
        BY <1>1 DEF TypeInv, PlacedOK
    <2>. QED
        BY <1>1, <2>1 DEF Continues, About, Joining, Op
<1>4. ASSUME NEW o \in Sessions, o # s, pc'[o] # "idle" PROVE RequestOK(req'[o], pc'[o]) /\ About(o)'
    <2>1. RequestOK(req[o], pc[o]) /\ About(o) /\ pc'[o] = pc[o] /\ req'[o] = req[o]
        BY <1>2, <1>4 DEF TypeInv, PlacedOK
    <2>. QED
        BY <1>1, <2>1 DEF About, Joining, Op, Certain
<1>5. RequestOK(req[s], pc[s])' /\ \A o \in Sessions : pc'[o] # "idle" => RequestOK(req[o], pc[o])'
    BY <1>3, <1>4 DEF RequestOK, NewTable
<1>6. PlacedOK'
    BY <1>3, <1>4, <1>5 DEF PlacedOK
<1>7. NewApart'
    BY <1>1, <1>2 DEF TypeInv, NewApart
<1>. QED
    BY <1>1, <1>6, <1>7 DEF TypeInv, OwnersKnown

LEMMA WorkKeepsTypes ==
    ASSUME TypeInv, NEW s \in Sessions, Works(s)
    PROVE  TypeInv'
PROOF
<1>1. PICK w : Flushes(s, w)
    BY DEF Works
<1>2. Continues(s) /\ TypeOK
    BY DEF Works, TypeInv
<1>3. \A o \in Sessions \ {s} : pc'[o] = pc[o] /\ req'[o] = req[o] /\ draft'[o] = draft[o]
    BY <1>1, <1>2, OthersWait
<1>4. /\ pc' = [pc EXCEPT ![s] = pc'[s]] /\ req' = [req EXCEPT ![s] = req'[s]]
      /\ pc'[s] \in Steps \ {"idle"} /\ req'[s] \in Request
      /\ UNCHANGED <<db, menu, historyVars>>
    BY <1>2 DEF Continues, RequestOK
<1>5. /\ \A i \in Rows : draft'[s][i] \in {Unwritten, Gone} \/ IsRow(i, draft'[s][i])
      /\ DraftsOK' /\ Exclusive'
    BY <1>1, <1>2, WorkKeepsDrafts
<1>6. /\ draft' = [o \in Sessions |-> IF o = s THEN draft'[s] ELSE draft[o]]
      /\ draft'[s] = [i \in Rows |-> draft'[s][i]]
    BY <1>1 DEF Flushes
<1>7. draft' = [o \in Sessions |-> draft'[o]]
    BY <1>6
<1>8. ASSUME NEW o \in Sessions
      PROVE  /\ draft'[o] = [i \in Rows |-> draft'[o][i]]
             /\ \A i \in Rows : draft'[o][i] \in {Unwritten, Gone} \/ IsRow(i, draft'[o][i])
    <2>1. CASE o = s
        BY <1>5, <1>6, <2>1
    <2>2. CASE o # s
        BY <1>2, <1>3, <2>2 DEF TypeOK
    <2>. QED
        BY <2>1, <2>2
<1>9. pc' \in [Sessions -> Steps] /\ req' = [o \in Sessions |-> req'[o]]
    BY <1>2, <1>4 DEF TypeOK
<1>10. ASSUME NEW o \in Sessions
       PROVE  IF pc'[o] = "idle" THEN req'[o] = NoRequest /\ draft'[o] = Blank ELSE req'[o] \in Request
    <2>1. CASE o = s
        BY <1>4, <2>1
    <2>2. CASE o # s
        BY <1>2, <1>3, <2>2 DEF TypeOK
    <2>. QED
        BY <2>1, <2>2
<1>11. TypeOK'
    BY <1>2, <1>4, <1>7, <1>8, <1>9, <1>10 DEF TypeOK, historyVars, Blank
<1>. QED
    BY <1>1, <1>2, <1>5, <1>11, WorkKeepsPlaces DEF TypeInv

LEMMA BeginKeepsTypes ==
    ASSUME TypeInv, NEW s \in Sessions, NEW r, NEW step, Begins(s, r, step)
    PROVE  TypeInv'
PROOF
<1>1. /\ pc[s] = "idle" /\ begun < MaxRequests /\ begun' = begun + 1
      /\ pc' = [pc EXCEPT ![s] = step] /\ req' = [req EXCEPT ![s] = r]
      /\ near' = IF OpenOn(r.who) = {} THEN near ELSE near \cup OpenOn(r.who) \cup {s}
      /\ contested' = IF r.key # NoRow /\ \E o \in OpenOn(r.who) : req[o].key = r.key
                      THEN contested \cup {r.key} ELSE contested
      /\ UNCHANGED <<db, draft, menu, uses, resets, disturbed>>
    BY DEF Begins, Begin, tableVars
<1>2. TypeOK
    BY DEF TypeInv
<1>3. pc \in [Sessions -> Steps] /\ req = [o \in Sessions |-> req[o]]
    BY <1>2 DEF TypeOK
<1>4. pc'[s] = step /\ req'[s] = r /\ step \in Steps \ {"idle"}
    BY <1>1, <1>3 DEF Begins, Steps
<1>5. \A o \in Sessions \ {s} : pc'[o] = pc[o] /\ req'[o] = req[o]
    BY <1>1, <1>3
<1>6. RequestOK(r, step) /\ r \in Request
    BY DEF Begins, RequestOK
<1>7. TypeOK'
    <2>1. pc' \in [Sessions -> Steps] /\ req' = [o \in Sessions |-> req'[o]]
        BY <1>1, <1>3, <1>4
    <2>2. ASSUME NEW o \in Sessions
          PROVE  IF pc'[o] = "idle" THEN req'[o] = NoRequest /\ draft'[o] = Blank
                 ELSE req'[o] \in Request
        BY <1>1, <1>2, <1>4, <1>5, <1>6 DEF TypeOK
    <2>3. begun' \in 0..MaxRequests
        BY <1>1, <1>2, AccountsAssumption DEF TypeOK
    <2>4. near' \subseteq Sessions
        BY <1>1, <1>2 DEF TypeOK, OpenOn
    <2>5. contested' \subseteq Secrets
        BY <1>1, <1>2, <1>6 DEF TypeOK, Request
    <2>. QED
        BY <1>1, <1>2, <2>1, <2>2, <2>3, <2>4, <2>5 DEF TypeOK, Blank
<1>8. ASSUME NEW o \in Sessions, pc'[o] # "idle"
      PROVE  RequestOK(req'[o], pc'[o]) /\ About(o)'
    <2>1. CASE o = s
        <3>1. r.op \notin {"register", "create"} => db[r.who] # Absent
            BY DEF Begins
        <3>2. r.key # NoRow /\ r.op # "enroll" => db[r.key] # Absent /\ db[r.key].owner = r.who
            BY DEF Begins
        <3>3. r.new # NoRow => db[r.new] = Absent
            BY DEF Begins
        <3>4. r.op = "enroll" => step = "code"
            BY DEF Begins
        <3>. QED
            BY <1>1, <1>4, <1>6, <2>1, <3>1, <3>2, <3>3, <3>4 DEF About, Joining, Op, Certain
    <2>2. CASE o # s
        BY <1>1, <1>5, <1>8, <2>2 DEF TypeInv, PlacedOK, About, Joining, Op, Certain
    <2>. QED
        BY <2>1, <2>2
<1>9. PlacedOK'
    BY <1>8 DEF PlacedOK, RequestOK, NewTable
<1>10. DraftsOK'
    <2>1. SUFFICES ASSUME NEW o \in Sessions, NEW i \in Rows PROVE Drafted(o, i)'
        BY DEF DraftsOK
    <2>2. Drafted(o, i)
        BY DEF TypeInv, DraftsOK
    <2>3. CASE o = s
        BY <1>1, <2>2, <2>3 DEF Drafted
    <2>4. CASE o # s
        BY <1>1, <1>5, <2>2, <2>4 DEF Drafted, Op
    <2>. QED
        BY <2>3, <2>4
<1>11. NewApart'
    <2>1. r.new # NoRow => \A o \in Sessions : pc[o] # "idle" => req[o].new # r.new
        BY DEF Begins
    <2>. QED
        BY <1>4, <1>5, <2>1 DEF TypeInv, NewApart
<1>. QED
    BY <1>1, <1>7, <1>9, <1>10, <1>11 DEF TypeInv, Exclusive, OwnersKnown

\* The session is idle, and the others are where they were.
Ends(s) ==
    /\ pc[s] # "idle"
    /\ pc' = [pc EXCEPT ![s] = "idle"] /\ req' = [req EXCEPT ![s] = NoRequest]
    /\ draft' = [draft EXCEPT ![s] = Blank] /\ near' = near \ {s}
    /\ UNCHANGED <<menu, begun, contested>>

LEMMA EndsAlone ==
    ASSUME TypeInv, NEW s \in Sessions, Ends(s)
    PROVE  /\ pc'[s] = "idle" /\ req'[s] = NoRequest /\ draft'[s] = Blank
           /\ \A i \in Rows : draft'[s][i] = Unwritten
           /\ \A o \in Sessions \ {s} : pc'[o] = pc[o] /\ req'[o] = req[o] /\ draft'[o] = draft[o]
           /\ pc' \in [Sessions -> Steps] /\ req' = [o \in Sessions |-> req'[o]]
           /\ draft' = [o \in Sessions |-> draft'[o]]
PROOF
<1>1. /\ pc \in [Sessions -> Steps] /\ req = [o \in Sessions |-> req[o]]
      /\ draft = [o \in Sessions |-> draft[o]]
    BY DEF TypeInv, TypeOK
<1>2. pc'[s] = "idle" /\ pc' \in [Sessions -> Steps] /\ \A o \in Sessions \ {s} : pc'[o] = pc[o]
    BY <1>1 DEF Ends, Steps
<1>3. /\ req'[s] = NoRequest /\ req' = [o \in Sessions |-> req'[o]]
      /\ \A o \in Sessions \ {s} : req'[o] = req[o]
    BY <1>1 DEF Ends
<1>4. /\ draft'[s] = Blank /\ draft' = [o \in Sessions |-> draft'[o]]
      /\ \A o \in Sessions \ {s} : draft'[o] = draft[o]
    BY <1>1 DEF Ends
<1>. QED
    BY <1>2, <1>3, <1>4 DEF Blank

\* What the end of a request leaves of the types, whatever it does to the tables.
LEMMA EndKeepsTypes ==
    ASSUME TypeInv, NEW s \in Sessions, Ends(s),
           db' = [i \in Rows |-> db'[i]],
           \A i \in Rows : db'[i] = db[i] \/ (draft[s][i] # Unwritten /\ db'[i] = draft[s][i]),
           uses' \in [Secrets -> Nat], resets' \in [Accounts -> Nat], disturbed' \subseteq Accounts
    PROVE  TypeInv'
PROOF
<1>1. /\ pc'[s] = "idle" /\ req'[s] = NoRequest /\ draft'[s] = Blank
      /\ \A i \in Rows : draft'[s][i] = Unwritten
      /\ pc' \in [Sessions -> Steps] /\ req' = [o \in Sessions |-> req'[o]]
      /\ draft' = [o \in Sessions |-> draft'[o]]
    BY EndsAlone
<1>2. \A o \in Sessions \ {s} : pc'[o] = pc[o] /\ req'[o] = req[o] /\ draft'[o] = draft[o]
    BY EndsAlone
<1>3. TypeOK /\ pc[s] # "idle" /\ RequestOK(req[s], pc[s]) /\ About(s)
    BY DEF TypeInv, PlacedOK, Ends
<1>4. ASSUME NEW i \in Rows
      PROVE  /\ db'[i] \in {Absent, Gone} \/ IsRow(i, db'[i])
             /\ db[i] # Absent => db'[i] # Absent
             /\ db'[i] # Absent /\ db[i] = Absent => i = req[s].new
    <2>1. CASE db'[i] = db[i]
        BY <1>3, <2>1 DEF TypeOK
    <2>2. CASE draft[s][i] # Unwritten /\ db'[i] = draft[s][i]
        <3>1. draft[s][i] \in {Unwritten, Gone} \/ IsRow(i, draft[s][i])
            BY <1>3 DEF TypeOK
        <3>2. Drafted(s, i)
            BY DEF TypeInv, DraftsOK
        <3>. QED
            BY <2>2, <3>1, <3>2, RowsExist DEF Drafted, Exists
    <2>. QED
        BY <2>1, <2>2
<1>5. TypeOK'
    <2>1. ASSUME NEW o \in Sessions
          PROVE  IF pc'[o] = "idle" THEN req'[o] = NoRequest /\ draft'[o] = Blank
                 ELSE req'[o] \in Request
        BY <1>1, <1>2, <1>3 DEF TypeOK
    <2>2. ASSUME NEW o \in Sessions
          PROVE  /\ draft'[o] = [i \in Rows |-> draft'[o][i]]
                 /\ \A i \in Rows : draft'[o][i] \in {Unwritten, Gone} \/ IsRow(i, draft'[o][i])
        <3>1. CASE o = s
            BY <1>1, <3>1 DEF Blank
        <3>2. CASE o # s
            BY <1>2, <1>3, <3>2 DEF TypeOK
        <3>. QED
            BY <3>1, <3>2
    <2>3. near' \subseteq Sessions
        BY <1>3 DEF Ends, TypeOK
    <2>. QED
        BY <1>1, <1>3, <1>4, <2>1, <2>2, <2>3 DEF TypeOK, Ends, Blank
<1>6. ASSUME NEW o \in Sessions, pc'[o] # "idle"
      PROVE  RequestOK(req'[o], pc'[o]) /\ About(o)'
    <2>1. o # s /\ pc'[o] = pc[o] /\ req'[o] = req[o] /\ pc[o] # "idle"
        BY <1>1, <1>2, <1>6
    <2>2. RequestOK(req[o], pc[o]) /\ About(o)
        BY <2>1 DEF TypeInv, PlacedOK
    <2>3. req[o].who \in Rows
        BY <2>2, RowNames DEF RequestOK, Request
    <2>4. ~Joining(o) => db'[req[o].who] # Absent
        BY <1>4, <2>2, <2>3 DEF About
    <2>5. req[o].new # NoRow => db'[req[o].new] = Absent
        <3>1. SUFFICES ASSUME req[o].new # NoRow, db'[req[o].new] # Absent PROVE FALSE
            OBVIOUS
        <3>2. req[o].new \in Rows /\ db[req[o].new] = Absent
            BY <2>2, <3>1 DEF About, RequestOK, Request
        <3>3. req[o].new = req[s].new
            BY <1>4, <3>1, <3>2
        <3>. QED
            BY <1>3, <2>1, <3>1, <3>3 DEF TypeInv, NewApart
    <2>6. ASSUME req[o].key # NoRow, Certain(o)
          PROVE  /\ db'[req[o].key] # Absent
                 /\ Exists(db'[req[o].key]) => db'[req[o].key].owner = req[o].who
        <3> DEFINE k == req[o].key
        <3>1. k \in Secrets /\ k \in Rows
            BY <2>2, <2>6, RowNames DEF RequestOK, Request
        <3>2. db[k] # Absent /\ (Exists(db[k]) => db[k].owner = req[o].who)
            BY <2>2, <2>6 DEF About
        <3>3. CASE db'[k] = db[k]
            BY <3>2, <3>3
        <3>4. CASE draft[s][k] # Unwritten /\ db'[k] = draft[s][k]
            <4>1. Exists(draft[s][k]) => /\ draft[s][k].owner = req[s].who
                                         /\ Exists(db[k]) /\ db[k].owner = req[s].who
                BY <3>1, <3>2, <3>4 DEF TypeInv, DraftsOK, Drafted
            <4>. QED
                BY <1>4, <3>1, <3>2, <3>4, <4>1
        <3>. QED
            BY <3>1, <3>3, <3>4
    <2>. QED
        BY <2>1, <2>2, <2>4, <2>5, <2>6 DEF About, Joining, Op, Certain
<1>7. PlacedOK'
    BY <1>6 DEF PlacedOK, RequestOK, NewTable
<1>8. DraftsOK'
    <2>1. SUFFICES ASSUME NEW o \in Sessions, NEW i \in Rows, draft'[o][i] # Unwritten
                   PROVE  Drafted(o, i)'
        BY DEF DraftsOK, Drafted
    <2>2. o # s /\ pc'[o] = pc[o] /\ req'[o] = req[o] /\ draft'[o] = draft[o]
        BY <1>1, <1>2, <2>1
    <2>3. draft[s][i] = Unwritten
        BY <2>1, <2>2 DEF TypeInv, Exclusive
    <2>4. db'[i] = db[i]
        BY <2>3
    <2>5. Drafted(o, i)
        BY DEF TypeInv, DraftsOK
    <2>. QED
        BY <2>2, <2>4, <2>5 DEF Drafted, Op
<1>9. NewApart'
    BY <1>1, <1>2 DEF TypeInv, NewApart
<1>10. Exclusive'
    BY <1>1, <1>2 DEF TypeInv, Exclusive
<1>11. OwnersKnown'
    <2>1. SUFFICES ASSUME NEW i \in Secrets, Exists(db'[i]) PROVE db'[db'[i].owner] # Absent
        BY DEF OwnersKnown
    <2>2. i \in Rows /\ i \notin Accounts
        BY RowNames, TablesApart
    <2>3. CASE db'[i] = db[i]
        <3>1. IsRow(i, db[i])
            BY <1>3, <2>1, <2>2, <2>3, SeenRow
        <3>2. db[i].owner \in Rows /\ db[db[i].owner] # Absent
            BY <2>1, <2>3, <3>1, RowsExist, RowNames DEF TypeInv, OwnersKnown
        <3>. QED
            BY <1>4, <2>3, <3>2
    <2>4. CASE draft[s][i] # Unwritten /\ db'[i] = draft[s][i]
        <3>1. Drafted(s, i) /\ req[s].who \in Accounts /\ req[s].who \in Rows
            BY <1>3, <2>2, RowNames DEF TypeInv, DraftsOK, RequestOK, Request
        <3>2. draft[s][i].owner = req[s].who
            BY <2>1, <2>4, <3>1 DEF Drafted
        <3>3. db[req[s].who] # Absent
            <4>1. CASE db[i] # Absent
                <5>1. Exists(db[i]) /\ db[i].owner = req[s].who
                    BY <2>1, <2>4, <3>1, <4>1 DEF Drafted
                <5>. QED
                    BY <5>1 DEF TypeInv, OwnersKnown
            <4>2. CASE db[i] = Absent
                <5>1. i = req[s].new
                    BY <2>4, <3>1, <4>2 DEF Drafted
                <5>2. ~Joining(s)
                    BY <1>3, <2>2, <3>1, <5>1 DEF RequestOK, NewTable, Joining, Op
                <5>. QED
                    BY <1>3, <5>2 DEF About
            <4>. QED
                BY <4>1, <4>2
        <3>. QED
            BY <1>4, <2>4, <3>1, <3>2, <3>3
    <2>. QED
        BY <2>2, <2>3, <2>4
<1>. QED
    BY <1>5, <1>7, <1>8, <1>9, <1>10, <1>11 DEF TypeInv

LEMMA CommitEnds ==
    ASSUME TypeInv, NEW s \in Sessions, Commit(s)
    PROVE  /\ Ends(s) /\ pc[s] = "commit"
           /\ db' = [i \in Rows |-> db'[i]] /\ \A i \in Rows : db'[i] = Seen(s, i)
           /\ uses' = IF Spends(s) THEN [uses EXCEPT ![req[s].key] = @ + 1] ELSE uses
           /\ Op(s) = "reset" =>
                 /\ resets' = [resets EXCEPT ![req[s].who] = @ + 1]
                 /\ disturbed' = IF s \in near THEN disturbed \cup {req[s].who}
                                 ELSE disturbed \ {req[s].who}
           /\ Op(s) # "reset" => UNCHANGED <<resets, disturbed>>
PROOF
<1>1. pc[s] = "commit" /\ CommitRows(s) /\ Leave(s) /\ UNCHANGED <<menu, begun, contested>>
    BY DEF Commit
<1>2. Ends(s)
    BY <1>1 DEF Ends, CommitRows, Leave
<1>3. db' = [i \in Rows |-> Seen(s, i)]
    BY <1>1 DEF CommitRows
<1>4. db' = [i \in Rows |-> db'[i]] /\ \A i \in Rows : db'[i] = Seen(s, i)
    BY <1>3
<1>. QED
    BY <1>1, <1>2, <1>4 DEF Commit

LEMMA AbortEnds ==
    ASSUME NEW s \in Sessions, Abort(s)
    PROVE  Ends(s) /\ UNCHANGED <<db, uses, resets, disturbed>>
PROOF
    BY DEF Abort, Ends, DiscardRows, Leave

LEMMA CommitKeepsTypes ==
    ASSUME TypeInv, NEW s \in Sessions, Commit(s)
    PROVE  TypeInv'
PROOF
<1>1. /\ Ends(s) /\ pc[s] = "commit"
      /\ db' = [i \in Rows |-> db'[i]] /\ \A i \in Rows : db'[i] = Seen(s, i)
      /\ uses' = IF Spends(s) THEN [uses EXCEPT ![req[s].key] = @ + 1] ELSE uses
      /\ Op(s) = "reset" =>
            /\ resets' = [resets EXCEPT ![req[s].who] = @ + 1]
            /\ disturbed' = IF s \in near THEN disturbed \cup {req[s].who}
                            ELSE disturbed \ {req[s].who}
      /\ Op(s) # "reset" => UNCHANGED <<resets, disturbed>>
    BY CommitEnds
<1>2. RequestOK(req[s], "commit")
    BY <1>1 DEF TypeInv, PlacedOK
<1>3. req[s].who \in Accounts /\ req[s].key \in KeyTable(req[s].op)
    BY <1>2 DEF RequestOK, Request
<1>4. Spends(s) => req[s].key \in Secrets
    BY <1>3, RowNames DEF Spends, KeyTable, Op
<1>5. uses \in [Secrets -> Nat] /\ resets \in [Accounts -> Nat] /\ disturbed \subseteq Accounts
    BY DEF TypeInv, TypeOK
<1>6. uses' \in [Secrets -> Nat]
    BY <1>1, <1>4, <1>5
<1>7. resets' \in [Accounts -> Nat] /\ disturbed' \subseteq Accounts
    BY <1>1, <1>3, <1>5
<1>8. \A i \in Rows : db'[i] = db[i] \/ (draft[s][i] # Unwritten /\ db'[i] = draft[s][i])
    BY <1>1 DEF Seen
<1>. QED
    BY <1>1, <1>6, <1>7, <1>8, EndKeepsTypes

LEMMA AbortKeepsTypes ==
    ASSUME TypeInv, NEW s \in Sessions, Abort(s)
    PROVE  TypeInv'
PROOF
<1>1. Ends(s) /\ UNCHANGED <<db, uses, resets, disturbed>>
    BY AbortEnds
<1>2. /\ db = [i \in Rows |-> db[i]] /\ uses \in [Secrets -> Nat] /\ resets \in [Accounts -> Nat]
      /\ disturbed \subseteq Accounts
    BY DEF TypeInv, TypeOK
<1>. QED
    BY <1>1, <1>2, EndKeepsTypes

LEMMA InitTypes == Init => TypeInv
PROOF
<1> SUFFICES ASSUME Init PROVE TypeInv
    OBVIOUS
<1>1. PICK table \in FirstTables :
          db = [i \in Rows |-> IF i \in DOMAIN table THEN table[i] ELSE Absent]
    BY DEF Init
<1>2. /\ DOMAIN table \subseteq Rows /\ \A i \in DOMAIN table : IsRow(i, table[i])
      /\ \A i \in Secrets \cap DOMAIN table : table[i].owner \in DOMAIN table
    BY FirstTablesAssumption
<1>3. /\ db = [i \in Rows |-> db[i]]
      /\ \A i \in Rows : \/ db[i] = Absent /\ i \notin DOMAIN table
                         \/ IsRow(i, db[i]) /\ i \in DOMAIN table
    <2>1. db = [i \in Rows |-> db[i]]
        BY <1>1
    <2>2. \A i \in Rows : db[i] = IF i \in DOMAIN table THEN table[i] ELSE Absent
        BY <1>1
    <2>. QED
        BY <1>2, <2>1, <2>2
<1>4. \A s \in Sessions : pc[s] = "idle" /\ req[s] = NoRequest /\ draft[s] = Blank
    BY DEF Init
<1>5. \A s \in Sessions, i \in Rows : draft[s][i] = Unwritten
    BY <1>4 DEF Blank
<1>6. TypeOK
    <2>1. draft = [s \in Sessions |-> draft[s]] /\ req = [s \in Sessions |-> req[s]]
          /\ pc \in [Sessions -> Steps]
        BY DEF Init, Steps
    <2>2. \A s \in Sessions : draft[s] = [i \in Rows |-> draft[s][i]]
        BY <1>4 DEF Blank
    <2>3. /\ begun \in 0..MaxRequests /\ uses \in [Secrets -> Nat] /\ contested \subseteq Secrets
          /\ near \subseteq Sessions /\ resets \in [Accounts -> Nat] /\ disturbed \subseteq Accounts
          /\ menu \in Menus
        BY AccountsAssumption DEF Init
    <2>. QED
        BY <1>3, <1>4, <1>5, <2>1, <2>2, <2>3 DEF TypeOK
<1>7. OwnersKnown
    <2>1. SUFFICES ASSUME NEW i \in Secrets, Exists(db[i]) PROVE db[db[i].owner] # Absent
        BY DEF OwnersKnown
    <2>2. i \in Rows /\ i \in DOMAIN table
        BY <1>3, <2>1, RowNames DEF Exists
    <2>3. db[i].owner \in DOMAIN table /\ db[i].owner \in Rows
        BY <1>1, <1>2, <2>2
    <2>. QED
        BY <1>3, <2>3, RowsExist DEF Exists
<1>8. PlacedOK /\ DraftsOK /\ Exclusive /\ NewApart
    BY <1>4, <1>5 DEF PlacedOK, DraftsOK, Drafted, Exclusive, NewApart
<1>. QED
    BY <1>6, <1>7, <1>8 DEF TypeInv

\* The steps of a request, as the proofs below tell them apart.
LEMMA Cases ==
    ASSUME TypeInv, [Next]_vars
    PROVE  \/ UNCHANGED vars
           \/ \E s \in Sessions :
                 \/ \E r : \E step : Begins(s, r, step)
                 \/ Spend(s) \/ Untaken(s) \/ Owner(s) \/ Code(s) \/ WriteRows(s) \/ RevokeAll(s)
                 \/ Commit(s) \/ Abort(s)
PROOF
<1>1. ASSUME NEW s \in Sessions, Arrive(s) PROVE \E r : \E step : Begins(s, r, step)
    BY <1>1, Arrivals
<1>. QED
    BY <1>1 DEF Next, Proceed

LEMMA TypesKept == TypeInv /\ [Next]_vars => TypeInv'
PROOF
<1> SUFFICES ASSUME TypeInv, [Next]_vars PROVE TypeInv'
    OBVIOUS
<1>1. CASE UNCHANGED vars
    <2>1. /\ UNCHANGED <<db, draft, pc, req, menu, begun, uses, contested, near, resets, disturbed>>
          /\ TypeOK
        BY <1>1 DEF vars, tableVars, historyVars, TypeInv
    <2>2. TypeOK'
        BY <2>1 DEF TypeOK, Blank
    <2>3. PlacedOK'
        BY <2>1 DEF TypeInv, PlacedOK, RequestOK, NewTable, About, Joining, Op, Certain
    <2>4. DraftsOK'
        BY <2>1 DEF TypeInv, DraftsOK, Drafted, Op
    <2>5. Exclusive' /\ NewApart' /\ OwnersKnown'
        BY <2>1 DEF TypeInv, Exclusive, NewApart, OwnersKnown
    <2>. QED
        BY <2>2, <2>3, <2>4, <2>5 DEF TypeInv
<1>2. ASSUME NEW s \in Sessions, NEW r, NEW step, Begins(s, r, step) PROVE TypeInv'
    BY <1>2, BeginKeepsTypes
<1>3. ASSUME NEW s \in Sessions,
             Spend(s) \/ Untaken(s) \/ Owner(s) \/ Code(s) \/ WriteRows(s) \/ RevokeAll(s)
      PROVE  TypeInv'
    BY <1>3, StepsWork, WorkKeepsTypes
<1>4. ASSUME NEW s \in Sessions, Commit(s) PROVE TypeInv'
    BY <1>4, CommitKeepsTypes
<1>5. ASSUME NEW s \in Sessions, Abort(s) PROVE TypeInv'
    BY <1>5, AbortKeepsTypes
<1>. QED
    BY <1>1, <1>2, <1>3, <1>4, <1>5, Cases

LEMMA TypesAlways == Spec => []TypeInv
PROOF
    BY InitTypes, TypesKept, PTL DEF Spec

\* In every reachable state the tables hold rows of their kinds, and a session that is idle has
\* written nothing (get_db_session closes every transaction).
THEOREM TypeCorrect == Spec => []TypeOK
PROOF
<1>1. TypeInv => TypeOK
    BY DEF TypeInv
<1>. QED
    BY <1>1, TypesAlways, PTL

-----------------------------------------------------------------------------
(* One account per address *)

\* Only the flush of a request writes accounts.
LEMMA AccountsUntouched ==
    ASSUME TypeInv, AddressInv, UNCHANGED db,
           \A o \in Sessions : \A u \in Accounts : draft'[o][u] = draft[o][u]
    PROVE  AddressInv'
PROOF
<1>1. \A o \in Sessions : \A u \in Accounts : Seen(o, u)' = Seen(o, u)
    BY DEF Seen
<1>2. \A u, v \in Accounts : Exists(db'[u]) /\ Exists(db'[v]) /\ db'[u].address = db'[v].address => u = v
    BY DEF AddressInv
<1>3. \A s \in Sessions, u, v \in Accounts :
          Exists(Seen(s, u)') /\ Exists(Seen(s, v)') /\ Seen(s, u)'.address = Seen(s, v)'.address => u = v
    BY <1>1 DEF AddressInv
<1>4. \A s, o \in Sessions, u, v \in Accounts :
          s # o /\ Exists(draft'[s][u]) /\ Exists(draft'[o][v])
                /\ draft'[s][u].address = draft'[o][v].address => u = v
    BY DEF AddressInv
<1>. QED
    BY <1>2, <1>3, <1>4 DEF AddressInv

LEMMA SecretsOnlyFlushed ==
    ASSUME TypeInv, NEW s \in Sessions, NEW w, Flushes(s, w), DOMAIN w \subseteq Secrets
    PROVE  \A o \in Sessions : \A u \in Accounts : draft'[o][u] = draft[o][u]
PROOF
<1>1. \A u \in Accounts : u \in Rows /\ u \notin DOMAIN w
    BY RowNames, TablesApart
<1>2. \A u \in Accounts : draft'[s][u] = draft[s][u]
    BY <1>1 DEF Flushes
<1>3. \A o \in Sessions \ {s} : draft'[o] = draft[o]
    BY DEF Flushes
<1>. QED
    BY <1>2, <1>3

LEMMA WriteKeepsAddresses ==
    ASSUME TypeInv, AddressInv, NEW s \in Sessions, WriteRows(s)
    PROVE  AddressInv'
PROOF
<1>1. PICK w : /\ Flushes(s, w)
               /\ \A i \in DOMAIN w : ~WriteWaits(s, i, w[i]) /\ ~WriteFails(s, i, w[i])
    BY WritesFlush
<1>2. Continues(s) /\ UNCHANGED db /\ pc[s] # "idle" /\ TypeOK
    BY WriteContinues DEF Continues, TypeInv
<1>3. PICK u \in Accounts : u = req[s].who /\ u \in Rows
    BY <1>2, RowNames DEF TypeInv, PlacedOK, RequestOK, Request
<1>4. \A i \in DOMAIN w : i \in Rows /\ Source(s, i, w[i]) /\ draft'[s][i] = w[i]
    BY <1>1 DEF Flushes
<1>5. \A v \in Accounts : v # u => v \notin DOMAIN w
    BY <1>2, <1>3, <1>4, SourceRow
<1>6. \A o \in Sessions \ {s} : draft'[o] = draft[o]
    BY <1>1 DEF Flushes
<1>7. \A v \in Accounts : v # u => draft'[s][v] = draft[s][v]
    BY <1>1, <1>5, RowNames DEF Flushes
<1>8. CASE u \notin DOMAIN w
    <2>1. draft'[s][u] = draft[s][u]
        BY <1>1, <1>3, <1>8 DEF Flushes
    <2>2. \A o \in Sessions : \A v \in Accounts : draft'[o][v] = draft[o][v]
        BY <1>6, <1>7, <2>1
    <2>. QED
        BY <1>2, <2>2, AccountsUntouched
<1>9. CASE u \in DOMAIN w
    <2> DEFINE row == w[u]
    <2>1. ~WriteWaits(s, u, row) /\ ~WriteFails(s, u, row) /\ draft'[s][u] = row
          /\ (row = Gone \/ IsRow(u, row))
        BY <1>1, <1>2, <1>3, <1>4, <1>9, SourceRow
    <2>2. Seen(s, u)' = row
        <3>1. row # Unwritten
            BY <1>3, <2>1, RowsExist DEF Exists
        <3>. QED
            BY <2>1, <3>1 DEF Seen
    <2> HIDE DEF row
    <2>3. \A v \in Accounts : v # u => Seen(s, v)' = Seen(s, v)
        BY <1>2, <1>7 DEF Seen
    <2>4. \A o \in Sessions \ {s} : \A v \in Accounts : Seen(o, v)' = Seen(o, v)
        BY <1>2, <1>6 DEF Seen
    <2>5. ASSUME NEW v \in Accounts, Exists(row), Exists(Seen(s, v)), Seen(s, v).address = row.address
          PROVE  v = u
        <3>1. row # Gone
            BY <2>5 DEF Exists
        <3>2. ~Clashes(s, u, row)
            BY <1>3, <2>1, <3>1 DEF WriteFails
        <3>. QED
            BY <2>5, <3>2 DEF Clashes, Registered
    <2>6. ASSUME NEW o \in Sessions, o # s, NEW v \in Accounts, Exists(row), Exists(draft[o][v]),
                 draft[o][v].address = row.address
          PROVE  v = u
        <3>1. row # Gone /\ draft[o][v] # Unwritten
            BY <2>6 DEF Exists
        <3>2. ~ClashWaits(s, u, row)
            BY <1>3, <2>1, <3>1 DEF WriteWaits
        <3>. QED
            BY <2>6, <3>1, <3>2 DEF ClashWaits
    <2>7. \A v, x \in Accounts :
              Exists(db'[v]) /\ Exists(db'[x]) /\ db'[v].address = db'[x].address => v = x
        BY <1>2 DEF AddressInv
    <2>8. ASSUME NEW o \in Sessions, NEW v \in Accounts, NEW x \in Accounts,
                 Exists(Seen(o, v)'), Exists(Seen(o, x)'), Seen(o, v)'.address = Seen(o, x)'.address
          PROVE  v = x
        <3>1. CASE o # s
            BY <2>4, <2>8, <3>1 DEF AddressInv
        <3>2. CASE o = s /\ v = u /\ x # u
            <4>1. Exists(row) /\ Exists(Seen(s, x)) /\ Seen(s, x).address = row.address
                BY <2>2, <2>3, <2>8, <3>2
            <4>. QED
                BY <2>5, <3>2, <4>1
        <3>3. CASE o = s /\ v # u /\ x = u
            <4>1. Exists(row) /\ Exists(Seen(s, v)) /\ Seen(s, v).address = row.address
                BY <2>2, <2>3, <2>8, <3>3
            <4>. QED
                BY <2>5, <3>3, <4>1
        <3>4. CASE o = s /\ v # u /\ x # u
            BY <2>3, <2>8, <3>4 DEF AddressInv
        <3>. QED
            BY <3>1, <3>2, <3>3, <3>4
    <2>9. ASSUME NEW o \in Sessions, NEW m \in Sessions, o # m, NEW v \in Accounts, NEW x \in Accounts,
                 Exists(draft'[o][v]), Exists(draft'[m][x]), draft'[o][v].address = draft'[m][x].address
          PROVE  v = x
        <3>1. CASE o # s /\ m # s
            BY <1>6, <2>9, <3>1 DEF AddressInv
        <3>2. CASE o = s /\ v = u
            BY <1>6, <2>1, <2>6, <2>9, <3>2 DEF row
        <3>3. CASE m = s /\ x = u
            BY <1>6, <2>1, <2>6, <2>9, <3>3 DEF row
        <3>4. CASE o = s /\ v # u
            BY <1>6, <1>7, <2>9, <3>4 DEF AddressInv
        <3>5. CASE m = s /\ x # u
            BY <1>6, <1>7, <2>9, <3>5 DEF AddressInv
        <3>. QED
            BY <2>9, <3>1, <3>2, <3>3, <3>4, <3>5
    <2>. QED
        BY <2>7, <2>8, <2>9 DEF AddressInv
<1>. QED
    BY <1>8, <1>9

\* What a commit leaves: the rows as the session saw them, under what the others have written.
LEMMA CommitSeen ==
    ASSUME TypeInv, NEW s \in Sessions, Commit(s), NEW i \in Rows
    PROVE  /\ db'[i] = Seen(s, i) /\ Seen(s, i)' = Seen(s, i)
           /\ \A o \in Sessions \ {s} :
                 /\ draft'[o][i] = draft[o][i]
                 /\ draft[o][i] = Unwritten => Seen(o, i)' = Seen(s, i)
                 /\ draft[o][i] # Unwritten =>
                       Seen(o, i)' = draft[o][i] /\ Seen(o, i) = draft[o][i]
           /\ draft[s][i] # Unwritten => Seen(s, i) = draft[s][i]
           /\ draft[s][i] = Unwritten =>
                 Seen(s, i) = db[i] /\ \A o \in Sessions : Seen(o, i)' = Seen(o, i)
PROOF
<1>1. Ends(s) /\ db'[i] = Seen(s, i)
    BY CommitEnds
<1>2. draft'[s][i] = Unwritten /\ \A o \in Sessions \ {s} : draft'[o][i] = draft[o][i]
    BY <1>1, EndsAlone
<1>. QED
    BY <1>1, <1>2 DEF Seen

LEMMA CommitKeepsAddresses ==
    ASSUME TypeInv, AddressInv, NEW s \in Sessions, Commit(s)
    PROVE  AddressInv'
PROOF
<1>1. \A i \in Accounts : i \in Rows
    BY RowNames
<1>2. \A i \in Accounts : db'[i] = Seen(s, i) /\ Seen(s, i)' = Seen(s, i)
    BY <1>1, CommitSeen
<1>3. \A u, v \in Accounts : Exists(db'[u]) /\ Exists(db'[v]) /\ db'[u].address = db'[v].address => u = v
    BY <1>2 DEF AddressInv
<1>4. ASSUME NEW o \in Sessions, o # s, NEW u \in Accounts, NEW v \in Accounts,
             draft[o][u] # Unwritten, draft[o][v] = Unwritten,
             Exists(Seen(o, u)'), Exists(Seen(o, v)'), Seen(o, u)'.address = Seen(o, v)'.address
      PROVE  u = v
    <2>1. /\ Seen(o, u)' = draft[o][u] /\ Seen(o, u) = draft[o][u] /\ Seen(o, v)' = Seen(s, v)
          /\ draft[s][v] # Unwritten => Seen(s, v) = draft[s][v]
          /\ draft[s][v] = Unwritten => Seen(o, v)' = Seen(o, v)
        BY <1>1, <1>4, CommitSeen
    <2>2. CASE draft[s][v] # Unwritten
        BY <1>4, <2>1, <2>2 DEF AddressInv
    <2>3. CASE draft[s][v] = Unwritten
        BY <1>4, <2>1, <2>3 DEF AddressInv
    <2>. QED
        BY <2>2, <2>3
<1>5. ASSUME NEW o \in Sessions, NEW u \in Accounts, NEW v \in Accounts,
             Exists(Seen(o, u)'), Exists(Seen(o, v)'), Seen(o, u)'.address = Seen(o, v)'.address
      PROVE  u = v
    <2>1. CASE o = s
        BY <1>2, <1>5, <2>1 DEF AddressInv
    <2>2. CASE o # s /\ draft[o][u] # Unwritten /\ draft[o][v] = Unwritten
        BY <1>4, <1>5, <2>2
    <2>3. CASE o # s /\ draft[o][u] = Unwritten /\ draft[o][v] # Unwritten
        BY <1>4, <1>5, <2>3
    <2>4. CASE o # s /\ draft[o][u] # Unwritten /\ draft[o][v] # Unwritten
        <3>1. Seen(o, u)' = Seen(o, u) /\ Seen(o, v)' = Seen(o, v)
            BY <1>1, <2>4, CommitSeen
        <3>. QED
            BY <1>5, <3>1 DEF AddressInv
    <2>5. CASE o # s /\ draft[o][u] = Unwritten /\ draft[o][v] = Unwritten
        <3>1. Seen(o, u)' = Seen(s, u) /\ Seen(o, v)' = Seen(s, v)
            BY <1>1, <2>5, CommitSeen
        <3>. QED
            BY <1>5, <3>1 DEF AddressInv
    <2>. QED
        BY <2>1, <2>2, <2>3, <2>4, <2>5
<1>6. \A u \in Accounts : draft'[s][u] = Unwritten /\ \A o \in Sessions \ {s} : draft'[o][u] = draft[o][u]
    BY <1>1, CommitEnds, EndsAlone
<1>7. \A o, m \in Sessions, u, v \in Accounts :
          o # m /\ Exists(draft'[o][u]) /\ Exists(draft'[m][v])
                /\ draft'[o][u].address = draft'[m][v].address => u = v
    BY <1>6 DEF AddressInv, Exists
<1>. QED
    BY <1>3, <1>5, <1>7 DEF AddressInv

\* A rollback: the session sees what is committed.
LEMMA AbortSeen ==
    ASSUME TypeInv, NEW s \in Sessions, Abort(s), NEW i \in Rows
    PROVE  /\ db'[i] = db[i] /\ Seen(s, i)' = db[i] /\ draft'[s][i] = Unwritten
           /\ \A o \in Sessions \ {s} : draft'[o][i] = draft[o][i] /\ Seen(o, i)' = Seen(o, i)
PROOF
<1>1. Ends(s) /\ UNCHANGED db
    BY AbortEnds
<1>2. draft'[s][i] = Unwritten /\ \A o \in Sessions \ {s} : draft'[o][i] = draft[o][i]
    BY <1>1, EndsAlone
<1>. QED
    BY <1>1, <1>2 DEF Seen

LEMMA AbortKeepsAddresses ==
    ASSUME TypeInv, AddressInv, NEW s \in Sessions, Abort(s)
    PROVE  AddressInv'
PROOF
<1>1. \A i \in Accounts :
          /\ db'[i] = db[i] /\ Seen(s, i)' = db[i] /\ draft'[s][i] = Unwritten
          /\ \A o \in Sessions \ {s} : draft'[o][i] = draft[o][i] /\ Seen(o, i)' = Seen(o, i)
    BY RowNames, AbortSeen
<1>2. \A u, v \in Accounts : Exists(db'[u]) /\ Exists(db'[v]) /\ db'[u].address = db'[v].address => u = v
    BY <1>1 DEF AddressInv
<1>3. ASSUME NEW o \in Sessions, NEW u \in Accounts, NEW v \in Accounts,
             Exists(Seen(o, u)'), Exists(Seen(o, v)'), Seen(o, u)'.address = Seen(o, v)'.address
      PROVE  u = v
    <2>1. CASE o = s
        BY <1>1, <1>3, <2>1 DEF AddressInv
    <2>2. CASE o # s
        BY <1>1, <1>3, <2>2 DEF AddressInv
    <2>. QED
        BY <2>1, <2>2
<1>4. \A o, m \in Sessions, u, v \in Accounts :
          o # m /\ Exists(draft'[o][u]) /\ Exists(draft'[m][v])
                /\ draft'[o][u].address = draft'[m][v].address => u = v
    BY <1>1 DEF AddressInv, Exists
<1>. QED
    BY <1>2, <1>3, <1>4 DEF AddressInv

LEMMA InitAddresses == Init => AddressInv
PROOF
<1> SUFFICES ASSUME Init PROVE AddressInv
    OBVIOUS
<1>1. PICK table \in FirstTables :
          db = [i \in Rows |-> IF i \in DOMAIN table THEN table[i] ELSE Absent]
    BY DEF Init
<1>2. \A u, v \in Accounts \cap DOMAIN table : table[u].address = table[v].address => u = v
    BY FirstTablesAssumption
<1>3. \A u \in Accounts : Exists(db[u]) => u \in DOMAIN table /\ db[u] = table[u]
    BY <1>1, RowNames DEF Exists
<1>4. \A s \in Sessions, i \in Accounts : draft[s][i] = Unwritten /\ Seen(s, i) = db[i]
    BY RowNames DEF Init, Blank, Seen
<1>5. \A u, v \in Accounts : Exists(db[u]) /\ Exists(db[v]) /\ db[u].address = db[v].address => u = v
    BY <1>2, <1>3
<1>. QED
    BY <1>4, <1>5 DEF AddressInv, Exists

LEMMA AddressesKept == TypeInv /\ AddressInv /\ [Next]_vars => AddressInv'
PROOF
<1> SUFFICES ASSUME TypeInv, AddressInv, [Next]_vars PROVE AddressInv'
    OBVIOUS
<1>1. ASSUME UNCHANGED <<db, draft>> PROVE AddressInv'
    BY <1>1, AccountsUntouched
<1>2. CASE UNCHANGED vars
    BY <1>1, <1>2 DEF vars, tableVars
<1>3. ASSUME NEW s \in Sessions, NEW r, NEW step, Begins(s, r, step) PROVE AddressInv'
    BY <1>1, <1>3 DEF Begins, Begin, tableVars
<1>4. ASSUME NEW s \in Sessions, Untaken(s) \/ Owner(s) \/ Code(s) PROVE AddressInv'
    BY <1>1, <1>4 DEF Untaken, Owner, Code, Goto
<1>5. ASSUME NEW s \in Sessions, Spend(s) PROVE AddressInv'
    <2>1. PICK w : Flushes(s, w) /\ DOMAIN w \subseteq Secrets
        BY <1>5, SpendFlushes
    <2>. QED
        BY <2>1, SecretsOnlyFlushed, AccountsUntouched DEF Flushes
<1>6. ASSUME NEW s \in Sessions, RevokeAll(s) PROVE AddressInv'
    <2>1. PICK w : Flushes(s, w) /\ DOMAIN w \subseteq Secrets
        BY <1>6, RevokeFlushes, RowNames DEF LiveTokens
    <2>. QED
        BY <2>1, SecretsOnlyFlushed, AccountsUntouched DEF Flushes
<1>7. ASSUME NEW s \in Sessions, WriteRows(s) PROVE AddressInv'
    BY <1>7, WriteKeepsAddresses
<1>8. ASSUME NEW s \in Sessions, Commit(s) PROVE AddressInv'
    BY <1>8, CommitKeepsAddresses
<1>9. ASSUME NEW s \in Sessions, Abort(s) PROVE AddressInv'
    BY <1>9, AbortKeepsAddresses
<1>. QED
    BY <1>2, <1>3, <1>4, <1>5, <1>6, <1>7, <1>8, <1>9, Cases

-----------------------------------------------------------------------------
(* No secret without its owner *)

LEMMA RowsOwned ==
    ASSUME TypeOK, NEW s \in Sessions, NEW i \in Secrets
    PROVE  /\ i \in Rows
           /\ Exists(Seen(s, i)) => Seen(s, i).owner \in Accounts
           /\ Exists(db[i]) => db[i].owner \in Accounts
           /\ Exists(draft[s][i]) => draft[s][i].owner \in Accounts
PROOF
    BY SeenRow, RowsExist, RowNames

\* A flush deletes an account with its secrets or not at all, and makes a secret only for an
\* account that exists and that nobody is deleting.
LEMMA FlushKeepsOwners ==
    ASSUME TypeInv, OwnerInv, NEW s \in Sessions, Continues(s), NEW w, Flushes(s, w),
           \A i \in DOMAIN w : w[i] = Gone =>
               /\ \A j \in DOMAIN w : w[j] = Gone
               /\ Holdings(s, req[s].who) \subseteq DOMAIN w
               /\ i \in Accounts => ~ChildrenWait(s, i),
           \A i \in DOMAIN w : i \in Secrets /\ db[i] = Absent /\ w[i] # Gone =>
               Exists(Seen(s, req[s].who)) /\ ~OwnerWaits(s, req[s].who)
    PROVE  OwnerInv'
PROOF
<1>1. UNCHANGED db /\ pc[s] # "idle" /\ TypeOK
    BY DEF Continues, TypeInv
<1>2. PICK u \in Accounts : u = req[s].who /\ u \in Rows
    BY <1>1, RowNames DEF TypeInv, PlacedOK, RequestOK, Request
<1>3. RequestOK(req[s], pc[s]) /\ About(s)
    BY <1>1 DEF TypeInv, PlacedOK
<1>4. ASSUME NEW i \in DOMAIN w
      PROVE  /\ i \in Rows /\ Source(s, i, w[i]) /\ draft'[s][i] = w[i] /\ Seen(s, i)' = w[i]
             /\ w[i] = Gone \/ (IsRow(i, w[i]) /\ Exists(w[i]))
    <2>1. i \in Rows /\ Source(s, i, w[i]) /\ draft'[s][i] = w[i]
        BY DEF Flushes
    <2>2. w[i] = Gone \/ (IsRow(i, w[i]) /\ Exists(w[i]))
        BY <1>1, <2>1, SourceRow, RowsExist
    <2>3. w[i] # Unwritten
        BY <2>2, RowsExist DEF Exists
    <2>. QED
        BY <2>1, <2>2, <2>3 DEF Seen
<1>5. \A i \in Rows : i \notin DOMAIN w => draft'[s][i] = draft[s][i] /\ Seen(s, i)' = Seen(s, i)
    BY <1>1 DEF Flushes, Seen
<1>6. \A o \in Sessions \ {s} : draft'[o] = draft[o] /\ \A i \in Rows : Seen(o, i)' = Seen(o, i)
    BY <1>1 DEF Flushes, Seen
<1>7. ASSUME NEW v \in Accounts, v \in DOMAIN w PROVE v = u
    BY <1>1, <1>2, <1>4, <1>7, SourceRow
<1>8. ASSUME NEW i \in Secrets, i \in DOMAIN w, Exists(w[i])
      PROVE  /\ w[i].owner = u /\ i \in Rows
             /\ db[i] # Absent => Exists(Seen(s, i)) /\ Seen(s, i).owner = u
    <2>1. Source(s, i, w[i]) /\ i \in Rows
        BY <1>4, <1>8
    <2>2. w[i].owner = u
        BY <1>1, <1>2, <1>8, <2>1, SourceRow
    <2>3. ASSUME db[i] # Absent PROVE Exists(Seen(s, i)) /\ Seen(s, i).owner = u
        <3>1. ~Deleted(s, i, w[i])
            BY <1>8 DEF Deleted, Exists
        <3>2. ~Edited(s, i, w[i])
            BY <1>2, TablesApart DEF Edited
        <3>3. ~Made(s, i, w[i])
            BY <1>3, <2>3 DEF Made, About
        <3>. QED
            BY <1>2, <2>1, <3>1, <3>2, <3>3 DEF Source, UsedUp
    <2>. QED
        BY <2>1, <2>2, <2>3
<1>9. \A i \in Secrets : Exists(db'[i]) => Exists(db'[db'[i].owner])
    BY <1>1 DEF OwnerInv
<1>10. ASSUME NEW i \in Secrets, Exists(Seen(s, i)')
       PROVE  Seen(s, i)'.owner \in Accounts /\ Exists(Seen(s, Seen(s, i).owner)')
    <2>1. CASE i \in DOMAIN w
        <3>1. Seen(s, i)' = w[i] /\ Exists(w[i]) /\ w[i].owner = u /\ w[i] # Gone
            BY <1>4, <1>8, <1>10, <2>1 DEF Exists
        <3>2. CASE u \in DOMAIN w
            <4>1. w[u] # Gone
                BY <2>1, <3>1, <3>2
            <4>2. Exists(Seen(s, u)')
                BY <1>4, <3>2, <4>1
            <4>. QED
                BY <3>1, <4>2
        <3>3. CASE u \notin DOMAIN w
            <4>1. Exists(Seen(s, u))
                <5>1. CASE db[i] = Absent
                    BY <1>2, <2>1, <3>1, <5>1
                <5>2. CASE db[i] # Absent
                    BY <1>8, <2>1, <3>1, <5>2 DEF OwnerInv
                <5>. QED
                    BY <5>1, <5>2
            <4>2. Exists(Seen(s, u)')
                BY <1>2, <1>5, <3>3, <4>1
            <4>. QED
                BY <3>1, <4>2
        <3>. QED
            BY <3>2, <3>3
    <2>2. CASE i \notin DOMAIN w
        <3>1. Seen(s, i)' = Seen(s, i) /\ Exists(Seen(s, i)) /\ i \in Rows
            BY <1>5, <1>10, <2>2, RowNames
        <3>2. PICK v \in Accounts : v = Seen(s, i).owner /\ Exists(Seen(s, v)) /\ v \in Rows
            BY <1>1, <3>1, RowsOwned, RowNames DEF OwnerInv
        <3>3. CASE v \notin DOMAIN w
            BY <1>5, <3>1, <3>2, <3>3
        <3>4. CASE v \in DOMAIN w
            <4>1. v = u
                BY <1>7, <3>4
            <4>2. w[v] # Gone
                <5>1. i \in Holdings(s, u)
                    BY <3>1, <3>2, <4>1 DEF Holdings
                <5>. QED
                    BY <1>2, <2>2, <3>4, <5>1
            <4>3. Exists(Seen(s, v)')
                BY <1>4, <3>4, <4>2
            <4>. QED
                BY <3>1, <3>2, <4>3
        <3>. QED
            BY <3>3, <3>4
    <2>. QED
        BY <2>1, <2>2
<1>11. ASSUME NEW o \in Sessions, o # s, NEW i \in Secrets, Exists(Seen(o, i)')
       PROVE  Exists(Seen(o, Seen(o, i).owner)')
    <2>1. Seen(o, i)' = Seen(o, i) /\ Exists(Seen(o, i))
        BY <1>6, <1>11, RowNames
    <2>2. PICK v \in Accounts : v = Seen(o, i).owner /\ Exists(Seen(o, v)) /\ v \in Rows
        BY <1>1, <2>1, RowsOwned, RowNames DEF OwnerInv
    <2>. QED
        BY <1>6, <1>11, <2>1, <2>2
<1>12. ASSUME NEW a \in Sessions, NEW o \in Sessions, NEW i \in Secrets, a # o, db'[i] = Absent,
              Exists(draft'[o][i])
       PROVE  draft'[a][draft'[o][i].owner] # Gone
    <2>1. db[i] = Absent /\ i \in Rows
        BY <1>1, <1>12, RowNames
    <2>2. CASE o = s /\ i \in DOMAIN w
        <3>1. draft'[s][i] = w[i] /\ w[i].owner = u /\ w[i] # Gone
            BY <1>4, <1>8, <1>12, <2>2 DEF Exists
        <3>2. ~OwnerWaits(s, u)
            BY <1>2, <2>1, <2>2, <3>1
        <3>3. draft[a][u] # Gone
            BY <1>12, <2>2, <3>2, RowsExist DEF OwnerWaits, KeyChanged
        <3>. QED
            BY <1>6, <1>12, <2>2, <3>1, <3>3
    <2>3. CASE o = s /\ i \notin DOMAIN w
        BY <1>5, <1>6, <1>12, <2>1, <2>3 DEF OwnerInv
    <2>4. CASE o # s /\ a # s
        BY <1>6, <1>12, <2>1, <2>4 DEF OwnerInv
    <2>5. CASE o # s /\ a = s
        <3>1. draft'[o][i] = draft[o][i]
            BY <1>6, <2>5
        <3>2. PICK v \in Accounts : v = draft[o][i].owner /\ v \in Rows
            BY <1>1, <1>12, <3>1, RowsOwned, RowNames
        <3>3. CASE v \notin DOMAIN w
            BY <1>5, <1>12, <2>1, <2>5, <3>1, <3>2, <3>3 DEF OwnerInv
        <3>4. CASE v \in DOMAIN w
            <4>1. w[v] # Gone
                <5>1. SUFFICES ASSUME w[v] = Gone PROVE FALSE
                    OBVIOUS
                <5>2. ~ChildrenWait(s, v)
                    BY <3>4, <5>1
                <5>. QED
                    BY <1>12, <2>1, <2>5, <3>1, <3>2, <5>2 DEF ChildrenWait
            <4>. QED
                BY <1>4, <2>5, <3>1, <3>2, <3>4, <4>1
        <3>. QED
            BY <3>3, <3>4
    <2>. QED
        BY <2>2, <2>3, <2>4, <2>5
<1>13. \A o \in Sessions, i \in Secrets : Exists(Seen(o, i)') => Exists(Seen(o, Seen(o, i).owner)')
    BY <1>10, <1>11
<1>. QED
    BY <1>9, <1>12, <1>13 DEF OwnerInv

\* Two sessions that have both written can both commit: if s deletes an account, the other has
\* no secret of it.
LEMMA NoneOrphaned ==
    ASSUME TypeInv, OwnerInv, NEW s \in Sessions, NEW o \in Sessions, o # s, NEW u \in Accounts,
           draft[s][u] = Gone, NEW i \in Secrets,
           \/ draft[o][i] # Unwritten /\ Exists(draft[o][i]) /\ draft[o][i].owner = u
           \/ draft[o][i] = Unwritten /\ draft[s][i] = Unwritten /\ Exists(db[i]) /\ db[i].owner = u
    PROVE  FALSE
PROOF
<1>1. TypeOK /\ i \in Rows /\ u \in Rows
    BY RowNames DEF TypeInv
<1>2. Seen(s, u) = Gone /\ ~Exists(Seen(s, u))
    BY RowsExist DEF Seen, Exists
<1>3. CASE draft[o][i] # Unwritten /\ Exists(draft[o][i]) /\ draft[o][i].owner = u
    <2>1. db[i] # Absent
        BY <1>3 DEF OwnerInv
    <2>2. Drafted(o, i)
        BY <1>1 DEF TypeInv, DraftsOK
    <2>3. Exists(db[i]) /\ db[i].owner = u
        BY <1>3, <2>1, <2>2 DEF Drafted
    <2>4. draft[s][i] = Unwritten
        BY <1>1, <1>3 DEF TypeInv, Exclusive
    <2>5. Seen(s, i) = db[i]
        BY <2>4 DEF Seen
    <2>. QED
        BY <1>2, <2>3, <2>5 DEF OwnerInv
<1>4. CASE draft[o][i] = Unwritten /\ draft[s][i] = Unwritten /\ Exists(db[i]) /\ db[i].owner = u
    <2>1. Seen(s, i) = db[i]
        BY <1>4 DEF Seen
    <2>. QED
        BY <1>2, <1>4, <2>1 DEF OwnerInv
<1>. QED
    BY <1>3, <1>4

LEMMA CommitKeepsOwners ==
    ASSUME TypeInv, OwnerInv, NEW s \in Sessions, Commit(s)
    PROVE  OwnerInv'
PROOF
<1>1. TypeOK /\ \A i \in Accounts \cup Secrets : i \in Rows
    BY RowNames DEF TypeInv
<1>2. \A i \in Rows : db'[i] = Seen(s, i) /\ Seen(s, i)' = Seen(s, i)
    BY CommitSeen
<1>3. \A i \in Secrets : Exists(Seen(s, i)) =>
          Seen(s, i).owner \in Accounts /\ Exists(Seen(s, Seen(s, i).owner))
    BY <1>1, RowsOwned DEF OwnerInv
<1>4. \A i \in Secrets : Exists(db'[i]) => Exists(db'[db'[i].owner])
    BY <1>1, <1>2, <1>3
<1>5. \A i \in Secrets : Exists(Seen(s, i)') => Exists(Seen(s, Seen(s, i).owner)')
    BY <1>1, <1>2, <1>3
<1>6. ASSUME NEW o \in Sessions, o # s, NEW i \in Secrets, Exists(Seen(o, i)')
      PROVE  Exists(Seen(o, Seen(o, i).owner)')
    <2>1. i \in Rows /\ /\ draft[o][i] = Unwritten => Seen(o, i)' = Seen(s, i)
                        /\ draft[o][i] # Unwritten => Seen(o, i)' = draft[o][i] /\ Seen(o, i) = draft[o][i]
                        /\ draft[s][i] # Unwritten => Seen(s, i) = draft[s][i]
                        /\ draft[s][i] = Unwritten => Seen(s, i) = db[i]
        BY <1>1, <1>6, CommitSeen
    <2>2. PICK u \in Accounts : u = Seen(o, i)'.owner
        <3>1. CASE draft[o][i] = Unwritten
            BY <1>3, <1>6, <2>1, <3>1
        <3>2. CASE draft[o][i] # Unwritten
            BY <1>1, <1>6, <2>1, <3>2, RowsOwned
        <3>. QED
            BY <3>1, <3>2
    <2>3. /\ draft[o][u] = Unwritten => Seen(o, u)' = Seen(s, u)
          /\ draft[o][u] # Unwritten => Seen(o, u)' = draft[o][u] /\ Seen(o, u) = draft[o][u]
          /\ draft[s][u] # Unwritten => Seen(s, u) = draft[s][u]
          /\ draft[s][u] = Unwritten => Seen(s, u) = db[u] /\ Seen(o, u)' = Seen(o, u)
        BY <1>1, <1>6, CommitSeen
    <2>4. Exists(Seen(o, u)')
        <3>1. CASE draft[o][i] # Unwritten
            <4>1. Seen(o, i) = draft[o][i] /\ Exists(draft[o][i]) /\ draft[o][i].owner = u
                BY <1>6, <2>1, <2>2, <3>1
            <4>2. Exists(Seen(o, u))
                BY <4>1 DEF OwnerInv
            <4>3. draft[s][u] # Gone
                BY <1>6, <3>1, <4>1, NoneOrphaned
            <4>4. CASE draft[o][u] # Unwritten
                BY <2>3, <4>2, <4>4
            <4>5. CASE draft[o][u] = Unwritten /\ draft[s][u] = Unwritten
                BY <2>3, <4>2, <4>5
            <4>6. CASE draft[o][u] = Unwritten /\ draft[s][u] # Unwritten
                BY <1>1, <2>3, <4>3, <4>6, SeenRow
            <4>. QED
                BY <4>4, <4>5, <4>6
        <3>2. CASE draft[o][i] = Unwritten
            <4>1. Exists(Seen(s, i)) /\ Seen(s, i).owner = u /\ Exists(Seen(s, u))
                BY <1>3, <1>6, <2>1, <2>2, <3>2
            <4>2. draft[o][u] # Gone
                <5>1. CASE draft[s][i] # Unwritten
                    BY <1>6, <2>1, <4>1, <5>1, NoneOrphaned
                <5>2. CASE draft[s][i] = Unwritten
                    BY <1>6, <2>1, <3>2, <4>1, <5>2, NoneOrphaned
                <5>. QED
                    BY <5>1, <5>2
            <4>3. CASE draft[o][u] = Unwritten
                BY <2>3, <4>1, <4>3
            <4>4. CASE draft[o][u] # Unwritten
                BY <1>1, <2>3, <4>2, <4>4, SeenRow
            <4>. QED
                BY <4>3, <4>4
        <3>. QED
            BY <3>1, <3>2
    <2>. QED
        BY <2>2, <2>4
<1>7. ASSUME NEW a \in Sessions, NEW o \in Sessions, NEW i \in Secrets, a # o, db'[i] = Absent,
             Exists(draft'[o][i])
      PROVE  draft'[a][draft'[o][i].owner] # Gone
    <2>1. Ends(s)
        BY CommitEnds
    <2>2. (\A j \in Rows : draft'[s][j] = Unwritten) /\ \A m \in Sessions \ {s} : draft'[m] = draft[m]
        BY <2>1, EndsAlone
    <2>3. o # s
        BY <1>1, <1>7, <2>2 DEF Exists
    <2>4. draft'[o][i] = draft[o][i] /\ draft[o][i].owner \in Accounts /\ draft[o][i].owner \in Rows
        BY <1>1, <1>7, <2>2, <2>3, RowsOwned
    <2>5. db[i] = Absent
        BY <1>1, <1>2, <1>7, SeenRow
    <2>6. CASE a = s
        BY <2>2, <2>4, <2>6, RowsExist
    <2>7. CASE a # s
        BY <1>7, <2>2, <2>4, <2>5, <2>7 DEF OwnerInv
    <2>. QED
        BY <2>6, <2>7
<1>. QED
    BY <1>4, <1>5, <1>6, <1>7 DEF OwnerInv

LEMMA AbortKeepsOwners ==
    ASSUME TypeInv, OwnerInv, NEW s \in Sessions, Abort(s)
    PROVE  OwnerInv'
PROOF
<1>1. TypeOK /\ \A i \in Accounts \cup Secrets : i \in Rows
    BY RowNames DEF TypeInv
<1>2. \A i \in Rows :
          /\ db'[i] = db[i] /\ Seen(s, i)' = db[i] /\ draft'[s][i] = Unwritten
          /\ \A o \in Sessions \ {s} : draft'[o][i] = draft[o][i] /\ Seen(o, i)' = Seen(o, i)
    BY AbortSeen
<1>3. \A i \in Secrets : Exists(db[i]) => db[i].owner \in Accounts /\ Exists(db[db[i].owner])
    BY <1>1, RowsOwned DEF OwnerInv
<1>4. \A i \in Secrets : Exists(Seen(s, i)') => Exists(Seen(s, Seen(s, i).owner)')
    BY <1>1, <1>2, <1>3
<1>5. ASSUME NEW o \in Sessions, o # s, NEW i \in Secrets, Exists(Seen(o, i)')
      PROVE  Exists(Seen(o, Seen(o, i).owner)')
    <2>1. Seen(o, i)' = Seen(o, i)
        BY <1>1, <1>2, <1>5
    <2>2. Seen(o, i).owner \in Accounts /\ Exists(Seen(o, Seen(o, i).owner))
        BY <1>1, <1>5, <2>1, RowsOwned DEF OwnerInv
    <2>. QED
        BY <1>1, <1>2, <1>5, <2>1, <2>2
<1>6. ASSUME NEW a \in Sessions, NEW o \in Sessions, NEW i \in Secrets, a # o, db'[i] = Absent,
             Exists(draft'[o][i])
      PROVE  draft'[a][draft'[o][i].owner] # Gone
    <2>1. o # s /\ draft'[o][i] = draft[o][i] /\ db[i] = Absent
        BY <1>1, <1>2, <1>6 DEF Exists
    <2>2. PICK u \in Accounts : u = draft[o][i].owner
        BY <1>1, <1>6, <2>1, RowsOwned
    <2>3. CASE a = s
        BY <1>1, <1>2, <2>1, <2>2, <2>3, RowsExist
    <2>4. CASE a # s
        BY <1>1, <1>2, <1>6, <2>1, <2>2, <2>4 DEF OwnerInv
    <2>. QED
        BY <2>3, <2>4
<1>7. \A i \in Secrets : Exists(db'[i]) => Exists(db'[db'[i].owner])
    BY <1>1, <1>2, <1>3
<1>. QED
    BY <1>4, <1>5, <1>6, <1>7 DEF OwnerInv

LEMMA InitOwners == Init => OwnerInv
PROOF
<1> SUFFICES ASSUME Init PROVE OwnerInv
    OBVIOUS
<1>1. PICK table \in FirstTables :
          db = [i \in Rows |-> IF i \in DOMAIN table THEN table[i] ELSE Absent]
    BY DEF Init
<1>2. /\ DOMAIN table \subseteq Rows /\ \A i \in DOMAIN table : IsRow(i, table[i])
      /\ \A i \in Secrets \cap DOMAIN table : table[i].owner \in DOMAIN table
    BY FirstTablesAssumption
<1>3. \A s \in Sessions, i \in Rows : draft[s][i] = Unwritten /\ Seen(s, i) = db[i]
    BY DEF Init, Blank, Seen
<1>4. ASSUME NEW i \in Secrets, Exists(db[i])
      PROVE  i \in Rows /\ db[i].owner \in Rows /\ Exists(db[db[i].owner])
    <2>1. i \in Rows /\ i \in DOMAIN table /\ db[i] = table[i]
        BY <1>1, <1>4, RowNames DEF Exists
    <2>2. PICK u \in DOMAIN table : u = db[i].owner /\ u \in Rows
        BY <1>2, <2>1
    <2>3. Exists(db[u])
        BY <1>1, <1>2, <2>2, RowsExist
    <2>. QED
        BY <2>1, <2>2, <2>3
<1>. QED
    BY <1>3, <1>4, RowNames DEF OwnerInv, Exists

LEMMA OwnersKept == TypeInv /\ OwnerInv /\ [Next]_vars => OwnerInv'
PROOF
<1> SUFFICES ASSUME TypeInv, OwnerInv, [Next]_vars PROVE OwnerInv'
    OBVIOUS
<1>1. ASSUME UNCHANGED <<db, draft>> PROVE OwnerInv'
    BY <1>1 DEF OwnerInv, Seen
<1>2. CASE UNCHANGED vars
    BY <1>1, <1>2 DEF vars, tableVars
<1>3. ASSUME NEW s \in Sessions, NEW r, NEW step, Begins(s, r, step) PROVE OwnerInv'
    BY <1>1, <1>3 DEF Begins, Begin, tableVars
<1>4. ASSUME NEW s \in Sessions, Untaken(s) \/ Owner(s) \/ Code(s) PROVE OwnerInv'
    BY <1>1, <1>4 DEF Untaken, Owner, Code, Goto
<1>5. ASSUME NEW s \in Sessions, NEW w, Continues(s), Flushes(s, w), Op(s) # "delete",
             \A i \in DOMAIN w : db[i] # Absent
      PROVE  OwnerInv'
    <2>1. \A i \in DOMAIN w : w[i] # Gone
        BY <1>5, SourceRow DEF Flushes, Continues
    <2>. QED
        BY <1>5, <2>1, FlushKeepsOwners
<1>6. ASSUME NEW s \in Sessions, Spend(s) PROVE OwnerInv'
    <2>1. PICK w : Flushes(s, w) /\ DOMAIN w = {req[s].key} /\ req[s].key \in Secrets
        BY <1>6, SpendFlushes
    <2>2. pc[s] = "spend" /\ RequestOK(req[s], pc[s])
        BY <1>6 DEF Spend, TypeInv, PlacedOK
    <2>3. Op(s) # "delete"
        BY <2>2 DEF RequestOK, OpsAt, Op
    <2>4. db[req[s].key] # Absent
        BY <2>1, <2>2, KeyRow, RowNames DEF Certain
    <2>. QED
        BY <1>5, <1>6, <2>1, <2>3, <2>4, SpendContinues
<1>7. ASSUME NEW s \in Sessions, RevokeAll(s) PROVE OwnerInv'
    <2>1. PICK w : Flushes(s, w) /\ DOMAIN w = LiveTokens(s, req[s].who)
        BY <1>7, RevokeFlushes
    <2>2. pc[s] = "revoke" /\ RequestOK(req[s], pc[s])
        BY <1>7 DEF RevokeAll, TypeInv, PlacedOK
    <2>3. Op(s) = "reset" /\ req[s].new = NoRow
        BY <2>2 DEF RequestOK, OpsAt, NewTable, Op
    <2>4. \A i \in DOMAIN w : db[i] # Absent
        BY <2>1, <2>2, <2>3, SourceRow, RowNames DEF Flushes
    <2>. QED
        BY <1>5, <1>7, <2>1, <2>3, <2>4, RevokeContinues
<1>8. ASSUME NEW s \in Sessions, WriteRows(s) PROVE OwnerInv'
    <2>1. PICK w : /\ Flushes(s, w)
                   /\ \A i \in DOMAIN w : ~WriteWaits(s, i, w[i]) /\ ~WriteFails(s, i, w[i])
                   /\ Op(s) = "delete" =>
                         /\ DOMAIN w = {req[s].who} \cup Holdings(s, req[s].who)
                         /\ \A i \in DOMAIN w : w[i] = Gone
        BY <1>8, WritesFlush
    <2>2. Continues(s) /\ pc[s] # "idle" /\ RequestOK(req[s], pc[s]) /\ About(s)
        BY <1>8, WriteContinues DEF Continues, TypeInv, PlacedOK
    <2>3. ASSUME NEW i \in DOMAIN w, w[i] = Gone
          PROVE  /\ \A j \in DOMAIN w : w[j] = Gone
                 /\ Holdings(s, req[s].who) \subseteq DOMAIN w
                 /\ i \in Accounts => ~ChildrenWait(s, i)
        <3>1. i \in Rows /\ Source(s, i, w[i])
            BY <2>1 DEF Flushes
        <3>2. Op(s) = "delete" /\ (i \in Accounts => i = req[s].who)
            BY <2>2, <2>3, <3>1, SourceRow
        <3>3. i \in Accounts => db[i] # Absent
            BY <2>2, <3>2 DEF About, Joining
        <3>4. i \in Accounts => ~ChildrenWait(s, i)
            BY <2>1, <2>3, <3>3 DEF WriteWaits, KeyChanged
        <3>. QED
            BY <2>1, <3>2, <3>4
    <2>4. ASSUME NEW i \in DOMAIN w, i \in Secrets, db[i] = Absent, w[i] # Gone
          PROVE  Exists(Seen(s, req[s].who)) /\ ~OwnerWaits(s, req[s].who)
        BY <2>1, <2>4, TablesApart DEF WriteWaits, WriteFails
    <2>. QED
        BY <2>1, <2>2, <2>3, <2>4, FlushKeepsOwners
<1>9. ASSUME NEW s \in Sessions, Commit(s) PROVE OwnerInv'
    BY <1>9, CommitKeepsOwners
<1>10. ASSUME NEW s \in Sessions, Abort(s) PROVE OwnerInv'
    BY <1>10, AbortKeepsOwners
<1>. QED
    BY <1>2, <1>3, <1>4, <1>6, <1>7, <1>8, <1>9, <1>10, Cases

\* No two accounts ever have the same address, whatever registrations, confirmed changes and
\* edits overlap, and no secret outlives its account (get_by_email, ON DELETE CASCADE).
THEOREM AlwaysOneAccountPerAddress == Spec => []OneAccountPerAddress
PROOF
<1> DEFINE Inv == TypeInv /\ AddressInv /\ OwnerInv
<1>1. Init => Inv
    BY InitTypes, InitAddresses, InitOwners
<1>2. Inv /\ [Next]_vars => Inv'
    BY TypesKept, AddressesKept, OwnersKept
<1>3. Inv => OneAccountPerAddress
    BY DEF AddressInv, OwnerInv, OneAccountPerAddress
<1>. QED
    BY <1>1, <1>2, <1>3, PTL DEF Spec

-----------------------------------------------------------------------------
(***************************************************************************)
(* Secrets are spent once.  A secret that has been spent is in the         *)
(* database, is not usable there and is in the hands of no open request    *)
(* that has found it; and of two open requests with the same secret the    *)
(* secret is contested.                                                    *)
(***************************************************************************)

LEMMA FlushStays ==
    ASSUME TypeInv, NEW s \in Sessions, pc[s] # "idle", NEW w, Flushes(s, w), NEW i \in Rows,
           i \in DOMAIN w \/ draft[s][i] # Unwritten
    PROVE  draft'[s][i] # Unwritten
PROOF
<1>1. CASE i \in DOMAIN w
    <2>1. draft'[s][i] = w[i] /\ Source(s, i, w[i])
        BY <1>1 DEF Flushes
    <2>2. w[i] = Gone \/ IsRow(i, w[i])
        BY <2>1, SourceRow
    <2>. QED
        BY <2>1, <2>2, RowsExist DEF Exists
<1>2. CASE i \notin DOMAIN w
    BY <1>2 DEF Flushes
<1>. QED
    BY <1>1, <1>2

LEMMA ClaimedKey ==
    ASSUME TypeInv, NEW s \in Sessions, Claims(s)
    PROVE  req[s].key \in Secrets /\ req[s].key \in Rows /\ RequestOK(req[s], pc[s]) /\ About(s)
PROOF
<1>1. RequestOK(req[s], pc[s]) /\ About(s)
    BY DEF Claims, TypeInv, PlacedOK
<1>2. req[s].key \in Secrets
    BY <1>1, RowNames DEF RequestOK, KeyTable, Claims, Spends, Op
<1>. QED
    BY <1>1, <1>2, RowNames

LEMMA WorkKeepsSpends ==
    ASSUME TypeInv, SpendInv, NEW s \in Sessions, Continues(s), NEW w, Flushes(s, w),
           Claims(s) /\ ~Certain(s) => Usable(db[req[s].key]),
           Claims(s) /\ (\/ pc'[s] \in {"revoke", "commit"}
                         \/ Op(s) \in {"refresh", "verify"} /\ pc'[s] # "spend")
              => draft'[s][req[s].key] # Unwritten
    PROVE  SpendInv'
PROOF
<1>1. \A o \in Sessions \ {s} : pc'[o] = pc[o] /\ req'[o] = req[o] /\ draft'[o] = draft[o]
    BY OthersWait
<1>2. /\ pc[s] # "idle" /\ pc'[s] # "idle" /\ UNCHANGED <<db, uses, contested>>
      /\ req'[s].op = req[s].op /\ req'[s].who = req[s].who
    BY DEF Continues, historyVars
<1>3. /\ Claims(s)' <=> Claims(s)
      /\ Claims(s) => req'[s].key = req[s].key
    BY <1>2 DEF Claims, Spends, Op, Continues
<1>4. \A o \in Sessions : (Claims(o)' <=> Claims(o)) /\ (Claims(o) => req'[o].key = req[o].key)
                          /\ req'[o].who = req[o].who
    BY <1>1, <1>2, <1>3 DEF Claims, Spends, Op
<1>5. \A o, m \in Sessions :
          o # m /\ Claims(o)' /\ Claims(m)' /\ req'[o].key = req'[m].key /\ req'[o].who = req'[m].who
             => req'[o].key \in contested'
    BY <1>2, <1>4 DEF SpendInv
<1>6. ASSUME NEW i \in Secrets \ contested', uses'[i] # 0
      PROVE  /\ uses'[i] = 1 /\ db'[i] # Absent /\ ~Usable(db'[i])
             /\ \A o \in Sessions : Claims(o)' /\ Certain(o)' => req'[o].key # i
    <2>1. /\ uses[i] = 1 /\ db[i] # Absent /\ ~Usable(db[i])
          /\ \A o \in Sessions : Claims(o) /\ Certain(o) => req[o].key # i
        BY <1>2, <1>6 DEF SpendInv
    <2>2. ASSUME NEW o \in Sessions, Claims(o)', Certain(o)' PROVE req'[o].key # i
        <3>1. CASE o = s
            BY <1>3, <2>1, <2>2, <3>1
        <3>2. CASE o # s
            BY <1>1, <1>4, <2>1, <2>2, <3>2 DEF Certain, Op
        <3>. QED
            BY <3>1, <3>2
    <2>. QED
        BY <1>2, <2>1, <2>2
<1>7. ASSUME NEW o \in Sessions, Claims(o)',
             pc'[o] \in {"revoke", "commit"} \/ (Op(o)' \in {"refresh", "verify"} /\ pc'[o] # "spend")
      PROVE  draft'[o][req'[o].key] # Unwritten
    <2>1. CASE o = s
        BY <1>2, <1>3, <1>7, <2>1 DEF Op
    <2>2. CASE o # s
        BY <1>1, <1>4, <1>7, <2>2 DEF SpendInv, Op
    <2>. QED
        BY <2>1, <2>2
<1>. QED
    BY <1>5, <1>6, <1>7 DEF SpendInv

LEMMA StepsKeepSpends ==
    ASSUME TypeInv, SpendInv, NEW s \in Sessions,
           Spend(s) \/ Untaken(s) \/ Owner(s) \/ Code(s) \/ WriteRows(s) \/ RevokeAll(s)
    PROVE  SpendInv'
PROOF
<1>1. TypeOK /\ pc[s] # "idle"
    BY StepsWork DEF TypeInv, Works, Continues
<1>2. RequestOK(req[s], pc[s]) /\ pc \in [Sessions -> Steps]
    BY <1>1 DEF TypeInv, PlacedOK, TypeOK
<1>3. CASE Spend(s)
    <2>1. PICK w : Flushes(s, w) /\ DOMAIN w = {req[s].key} /\ req[s].key \in Secrets
        BY <1>3, SpendFlushes
    <2>2. draft'[s][req[s].key] # Unwritten
        BY <1>1, <2>1, FlushStays, RowNames
    <2>3. pc[s] = "spend"
        BY <1>3 DEF Spend
    <2>. QED
        BY <1>3, <2>1, <2>2, <2>3, SpendContinues, WorkKeepsSpends DEF Certain
<1>4. CASE Untaken(s)
    <2>1. pc[s] = "taken" /\ pc'[s] \in {"owner", "write"} /\ Continues(s) /\ UNCHANGED draft
        BY <1>2, <1>4, UntakenContinues DEF Untaken, Goto
    <2>2. Op(s) \notin {"refresh", "verify"}
        BY <1>2, <2>1 DEF RequestOK, OpsAt, Op
    <2>3. PICK w : Flushes(s, w)
        BY <1>1, <2>1, QuietFlushes DEF Continues
    <2>. QED
        BY <2>1, <2>2, <2>3, WorkKeepsSpends DEF Certain
<1>5. CASE Owner(s)
    <2>1. pc[s] = "owner" /\ pc'[s] = "write" /\ Continues(s) /\ UNCHANGED draft
        BY <1>2, <1>5, OwnerContinues DEF Owner, Goto
    <2>2. Claims(s) /\ Op(s) \in {"refresh", "verify"} => draft'[s][req[s].key] # Unwritten
        BY <2>1 DEF SpendInv
    <2>3. PICK w : Flushes(s, w)
        BY <1>1, <2>1, QuietFlushes DEF Continues
    <2>. QED
        BY <2>1, <2>2, <2>3, WorkKeepsSpends DEF Certain
<1>6. CASE Code(s)
    <2>1. /\ pc[s] = "code" /\ pc'[s] = "write" /\ Continues(s) /\ UNCHANGED draft
          /\ req'[s].key # NoRow => Usable(db[req'[s].key])
        BY <1>2, <1>6, CodeContinues DEF Code, Goto
    <2>2. Op(s) \in {"enroll", "resend"}
        BY <1>2, <2>1 DEF RequestOK, OpsAt, Op
    <2>3. Claims(s) => Usable(db[req[s].key])
        <3>1. SUFFICES ASSUME Claims(s) PROVE Usable(db[req[s].key])
            OBVIOUS
        <3>2. req[s].key \in Secrets /\ Op(s) = "enroll"
            BY <2>2, <3>1, ClaimedKey DEF Claims, Spends
        <3>3. req'[s].key = req[s].key /\ req[s].key # NoRow
            BY <2>1, <3>2, RowNames DEF Continues, Op
        <3>. QED
            BY <2>1, <3>3
    <2>4. PICK w : Flushes(s, w)
        BY <1>1, <2>1, QuietFlushes DEF Continues
    <2>. QED
        BY <2>1, <2>2, <2>3, <2>4, WorkKeepsSpends
<1>7. CASE WriteRows(s)
    <2>1. pc[s] = "write" /\ Continues(s)
        BY <1>7, WriteContinues DEF WriteRows
    <2>2. PICK w : /\ Flushes(s, w)
                   /\ Op(s) \in {"reset", "confirm", "enroll"} => req[s].key \in DOMAIN w
        BY <1>7, WritesFlush
    <2>3. ASSUME Claims(s) PROVE draft'[s][req[s].key] # Unwritten
        <3>1. req[s].key \in Rows
            BY <2>3, ClaimedKey
        <3>2. CASE Op(s) \in {"reset", "confirm", "enroll"}
            BY <1>1, <2>2, <3>1, <3>2, FlushStays
        <3>3. CASE Op(s) \in {"refresh", "verify"}
            <4>1. draft[s][req[s].key] # Unwritten
                BY <2>1, <2>3, <3>3 DEF SpendInv
            <4>. QED
                BY <1>1, <2>2, <3>1, <4>1, FlushStays
        <3>. QED
            BY <2>3, <3>2, <3>3 DEF Claims, Spends
    <2>. QED
        BY <2>1, <2>2, <2>3, WorkKeepsSpends DEF Certain
<1>8. CASE RevokeAll(s)
    <2>1. pc[s] = "revoke" /\ Continues(s)
        BY <1>8, RevokeContinues DEF RevokeAll
    <2>2. PICK w : Flushes(s, w)
        BY <1>8, RevokeFlushes
    <2>3. ASSUME Claims(s) PROVE draft'[s][req[s].key] # Unwritten
        <3>1. draft[s][req[s].key] # Unwritten /\ req[s].key \in Rows
            BY <2>1, <2>3, ClaimedKey DEF SpendInv
        <3>. QED
            BY <1>1, <2>2, <3>1, FlushStays
    <2>. QED
        BY <2>1, <2>2, <2>3, WorkKeepsSpends DEF Certain
<1>. QED
    BY <1>3, <1>4, <1>5, <1>6, <1>7, <1>8

LEMMA BeginMoves ==
    ASSUME TypeInv, NEW s \in Sessions, NEW r, NEW step, Begins(s, r, step)
    PROVE  /\ pc[s] = "idle" /\ pc'[s] = step /\ req'[s] = r /\ step # "idle"
           /\ \A o \in Sessions \ {s} : pc'[o] = pc[o] /\ req'[o] = req[o]
           /\ UNCHANGED <<db, draft, menu, uses, resets, disturbed>>
           /\ contested \subseteq contested'
           /\ \A i \in Rows : draft[s][i] = Unwritten
           /\ OpenOn(r.who) = {} => near' = near
           /\ near \subseteq near'
           /\ \A o \in Sessions : pc[o] # "idle" /\ req[o].who = r.who =>
                 /\ o \in near' /\ s \in near'
                 /\ r.key # NoRow /\ req[o].key = r.key => r.key \in contested'
PROOF
<1>1. Begin(s, r, step) /\ step \in {"spend", "owner", "taken", "code", "write"}
    BY DEF Begins
<1>2. pc \in [Sessions -> Steps] /\ req = [o \in Sessions |-> req[o]]
    BY DEF TypeInv, TypeOK
<1>3. /\ pc[s] = "idle" /\ pc' = [pc EXCEPT ![s] = step] /\ req' = [req EXCEPT ![s] = r]
      /\ UNCHANGED <<db, draft, menu, uses, resets, disturbed>>
      /\ near' = IF OpenOn(r.who) = {} THEN near ELSE near \cup OpenOn(r.who) \cup {s}
      /\ contested' = IF r.key # NoRow /\ \E o \in OpenOn(r.who) : req[o].key = r.key
                      THEN contested \cup {r.key} ELSE contested
    BY <1>1 DEF Begin, tableVars
<1>4. pc'[s] = step /\ req'[s] = r /\ \A o \in Sessions \ {s} : pc'[o] = pc[o] /\ req'[o] = req[o]
    BY <1>2, <1>3
<1>5. \A i \in Rows : draft[s][i] = Unwritten
    BY <1>3 DEF TypeInv, DraftsOK, Drafted
<1>6. ASSUME NEW o \in Sessions, pc[o] # "idle", req[o].who = r.who
      PROVE  /\ o \in near' /\ s \in near'
             /\ r.key # NoRow /\ req[o].key = r.key => r.key \in contested'
    <2>1. o \in OpenOn(r.who)
        BY <1>6 DEF OpenOn
    <2>. QED
        BY <1>3, <2>1
<1>. QED
    BY <1>1, <1>3, <1>4, <1>5, <1>6

LEMMA BeginKeepsSpends ==
    ASSUME TypeInv, SpendInv, NEW s \in Sessions, NEW r, NEW step, Begins(s, r, step)
    PROVE  SpendInv'
PROOF
<1>1. /\ pc[s] = "idle" /\ pc'[s] = step /\ req'[s] = r /\ step # "idle"
      /\ \A o \in Sessions \ {s} : pc'[o] = pc[o] /\ req'[o] = req[o]
      /\ UNCHANGED <<db, draft, uses>> /\ contested \subseteq contested'
      /\ \A o \in Sessions : pc[o] # "idle" /\ req[o].who = r.who /\ r.key # NoRow /\ req[o].key = r.key
            => r.key \in contested'
    BY BeginMoves
<1>2. RequestOK(r, step) /\ r \in Request /\ step \in {"spend", "owner", "taken", "code", "write"}
    BY DEF Begins, RequestOK
<1>3. Claims(s)' => /\ r.op \in {"refresh", "reset", "confirm", "enroll", "verify"}
                    /\ r.key # NoRow
    <2>1. Claims(s)' => r.op \in {"refresh", "reset", "confirm", "enroll", "verify"}
        BY <1>1 DEF Claims, Spends, Op
    <2>. QED
        BY <1>2, <2>1, RowNames DEF RequestOK, KeyTable
<1>4. \A o \in Sessions \ {s} : (Claims(o)' <=> Claims(o)) /\ (Certain(o)' <=> Certain(o))
    BY <1>1 DEF Claims, Spends, Certain, Op
<1>5. ASSUME NEW o \in Sessions \ {s}, Claims(o), Claims(s)', req[o].key = r.key, req[o].who = r.who
      PROVE  r.key \in contested'
    BY <1>1, <1>3, <1>5 DEF Claims
<1>6. ASSUME NEW o \in Sessions, NEW m \in Sessions, o # m, Claims(o)', Claims(m)',
             req'[o].key = req'[m].key, req'[o].who = req'[m].who
      PROVE  req'[o].key \in contested'
    <2>1. CASE o = s
        BY <1>1, <1>4, <1>5, <1>6, <2>1
    <2>2. CASE m = s
        BY <1>1, <1>4, <1>5, <1>6, <2>2
    <2>3. CASE o # s /\ m # s
        BY <1>1, <1>4, <1>6, <2>3 DEF SpendInv
    <2>. QED
        BY <2>1, <2>2, <2>3
<1>7. ASSUME NEW i \in Secrets \ contested', uses'[i] # 0
      PROVE  /\ uses'[i] = 1 /\ db'[i] # Absent /\ ~Usable(db'[i])
             /\ \A o \in Sessions : Claims(o)' /\ Certain(o)' => req'[o].key # i
    <2>1. /\ uses[i] = 1 /\ db[i] # Absent /\ ~Usable(db[i])
          /\ \A o \in Sessions : Claims(o) /\ Certain(o) => req[o].key # i
        BY <1>1, <1>7 DEF SpendInv
    <2>2. ASSUME NEW o \in Sessions, Claims(o)', Certain(o)' PROVE req'[o].key # i
        <3>1. CASE o = s
            <4>1. r.op # "enroll"
                BY <1>1, <2>2, <3>1 DEF Certain, Op, Begins
            <4>2. Usable(db[r.key])
                BY <1>3, <2>2, <3>1, <4>1 DEF Begins
            <4>. QED
                BY <1>1, <2>1, <3>1, <4>2
        <3>2. CASE o # s
            BY <1>1, <1>4, <2>1, <2>2, <3>2
        <3>. QED
            BY <3>1, <3>2
    <2>. QED
        BY <1>1, <2>1, <2>2
<1>8. ASSUME NEW o \in Sessions, Claims(o)',
             pc'[o] \in {"revoke", "commit"} \/ (Op(o)' \in {"refresh", "verify"} /\ pc'[o] # "spend")
      PROVE  draft'[o][req'[o].key] # Unwritten
    <2>1. CASE o = s
        BY <1>1, <1>2, <1>8, <2>1 DEF Begins, Op
    <2>2. CASE o # s
        BY <1>1, <1>4, <1>8, <2>2 DEF SpendInv, Op
    <2>. QED
        BY <2>1, <2>2
<1>. QED
    BY <1>6, <1>7, <1>8 DEF SpendInv

\* The end of a request other than one that spends its secret.
LEMMA EndKeepsSpends ==
    ASSUME TypeInv, SpendInv, NEW s \in Sessions, Ends(s),
           \A i \in Rows : db'[i] = db[i] \/ (draft[s][i] # Unwritten /\ db'[i] = draft[s][i]),
           \A i \in Secrets : \/ uses'[i] = uses[i]
                              \/ /\ Claims(s) /\ Certain(s) /\ i = req[s].key /\ uses'[i] = uses[i] + 1
                                 /\ draft[s][i] # Unwritten /\ db'[i] = draft[s][i] /\ Op(s) # "delete"
    PROVE  SpendInv'
PROOF
<1>1. /\ pc'[s] = "idle" /\ contested' = contested
      /\ \A o \in Sessions \ {s} : pc'[o] = pc[o] /\ req'[o] = req[o] /\ draft'[o] = draft[o]
    BY EndsAlone DEF Ends
<1>2. ~Claims(s)' /\ \A o \in Sessions \ {s} : (Claims(o)' <=> Claims(o)) /\ (Certain(o)' <=> Certain(o))
    BY <1>1 DEF Claims, Spends, Certain, Op
<1>3. \A o, m \in Sessions :
          o # m /\ Claims(o)' /\ Claims(m)' /\ req'[o].key = req'[m].key /\ req'[o].who = req'[m].who
             => req'[o].key \in contested'
    BY <1>1, <1>2 DEF SpendInv
<1>4. ASSUME NEW i \in Secrets, i \in Rows, draft[s][i] # Unwritten, db[i] # Absent
      PROVE  /\ draft[s][i] # Absent /\ ~Usable(draft[s][i])
             /\ Op(s) # "delete" => Exists(db[i]) /\ db[i].owner = req[s].who
    <2>1. Drafted(s, i)
        BY <1>4 DEF TypeInv, DraftsOK
    <2>2. draft[s][i] = Gone \/ IsRow(i, draft[s][i])
        BY <1>4 DEF TypeInv, TypeOK
    <2>. QED
        BY <1>4, <2>1, <2>2, RowsExist DEF Drafted, Usable, Exists
<1>5. ASSUME NEW i \in Secrets \ contested', uses'[i] # 0
      PROVE  /\ uses'[i] = 1 /\ db'[i] # Absent /\ ~Usable(db'[i])
             /\ \A o \in Sessions : Claims(o)' /\ Certain(o)' => req'[o].key # i
    <2>1. i \in Rows /\ i \in Secrets \ contested
        BY <1>1, RowNames
    <2>2. CASE uses'[i] = uses[i]
        <3>1. /\ uses[i] = 1 /\ db[i] # Absent /\ ~Usable(db[i])
              /\ \A o \in Sessions : Claims(o) /\ Certain(o) => req[o].key # i
            BY <1>5, <2>1, <2>2 DEF SpendInv
        <3>2. db'[i] # Absent /\ ~Usable(db'[i])
            BY <1>4, <2>1, <3>1
        <3>. QED
            BY <1>1, <1>2, <2>2, <3>1, <3>2
    <2>3. CASE /\ Claims(s) /\ Certain(s) /\ i = req[s].key /\ uses'[i] = uses[i] + 1
               /\ draft[s][i] # Unwritten /\ db'[i] = draft[s][i] /\ Op(s) # "delete"
        <3>1. uses[i] = 0
            BY <2>1, <2>3 DEF SpendInv
        <3>2. db[i] # Absent
            BY <2>1, <2>3, ClaimedKey, RowNames DEF About
        <3>3. db'[i] # Absent /\ ~Usable(db'[i]) /\ Exists(db[i]) /\ db[i].owner = req[s].who
            BY <1>4, <2>1, <2>3, <3>2
        <3>4. ASSUME NEW o \in Sessions, Claims(o)', Certain(o)', req'[o].key = i PROVE FALSE
            <4>1. o # s /\ Claims(o) /\ Certain(o) /\ req[o].key = i
                BY <1>1, <1>2, <3>4
            <4>2. About(o)
                BY <4>1, ClaimedKey
            <4>3. req[o].who = req[s].who
                BY <2>1, <3>3, <4>1, <4>2, RowNames DEF About
            <4>. QED
                BY <2>1, <2>3, <4>1, <4>3 DEF SpendInv
        <3>. QED
            BY <2>3, <3>1, <3>3, <3>4
    <2>. QED
        BY <2>2, <2>3
<1>6. ASSUME NEW o \in Sessions, Claims(o)',
             pc'[o] \in {"revoke", "commit"} \/ (Op(o)' \in {"refresh", "verify"} /\ pc'[o] # "spend")
      PROVE  draft'[o][req'[o].key] # Unwritten
    <2>1. o # s
        BY <1>2, <1>6
    <2>. QED
        BY <1>1, <1>2, <1>6, <2>1 DEF SpendInv, Op
<1>. QED
    BY <1>3, <1>5, <1>6 DEF SpendInv

LEMMA CommitKeepsSpends ==
    ASSUME TypeInv, SpendInv, NEW s \in Sessions, Commit(s)
    PROVE  SpendInv'
PROOF
<1>1. /\ Ends(s) /\ pc[s] = "commit" /\ \A i \in Rows : db'[i] = Seen(s, i)
      /\ uses' = IF Spends(s) THEN [uses EXCEPT ![req[s].key] = @ + 1] ELSE uses
    BY CommitEnds
<1>2. uses \in [Secrets -> Nat]
    BY DEF TypeInv, TypeOK
<1>3. \A i \in Rows : db'[i] = db[i] \/ (draft[s][i] # Unwritten /\ db'[i] = draft[s][i])
    BY <1>1 DEF Seen
<1>4. CASE ~Spends(s)
    BY <1>1, <1>3, <1>4, EndKeepsSpends
<1>5. CASE Spends(s)
    <2>1. Claims(s) /\ Certain(s) /\ Op(s) # "delete"
        BY <1>1, <1>5 DEF Claims, Certain, Spends
    <2>2. req[s].key \in Secrets /\ req[s].key \in Rows /\ draft[s][req[s].key] # Unwritten
        BY <1>1, <2>1, ClaimedKey DEF SpendInv
    <2>3. db'[req[s].key] = draft[s][req[s].key]
        BY <1>1, <2>2 DEF Seen
    <2>4. /\ uses'[req[s].key] = uses[req[s].key] + 1
          /\ \A i \in Secrets : i # req[s].key => uses'[i] = uses[i]
        BY <1>1, <1>2, <1>5, <2>2
    <2>. QED
        BY <1>1, <1>3, <2>1, <2>2, <2>3, <2>4, EndKeepsSpends
<1>. QED
    BY <1>4, <1>5

LEMMA SpendsKept == TypeInv /\ SpendInv /\ [Next]_vars => SpendInv'
PROOF
<1> SUFFICES ASSUME TypeInv, SpendInv, [Next]_vars PROVE SpendInv'
    OBVIOUS
<1>1. CASE UNCHANGED vars
    BY <1>1 DEF vars, tableVars, historyVars, SpendInv, Claims, Spends, Certain, Op
<1>2. ASSUME NEW s \in Sessions, NEW r, NEW step, Begins(s, r, step) PROVE SpendInv'
    BY <1>2, BeginKeepsSpends
<1>3. ASSUME NEW s \in Sessions,
             Spend(s) \/ Untaken(s) \/ Owner(s) \/ Code(s) \/ WriteRows(s) \/ RevokeAll(s)
      PROVE  SpendInv'
    BY <1>3, StepsKeepSpends
<1>4. ASSUME NEW s \in Sessions, Commit(s) PROVE SpendInv'
    BY <1>4, CommitKeepsSpends
<1>5. ASSUME NEW s \in Sessions, Abort(s) PROVE SpendInv'
    BY <1>5, AbortEnds, EndKeepsSpends
<1>. QED
    BY <1>1, <1>2, <1>3, <1>4, <1>5, Cases

\* A refresh token, a link or a code takes effect once, however requests interleave, unless two
\* requests that present it are open at once (refresh, reset_password, confirm_email_change,
\* _consume_otp).
THEOREM SecretsSpentOnce == Spec => []SpentOnce
PROOF
<1> DEFINE Inv == TypeInv /\ SpendInv
<1>1. Init => SpendInv
    BY DEF Init, SpendInv, Claims
<1>2. Init => Inv
    BY <1>1, InitTypes
<1>3. Inv /\ [Next]_vars => Inv'
    BY TypesKept, SpendsKept
<1>4. Inv => SpentOnce
    BY DEF SpendInv, SpentOnce
<1>. QED
    BY <1>2, <1>3, <1>4, PTL DEF Spec

-----------------------------------------------------------------------------
(***************************************************************************)
(* Sessions end with a password reset.  The tokens that an open request    *)
(* has made are from after the last reset of its account, unless that      *)
(* reset was disturbed; and a reset that nobody overlaps sees no token of  *)
(* its account when it commits that could still be used.                   *)
(***************************************************************************)

\* A usable token that a session has written is a new one, of the era of its login.
LEMMA FlushedToken ==
    ASSUME TypeInv, NEW s \in Sessions, pc[s] # "idle", NEW w, Flushes(s, w),
           NEW t \in Tokens, t \in DOMAIN w, Usable(w[t])
    PROVE  w[t].era = req[s].era /\ Op(s) \in {"login", "refresh", "verify"}
PROOF
<1>1. t \in Secrets /\ t \in Rows /\ Source(s, t, w[t])
    BY RowNames DEF Flushes
<1>2. Made(s, t, w[t])
    BY <1>1, SourceRow
<1>3. /\ RequestOK(req[s], "write") /\ req[s].op # "delete" /\ req[s].new # NoRow
      /\ t = req[s].new /\ w[t] \in NewRows(s)
    BY <1>2 DEF Made, Op
<1>. QED
    BY <1>3, NewRow

LEMMA WorkKeepsResets ==
    ASSUME TypeInv, ResetInv, NEW s \in Sessions, Continues(s), NEW w, Flushes(s, w),
           pc'[s] = "commit" /\ Op(s) = "reset" /\ s \notin near =>
               \A t \in Tokens : Usable(Seen(s, t)') => Seen(s, t)'.owner # req[s].who
    PROVE  ResetInv'
PROOF
<1>1. \A o \in Sessions \ {s} : pc'[o] = pc[o] /\ req'[o] = req[o] /\ draft'[o] = draft[o]
    BY OthersWait
<1>2. /\ pc[s] # "idle" /\ pc'[s] # "idle" /\ UNCHANGED <<db, near, resets, disturbed>>
      /\ req'[s].op = req[s].op /\ req'[s].who = req[s].who /\ req'[s].era = req[s].era
    BY DEF Continues, historyVars
<1>3. \A o \in Sessions : req'[o].who = req[o].who /\ (pc'[o] # "idle" <=> pc[o] # "idle")
                          /\ (Op(o)' = Op(o)) /\ req'[o].era = req[o].era
    BY <1>1, <1>2 DEF Op
<1>4. \A o, m \in Sessions :
          o # m /\ pc'[o] # "idle" /\ pc'[m] # "idle" /\ req'[o].who = req'[m].who => o \in near'
    BY <1>2, <1>3 DEF ResetInv
<1>5. ASSUME NEW o \in Sessions, pc'[o] = "commit", Op(o)' = "reset", o \notin near',
             NEW t \in Tokens, Usable(Seen(o, t)')
      PROVE  Seen(o, t)'.owner # req'[o].who
    <2>1. CASE o = s
        BY <1>2, <1>3, <1>5, <2>1
    <2>2. CASE o # s
        <3>1. Seen(o, t)' = Seen(o, t)
            BY <1>1, <1>2, <2>2 DEF Seen
        <3>. QED
            BY <1>1, <1>2, <1>3, <1>5, <2>2, <3>1 DEF ResetInv
    <2>. QED
        BY <2>1, <2>2
<1>6. SessionsEndWithReset'
    BY <1>2 DEF ResetInv, SessionsEndWithReset
<1>7. ASSUME NEW o \in Sessions, pc'[o] # "idle", req'[o].who \notin disturbed'
      PROVE  /\ Op(o)' \in {"login", "refresh", "verify"} => req'[o].era = resets'[req'[o].who]
             /\ \A t \in Tokens : Usable(draft'[o][t]) => draft'[o][t].era = resets'[req'[o].who]
    <2>1. /\ Op(o) \in {"login", "refresh", "verify"} => req[o].era = resets[req[o].who]
          /\ \A t \in Tokens : Usable(draft[o][t]) => draft[o][t].era = resets[req[o].who]
        BY <1>2, <1>3, <1>7 DEF ResetInv
    <2>2. ASSUME NEW t \in Tokens, Usable(draft'[o][t])
          PROVE  draft'[o][t].era = resets'[req'[o].who]
        <3>1. CASE o # s
            BY <1>1, <1>2, <1>3, <2>1, <2>2, <3>1
        <3>2. CASE o = s /\ t \in DOMAIN w
            <4>1. draft'[s][t] = w[t]
                BY <3>2 DEF Flushes
            <4>2. w[t].era = req[s].era /\ Op(s) \in {"login", "refresh", "verify"}
                BY <1>2, <2>2, <3>2, <4>1, FlushedToken
            <4>. QED
                BY <1>2, <1>3, <2>1, <3>2, <4>1, <4>2
        <3>3. CASE o = s /\ t \notin DOMAIN w
            <4>1. draft'[s][t] = draft[s][t]
                BY <3>3, RowNames DEF Flushes
            <4>. QED
                BY <1>2, <1>3, <2>1, <2>2, <3>3, <4>1
        <3>. QED
            BY <3>1, <3>2, <3>3
    <2>. QED
        BY <1>2, <1>3, <2>1, <2>2
<1>. QED
    BY <1>4, <1>5, <1>6, <1>7 DEF ResetInv

LEMMA StepsKeepResets ==
    ASSUME TypeInv, ResetInv, NEW s \in Sessions,
           Spend(s) \/ Untaken(s) \/ Owner(s) \/ Code(s) \/ WriteRows(s) \/ RevokeAll(s)
    PROVE  ResetInv'
PROOF
<1>1. Works(s) /\ Continues(s) /\ pc[s] # "idle"
    BY StepsWork DEF Works, Continues
<1>2. RequestOK(req[s], pc[s]) /\ pc \in [Sessions -> Steps]
    BY <1>1 DEF TypeInv, PlacedOK, TypeOK
<1>3. CASE RevokeAll(s)
    <2>1. PICK w : Flushes(s, w) /\ DOMAIN w = LiveTokens(s, req[s].who)
        BY <1>3, RevokeFlushes
    <2>2. pc[s] = "revoke"
        BY <1>3 DEF RevokeAll
    <2>3. req[s].op = "reset" /\ req[s].new = NoRow
        BY <1>2, <2>2 DEF RequestOK, OpsAt, NewTable
    <2>4. ASSUME NEW t \in Tokens, Usable(Seen(s, t)') PROVE Seen(s, t)'.owner # req[s].who
        <3>1. t \in Rows /\ UNCHANGED db
            BY <1>1, RowNames DEF Continues
        <3>2. CASE t \in DOMAIN w
            <4>1. draft'[s][t] = w[t] /\ draft'[s][t] # Unwritten
                BY <1>1, <2>1, <3>1, <3>2, FlushStays DEF Flushes
            <4>2. Usable(w[t])
                BY <2>4, <4>1 DEF Seen
            <4>3. Op(s) \in {"login", "refresh", "verify"}
                BY <1>1, <2>1, <3>2, <4>2, FlushedToken
            <4>. QED
                BY <2>3, <4>3 DEF Op
        <3>3. CASE t \notin DOMAIN w
            <4>1. Seen(s, t)' = Seen(s, t)
                BY <2>1, <3>1, <3>3 DEF Flushes, Seen
            <4>. QED
                BY <2>1, <2>4, <3>3, <4>1 DEF LiveTokens
        <3>. QED
            BY <3>2, <3>3
    <2>. QED
        BY <1>1, <2>1, <2>4, WorkKeepsResets
<1>4. CASE Spend(s) \/ Untaken(s) \/ Owner(s) \/ Code(s) \/ WriteRows(s)
    <2>1. ~(pc'[s] = "commit" /\ Op(s) = "reset")
        <3>1. CASE Spend(s)
            BY <1>2, <3>1 DEF Spend, Goto
        <3>2. CASE Untaken(s) \/ Owner(s) \/ Code(s)
            BY <1>2, <3>2 DEF Untaken, Owner, Code, Goto
        <3>3. CASE WriteRows(s)
            BY <1>2, <3>3 DEF WriteRows, Goto
        <3>. QED
            BY <1>4, <3>1, <3>2, <3>3
    <2>2. PICK w : Flushes(s, w)
        BY <1>1 DEF Works
    <2>. QED
        BY <1>1, <2>1, <2>2, WorkKeepsResets
<1>. QED
    BY <1>3, <1>4

LEMMA BeginKeepsResets ==
    ASSUME TypeInv, ResetInv, NEW s \in Sessions, NEW r, NEW step, Begins(s, r, step)
    PROVE  ResetInv'
PROOF
<1>1. /\ pc[s] = "idle" /\ pc'[s] = step /\ req'[s] = r /\ step # "idle"
      /\ \A o \in Sessions \ {s} : pc'[o] = pc[o] /\ req'[o] = req[o]
      /\ UNCHANGED <<db, draft, resets, disturbed>> /\ near \subseteq near'
      /\ \A i \in Rows : draft[s][i] = Unwritten
      /\ \A o \in Sessions : pc[o] # "idle" /\ req[o].who = r.who => o \in near' /\ s \in near'
    BY BeginMoves
<1>2. RequestOK(r, step) /\ r \in Request /\ step # "commit"
    BY DEF Begins, RequestOK
<1>3. ASSUME NEW o \in Sessions, NEW m \in Sessions, o # m, pc'[o] # "idle", pc'[m] # "idle",
             req'[o].who = req'[m].who
      PROVE  o \in near'
    <2>1. CASE o = s
        BY <1>1, <1>3, <2>1
    <2>2. CASE m = s
        BY <1>1, <1>3, <2>2
    <2>3. CASE o # s /\ m # s
        BY <1>1, <1>3, <2>3 DEF ResetInv
    <2>. QED
        BY <2>1, <2>2, <2>3
<1>4. ASSUME NEW o \in Sessions, pc'[o] = "commit", Op(o)' = "reset", o \notin near',
             NEW t \in Tokens, Usable(Seen(o, t)')
      PROVE  Seen(o, t)'.owner # req'[o].who
    <2>1. o # s /\ pc[o] = "commit" /\ Op(o) = "reset" /\ o \notin near /\ req'[o] = req[o]
        BY <1>1, <1>2, <1>4 DEF Op
    <2>2. Seen(o, t)' = Seen(o, t)
        BY <1>1 DEF Seen
    <2>. QED
        BY <1>4, <2>1, <2>2 DEF ResetInv
<1>5. SessionsEndWithReset'
    BY <1>1 DEF ResetInv, SessionsEndWithReset
<1>6. ASSUME NEW o \in Sessions, pc'[o] # "idle", req'[o].who \notin disturbed'
      PROVE  /\ Op(o)' \in {"login", "refresh", "verify"} => req'[o].era = resets'[req'[o].who]
             /\ \A t \in Tokens : Usable(draft'[o][t]) => draft'[o][t].era = resets'[req'[o].who]
    <2>1. CASE o = s
        <3>1. \A t \in Tokens : ~Usable(draft'[o][t])
            BY <1>1, <2>1, RowNames DEF Usable, Exists
        <3>2. r.op \in {"login", "verify"} => r.era = resets[r.who]
            BY DEF Begins
        <3>3. ASSUME r.op = "refresh" PROVE r.era = resets[r.who]
            <4>1. r.key \in Tokens /\ r.key # NoRow
                BY <1>2, <3>3, RowNames DEF RequestOK, KeyTable
            <4>2. Usable(db[r.key]) /\ db[r.key].owner = r.who /\ r.era = db[r.key].era
                BY <3>3, <4>1 DEF Begins
            <4>3. r.who \in Accounts \ disturbed
                BY <1>1, <1>2, <1>6, <2>1 DEF Request
            <4>. QED
                BY <4>1, <4>2, <4>3 DEF ResetInv, SessionsEndWithReset
        <3>. QED
            BY <1>1, <2>1, <3>1, <3>2, <3>3 DEF Op
    <2>2. CASE o # s
        BY <1>1, <1>6, <2>2 DEF ResetInv, Op
    <2>. QED
        BY <2>1, <2>2
<1>. QED
    BY <1>3, <1>4, <1>5, <1>6 DEF ResetInv

\* What the end of a request does to the tokens of another account, or of its own.
LEMMA EndKeepsResets ==
    ASSUME TypeInv, ResetInv, NEW s \in Sessions, Ends(s),
           \A i \in Rows : db'[i] = db[i] \/ (draft[s][i] # Unwritten /\ db'[i] = draft[s][i]),
           \A o \in Sessions \ {s} :
               pc[o] # "idle" /\ req[o].who \notin disturbed' =>
                   req[o].who \notin disturbed /\ resets'[req[o].who] = resets[req[o].who],
           SessionsEndWithReset'
    PROVE  ResetInv'
PROOF
<1>1. /\ pc'[s] = "idle" /\ near' = near \ {s}
      /\ \A o \in Sessions \ {s} : pc'[o] = pc[o] /\ req'[o] = req[o] /\ draft'[o] = draft[o]
    BY EndsAlone DEF Ends
<1>2. ASSUME NEW o \in Sessions, NEW m \in Sessions, o # m, pc'[o] # "idle", pc'[m] # "idle",
             req'[o].who = req'[m].who
      PROVE  o \in near'
    BY <1>1, <1>2 DEF ResetInv
<1>3. ASSUME NEW o \in Sessions, pc'[o] = "commit", Op(o)' = "reset", o \notin near',
             NEW t \in Tokens, Usable(Seen(o, t)')
      PROVE  Seen(o, t)'.owner # req'[o].who
    <2>1. /\ o # s /\ pc[o] = "commit" /\ Op(o) = "reset" /\ o \notin near /\ req'[o] = req[o]
          /\ draft'[o] = draft[o] /\ t \in Rows /\ t \in Secrets
        BY <1>1, <1>3, RowNames DEF Op
    <2>2. CASE Seen(o, t)' = Seen(o, t)
        BY <1>3, <2>1, <2>2 DEF ResetInv
    <2>3. CASE Seen(o, t)' # Seen(o, t)
        <3>1. draft[s][t] # Unwritten /\ Seen(o, t)' = draft[s][t]
            BY <2>1, <2>3 DEF Seen
        <3>2. draft[s][t].owner = req[s].who
            BY <1>3, <2>1, <3>1 DEF TypeInv, DraftsOK, Drafted, Usable
        <3>3. req[s].who # req[o].who
            BY <2>1 DEF ResetInv, Ends
        <3>. QED
            BY <2>1, <3>1, <3>2, <3>3
    <2>. QED
        BY <2>2, <2>3
<1>4. ASSUME NEW o \in Sessions, pc'[o] # "idle", req'[o].who \notin disturbed'
      PROVE  /\ Op(o)' \in {"login", "refresh", "verify"} => req'[o].era = resets'[req'[o].who]
             /\ \A t \in Tokens : Usable(draft'[o][t]) => draft'[o][t].era = resets'[req'[o].who]
    <2>1. /\ o # s /\ pc'[o] = pc[o] /\ req'[o] = req[o] /\ draft'[o] = draft[o] /\ Op(o)' = Op(o)
        BY <1>1, <1>4 DEF Op
    <2>2. req[o].who \notin disturbed /\ resets'[req[o].who] = resets[req[o].who]
        BY <1>4, <2>1
    <2>. QED
        BY <1>4, <2>1, <2>2 DEF ResetInv
<1>. QED
    BY <1>2, <1>3, <1>4 DEF ResetInv

LEMMA CommitKeepsResets ==
    ASSUME TypeInv, ResetInv, NEW s \in Sessions, Commit(s)
    PROVE  ResetInv'
PROOF
<1> DEFINE u == req[s].who
<1>1. /\ Ends(s) /\ pc[s] = "commit" /\ \A i \in Rows : db'[i] = Seen(s, i)
      /\ Op(s) = "reset" =>
            /\ resets' = [resets EXCEPT ![u] = @ + 1]
            /\ disturbed' = IF s \in near THEN disturbed \cup {u} ELSE disturbed \ {u}
      /\ Op(s) # "reset" => UNCHANGED <<resets, disturbed>>
    BY CommitEnds
<1>2. u \in Accounts /\ resets \in [Accounts -> Nat]
    BY <1>1 DEF TypeInv, PlacedOK, TypeOK, RequestOK, Request
<1>3. \A i \in Rows : db'[i] = db[i] \/ (draft[s][i] # Unwritten /\ db'[i] = draft[s][i])
    BY <1>1 DEF Seen
<1>4. \A v \in Accounts : v # u => resets'[v] = resets[v] /\ (v \in disturbed' <=> v \in disturbed)
    BY <1>1, <1>2
<1>5. ASSUME NEW t \in Tokens, draft[s][t] # Unwritten, Usable(draft[s][t])
      PROVE  draft[s][t].owner = u
    BY <1>5, RowNames DEF TypeInv, DraftsOK, Drafted, Usable
<1>6. ASSUME NEW o \in Sessions \ {s}, pc[o] # "idle", req[o].who \notin disturbed'
      PROVE  req[o].who \notin disturbed /\ resets'[req[o].who] = resets[req[o].who]
    <2>1. req[o].who \in Accounts
        BY <1>6 DEF TypeInv, PlacedOK, RequestOK, Request
    <2>2. CASE req[o].who # u
        BY <1>4, <1>6, <2>1, <2>2
    <2>3. CASE req[o].who = u
        <3>1. s \in near
            BY <1>1, <1>6, <2>3 DEF ResetInv
        <3>2. Op(s) # "reset"
            BY <1>1, <1>6, <2>3, <3>1
        <3>. QED
            BY <1>1, <1>6, <3>2
    <2>. QED
        BY <2>2, <2>3
<1>7. ASSUME NEW v \in Accounts, v \notin disturbed', NEW t \in Tokens, Usable(db'[t]), db'[t].owner = v
      PROVE  db'[t].era = resets'[v]
    <2>1. t \in Rows /\ db'[t] = Seen(s, t)
        BY <1>1, RowNames
    <2>2. CASE Op(s) = "reset" /\ v = u
        <3>1. s \notin near
            BY <1>1, <1>7, <2>2
        <3>. QED
            BY <1>1, <1>7, <2>1, <2>2, <3>1 DEF ResetInv
    <2>3. CASE v # u
        <3>1. v \notin disturbed /\ resets'[v] = resets[v]
            BY <1>4, <1>7, <2>3
        <3>2. db'[t] = db[t]
            BY <1>3, <1>5, <1>7, <2>1, <2>3
        <3>. QED
            BY <1>7, <3>1, <3>2 DEF ResetInv, SessionsEndWithReset
    <2>4. CASE Op(s) # "reset" /\ v = u
        <3>1. v \notin disturbed /\ resets'[v] = resets[v]
            BY <1>1, <1>7, <2>4
        <3>2. CASE db'[t] = db[t]
            BY <1>7, <3>1, <3>2 DEF ResetInv, SessionsEndWithReset
        <3>3. CASE draft[s][t] # Unwritten /\ db'[t] = draft[s][t]
            BY <1>1, <1>7, <2>4, <3>1, <3>3 DEF ResetInv
        <3>. QED
            BY <1>3, <2>1, <3>2, <3>3
    <2>. QED
        BY <2>2, <2>3, <2>4
<1>8. SessionsEndWithReset'
    BY <1>7 DEF SessionsEndWithReset
<1>. QED
    BY <1>1, <1>3, <1>6, <1>8, EndKeepsResets

LEMMA InitResets == Init => ResetInv
PROOF
<1> SUFFICES ASSUME Init PROVE ResetInv
    OBVIOUS
<1>1. PICK table \in FirstTables :
          db = [i \in Rows |-> IF i \in DOMAIN table THEN table[i] ELSE Absent]
    BY DEF Init
<1>2. \A t \in Tokens \cap DOMAIN table : table[t].era = 0
    BY FirstTablesAssumption
<1>3. \A t \in Tokens : Usable(db[t]) => t \in DOMAIN table /\ db[t] = table[t]
    BY <1>1, RowNames DEF Usable, Exists
<1>4. SessionsEndWithReset
    BY <1>2, <1>3 DEF SessionsEndWithReset, Init
<1>. QED
    BY <1>4 DEF Init, ResetInv

LEMMA ResetsKept == TypeInv /\ ResetInv /\ [Next]_vars => ResetInv'
PROOF
<1> SUFFICES ASSUME TypeInv, ResetInv, [Next]_vars PROVE ResetInv'
    OBVIOUS
<1>1. CASE UNCHANGED vars
    BY <1>1 DEF vars, tableVars, historyVars, ResetInv, SessionsEndWithReset, Op, Seen
<1>2. ASSUME NEW s \in Sessions, NEW r, NEW step, Begins(s, r, step) PROVE ResetInv'
    BY <1>2, BeginKeepsResets
<1>3. ASSUME NEW s \in Sessions,
             Spend(s) \/ Untaken(s) \/ Owner(s) \/ Code(s) \/ WriteRows(s) \/ RevokeAll(s)
      PROVE  ResetInv'
    BY <1>3, StepsKeepResets
<1>4. ASSUME NEW s \in Sessions, Commit(s) PROVE ResetInv'
    BY <1>4, CommitKeepsResets
<1>5. ASSUME NEW s \in Sessions, Abort(s) PROVE ResetInv'
    <2>1. Ends(s) /\ UNCHANGED <<db, uses, resets, disturbed>>
        BY <1>5, AbortEnds
    <2>2. SessionsEndWithReset'
        BY <2>1 DEF ResetInv, SessionsEndWithReset
    <2>. QED
        BY <2>1, <2>2, EndKeepsResets
<1>. QED
    BY <1>1, <1>2, <1>3, <1>4, <1>5, Cases

\* After a password reset that no other request on the account overlapped, every session that is
\* alive goes back to a login after the reset, however often it was rotated and whatever
\* happened since (reset_password, revoke_all_refresh_tokens_for_user, refresh).
THEOREM SessionsAlwaysEndWithReset == Spec => []SessionsEndWithReset
PROOF
<1> DEFINE Inv == TypeInv /\ ResetInv
<1>1. Init => Inv
    BY InitTypes, InitResets
<1>2. Inv /\ [Next]_vars => Inv'
    BY TypesKept, ResetsKept
<1>3. Inv => SessionsEndWithReset
    BY DEF ResetInv
<1>. QED
    BY <1>1, <1>2, <1>3, PTL DEF Spec

=============================================================================
