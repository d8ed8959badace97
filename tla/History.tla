------------------------------ MODULE History -------------------------------
(***************************************************************************)
(* The history of uploads: the table in history.db (src/storage/database.c)*)
(* under several hostman processes, and the commands that list it, delete  *)
(* a row of it and delete a file at the host (src/cli/cli.c).              *)
(*                                                                         *)
(* Each statement is one atomic step: SQLite serializes them, and fails    *)
(* with SQLITE_BUSY where another process is in the way.  Between the      *)
(* statements of a command, and while it waits for an answer, the other    *)
(* processes go on.                                                        *)
(***************************************************************************)
EXTENDS Naturals, FiniteSets

CONSTANTS
    Procs,      \* the processes
    Urls,       \* the URLs the host gives
    Window,     \* how many rows delete-upload and delete-file look at (1000)
    MaxId,      \* bound: rows ever inserted
    MaxTime,    \* bound: seconds that pass
    Faults,     \* "busy": a statement may fail with SQLITE_BUSY
    NoRow       \* no record was found

ASSUME HistoryAssumption ==
    /\ Window \in Nat \ {0}
    /\ MaxId \in Nat
    /\ MaxTime \in Nat
    /\ Faults \subseteq {"busy"}

\* A row of the table; link is whether it has a deletion URL.
Row == [id : 1 .. MaxId, time : 0 .. MaxTime, url : Urls, link : BOOLEAN]

ASSUME NoRowIsNoRow == NoRow \notin Row

VARIABLES
    schema,     \* "none", "old" without the column deletion_url, or "new"
    uploads,    \* the rows
    lastId,     \* what sqlite_sequence remembers
    now,        \* time(NULL)
    stored,     \* the files at the host, by URL
    pc,         \* where each process is
    hasColumn,  \* has_deletion_url_column of each process
    record,     \* the row a process has shown to its user, or is inserting
    printed,    \* what it has told its user
    deletions   \* history: for each id, the processes told they deleted it

vars == <<schema, uploads, lastId, now, stored, pc, hasColumn, record, printed,
          deletions>>

Steps == {"off", "pragma", "alter", "ready", "insert", "confirm", "confirmFile",
          "request", "confirmRow", "done"}

Printed == {"none", "added", "lost", "rows", "nolist", "error", "notfound", "nolink",
            "deleted", "notdeleted", "filedeleted"}

TypeOK ==
    /\ schema \in {"none", "old", "new"}
    /\ uploads \subseteq Row
    /\ lastId \in 0 .. MaxId
    /\ now \in 0 .. MaxTime
    /\ stored \subseteq Urls
    /\ pc \in [Procs -> Steps]
    /\ hasColumn \in [Procs -> BOOLEAN]
    /\ record \in [Procs -> Row \union {NoRow} \union [url : Urls, link : BOOLEAN]]
    /\ printed \in [Procs -> Printed]
    /\ deletions \in [1 .. MaxId -> SUBSET Procs]

Init ==
    /\ schema \in {"none", "old"}
    /\ uploads = {}
    /\ lastId = 0
    /\ now = 0
    /\ stored = {}
    /\ pc = [p \in Procs |-> "off"]
    /\ hasColumn = [p \in Procs |-> FALSE]
    /\ record = [p \in Procs |-> NoRow]
    /\ printed = [p \in Procs |-> "none"]
    /\ deletions = [i \in 1 .. MaxId |-> {}]

Busy == "busy" \in Faults

At(p, s) == pc[p] = s

Goto(p, s) == pc' = [pc EXCEPT ![p] = s]

Say(p, what) == printed' = [printed EXCEPT ![p] = what]

Leave(p, what) == Goto(p, "done") /\ Say(p, what)

-----------------------------------------------------------------------------
(* db_init.                                                                *)

\* CREATE TABLE IF NOT EXISTS makes the table as the first release had it.
Open(p) ==
    /\ At(p, "off")
    /\ schema' = IF schema = "none" THEN "old" ELSE schema
    /\ Goto(p, "pragma")
    /\ UNCHANGED <<uploads, lastId, now, stored, hasColumn, record, printed,
                   deletions>>

\* PRAGMA table_info.
CheckColumn(p) ==
    /\ At(p, "pragma")
    /\ hasColumn' = [hasColumn EXCEPT ![p] = schema = "new"]
    /\ Goto(p, IF schema = "new" THEN "ready" ELSE "alter")
    /\ UNCHANGED <<schema, uploads, lastId, now, stored, record, printed,
                   deletions>>

\* The PRAGMA cannot be prepared, and the column is taken to be missing; or its
\* first step finds the database locked, which looks like a table without it.
CheckColumnFails(p) ==
    /\ Busy
    /\ At(p, "pragma")
    /\ \E next \in {"ready", "alter"} : Goto(p, next)
    /\ UNCHANGED <<schema, uploads, lastId, now, stored, hasColumn, record,
                   printed, deletions>>

\* Mutant of AddColumn: the column is only noted.
AddNoColumn(p) ==
    /\ At(p, "alter")
    /\ hasColumn' = [hasColumn EXCEPT ![p] = TRUE]
    /\ Goto(p, "ready")
    /\ UNCHANGED <<schema, uploads, lastId, now, stored, record, printed,
                   deletions>>

\* ALTER TABLE fails if another process has added the column in between, and the
\* process then takes it to be missing.
AddColumn(p) ==
    /\ At(p, "alter")
    /\ schema' = "new"
    /\ hasColumn' = [hasColumn EXCEPT ![p] = schema # "new"]
    /\ Goto(p, "ready")
    /\ UNCHANGED <<uploads, lastId, now, stored, record, printed, deletions>>

AddColumnFails(p) ==
    /\ Busy
    /\ At(p, "alter")
    /\ Goto(p, "ready")
    /\ UNCHANGED <<schema, uploads, lastId, now, stored, hasColumn, record,
                   printed, deletions>>

-----------------------------------------------------------------------------
(* upload.                                                                 *)

\* The host stores the file; it may give the URL of a file it has already, and
\* the answer may carry a deletion URL, which the user is shown.
Store(p, u, link) ==
    /\ At(p, "ready")
    /\ lastId + Cardinality({q \in Procs : At(q, "insert")}) < MaxId
    /\ stored' = stored \union {u}
    /\ record' = [record EXCEPT ![p] = [url |-> u, link |-> link]]
    /\ Goto(p, "insert")
    /\ UNCHANGED <<schema, uploads, lastId, now, hasColumn, printed, deletions>>

Known(u) == \E r \in uploads : r.url = u

\* Mutant of Insert: without AUTOINCREMENT the next id is one above the largest.
InsertReusingId(p) ==
    /\ At(p, "insert")
    /\ schema = "new"
    /\ lastId < MaxId
    /\ LET u  == record[p].url
           id == CHOOSE i \in 1 .. MaxId :
                     /\ \A r \in uploads : r.id < i
                     /\ i = 1 \/ \E r \in uploads : r.id = i - 1
       IN  /\ uploads' = IF Known(u) THEN uploads
                         ELSE uploads \union
                              {[id |-> id, time |-> now, url |-> u,
                                link |-> record[p].link]}
           /\ lastId' = IF Known(u) THEN lastId ELSE lastId + 1
    /\ Leave(p, "added")
    /\ record' = [record EXCEPT ![p] = NoRow]
    /\ UNCHANGED <<schema, now, stored, hasColumn, deletions>>

\* Mutant of Insert: the ids start at 0.
InsertFromZero(p) ==
    /\ At(p, "insert")
    /\ schema = "new"
    /\ lastId < MaxId
    /\ lastId' = lastId + 1
    /\ uploads' = uploads \union {[id |-> lastId, time |-> now,
                                   url |-> record[p].url, link |-> record[p].link]}
    /\ Leave(p, "added")
    /\ record' = [record EXCEPT ![p] = NoRow]
    /\ UNCHANGED <<schema, now, stored, hasColumn, deletions>>

\* Mutant of Insert: remote_url is not UNIQUE.
InsertTwice(p) ==
    /\ At(p, "insert")
    /\ schema = "new"
    /\ lastId < MaxId
    /\ lastId' = lastId + 1
    /\ uploads' = uploads \union {[id |-> lastId + 1, time |-> now,
                                   url |-> record[p].url, link |-> record[p].link]}
    /\ Leave(p, "added")
    /\ record' = [record EXCEPT ![p] = NoRow]
    /\ UNCHANGED <<schema, now, stored, hasColumn, deletions>>

\* db_add_upload: a URL that is there already violates UNIQUE; the row stays as
\* it is, and that counts as a success.
Insert(p) ==
    /\ At(p, "insert")
    /\ schema = "new"
    /\ LET u == record[p].url
       IN  \/ Known(u) /\ UNCHANGED <<uploads, lastId>>
           \/ /\ ~Known(u)
              /\ lastId < MaxId
              /\ lastId' = lastId + 1
              /\ uploads' = uploads \union
                     {[id |-> lastId + 1, time |-> now, url |-> u,
                       link |-> record[p].link]}
    /\ Leave(p, "added")
    /\ record' = [record EXCEPT ![p] = NoRow]
    /\ UNCHANGED <<schema, now, stored, hasColumn, deletions>>

\* The statement names the column deletion_url whether it is there or not.
InsertFails(p) ==
    /\ At(p, "insert")
    /\ schema # "new" \/ Busy
    /\ Leave(p, "lost")
    /\ record' = [record EXCEPT ![p] = NoRow]
    /\ UNCHANGED <<schema, uploads, lastId, now, stored, hasColumn, deletions>>

-----------------------------------------------------------------------------
(* Reading.                                                                *)

\* ORDER BY timestamp DESC LIMIT n: rows of one second come in any order.
IsNewest(w, n) ==
    /\ w \subseteq uploads
    /\ Cardinality(w) = IF Cardinality(uploads) < n THEN Cardinality(uploads) ELSE n
    /\ \A r \in w, q \in uploads \ w : q.time <= r.time

\* list-uploads: db_get_uploads returns NULL for no rows as it does for errors.
ListUploads(p) ==
    /\ At(p, "ready")
    /\ \/ Leave(p, IF uploads = {} THEN "nolist" ELSE "rows")
       \/ Busy /\ Leave(p, "nolist")
    /\ UNCHANGED <<schema, uploads, lastId, now, stored, hasColumn, record,
                   deletions>>

\* What the two commands below read: an id is looked for in the first Window rows.
Finds(w, id) == IsNewest(w, Window) /\ \E r \in w : r.id = id

Misses(id) ==
    Busy \/ \E w \in SUBSET uploads : IsNewest(w, Window) /\ \A r \in w : r.id # id

\* delete-upload <id>, up to its question.
FindUpload(p, id) ==
    /\ At(p, "ready")
    /\ \/ /\ \E w \in SUBSET uploads :
                /\ Finds(w, id)
                /\ \E r \in w : r.id = id /\ record' = [record EXCEPT ![p] = r]
          /\ Goto(p, "confirm")
          /\ UNCHANGED printed
       \/ /\ Misses(id)
          /\ Leave(p, "notfound")
          /\ UNCHANGED record
    /\ UNCHANGED <<schema, uploads, lastId, now, stored, hasColumn, deletions>>

\* delete-file <id>, up to its question.  Without the column a process sees no
\* deletion URL.
FindFile(p, id) ==
    /\ At(p, "ready")
    /\ \/ \E w \in SUBSET uploads : \E r \in w :
             /\ Finds(w, id)
             /\ r.id = id
             /\ IF hasColumn[p] /\ r.link
                THEN /\ record' = [record EXCEPT ![p] = r]
                     /\ Goto(p, "confirmFile")
                     /\ UNCHANGED printed
                ELSE /\ Leave(p, "nolink")
                     /\ UNCHANGED record
       \/ /\ Misses(id)
          /\ Leave(p, "notfound")
          /\ UNCHANGED record
    /\ UNCHANGED <<schema, uploads, lastId, now, stored, hasColumn, deletions>>

-----------------------------------------------------------------------------
(* Deleting.                                                               *)

\* "n" to any of the questions.
Decline(p) ==
    /\ pc[p] \in {"confirm", "confirmFile", "confirmRow"}
    /\ Goto(p, "done")
    /\ UNCHANGED <<schema, uploads, lastId, now, stored, hasColumn, record,
                   printed, deletions>>

\* Mutant of DeleteRow: sqlite3_changes is not asked whether there was a row.
DeleteRowUnchecked(p) ==
    /\ pc[p] \in {"confirm", "confirmRow"}
    /\ LET id == record[p].id
       IN  /\ uploads' = {r \in uploads : r.id # id}
           /\ deletions' = [deletions EXCEPT ![id] = @ \union {p}]
           /\ Leave(p, "deleted")
    /\ UNCHANGED <<schema, lastId, now, stored, hasColumn, record>>

\* db_delete_upload: the row with the id that was given, if it is still there.
DeleteRow(p) ==
    /\ pc[p] \in {"confirm", "confirmRow"}
    /\ LET id   == record[p].id
           rows == {r \in uploads : r.id = id}
       IN  /\ uploads' = uploads \ rows
           /\ IF rows # {}
              THEN /\ deletions' = [deletions EXCEPT ![id] = @ \union {p}]
                   /\ Leave(p, "deleted")
              ELSE Leave(p, "notdeleted") /\ UNCHANGED deletions
    /\ UNCHANGED <<schema, lastId, now, stored, hasColumn, record>>

DeleteRowFails(p) ==
    /\ Busy
    /\ pc[p] \in {"confirm", "confirmRow"}
    /\ Leave(p, "notdeleted")
    /\ UNCHANGED <<schema, uploads, lastId, now, stored, hasColumn, record,
                   deletions>>

\* "y" to the question of delete-file: the deletion URL is requested.
RequestDeletion(p) ==
    /\ At(p, "confirmFile")
    /\ Goto(p, "request")
    /\ UNCHANGED <<schema, uploads, lastId, now, stored, hasColumn, record,
                   printed, deletions>>

\* External: the host deletes the file, and its answer arrives or is lost.
HostDeletes(p) ==
    /\ At(p, "request")
    /\ record[p].url \in stored
    /\ stored' = stored \ {record[p].url}
    /\ \/ Goto(p, "confirmRow") /\ Say(p, "filedeleted")
       \/ Leave(p, "error")
    /\ UNCHANGED <<schema, uploads, lastId, now, hasColumn, record, deletions>>

\* External: the host refuses, or the request never gets there.
HostRefuses(p) ==
    /\ At(p, "request")
    /\ Leave(p, "error")
    /\ UNCHANGED <<schema, uploads, lastId, now, stored, hasColumn, record,
                   deletions>>

-----------------------------------------------------------------------------

Exit(p) ==
    /\ At(p, "done")
    /\ Goto(p, "off")
    /\ hasColumn' = [hasColumn EXCEPT ![p] = FALSE]
    /\ record' = [record EXCEPT ![p] = NoRow]
    /\ Say(p, "none")
    /\ UNCHANGED <<schema, uploads, lastId, now, stored, deletions>>

Tick ==
    /\ now < MaxTime
    /\ now' = now + 1
    /\ UNCHANGED <<schema, uploads, lastId, stored, pc, hasColumn, record,
                   printed, deletions>>

Step(p) ==
    \/ Open(p)
    \/ CheckColumn(p)
    \/ CheckColumnFails(p)
    \/ AddColumn(p)
    \/ AddColumnFails(p)
    \/ \E u \in Urls, link \in BOOLEAN : Store(p, u, link)
    \/ Insert(p)
    \/ InsertFails(p)
    \/ ListUploads(p)
    \/ \E id \in 1 .. MaxId : FindUpload(p, id)
    \/ \E id \in 1 .. MaxId : FindFile(p, id)
    \/ Decline(p)
    \/ DeleteRow(p)
    \/ DeleteRowFails(p)
    \/ RequestDeletion(p)
    \/ HostDeletes(p)
    \/ HostRefuses(p)
    \/ Exit(p)

Next == Tick \/ \E p \in Procs : Step(p)

Spec == Init /\ [][Next]_vars

-----------------------------------------------------------------------------
(* Properties.                                                             *)

Asked(p) == pc[p] \in {"confirm", "confirmFile", "request", "confirmRow"}

\* The row behind the id a user was asked about is still the one that was shown,
\* or is gone: an id is never given to another upload while the question is
\* open (database.c:131, cli.c:1785-1830).
ShownIsDeleted ==
    \A p \in Procs : Asked(p) =>
        \A r \in uploads : r.id = record[p].id => r = record[p]

\* However many processes upload, there is one row for a URL (database.c:135).
UrlsAreUnique == \A r, q \in uploads : r.url = q.url \/ r.id = q.id => r = q

\* Two users who confirm the deletion of one row are not both told they deleted
\* it (database.c:426-431).
DeletedOnce == \A i \in 1 .. MaxId : Cardinality(deletions[i]) <= 1

\* A process that takes the column deletion_url to be in the table never finds it
\* missing, whoever added it and whatever failed (database.c:53-79): its SELECTs
\* name the column.
ColumnIsThere == \A p \in Procs : hasColumn[p] => schema = "new"
=============================================================================
