--------------------------- MODULE HistoryProofs ----------------------------
(***************************************************************************)
(* The invariants of History for any number of processes, URLs and rows,   *)
(* with statements refused as busy or not.                                 *)
(***************************************************************************)
EXTENDS History, FiniteSetTheorems, TLAPS

-----------------------------------------------------------------------------
(* The inductive invariant.                                                *)

\* No row has an id that is still to be given.
IdsInv == \A r \in uploads : r.id <= lastId

\* An id whose row was deleted never comes back, so that it is deleted once.
DeletionsInv ==
    \A i \in 1 .. MaxId :
        \/ deletions[i] = {}
        \/ /\ \E p \in Procs : deletions[i] = {p}
           /\ i <= lastId
           /\ \A r \in uploads : r.id # i

\* What a user has been shown: a row of the table, then or now.
RecordInv(p) ==
    /\ pc[p] = "insert" => record[p] \in [url : Urls, link : BOOLEAN]
    /\ Asked(p) => /\ record[p] \in Row
                   /\ record[p].id <= lastId
                   /\ \A r \in uploads : r.id = record[p].id => r = record[p]

HInv ==
    /\ TypeOK
    /\ IdsInv
    /\ UrlsAreUnique
    /\ DeletionsInv
    /\ \A p \in Procs : RecordInv(p)

LEMMA HInit == Init => HInv
BY HistoryAssumption DEF Init, HInv, TypeOK, Steps, Printed, IdsInv, UrlsAreUnique,
   DeletionsInv, RecordInv, Asked

\* A step of p that leaves the table alone.
LEMMA TableUnchanged ==
    ASSUME HInv, NEW p \in Procs, TypeOK', RecordInv(p)',
           uploads' = uploads, lastId' = lastId, deletions' = deletions,
           \A q \in Procs \ {p} : pc'[q] = pc[q] /\ record'[q] = record[q]
    PROVE  HInv'
<1>1. IdsInv' /\ UrlsAreUnique' /\ DeletionsInv'
  BY DEF HInv, IdsInv, UrlsAreUnique, DeletionsInv
<1>2. \A q \in Procs \ {p} : RecordInv(q)'
  BY DEF HInv, RecordInv, Asked
<1> QED  BY <1>1, <1>2 DEF HInv

-----------------------------------------------------------------------------
(* Steps that leave the table alone.                                       *)

LEMMA OpenKeeps ==
    ASSUME HInv, NEW p \in Procs,
           \/ Open(p) \/ CheckColumn(p) \/ CheckColumnFails(p)
           \/ AddColumn(p) \/ AddColumnFails(p)
    PROVE  HInv'
<1> USE DEF Open, CheckColumn, CheckColumnFails, AddColumn, AddColumnFails, At, Goto
<1>1. TypeOK'
  BY DEF HInv, TypeOK, Steps
<1>2. /\ pc'[p] \in {"pragma", "alter", "ready"}
      /\ uploads' = uploads /\ lastId' = lastId /\ deletions' = deletions
      /\ \A q \in Procs \ {p} : pc'[q] = pc[q] /\ record'[q] = record[q]
  BY DEF HInv, TypeOK
<1>3. RecordInv(p)'
  BY <1>2 DEF RecordInv, Asked
<1> QED  BY <1>1, <1>2, <1>3, TableUnchanged

LEMMA StoreKeeps ==
    ASSUME HInv, NEW p \in Procs, NEW u \in Urls, NEW link \in BOOLEAN,
           Store(p, u, link)
    PROVE  HInv'
<1> DEFINE x == [url |-> u, link |-> link]
<1> USE DEF Store, At, Goto
<1>1. x \in [url : Urls, link : BOOLEAN]
  OBVIOUS
<1> HIDE DEF x
<1>2. /\ record' = [record EXCEPT ![p] = x] /\ pc' = [pc EXCEPT ![p] = "insert"]
      /\ stored' \subseteq Urls
  BY DEF HInv, TypeOK, x
<1>3. TypeOK'
  BY <1>1, <1>2 DEF HInv, TypeOK, Steps
<1>4. /\ pc'[p] = "insert" /\ record'[p] = x
      /\ \A q \in Procs \ {p} : pc'[q] = pc[q] /\ record'[q] = record[q]
  BY <1>2 DEF HInv, TypeOK
<1>5. RecordInv(p)'
  BY <1>1, <1>4 DEF RecordInv, Asked
<1> QED  BY <1>3, <1>4, <1>5, TableUnchanged

\* The steps that end a command, or go back to the start, without a question.
LEMMA LeaveKeeps ==
    ASSUME HInv, NEW p \in Procs,
           InsertFails(p) \/ ListUploads(p) \/ Decline(p) \/ DeleteRowFails(p)
              \/ HostRefuses(p) \/ Exit(p)
    PROVE  HInv'
<1> USE DEF InsertFails, ListUploads, Decline, DeleteRowFails, HostRefuses, Exit,
        Leave, Say, At, Goto
<1>1. TypeOK'
  <2>1. UNCHANGED <<schema, uploads, lastId, now, stored, deletions>>
    OBVIOUS
  <2>2. pc' \in [Procs -> Steps]
    <3>1. pc' = [pc EXCEPT ![p] = "done"] \/ pc' = [pc EXCEPT ![p] = "off"]
      OBVIOUS
    <3> QED  BY <3>1 DEF HInv, TypeOK, Steps
  <2>3. hasColumn' \in [Procs -> BOOLEAN]
    <3>1. hasColumn' = hasColumn \/ hasColumn' = [hasColumn EXCEPT ![p] = FALSE]
      OBVIOUS
    <3> QED  BY <3>1 DEF HInv, TypeOK
  <2>4. record' \in [Procs -> Row \union {NoRow} \union [url : Urls, link : BOOLEAN]]
    <3>1. record' = record \/ record' = [record EXCEPT ![p] = NoRow]
      OBVIOUS
    <3> QED  BY <3>1 DEF HInv, TypeOK
  <2>5. printed' \in [Procs -> Printed]
    <3>1. \/ printed' = printed
          \/ \E w \in Printed : printed' = [printed EXCEPT ![p] = w]
      BY DEF Printed
    <3> QED  BY <3>1 DEF HInv, TypeOK
  <2> QED  BY <2>1, <2>2, <2>3, <2>4, <2>5 DEF HInv, TypeOK
<1>2. /\ pc'[p] \in {"done", "off"}
      /\ uploads' = uploads /\ lastId' = lastId /\ deletions' = deletions
      /\ \A q \in Procs \ {p} : pc'[q] = pc[q] /\ record'[q] = record[q]
  BY DEF HInv, TypeOK
<1>3. RecordInv(p)'
  BY <1>2 DEF RecordInv, Asked
<1> QED  BY <1>1, <1>2, <1>3, TableUnchanged

\* The row a command shows is a row of the table, and the only one with its id.
LEMMA FindKeeps ==
    ASSUME HInv, NEW p \in Procs, NEW id \in 1 .. MaxId,
           FindUpload(p, id) \/ FindFile(p, id)
    PROVE  HInv'
<1> USE DEF FindUpload, FindFile, Leave, Say, At, Goto
<1>1. \/ /\ pc' = [pc EXCEPT ![p] = "done"] /\ record' = record
      \/ \E r \in uploads : /\ record' = [record EXCEPT ![p] = r]
                            /\ \/ pc' = [pc EXCEPT ![p] = "confirm"]
                               \/ pc' = [pc EXCEPT ![p] = "confirmFile"]
  BY DEF Finds, IsNewest
<1>2. /\ UNCHANGED <<schema, uploads, lastId, now, stored, hasColumn, deletions>>
      /\ printed' \in [Procs -> Printed]
  BY DEF HInv, TypeOK, Printed
<1>3. TypeOK'
  <2>1. pc' \in [Procs -> Steps]
    BY <1>1 DEF HInv, TypeOK, Steps
  <2>2. record' \in [Procs -> Row \union {NoRow} \union [url : Urls, link : BOOLEAN]]
    BY <1>1 DEF HInv, TypeOK
  <2>3. schema' = schema /\ uploads' = uploads /\ lastId' = lastId /\ now' = now
        /\ stored' = stored /\ hasColumn' = hasColumn /\ deletions' = deletions
    BY <1>2
  <2> QED  BY <1>2, <2>1, <2>2, <2>3 DEF HInv, TypeOK
<1>4. \A q \in Procs \ {p} : pc'[q] = pc[q] /\ record'[q] = record[q]
  BY <1>1 DEF HInv, TypeOK
<1>5. RecordInv(p)'
  <2>1. CASE pc'[p] = "done"
    BY <2>1 DEF RecordInv, Asked
  <2>2. CASE pc'[p] # "done"
    <3>1. PICK r \in uploads : record'[p] = r /\ pc'[p] \in {"confirm", "confirmFile"}
      BY <1>1, <2>2 DEF HInv, TypeOK
    <3>2. r \in Row /\ r.id <= lastId
      BY DEF HInv, TypeOK, IdsInv
    <3>3. \A q \in uploads : q.id = r.id => q = r
      BY DEF HInv, UrlsAreUnique
    <3> QED  BY <1>2, <3>1, <3>2, <3>3 DEF RecordInv, Asked
  <2> QED  BY <2>1, <2>2
<1> QED  BY <1>2, <1>3, <1>4, <1>5, TableUnchanged

LEMMA DeletionKeeps ==
    ASSUME HInv, NEW p \in Procs, RequestDeletion(p) \/ HostDeletes(p)
    PROVE  HInv'
<1> USE DEF RequestDeletion, HostDeletes, Leave, Say, At, Goto
<1>1. TypeOK'
  BY DEF HInv, TypeOK, Steps, Printed
<1>2. /\ Asked(p) /\ pc'[p] \in {"request", "confirmRow", "done"}
      /\ uploads' = uploads /\ lastId' = lastId /\ deletions' = deletions
      /\ record' = record
      /\ \A q \in Procs \ {p} : pc'[q] = pc[q] /\ record'[q] = record[q]
  BY DEF HInv, TypeOK, Asked
<1>3. RecordInv(p)'
  BY <1>2 DEF HInv, RecordInv, Asked
<1> QED  BY <1>1, <1>2, <1>3, TableUnchanged

-----------------------------------------------------------------------------
(* Steps that change the table.                                            *)

LEMMA InsertKeeps ==
    ASSUME HInv, NEW p \in Procs, Insert(p)
    PROVE  HInv'
<1> DEFINE u == record[p].url
           x == [id |-> lastId + 1, time |-> now, url |-> u, link |-> record[p].link]
<1> USE DEF Insert, Leave, Say, At, Goto
<1>1. /\ pc'[p] = "done" /\ pc' \in [Procs -> Steps] /\ printed' \in [Procs -> Printed]
      /\ record' \in [Procs -> Row \union {NoRow} \union [url : Urls, link : BOOLEAN]]
      /\ \A q \in Procs \ {p} : pc'[q] = pc[q] /\ record'[q] = record[q]
  BY DEF HInv, TypeOK, Steps, Printed
<1>2. RecordInv(p)'
  BY <1>1 DEF RecordInv, Asked
<1>3. CASE Known(u) /\ UNCHANGED <<uploads, lastId>>
  <2>1. TypeOK'
    BY <1>1, <1>3 DEF HInv, TypeOK
  <2> QED  BY <1>1, <1>2, <1>3, <2>1, TableUnchanged
<1>4. CASE /\ ~Known(u) /\ lastId < MaxId /\ lastId' = lastId + 1
           /\ uploads' = uploads \union {x}
  <2>1. record[p] \in [url : Urls, link : BOOLEAN]
    BY DEF HInv, RecordInv
  <2>2. lastId \in Nat /\ lastId' \in 1 .. MaxId /\ MaxId \in Nat
    BY <1>4, HistoryAssumption DEF HInv, TypeOK
  <2>3. x \in Row /\ x.id = lastId + 1 /\ x.url = u
    BY <2>1, <2>2, <1>4 DEF Row, HInv, TypeOK
  <2> HIDE DEF x
  <2>4. TypeOK'
    BY <1>1, <1>4, <2>2, <2>3 DEF HInv, TypeOK
  <2>5. \A r \in uploads : r \in Row /\ r.id \in Nat /\ r.id <= lastId /\ r.url # u
    BY <1>4 DEF HInv, TypeOK, IdsInv, Known, Row
  <2>6. IdsInv' /\ UrlsAreUnique'
    BY <1>4, <2>2, <2>3, <2>5 DEF HInv, IdsInv, UrlsAreUnique
  <2>7. DeletionsInv'
    <3> SUFFICES ASSUME NEW i \in 1 .. MaxId, deletions[i] # {}
                 PROVE  /\ \E q \in Procs : deletions[i] = {q}
                        /\ i <= lastId'
                        /\ \A r \in uploads' : r.id # i
      BY DEF DeletionsInv
    <3>1. /\ \E q \in Procs : deletions[i] = {q}
          /\ i <= lastId
          /\ \A r \in uploads : r.id # i
      BY DEF HInv, DeletionsInv
    <3> QED  BY <1>4, <2>2, <2>3, <3>1
  <2>8. ASSUME NEW q \in Procs \ {p}
        PROVE  RecordInv(q)'
    <3>1. CASE ~Asked(q)
      BY <1>1, <3>1 DEF HInv, RecordInv, Asked
    <3>2. CASE Asked(q)
      <4>1. /\ record[q] \in Row /\ record[q].id <= lastId /\ record[q].id \in Nat
            /\ \A r \in uploads : r.id = record[q].id => r = record[q]
        BY <3>2 DEF HInv, RecordInv, Row
      <4>2. \A r \in uploads' : r.id = record[q].id => r = record[q]
        BY <1>4, <2>2, <2>3, <4>1
      <4>3. record[q].id <= lastId'
        BY <1>4, <2>2, <4>1
      <4> QED  BY <1>1, <3>2, <4>1, <4>2, <4>3 DEF RecordInv, Asked
    <3> QED  BY <3>1, <3>2
  <2> QED  BY <1>2, <2>4, <2>6, <2>7, <2>8 DEF HInv
<1> QED  BY <1>3, <1>4

LEMMA DeleteRowKeeps ==
    ASSUME HInv, NEW p \in Procs, DeleteRow(p)
    PROVE  HInv'
<1> DEFINE id == record[p].id
           rows == {r \in uploads : r.id = id}
<1> USE DEF DeleteRow, Leave, Say, Goto
<1>1. /\ id \in 1 .. MaxId /\ id <= lastId
      /\ record' = record /\ lastId' = lastId
  BY DEF HInv, RecordInv, Asked, Row
<1>2. /\ pc'[p] = "done" /\ pc' \in [Procs -> Steps] /\ printed' \in [Procs -> Printed]
      /\ uploads' = uploads \ rows
      /\ \A q \in Procs \ {p} : pc'[q] = pc[q] /\ record'[q] = record[q]
  BY DEF HInv, TypeOK, Steps, Printed
<1>3. \/ rows # {} /\ deletions' = [deletions EXCEPT ![id] = @ \union {p}]
      \/ rows = {} /\ deletions' = deletions
  OBVIOUS
<1>4. /\ uploads' \subseteq uploads
      /\ \A r \in uploads' : r.id # id
  BY <1>2
<1> HIDE DEF id, rows
<1>5. TypeOK'
  <2>1. deletions' \in [1 .. MaxId -> SUBSET Procs]
    BY <1>1, <1>3 DEF HInv, TypeOK
  <2> QED  BY <1>1, <1>2, <1>4, <2>1 DEF HInv, TypeOK
<1>6. IdsInv' /\ UrlsAreUnique'
  BY <1>1, <1>4 DEF HInv, IdsInv, UrlsAreUnique
<1>7. DeletionsInv'
  <2> SUFFICES ASSUME NEW i \in 1 .. MaxId, deletions'[i] # {}
               PROVE  /\ \E q \in Procs : deletions'[i] = {q}
                      /\ i <= lastId
                      /\ \A r \in uploads' : r.id # i
    BY <1>1 DEF DeletionsInv
  <2>1. CASE deletions'[i] = deletions[i]
    BY <1>4, <2>1 DEF HInv, DeletionsInv
  <2>2. CASE deletions'[i] # deletions[i]
    <3>1. i = id /\ rows # {} /\ deletions'[i] = deletions[i] \union {p}
      BY <1>1, <1>3, <2>2 DEF HInv, TypeOK
    <3>2. deletions[i] = {}
      BY <3>1 DEF HInv, DeletionsInv, rows
    <3> QED  BY <1>1, <1>4, <3>1, <3>2
  <2> QED  BY <2>1, <2>2
<1>8. RecordInv(p)'
  BY <1>2 DEF RecordInv, Asked
<1>9. \A q \in Procs \ {p} : RecordInv(q)'
  BY <1>1, <1>2, <1>4 DEF HInv, RecordInv, Asked
<1> QED  BY <1>5, <1>6, <1>7, <1>8, <1>9 DEF HInv

-----------------------------------------------------------------------------
(* The theorems.                                                           *)

LEMMA HistoryInvariance == Spec => []HInv
<1>1. ASSUME HInv, UNCHANGED vars
      PROVE  HInv'
  BY <1>1 DEF vars, HInv, TypeOK, IdsInv, UrlsAreUnique, DeletionsInv, RecordInv, Asked
<1>2. ASSUME HInv, Tick
      PROVE  HInv'
  BY <1>2, HistoryAssumption DEF Tick, HInv, TypeOK, IdsInv, UrlsAreUnique,
     DeletionsInv, RecordInv, Asked
<1>3. ASSUME HInv, NEW p \in Procs, Step(p)
      PROVE  HInv'
  BY <1>3, OpenKeeps, StoreKeeps, LeaveKeeps, FindKeeps, DeletionKeeps, InsertKeeps,
     DeleteRowKeeps DEF Step
<1>4. HInv /\ [Next]_vars => HInv'
  BY <1>1, <1>2, <1>3 DEF Next
<1> QED  BY <1>4, HInit, PTL DEF Spec

\* The state of the history and of the commands is well typed
\* (database.c:84-434, cli.c:1766-2005).
THEOREM HistoryTypeCorrect == Spec => []TypeOK
BY HistoryInvariance, PTL DEF HInv

\* Whatever other processes insert and delete while a user looks at a question,
\* the id in it stands for the row that was shown or for none (database.c:131).
THEOREM ShownStaysTheSame == Spec => []ShownIsDeleted
<1>1. HInv => ShownIsDeleted
  BY DEF HInv, RecordInv, ShownIsDeleted
<1> QED  BY <1>1, HistoryInvariance, PTL

\* There is one row for a URL and one for an id (database.c:131-135).
THEOREM UrlsStayUnique == Spec => []UrlsAreUnique
BY HistoryInvariance, PTL DEF HInv

\* The deletion of a row is reported to one process at most
\* (database.c:426-431).
THEOREM DeletedAtMostOnce == Spec => []DeletedOnce
<1>1. HInv => DeletedOnce
  <2> SUFFICES ASSUME HInv, NEW i \in 1 .. MaxId
               PROVE  Cardinality(deletions[i]) <= 1
    BY DEF DeletedOnce
  <2>1. deletions[i] = {} \/ \E p \in Procs : deletions[i] = {p}
    BY DEF HInv, DeletionsInv
  <2>2. CASE deletions[i] = {}
    BY <2>2, FS_EmptySet
  <2>3. ASSUME NEW p \in Procs, deletions[i] = {p}
        PROVE  Cardinality(deletions[i]) <= 1
    <3>1. Cardinality({p}) = 1
      BY FS_Singleton
    <3> QED  BY <2>3, <3>1
  <2> QED  BY <2>1, <2>2, <2>3
<1> QED  BY <1>1, HistoryInvariance, PTL

\* A process that counts on the column finds it, whoever added it
\* (database.c:53-79).
THEOREM ColumnStaysThere == Spec => []ColumnIsThere
<1>1. Init => ColumnIsThere
  BY DEF Init, ColumnIsThere
<1>2. ASSUME HInv, ColumnIsThere, [Next]_vars
      PROVE  ColumnIsThere'
  <2>1. hasColumn \in [Procs -> BOOLEAN]
    BY <1>2 DEF HInv, TypeOK
  <2>2. CASE UNCHANGED <<schema, hasColumn>>
    BY <1>2, <2>2 DEF ColumnIsThere
  <2>3. ASSUME NEW p \in Procs, Open(p) \/ CheckColumn(p) \/ AddColumn(p) \/ Exit(p)
        PROVE  ColumnIsThere'
    BY <1>2, <2>1, <2>3 DEF ColumnIsThere, Open, CheckColumn, AddColumn, Exit
  <2>4. ASSUME NEW p \in Procs, Step(p), ~(Open(p) \/ CheckColumn(p) \/ AddColumn(p) \/ Exit(p))
        PROVE  UNCHANGED <<schema, hasColumn>>
    BY <2>4 DEF Step, CheckColumnFails, AddColumnFails, Store, Insert, InsertFails,
       ListUploads, FindUpload, FindFile, Decline, DeleteRow, DeleteRowFails,
       RequestDeletion, HostDeletes, HostRefuses
  <2>5. CASE Tick \/ UNCHANGED vars
    BY <2>2, <2>5 DEF Tick, vars
  <2> QED  BY <1>2, <2>2, <2>3, <2>4, <2>5 DEF Next
<1> QED  BY <1>1, <1>2, HistoryInvariance, PTL DEF Spec
=============================================================================
