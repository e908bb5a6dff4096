-------------------------- MODULE RecordTxnsProofs --------------------------
(***************************************************************************)
(* Proofs about RecordTxns: what holds of the record tables however many   *)
(* requests overlap, statement by statement, for any number of workers,    *)
(* records, users, columns and values.                                     *)
(***************************************************************************)
EXTENDS RecordTxns, PromiseProofs

-----------------------------------------------------------------------------
(* The inductive invariant. The tables: every version number is at most its *)
(* position, and what the index, the constraints and the state machine keep. *)

Master(r) == rows[r].state \in {"active", "retired"}

VersionsInRange ==
  \A r \in RecordId : \A i \in 1..Len(history[r]) : history[r][i].version <= i

StoredHasHistory ==
  \A r \in RecordId : IF Stored(r) THEN history[r] # <<>>
                                   ELSE rows[r] = Absent /\ history[r] = <<>>

TablesOK ==
  /\ TypeOK
  /\ StoredHasHistory
  /\ VersionsInRange
  /\ DraftsPointAtMasters
  /\ OneGoldenPerKey
  /\ LiveHasOpenVersion
  /\ AuditFollowsHistory
  /\ GoldenWasPublished

\* The room a request was given at its start is still there: it writes one
\* version.
BusyWorkers == {v \in Worker : Busy(v)}
RoomKept ==
  /\ IsFiniteSet(Written) /\ IsFiniteSet(BusyWorkers)
  /\ Cardinality(Written) + Cardinality(BusyWorkers) <= MaxChanges

\* What a request knows of its record, wherever it stands. read is a version the
\* record has had: since then others may have written it, but a record keeps
\* its master and never goes back behind active.
Remembers(t) ==
  /\ t.op # "create" /\ t.by \in Writer /\ t.id \in RecordId /\ Stored(t.id)
  /\ t.read.draftOf = rows[t.id].draftOf /\ t.read.state # "absent"
  /\ t.read.state \in {"active", "retired"} => Master(t.id)

\* What the handlers checked before, by endpoint.
Checked(t) ==
  /\ t.op \in {"publish", "retire"} => t.by \in Publisher
  /\ t.op = "edit" => t.arg \in Body
  /\ t.op = "revert" => \E i \in 1..Len(history[t.id]) : t.arg = history[t.id][i].data
  /\ t.op = "retire" => AllowRetire /\ t.read.state = "active" /\ ~t.read.deleted
  /\ t.op = "delete" => ~t.read.deleted
  /\ t.op = "publish" /\ t.pc # "readMaster" /\ t.src = NoRecord =>
       t.read.draftOf = NoRecord /\ t.read.state = "draft" /\ ~t.read.deleted
  /\ t.src # NoRecord =>
       /\ t.op = "publish" /\ t.arg \in Data
       /\ t.src \in RecordId /\ rows[t.src].draftOf = t.id
       /\ t.read.state = "active" /\ ~t.read.deleted
  /\ t.op = "edit" =>
       /\ ~t.read.deleted
       /\ (t.read.state = "active") = (t.pc \in {"findDraft", "insertDraft"})
       /\ t.read.state = "retired" => t.by \in Publisher
  /\ t.op = "revert" /\ t.read.state \in {"active", "retired"} => t.by \in Publisher

\* Where a request can stand.
AtStep(t) ==
  /\ t.pc \in {"findDraft", "insertDraft"} => t.op = "edit"
  /\ t.pc = "readMaster" => t.op = "publish" /\ t.src = NoRecord /\ t.read.draftOf # NoRecord
  /\ t.pc = "update" => t.op = "edit" \/ t.src # NoRecord
  /\ t.pc \in {"findOpen", "closeOpen"} => t.op = "revert"
  /\ t.pc \in {"findDraft", "readMaster"} =>
       t.wanted = {} /\ t.held = {} /\ t.close = 0 /\ t.version = 0

\* Its positions are rows of the history of its record, which only grows, and
\* the version it will write follows the row it will close: closed or not by
\* then, a history row keeps its number. (A revert counts from the latest row.)
InHistory(t) ==
  LET n == Len(history[t.id]) IN
  /\ t.wanted \cup t.held \subseteq 1..n
  /\ t.close \in 0..n
  /\ t.version \in 0..n + 1
  /\ t.op # "revert" /\ (t.pc = "finish" \/ (t.pc = "update" /\ t.op = "publish")) =>
       t.version = VersionAt(history[t.id], t.close) + 1

RequestOK(t) ==
  IF t.pc = "idle" THEN t = Idle
                   ELSE Remembers(t) /\ Checked(t) /\ AtStep(t) /\ InHistory(t)

\* Txn without the bound of the model.
TxnRecord ==
  [pc : Step, op : Endpoint, by : Writer \cup {Null},
   id : RecordId \cup {NoRecord}, src : RecordId \cup {NoRecord}, read : Row,
   arg : Body \cup Data, wanted : SUBSET Nat, held : SUBSET Nat, close : Nat,
   version : Nat, locked : SUBSET RecordId]

TInv ==
  /\ TablesOK
  /\ txn \in [Worker -> TxnRecord]
  /\ RoomKept
  /\ \A w \in Worker : RequestOK(txn[w])

-----------------------------------------------------------------------------
(* The bound: the history rows written so far *)

LEMMA WrittenIs ==
  ASSUME TypeOK
  PROVE  \A e : e \in Written <=>
           \E r \in RecordId : \E i \in 1..Len(history[r]) : e = <<r, i>>
BY DEF Written

LEMMA LenBound ==
  ASSUME TypeOK, IsFiniteSet(Written), NEW r \in RecordId
  PROVE  Len(history[r]) <= Cardinality(Written)
<1> DEFINE n == Len(history[r])
           own == {r} \X (1..n)
<1>1. n \in Nat
  BY DEF TypeOK
<1>2. IsFiniteSet(1..n) /\ Cardinality(1..n) = n
  BY <1>1, FS_Interval
<1>3. IsFiniteSet({r}) /\ Cardinality({r}) = 1
  BY FS_Singleton
<1>4. Cardinality(own) = n
  <2>1. Cardinality(own) = 1 * n
    BY <1>2, <1>3, FS_Product
  <2> QED
    BY <1>1, <2>1
<1>5. own \in SUBSET Written
  BY DEF Written
<1>6. Cardinality(own) <= Cardinality(Written)
  BY <1>5, FS_Subset
<1> QED
  BY <1>4, <1>6

LEMMA WrittenGrows ==
  ASSUME TypeOK, IsFiniteSet(Written), NEW r \in RecordId, NEW g,
         history' = [history EXCEPT ![r] = g], Len(g) = Len(history[r]) + 1
  PROVE  IsFiniteSet(Written') /\ Cardinality(Written') = Cardinality(Written) + 1
<1> DEFINE n == Len(history[r])
<1>1. n \in Nat /\ history = [x \in RecordId |-> history[x]]
  BY DEF TypeOK
<1>2. /\ history'[r] = g
      /\ \A x \in RecordId \ {r} : history'[x] = history[x]
  BY <1>1
<1>3. <<r, n + 1>> \notin Written
  BY <1>1 DEF Written
<1>4. 1..Len(history'[r]) = (1..n) \cup {n + 1}
  BY <1>1, <1>2
<1>5. Written' = Written \cup {<<r, n + 1>>}
  <2>1. \A e : e \in Written' <=>
          \E x \in RecordId : \E i \in 1..Len(history'[x]) : e = <<x, i>>
    BY DEF Written
  <2>2. \A e : e \in Written <=>
          \E x \in RecordId : \E i \in 1..Len(history[x]) : e = <<x, i>>
    BY DEF Written
  <2> HIDE DEF n
  <2>3. ASSUME NEW e \in Written' PROVE e \in Written \cup {<<r, n + 1>>}
    <3>1. PICK x \in RecordId : \E i \in 1..Len(history'[x]) : e = <<x, i>>
      BY <2>1
    <3>2. PICK i \in 1..Len(history'[x]) : e = <<x, i>>
      BY <3>1
    <3>3. CASE x = r /\ i = n + 1
      BY <3>2, <3>3
    <3>4. CASE x # r
      BY <1>2, <2>2, <3>2, <3>4
    <3>5. CASE x = r /\ i # n + 1
      <4>1. i \in 1..Len(history[x])
        BY <1>4, <3>2, <3>5 DEF n
      <4> QED
        BY <2>2, <3>2, <4>1
    <3> QED
      BY <3>3, <3>4, <3>5
  <2>4. ASSUME NEW e \in Written \cup {<<r, n + 1>>} PROVE e \in Written'
    <3>1. CASE e = <<r, n + 1>>
      BY <1>4, <2>1, <3>1
    <3>2. CASE e \in Written
      <4>1. PICK x \in RecordId : \E i \in 1..Len(history[x]) : e = <<x, i>>
        BY <2>2, <3>2
      <4>2. PICK i \in 1..Len(history[x]) : e = <<x, i>>
        BY <4>1
      <4>3. i \in 1..Len(history'[x])
        BY <1>2, <1>4, <4>2 DEF n
      <4> QED
        BY <2>1, <4>2, <4>3
    <3> QED
      BY <2>4, <3>1, <3>2
  <2> QED
    BY <2>3, <2>4
<1> QED
  BY <1>3, <1>5, FS_AddElement

-----------------------------------------------------------------------------
(* What a request writes at its commit: one version of one record, and maybe *)
(* the deletion of the draft it merges. told is the record as the handler    *)
(* believes it to be.                                                        *)

OrWithoutDraft(r) ==
  {rows} \cup {[rows EXCEPT ![d] = Deleted(@)] : d \in {x \in RecordId : rows[x].draftOf = r}}

WriteStep(t, r, row, told, i, v, action, u, overridable, sent) ==
  /\ Accepts(t, r, row)
  /\ rows' = [t EXCEPT ![r] = row]
  /\ history' = [history EXCEPT ![r] = WriteHistory(@, i, v, told, action, u)]
  /\ audit' = [audit EXCEPT ![r] =
       LogChange(@, IF action = "INSERT" /\ row.draftOf # NoRecord THEN "DRAFT_CREATED" ELSE action,
                 u, told.status, overridable)]
  /\ events' = [events EXCEPT ![r] = @ \o sent]

\* What the handlers see to, even when they work on stale reads.
Lawful(r, row, told, i, v, action, u) ==
  /\ row \in Row /\ told \in Row /\ row.state # "absent"
  /\ action \in ChangeAction /\ u \in Writer
  /\ i \in 0..Len(history[r]) /\ v \in 0..Len(history[r]) + 1
  /\ action = "DELETE" => row.deleted
  /\ Master(r) => row.state \in {"active", "retired"}
  /\ row.draftOf # NoRecord => row.state = "draft"
  /\ IF Stored(r) THEN row.draftOf = rows[r].draftOf
     ELSE action = "INSERT" /\ (row.draftOf # NoRecord => Master(row.draftOf))
  /\ row.state \in {"active", "retired"} /\ ~Master(r) =>
       IF Stored(r) THEN action = "PUBLISH" /\ u \in Publisher ELSE ~RequiresDraft

\* Whatever happens to the tables, a record keeps its master, does not go back
\* behind active, and its history only grows.
Grows ==
  \A x \in RecordId :
    /\ Stored(x) => Stored(x)' /\ rows'[x].draftOf = rows[x].draftOf
    /\ Master(x) => Master(x)'
    /\ Len(history[x]) <= Len(history'[x])
    /\ \A j \in 1..Len(history[x]) :
         history'[x][j].data = history[x][j].data /\ history'[x][j].version = history[x][j].version

\* The effect of a write on rows and history.
LEMMA WriteEffect ==
  ASSUME TablesOK, NEW r \in RecordId, NEW t \in OrWithoutDraft(r), NEW row, NEW told, NEW i,
         NEW v, NEW action, NEW u, NEW overridable, NEW sent \in Seq(Event),
         WriteStep(t, r, row, told, i, v, action, u, overridable, sent),
         Lawful(r, row, told, i, v, action, u)
  PROVE  LET h == history[r]  g == history'[r] IN
         /\ TypeOK'
         /\ rows'[r] = row
         /\ \A x \in RecordId \ {r} :
              /\ rows'[x].state = rows[x].state /\ rows'[x].draftOf = rows[x].draftOf
              /\ rows'[x].data = rows[x].data
              /\ rows'[x] = rows[x] \/ (Stored(x) /\ rows'[x].deleted = TRUE)
              /\ history'[x] = history[x] /\ audit'[x] = audit[x]
         /\ Indexed(row) => \A o \in RecordId \ {r} : Indexed(rows'[o]) => ~SameKey(rows'[o], row)
         /\ g = WriteHistory(h, i, v, told, action, u)
         /\ Len(g) = Len(h) + 1
         /\ g[Len(h) + 1] = Snapshot(told, v, action, u)
         /\ \A j \in 1..Len(h) :
              /\ g[j].version = h[j].version /\ g[j].action = h[j].action /\ g[j].by = h[j].by
              /\ g[j].state = h[j].state /\ g[j].data = h[j].data
              /\ g[j].open = (h[j].open /\ j # i)
<1> DEFINE h == history[r]
           k == WriteHistory(h, i, v, told, action, u)
           logged == IF action = "INSERT" /\ row.draftOf # NoRecord THEN "DRAFT_CREATED" ELSE action
           log == LogChange(audit[r], logged, u, told.status, overridable)
<1>1. /\ rows \in [RecordId -> Row] /\ history \in [RecordId -> Seq(Version)]
      /\ audit \in [RecordId -> Seq(AuditEntry)] /\ events \in [RecordId -> Seq(Event)]
  BY DEF TablesOK, TypeOK
<1>2. /\ row \in Row /\ told \in Row /\ action \in ChangeAction /\ u \in Actor
      /\ i \in 0..Len(h) /\ v \in Nat /\ h \in Seq(Version)
  BY <1>1 DEF Lawful, Actor
<1>3. /\ t \in [RecordId -> Row]
      /\ \A x \in RecordId :
           \/ t[x] = rows[x]
           \/ rows[x].draftOf = r /\ t[x] = Deleted(rows[x])
  <2>1. \A d \in RecordId : Deleted(rows[d]) \in Row
    BY <1>1, DeletedType
  <2> QED
    BY <1>1, <2>1 DEF OrWithoutDraft
<1>4. rows' \in [RecordId -> Row] /\ rows'[r] = row /\ \A x \in RecordId \ {r} : rows'[x] = t[x]
  BY <1>2, <1>3 DEF WriteStep
<1>5. ASSUME NEW x \in RecordId \ {r}
      PROVE  /\ rows'[x].state = rows[x].state /\ rows'[x].draftOf = rows[x].draftOf
             /\ rows'[x].data = rows[x].data
             /\ rows'[x] = rows[x] \/ (Stored(x) /\ rows'[x].deleted = TRUE)
  <2>1. CASE rows'[x] = rows[x]
    BY <2>1
  <2>2. CASE rows[x].draftOf = r /\ rows'[x] = Deleted(rows[x])
    <3>1. /\ rows'[x].deleted = TRUE /\ rows'[x].state = rows[x].state
          /\ rows'[x].draftOf = rows[x].draftOf /\ rows'[x].data = rows[x].data
      BY <1>1, <2>2, DeletedType
    <3>2. rows[x].state = "draft"
      BY <2>2, NullsAssumption DEF TablesOK, DraftsPointAtMasters
    <3> QED
      BY <3>1, <3>2 DEF Stored
  <2> QED
    BY <1>3, <1>4, <2>1, <2>2
<1>6. Indexed(row) => \A o \in RecordId \ {r} : Indexed(rows'[o]) => ~SameKey(rows'[o], row)
  BY <1>4 DEF WriteStep, Accepts
<1>7. /\ k \in Seq(Version) /\ Len(k) = Len(h) + 1
      /\ k[Len(h) + 1] = Snapshot(told, v, action, u)
      /\ \A j \in 1..Len(h) :
           /\ k[j].version = h[j].version /\ k[j].action = h[j].action
           /\ k[j].by = h[j].by /\ k[j].state = h[j].state /\ k[j].data = h[j].data
           /\ k[j].open = (h[j].open /\ j # i)
  <2> HIDE DEF h, logged, log
  <2> QED
    BY <1>2, WriteHistoryShape DEF k
<1>8. history' = [history EXCEPT ![r] = k]
  BY <1>1 DEF WriteStep
<1>9. log \in Seq(AuditEntry)
  <2>1. audit[r] \in Seq(AuditEntry) /\ logged \in AuditAction
    BY <1>1, <1>2 DEF AuditAction
  <2> HIDE DEF logged
  <2> QED
    BY <1>2, <2>1, LogChangeType
<1>10. audit' = [audit EXCEPT ![r] = log]
  BY <1>1 DEF WriteStep
<1>11. events' = [events EXCEPT ![r] = events[r] \o sent] /\ events[r] \o sent \in Seq(Event)
  BY <1>1 DEF WriteStep
<1> HIDE DEF k, log, logged
<1>12. /\ history' \in [RecordId -> Seq(Version)] /\ history'[r] = k
       /\ \A x \in RecordId \ {r} : history'[x] = history[x]
  BY <1>1, <1>7, <1>8
<1>13. audit' \in [RecordId -> Seq(AuditEntry)] /\ \A x \in RecordId \ {r} : audit'[x] = audit[x]
  BY <1>1, <1>9, <1>10
<1>14. events' \in [RecordId -> Seq(Event)]
  BY <1>1, <1>11
<1>15. TypeOK'
  BY <1>4, <1>12, <1>13, <1>14 DEF TypeOK
<1>16. /\ history'[r] = WriteHistory(h, i, v, told, action, u)
       /\ history'[r] = k
  BY <1>12 DEF k
<1> HIDE DEF h
<1>17. \A x \in RecordId \ {r} :
         /\ rows'[x].state = rows[x].state /\ rows'[x].draftOf = rows[x].draftOf
         /\ rows'[x].data = rows[x].data
         /\ rows'[x] = rows[x] \/ (Stored(x) /\ rows'[x].deleted = TRUE)
         /\ history'[x] = history[x] /\ audit'[x] = audit[x]
  BY <1>5, <1>12, <1>13
<1> QED
  BY <1>4, <1>6, <1>7, <1>15, <1>16, <1>17 DEF h

\* No write breaks the tables, whatever it overlaps with.
LEMMA WriteKeepsTables ==
  ASSUME TablesOK, NEW r \in RecordId, NEW t \in OrWithoutDraft(r), NEW row, NEW told, NEW i,
         NEW v, NEW action, NEW u, NEW overridable, NEW sent \in Seq(Event),
         WriteStep(t, r, row, told, i, v, action, u, overridable, sent),
         Lawful(r, row, told, i, v, action, u)
  PROVE  TablesOK' /\ Grows /\ Len(history'[r]) = Len(history[r]) + 1
<1> DEFINE h == history[r]
           g == history'[r]
<1>1. /\ TypeOK'
      /\ rows'[r] = row
      /\ \A x \in RecordId \ {r} :
           /\ rows'[x].state = rows[x].state /\ rows'[x].draftOf = rows[x].draftOf
           /\ rows'[x].data = rows[x].data
           /\ rows'[x] = rows[x] \/ (Stored(x) /\ rows'[x].deleted = TRUE)
           /\ history'[x] = history[x] /\ audit'[x] = audit[x]
      /\ Indexed(row) => \A o \in RecordId \ {r} : Indexed(rows'[o]) => ~SameKey(rows'[o], row)
      /\ g = WriteHistory(h, i, v, told, action, u)
      /\ Len(g) = Len(h) + 1
      /\ g[Len(h) + 1] = Snapshot(told, v, action, u)
      /\ \A j \in 1..Len(h) :
           /\ g[j].version = h[j].version /\ g[j].action = h[j].action /\ g[j].by = h[j].by
           /\ g[j].state = h[j].state /\ g[j].data = h[j].data
           /\ g[j].open = (h[j].open /\ j # i)
  BY WriteEffect
<1>2. /\ \A x \in RecordId : rows[x] \in Row /\ history[x] \in Seq(Version)
      /\ \A x \in RecordId : rows'[x] \in Row /\ history'[x] \in Seq(Version)
      /\ Len(h) \in Nat /\ audit[r] \in Seq(AuditEntry)
  BY <1>1 DEF TablesOK, TypeOK
<1>3. \A x \in RecordId : rows[x].state = "absent" => rows[x].draftOf = NoRecord
  BY DEF TablesOK, StoredHasHistory, Stored, Absent
<1> HIDE DEF h, g
<1>4. Grows
  <2> SUFFICES ASSUME NEW x \in RecordId
               PROVE  /\ Stored(x) => Stored(x)' /\ rows'[x].draftOf = rows[x].draftOf
                      /\ Master(x) => Master(x)'
                      /\ Len(history[x]) <= Len(history'[x])
                      /\ \A j \in 1..Len(history[x]) :
                           /\ history'[x][j].data = history[x][j].data
                           /\ history'[x][j].version = history[x][j].version
    BY DEF Grows
  <2>1. CASE x # r
    BY <1>1, <1>2, <2>1 DEF Stored, Master
  <2>2. CASE x = r
    BY <1>1, <1>2, <2>2 DEF Stored, Master, Lawful, g, h
  <2> QED
    BY <2>1, <2>2
<1>5. StoredHasHistory'
  <2> SUFFICES ASSUME NEW x \in RecordId
               PROVE  IF Stored(x)' THEN history'[x] # <<>>
                      ELSE rows'[x] = Absent /\ history'[x] = <<>>
    BY DEF StoredHasHistory, Absent, Blank, Status
  <2>1. CASE x # r
    BY <1>1, <2>1 DEF TablesOK, StoredHasHistory, Stored
  <2>2. CASE x = r
    <3>1. g # <<>> /\ Stored(r)'
      BY <1>1, <1>2 DEF Lawful, Stored, g
    <3> QED
      BY <2>2, <3>1 DEF g
  <2> QED
    BY <2>1, <2>2
<1>6. VersionsInRange'
  <2> SUFFICES ASSUME NEW x \in RecordId, NEW j \in 1..Len(history'[x])
               PROVE  history'[x][j].version <= j
    BY DEF VersionsInRange
  <2>1. CASE x # r
    BY <1>1, <2>1 DEF TablesOK, VersionsInRange
  <2>2. CASE x = r /\ j = Len(h) + 1
    BY <1>1, <1>2, <2>2 DEF Lawful, Snapshot, g, h
  <2>3. CASE x = r /\ j # Len(h) + 1
    <3>1. j \in 1..Len(h)
      BY <1>1, <1>2, <2>3 DEF g
    <3> QED
      BY <1>1, <2>3, <3>1 DEF TablesOK, VersionsInRange, g, h
  <2> QED
    BY <2>1, <2>2, <2>3
<1>7. DraftsPointAtMasters'
  <2> SUFFICES ASSUME NEW d \in RecordId, rows'[d].draftOf # NoRecord
               PROVE  /\ rows'[d].state = "draft"
                      /\ rows'[rows'[d].draftOf].state \in {"active", "retired"}
    BY DEF DraftsPointAtMasters
  <2>1. \A m \in RecordId : Master(m) => Master(m)'
    BY <1>4 DEF Grows
  <2>2. \A x \in RecordId : rows[x].draftOf # NoRecord =>
          rows[x].state = "draft" /\ Master(rows[x].draftOf)
    BY DEF TablesOK, DraftsPointAtMasters, Master
  <2>3. rows'[d].draftOf \in RecordId
    BY <1>2 DEF Row
  <2>4. rows'[d].state = "draft"
    BY <1>1, <2>2 DEF Lawful
  <2>5. Master(rows'[d].draftOf)
    <3>1. CASE d # r
      BY <1>1, <2>2, <3>1
    <3>2. CASE d = r /\ Stored(r)
      BY <1>1, <2>2, <3>2 DEF Lawful
    <3>3. CASE d = r /\ ~Stored(r)
      BY <1>1, <3>3 DEF Lawful
    <3> QED
      BY <3>1, <3>2, <3>3
  <2> QED
    BY <2>1, <2>3, <2>4, <2>5 DEF Master
<1>8. OneGoldenPerKey'
  <2> SUFFICES ASSUME NEW x \in RecordId, NEW y \in RecordId, Golden(x)', Golden(y)', x # y
               PROVE  ~SameKey(rows'[x], rows'[y])
    BY DEF OneGoldenPerKey, SameKey
  <2>1. Indexed(rows'[x]) /\ Indexed(rows'[y])
    BY DEF Golden, Live, Indexed
  <2>2. CASE x = r
    <3>1. ~SameKey(rows'[y], rows'[x])
      BY <1>1, <2>1, <2>2
    <3> QED
      BY <3>1 DEF SameKey
  <2>3. CASE y = r
    BY <1>1, <2>1, <2>3
  <2>4. CASE x # r /\ y # r
    <3>1. rows'[x] = rows[x] /\ rows'[y] = rows[y]
      BY <1>1, <2>1, <2>4 DEF Indexed
    <3>2. Golden(x) /\ Golden(y)
      BY <2>1, <3>1 DEF Golden, Live, Stored, Indexed
    <3> QED
      BY <3>1, <3>2 DEF TablesOK, OneGoldenPerKey
  <2> QED
    BY <2>2, <2>3, <2>4
<1>9. LiveHasOpenVersion'
  <2> SUFFICES ASSUME NEW x \in RecordId, Live(x)'
               PROVE  OpenRows(history'[x]) # {}
    BY DEF LiveHasOpenVersion, OpenRows
  <2>1. CASE x # r
    <3>1. Live(x)
      BY <1>1, <2>1 DEF Live, Stored
    <3> QED
      BY <1>1, <2>1, <3>1 DEF TablesOK, LiveHasOpenVersion
  <2>2. CASE x = r
    <3>1. action # "DELETE"
      BY <1>1, <2>2 DEF Live, Lawful
    <3>s. Snapshot(told, v, action, u).open = (action # "DELETE")
      BY DEF Snapshot
    <3>2. g[Len(h) + 1].open
      BY <1>1, <3>1, <3>s, Zenon
    <3>3. Len(h) + 1 \in OpenRows(g)
      BY <1>1, <1>2, <3>2 DEF OpenRows
    <3> QED
      BY <2>2, <3>3 DEF g
  <2> QED
    BY <2>1, <2>2
<1>10. AuditFollowsHistory'
  <2> SUFFICES ASSUME NEW x \in RecordId
               PROVE  Repeats(audit'[x], history'[x], rows'[x].draftOf # NoRecord)
    BY DEF AuditFollowsHistory, Repeats, Changes
  <2>1. CASE x # r
    BY <1>1, <2>1 DEF TablesOK, AuditFollowsHistory
  <2>2. CASE x = r
    <3> DEFINE copy == row.draftOf # NoRecord
               logged == IF action = "INSERT" /\ copy THEN "DRAFT_CREATED" ELSE action
    <3>1. Repeats(audit[r], h, rows[r].draftOf # NoRecord)
      BY DEF TablesOK, AuditFollowsHistory, h
    <3>2. (rows[r].draftOf # NoRecord) = copy \/ h = <<>>
      BY DEF TablesOK, StoredHasHistory, Lawful, h
    <3>3. audit'[r] = LogChange(audit[r], logged, u, told.status, overridable)
      BY DEF WriteStep, TablesOK, TypeOK
    <3>4. /\ h \in Seq(Version) /\ i \in 0..Len(h) /\ v \in Nat /\ told \in Row
          /\ action \in ChangeAction /\ u \in Actor
      BY <1>2 DEF Lawful, Actor, h
    <3> HIDE DEF copy
    <3>5. Repeats(LogChange(audit[r], logged, u, told.status, overridable),
                  WriteHistory(h, i, v, told, action, u), copy)
      BY <1>2, <3>1, <3>2, <3>4, RepeatsStep
    <3> QED
      BY <1>1, <2>2, <3>3, <3>5 DEF g, copy
  <2> QED
    BY <2>1, <2>2
<1>11. GoldenWasPublished'
  <2> SUFFICES ASSUME RequiresDraft, NEW x \in RecordId, rows'[x].state \in {"active", "retired"}
               PROVE  \E j \in 1..Len(history'[x]) :
                        /\ history'[x][j].by \in Publisher
                        /\ \/ j > 1 /\ history'[x][j].action = "PUBLISH"
                           \/ j = 1 /\ history'[x][j].state = "active"
    BY DEF GoldenWasPublished
  <2>1. CASE x # r
    BY <1>1, <2>1 DEF TablesOK, GoldenWasPublished
  <2>2. CASE x = r /\ Master(r)
    <3>1. PICK j \in 1..Len(h) :
            /\ h[j].by \in Publisher
            /\ \/ j > 1 /\ h[j].action = "PUBLISH"
               \/ j = 1 /\ h[j].state = "active"
      BY <2>2 DEF TablesOK, GoldenWasPublished, Master, h
    <3>2. j \in 1..Len(g)
      BY <1>1, <1>2, <3>1
    <3>3. g[j].by = h[j].by /\ g[j].action = h[j].action /\ g[j].state = h[j].state
      BY <1>1, <3>1
    <3> QED
      BY <2>2, <3>1, <3>2, <3>3 DEF g
  <2>3. CASE x = r /\ ~Master(r)
    <3>1. Stored(r) /\ action = "PUBLISH" /\ u \in Publisher
      BY <1>1, <2>3 DEF Lawful
    <3>2. h # <<>>
      BY <3>1 DEF TablesOK, StoredHasHistory, h
    <3>3. Len(h) + 1 \in 1..Len(g) /\ Len(h) + 1 > 1
      BY <1>1, <1>2, <3>2 DEF h
    <3>4. g[Len(h) + 1].action = action /\ g[Len(h) + 1].by = u
      BY <1>1 DEF Snapshot
    <3> QED
      BY <2>3, <3>1, <3>3, <3>4 DEF g
  <2> QED
    BY <2>1, <2>2, <2>3
<1>12. TablesOK'
  BY <1>1, <1>5, <1>6, <1>7, <1>8, <1>9, <1>10, <1>11 DEF TablesOK
<1> QED
  BY <1>1, <1>4, <1>12 DEF g, h

-----------------------------------------------------------------------------
(* What a step leaves to the other requests, and what it makes of its own *)

LEMMA IdleType == Idle \in TxnRecord /\ Idle.pc = "idle"
<1>1. Absent \in Row
  BY BlankType, StatusType DEF Absent, Row
<1> QED
  BY <1>1, BlankType DEF Idle, TxnRecord, Step, Endpoint

\* A request stays sound while others write.
LEMMA OthersKeep ==
  ASSUME TablesOK, TypeOK', Grows, NEW t \in TxnRecord, RequestOK(t)
  PROVE  t.pc # "idle" =>
           /\ t.op # "create" /\ t.by \in Writer /\ t.id \in RecordId /\ Stored(t.id)'
           /\ t.read.draftOf = rows'[t.id].draftOf /\ t.read.state # "absent"
           /\ t.read.state \in {"active", "retired"} => Master(t.id)'
           /\ t.op = "revert" => \E i \in 1..Len(history'[t.id]) : t.arg = history'[t.id][i].data
           /\ t.src # NoRecord => rows'[t.src].draftOf = t.id
           /\ t.wanted \cup t.held \subseteq 1..Len(history'[t.id])
           /\ t.close \in 0..Len(history'[t.id])
           /\ t.version \in 0..Len(history'[t.id]) + 1
           /\ VersionAt(history'[t.id], t.close) = VersionAt(history[t.id], t.close)
<1> SUFFICES ASSUME t.pc # "idle"
             PROVE  /\ t.op # "create" /\ t.by \in Writer /\ t.id \in RecordId /\ Stored(t.id)'
                    /\ t.read.draftOf = rows'[t.id].draftOf /\ t.read.state # "absent"
                    /\ t.read.state \in {"active", "retired"} => Master(t.id)'
                    /\ t.op = "revert" =>
                         \E i \in 1..Len(history'[t.id]) : t.arg = history'[t.id][i].data
                    /\ t.src # NoRecord => rows'[t.src].draftOf = t.id
                    /\ t.wanted \cup t.held \subseteq 1..Len(history'[t.id])
                    /\ t.close \in 0..Len(history'[t.id])
                    /\ t.version \in 0..Len(history'[t.id]) + 1
                    /\ VersionAt(history'[t.id], t.close) = VersionAt(history[t.id], t.close)
  OBVIOUS
<1>1. Remembers(t) /\ Checked(t) /\ InHistory(t)
  BY DEF RequestOK
<1>2. /\ Stored(t.id)' /\ rows'[t.id].draftOf = rows[t.id].draftOf
      /\ Master(t.id) => Master(t.id)'
      /\ Len(history[t.id]) <= Len(history'[t.id])
      /\ \A j \in 1..Len(history[t.id]) :
           /\ history'[t.id][j].data = history[t.id][j].data
           /\ history'[t.id][j].version = history[t.id][j].version
  BY <1>1 DEF Grows, Remembers
<1>3. t.src # NoRecord => rows'[t.src].draftOf = t.id
  <2> SUFFICES ASSUME t.src # NoRecord PROVE rows'[t.src].draftOf = t.id
    OBVIOUS
  <2>1. t.src \in RecordId /\ rows[t.src].draftOf = t.id /\ t.id # NoRecord
    BY <1>1, NullsAssumption DEF Checked, Remembers
  <2>2. Stored(t.src)
    BY <2>1 DEF TablesOK, StoredHasHistory, Absent
  <2> QED
    BY <2>1, <2>2 DEF Grows
<1> DEFINE n == Len(history[t.id])
           m == Len(history'[t.id])
<1>4. n \in Nat /\ 1..n \subseteq 1..m /\ 0..n \subseteq 0..m /\ 0..n + 1 \subseteq 0..m + 1
  <2>1. n \in Nat /\ m \in Nat
    BY <1>1 DEF TablesOK, TypeOK, Remembers
  <2>2. n <= m
    BY <1>2
  <2> HIDE DEF n, m
  <2>3. \A k \in Int : k <= n => k <= m
    BY <2>1, <2>2
  <2> QED
    BY <2>1, <2>3
<1>5. t.op = "revert" => \E i \in 1..Len(history'[t.id]) : t.arg = history'[t.id][i].data
  BY <1>1, <1>2, <1>4 DEF Checked
<1>6. /\ t.wanted \cup t.held \subseteq 1..m /\ t.close \in 0..m /\ t.version \in 0..m + 1
  BY <1>1, <1>4 DEF InHistory
<1>7. VersionAt(history'[t.id], t.close) = VersionAt(history[t.id], t.close)
  <2>1. t.close = 0 \/ t.close \in 1..n
    BY <1>1, <1>4 DEF InHistory
  <2> QED
    BY <1>2, <2>1 DEF VersionAt
<1> QED
  BY <1>1, <1>2, <1>3, <1>5, <1>6, <1>7 DEF Remembers

LEMMA StillOK ==
  ASSUME TInv, TypeOK', Grows, NEW w \in Worker, txn'[w] = txn[w]
  PROVE  RequestOK(txn[w])'
<1>1. TablesOK /\ txn[w] \in TxnRecord /\ RequestOK(txn[w])
  BY DEF TInv
<1> SUFFICES ASSUME txn[w].pc # "idle"
             PROVE  (Remembers(txn[w]) /\ Checked(txn[w]) /\ AtStep(txn[w]) /\ InHistory(txn[w]))'
  BY <1>1 DEF RequestOK
<1> DEFINE t == txn[w]
<1>2. Remembers(t) /\ Checked(t) /\ AtStep(t) /\ InHistory(t)
  BY <1>1 DEF RequestOK
<1>3. /\ t.op # "create" /\ t.by \in Writer /\ t.id \in RecordId /\ Stored(t.id)'
      /\ t.read.draftOf = rows'[t.id].draftOf /\ t.read.state # "absent"
      /\ t.read.state \in {"active", "retired"} => Master(t.id)'
      /\ t.op = "revert" => \E i \in 1..Len(history'[t.id]) : t.arg = history'[t.id][i].data
      /\ t.src # NoRecord => rows'[t.src].draftOf = t.id
      /\ t.wanted \cup t.held \subseteq 1..Len(history'[t.id])
      /\ t.close \in 0..Len(history'[t.id])
      /\ t.version \in 0..Len(history'[t.id]) + 1
      /\ VersionAt(history'[t.id], t.close) = VersionAt(history[t.id], t.close)
  BY <1>1, OthersKeep
<1>4. Remembers(txn[w])'
  BY <1>3 DEF Remembers, Stored, Master
<1>5. Checked(txn[w])'
  BY <1>2, <1>3 DEF Checked
<1>6. AtStep(txn[w])'
  BY <1>2 DEF AtStep
<1>7. InHistory(txn[w])'
  BY <1>2, <1>3 DEF InHistory, VersionAt
<1> QED
  BY <1>4, <1>5, <1>6, <1>7

LEMMA StoreStays ==
  ASSUME TInv, UNCHANGED store
  PROVE  /\ TablesOK' /\ Grows /\ Written' = Written
         /\ \A t : RequestOK(t) <=> RequestOK(t)'
<1>1. rows' = rows /\ history' = history /\ audit' = audit /\ events' = events
  BY DEF store
<1>2. TypeOK' /\ StoredHasHistory' /\ VersionsInRange' /\ DraftsPointAtMasters'
  BY <1>1 DEF TInv, TablesOK, TypeOK, StoredHasHistory, VersionsInRange, DraftsPointAtMasters,
       Stored
<1>3. OneGoldenPerKey' /\ LiveHasOpenVersion'
  BY <1>1 DEF TInv, TablesOK, OneGoldenPerKey, LiveHasOpenVersion, Golden, Live, Stored
<1>4. AuditFollowsHistory' /\ GoldenWasPublished'
  BY <1>1 DEF TInv, TablesOK, AuditFollowsHistory, GoldenWasPublished
<1>5. Grows
  <2>1. \A x \in RecordId : Len(history[x]) \in Nat
    BY DEF TInv, TablesOK, TypeOK
  <2> QED
    BY <1>1, <2>1 DEF Grows, Stored, Master
<1>6. Written' = Written
  BY <1>1 DEF Written
<1>7. \A t : RequestOK(t) <=> RequestOK(t)'
  BY <1>1 DEF RequestOK, Remembers, Checked, AtStep, InHistory, Stored, Master, VersionAt
<1> QED
  BY <1>2, <1>3, <1>4, <1>5, <1>6, <1>7 DEF TablesOK

-----------------------------------------------------------------------------
(* Steps that write nothing: the request of w becomes t *)

\* Fewer requests are under way, or as many.
LEMMA RoomStays ==
  ASSUME RoomKept, IsFiniteSet(Written'), Cardinality(Written') = Cardinality(Written),
         BusyWorkers' \in SUBSET BusyWorkers
  PROVE  RoomKept'
<1>1. IsFiniteSet(BusyWorkers') /\ Cardinality(BusyWorkers') <= Cardinality(BusyWorkers)
  BY FS_Subset DEF RoomKept
<1>2. /\ Cardinality(Written) \in Nat /\ Cardinality(BusyWorkers) \in Nat
      /\ Cardinality(BusyWorkers') \in Nat
  BY <1>1, FS_CardinalityType DEF RoomKept
<1> QED
  BY <1>1, <1>2, BoundAssumption DEF RoomKept

\* The request of w becomes t, a sound one.
LEMMA RequestBecomes ==
  ASSUME TInv, RoomKept', NEW w \in Worker, NEW t \in TxnRecord, Go(w, t), RequestOK(t)
  PROVE  TInv'
<1>1. txn' = [txn EXCEPT ![w] = t] /\ UNCHANGED store
  BY DEF Go
<1>2. txn \in [Worker -> TxnRecord]
  BY DEF TInv
<1>3. /\ txn' \in [Worker -> TxnRecord] /\ txn'[w] = t
      /\ \A v \in Worker \ {w} : txn'[v] = txn[v]
  BY <1>1, <1>2
<1>4. TablesOK' /\ Grows /\ \A s : RequestOK(s) <=> RequestOK(s)'
  BY <1>1, StoreStays
<1>5. \A v \in Worker : RequestOK(txn[v])'
  <2> SUFFICES ASSUME NEW v \in Worker PROVE RequestOK(txn[v])'
    OBVIOUS
  <2>1. CASE v = w
    <3>1. RequestOK(t)'
      BY <1>4
    <3>2. txn'[v] = t
      BY <1>3, <2>1
    <3> QED
      BY <3>1, <3>2 DEF RequestOK, Remembers, Checked, AtStep, InHistory, Stored, Master, VersionAt
  <2>2. CASE v # w
    BY <1>3, <1>4, <2>2, StillOK DEF TablesOK
  <2> QED
    BY <2>1, <2>2
<1> QED
  BY <1>3, <1>4, <1>5 DEF TInv

LEMMA GoKeeps ==
  ASSUME TInv, NEW w \in Worker, NEW t \in TxnRecord, Go(w, t), RequestOK(t),
         t.pc # "idle" => Busy(w)
  PROVE  TInv'
<1>1. txn' = [txn EXCEPT ![w] = t] /\ UNCHANGED store
  BY DEF Go
<1>2. txn'[w] = t /\ \A v \in Worker \ {w} : txn'[v] = txn[v]
  BY <1>1 DEF TInv
<1>3. BusyWorkers' \in SUBSET BusyWorkers
  BY <1>2 DEF BusyWorkers, Busy
<1>4. Written' = Written
  BY <1>1, StoreStays
<1>5. RoomKept'
  BY <1>3, <1>4, RoomStays DEF TInv, RoomKept
<1> QED
  BY <1>5, RequestBecomes

\* A new request: there is room for what it will write.
LEMMA BeginKeeps ==
  ASSUME TInv, NEW w \in Worker, NEW op \in Endpoint, NEW u \in Writer,
         NEW pc \in {"findDraft", "lockHistory", "readMaster"}, NEW r \in RecordId,
         NEW arg \in Body \cup Data,
         Begin(w, op, u, pc, r, arg), op # "create", Stored(r),
         LET t == [Idle EXCEPT !.pc = pc, !.op = op, !.by = u, !.id = r, !.read = rows[r],
                               !.arg = arg]
         IN Checked(t) /\ AtStep(t)
  PROVE  TInv'
<1> DEFINE t == [Idle EXCEPT !.pc = pc, !.op = op, !.by = u, !.id = r, !.read = rows[r],
                             !.arg = arg]
<1>0. rows \in [RecordId -> Row] /\ history \in [RecordId -> Seq(Version)]
  BY DEF TInv, TablesOK, TypeOK
<1>1. /\ t \in TxnRecord /\ t.pc = pc /\ t.op = op /\ t.by = u /\ t.id = r /\ t.read = rows[r]
      /\ t.wanted = {} /\ t.held = {} /\ t.close = 0 /\ t.version = 0
  BY <1>0, IdleType DEF TxnRecord, Idle, Step
<1>2. Go(w, t) /\ HasRoomForMore
  BY DEF Begin, Go
<1>3. Checked(t) /\ AtStep(t)
  OBVIOUS
<1>4. RequestOK(t)
  <2> HIDE DEF t
  <2>1. Remembers(t)
    BY <1>1 DEF Remembers, Stored, Master
  <2>2. InHistory(t)
    BY <1>0, <1>1 DEF InHistory
  <2> QED
    BY <1>1, <1>3, <2>1, <2>2 DEF RequestOK
<1>5. \A v \in Worker \ {w} : txn'[v] = txn[v]
  BY <1>2 DEF Go, TInv
<1>6. Written' = Written
  BY <1>2, StoreStays DEF Go
<1>7. RoomKept'
  <2>1. BusyWorkers' \in SUBSET (BusyWorkers \cup {w})
    BY <1>5 DEF BusyWorkers, Busy
  <2>2. IsFiniteSet(Written) /\ IsFiniteSet(BusyWorkers)
    BY DEF TInv, RoomKept
  <2>3. Cardinality(Written) \in Nat /\ Cardinality(BusyWorkers) \in Nat
    BY <2>2, FS_CardinalityType
  <2>4. /\ IsFiniteSet(BusyWorkers \cup {w})
        /\ Cardinality(BusyWorkers \cup {w})
             \in {Cardinality(BusyWorkers), Cardinality(BusyWorkers) + 1}
    BY <2>2, FS_AddElement
  <2>5. /\ IsFiniteSet(BusyWorkers')
        /\ Cardinality(BusyWorkers') <= Cardinality(BusyWorkers \cup {w})
    BY <2>1, <2>4, FS_Subset
  <2>6. Cardinality(BusyWorkers') \in Nat
    BY <2>5, FS_CardinalityType
  <2>7. Cardinality(Written) + Cardinality(BusyWorkers) < MaxChanges
    BY <1>2 DEF HasRoomForMore, BusyWorkers
  <2>8. Cardinality(Written) + Cardinality(BusyWorkers') <= MaxChanges
    BY <2>3, <2>4, <2>5, <2>6, <2>7, BoundAssumption
  <2> QED
    BY <1>6, <2>2, <2>5, <2>8 DEF RoomKept
<1> HIDE DEF t
<1> QED
  BY <1>1, <1>2, <1>4, <1>7, RequestBecomes

\* The record a worker starts from: the fields the handler does not set yet are
\* those of Idle.
LEMMA StartIs ==
  ASSUME NEW pc, NEW op, NEW u, NEW r, NEW read, NEW arg
  PROVE  LET t == [Idle EXCEPT !.pc = pc, !.op = op, !.by = u, !.id = r, !.read = read, !.arg = arg]
         IN /\ t.pc = pc /\ t.op = op /\ t.by = u /\ t.id = r /\ t.read = read /\ t.arg = arg
            /\ t.src = NoRecord /\ t.wanted = {} /\ t.held = {} /\ t.close = 0 /\ t.version = 0
BY DEF Idle

LEMMA RequestKeeps ==
  ASSUME TInv, NEW w \in Worker, NEW r \in RecordId, NEW u \in Writer,
         \/ \E body \in Body : BeginEdit(w, r, body, u)
         \/ BeginDelete(w, r, u)
         \/ \E target \in 1..MaxChanges : BeginRevert(w, r, target, u)
         \/ BeginPublish(w, r, u)
         \/ BeginRetire(w, r, u)
  PROVE  TInv'
<1> DEFINE Start(op, pc, arg) ==
             [Idle EXCEPT !.pc = pc, !.op = op, !.by = u, !.id = r, !.read = rows[r], !.arg = arg]
<1>1. /\ rows[r] \in Row /\ history[r] \in Seq(Version) /\ Blank \in Data
      /\ \A o \in {"edit", "delete", "revert", "publish", "retire"} : o \in Endpoint
  BY BlankType DEF TInv, TablesOK, TypeOK, Endpoint
<1>2. \A op, pc, arg :
        LET t == Start(op, pc, arg) IN
        /\ t.pc = pc /\ t.op = op /\ t.by = u /\ t.id = r /\ t.read = rows[r] /\ t.arg = arg
        /\ t.src = NoRecord /\ t.wanted = {} /\ t.held = {} /\ t.close = 0 /\ t.version = 0
  BY StartIs
<1> HIDE DEF Start
<1>3. ASSUME NEW op \in {"edit", "delete", "revert", "publish", "retire"},
             NEW pc \in {"findDraft", "lockHistory", "readMaster"}, NEW arg \in Body \cup Data,
             Begin(w, op, u, pc, r, arg), Stored(r),
             Checked(Start(op, pc, arg)), AtStep(Start(op, pc, arg))
      PROVE  TInv'
  <2>1. op \in Endpoint /\ op # "create"
    BY <1>1, <1>3
  <2> QED
    BY <1>3, <2>1, BeginKeeps DEF Start
<1>4. CASE \E body \in Body : BeginEdit(w, r, body, u)
  <2>1. PICK body \in Body : BeginEdit(w, r, body, u)
    BY <1>4
  <2> DEFINE pc == IF Golden(r) THEN "findDraft" ELSE "lockHistory"
             t == Start("edit", pc, body)
  <2>2. /\ Live(r)
        /\ rows[r].state = "retired" => u \in Publisher
        /\ Begin(w, "edit", u, pc, r, body)
    BY <2>1 DEF BeginEdit
  <2>3. /\ t.pc = pc /\ t.op = "edit" /\ t.by = u /\ t.id = r /\ t.read = rows[r] /\ t.arg = body
        /\ t.src = NoRecord /\ t.wanted = {} /\ t.held = {} /\ t.close = 0 /\ t.version = 0
    BY <1>2
  <2>4. pc \in {"findDraft", "lockHistory"} /\ (Golden(r) <=> pc = "findDraft")
    OBVIOUS
  <2> HIDE DEF t, pc
  <2>5. Stored(r) /\ ~rows[r].deleted /\ (rows[r].state = "active" <=> pc = "findDraft")
    BY <2>2, <2>4 DEF Live, Golden
  <2>6. Checked(t) /\ AtStep(t)
    BY <2>2, <2>3, <2>4, <2>5 DEF Checked, AtStep
  <2> QED
    BY <1>3, <2>2, <2>4, <2>5, <2>6 DEF t
<1>5. CASE BeginDelete(w, r, u)
  <2> DEFINE t == Start("delete", "lockHistory", Blank)
  <2>2. Live(r) /\ Begin(w, "delete", u, "lockHistory", r, Blank)
    BY <1>5 DEF BeginDelete
  <2>3. /\ t.pc = "lockHistory" /\ t.op = "delete" /\ t.read = rows[r] /\ t.src = NoRecord
    BY <1>2
  <2> HIDE DEF t
  <2>5. Stored(r) /\ ~rows[r].deleted
    BY <2>2 DEF Live
  <2>6. Checked(t) /\ AtStep(t)
    BY <2>3, <2>5 DEF Checked, AtStep
  <2> QED
    BY <1>1, <1>3, <2>2, <2>5, <2>6 DEF t
<1>6. CASE \E target \in 1..MaxChanges : BeginRevert(w, r, target, u)
  <2>1. PICK target \in 1..MaxChanges : BeginRevert(w, r, target, u)
    BY <1>6
  <2> DEFINE arg == history[r][target].data
             t == Start("revert", "lockHistory", arg)
  <2>2. /\ Stored(r) /\ target \in 1..Len(history[r])
        /\ rows[r].state \in {"active", "retired"} => u \in Publisher
        /\ Begin(w, "revert", u, "lockHistory", r, arg)
    BY <2>1 DEF BeginRevert
  <2>3. /\ t.pc = "lockHistory" /\ t.op = "revert" /\ t.by = u /\ t.id = r /\ t.read = rows[r]
        /\ t.arg = arg /\ t.src = NoRecord
    BY <1>2
  <2>4. arg \in Data
    <3>1. history[r][target] \in Version
      BY <1>1, <2>2
    <3> QED
      BY <3>1 DEF Version
  <2> HIDE DEF t
  <2>6. Checked(t) /\ AtStep(t)
    BY <2>2, <2>3 DEF Checked, AtStep
  <2> QED
    BY <1>3, <2>2, <2>4, <2>6 DEF t
<1>7. CASE BeginPublish(w, r, u)
  <2> DEFINE pc == IF rows[r].draftOf = NoRecord THEN "lockHistory" ELSE "readMaster"
             t == Start("publish", pc, Blank)
  <2>2. u \in Publisher /\ Draft(r) /\ Begin(w, "publish", u, pc, r, Blank)
    BY <1>7 DEF BeginPublish
  <2>3. /\ t.pc = pc /\ t.op = "publish" /\ t.by = u /\ t.id = r /\ t.read = rows[r]
        /\ t.src = NoRecord /\ t.wanted = {} /\ t.held = {} /\ t.close = 0 /\ t.version = 0
    BY <1>2
  <2>4. pc \in {"lockHistory", "readMaster"} /\ (rows[r].draftOf = NoRecord <=> pc = "lockHistory")
    OBVIOUS
  <2> HIDE DEF t, pc
  <2>5. Stored(r) /\ ~rows[r].deleted /\ rows[r].state = "draft"
    BY <2>2 DEF Live, Draft
  <2>6. Checked(t) /\ AtStep(t)
    BY <2>2, <2>3, <2>4, <2>5 DEF Checked, AtStep
  <2> QED
    BY <1>1, <1>3, <2>2, <2>4, <2>5, <2>6 DEF t
<1>8. CASE BeginRetire(w, r, u)
  <2> DEFINE t == Start("retire", "lockHistory", Blank)
  <2>2. /\ AllowRetire /\ u \in Publisher /\ Golden(r)
        /\ Begin(w, "retire", u, "lockHistory", r, Blank)
    BY <1>8 DEF BeginRetire
  <2>3. /\ t.pc = "lockHistory" /\ t.op = "retire" /\ t.by = u /\ t.read = rows[r]
        /\ t.src = NoRecord
    BY <1>2
  <2> HIDE DEF t
  <2>5. Stored(r) /\ ~rows[r].deleted /\ rows[r].state = "active"
    BY <2>2 DEF Live, Golden
  <2>6. Checked(t) /\ AtStep(t)
    BY <2>2, <2>3, <2>5 DEF Checked, AtStep
  <2> QED
    BY <1>1, <1>3, <2>2, <2>5, <2>6 DEF t
<1> QED
  BY <1>4, <1>5, <1>6, <1>7, <1>8

-----------------------------------------------------------------------------
(* The statements that write nothing others can see *)

\* A request that goes on with what it knows.
LEMMA SameRequest ==
  ASSUME NEW t, NEW n, RequestOK(t), t.pc # "idle", t.pc # "readMaster", n.pc # "idle",
         n.op = t.op, n.by = t.by, n.id = t.id, n.src = t.src, n.read = t.read, n.arg = t.arg,
         n.pc \in {"findDraft", "insertDraft"} <=> t.pc \in {"findDraft", "insertDraft"},
         AtStep(n), InHistory(n)
  PROVE  RequestOK(n)
<1>1. Remembers(t) /\ Checked(t)
  BY DEF RequestOK
<1>2. Remembers(n)
  BY <1>1 DEF Remembers
<1>3. Checked(n)
  BY <1>1 DEF Checked
<1> QED
  BY <1>2, <1>3 DEF RequestOK

\* Its positions stay in the history when they are taken from it.
LEMMA LockedKeeps ==
  ASSUME TInv, NEW w \in Worker, txn[w].pc \in {"lockHistory", "waitHistory"},
         NEW got \in SUBSET (1..Len(history[txn[w].id])), Locked(w, txn[w], got)
  PROVE  TInv'
<1> DEFINE t == txn[w]
           h == history[t.id]
<1>1. t \in TxnRecord /\ RequestOK(t) /\ t.pc # "idle" /\ Busy(w)
  BY DEF TInv, Busy
<1>2. Remembers(t) /\ Checked(t) /\ AtStep(t) /\ InHistory(t)
  BY <1>1 DEF RequestOK
<1>3. /\ h \in Seq(Version) /\ Len(h) \in Nat
      /\ \A i \in 1..Len(h) : h[i].version \in 0..i
  <2>1. h \in Seq(Version)
    BY <1>2 DEF TInv, TablesOK, TypeOK, Remembers
  <2>2. \A i \in 1..Len(h) : h[i] \in Version
    BY <2>1
  <2>3. \A i \in 1..Len(h) : h[i].version \in Nat /\ h[i].version <= i
    BY <1>2, <2>2 DEF TInv, TablesOK, VersionsInRange, Remembers, Version
  <2> QED
    BY <2>1, <2>3
<1> DEFINE N(i) == [t EXCEPT
                      !.pc = IF t.op = "revert" THEN "findOpen"
                             ELSE IF t.src # NoRecord THEN "update" ELSE "finish",
                      !.held = got, !.wanted = {},
                      !.close = IF t.op = "revert" THEN 0 ELSE i,
                      !.version = VersionAt(history[t.id], i) + 1]
<1>4. PICK i \in (IF got = {} THEN {0} ELSE got) : Go(w, N(i))
  BY DEF Locked
<1>5. i \in 0..Len(h) /\ VersionAt(h, i) + 1 \in 0..Len(h) + 1
  <2>1. CASE i = 0
    BY <1>3, <2>1 DEF VersionAt
  <2>2. CASE i # 0
    <3>1. i \in 1..Len(h)
      BY <1>4, <2>2
    <3> QED
      BY <1>3, <2>2, <3>1 DEF VersionAt
  <2> QED
    BY <2>1, <2>2
<1>6. /\ N(i) \in TxnRecord
      /\ N(i).op = t.op /\ N(i).by = t.by /\ N(i).id = t.id /\ N(i).src = t.src
      /\ N(i).read = t.read /\ N(i).arg = t.arg
      /\ N(i).pc = IF t.op = "revert" THEN "findOpen"
                   ELSE IF t.src # NoRecord THEN "update" ELSE "finish"
      /\ N(i).wanted = {} /\ N(i).held = got
      /\ N(i).close = (IF t.op = "revert" THEN 0 ELSE i)
      /\ N(i).version = VersionAt(h, i) + 1
  <2>1. got \in SUBSET Nat /\ i \in Nat /\ VersionAt(h, i) + 1 \in Nat
    BY <1>3, <1>5
  <2> HIDE DEF h
  <2> QED
    BY <1>1, <2>1 DEF TxnRecord, Step, h
<1> HIDE DEF N
<1>7. AtStep(N(i)) /\ InHistory(N(i))
  BY <1>3, <1>5, <1>6 DEF AtStep, InHistory
<1>8. RequestOK(N(i))
  BY <1>1, <1>6, <1>7, SameRequest
<1> QED
  BY <1>1, <1>4, <1>6, <1>8, GoKeeps

LEMMA LockHistoryKeeps ==
  ASSUME TInv, NEW w \in Worker, LockHistory(w) \/ WakeHistory(w)
  PROVE  TInv'
<1> DEFINE t == txn[w]
           h == history[t.id]
<1>1. t.pc \in {"lockHistory", "waitHistory"}
  BY DEF LockHistory, WakeHistory
<1>2. t \in TxnRecord /\ RequestOK(t) /\ t.pc # "idle" /\ Busy(w)
  BY <1>1 DEF TInv, Busy
<1>3. Remembers(t) /\ Checked(t) /\ AtStep(t) /\ InHistory(t)
  BY <1>2 DEF RequestOK
<1>4. CASE LockHistory(w)
  <2>1. PICK S \in IF t.op = "revert" THEN {{i} : i \in LatestRow(h)} ELSE {OpenRows(h)} :
          IF HistoryTaken(w, t.id, S)
          THEN Go(w, [t EXCEPT !.pc = "waitHistory", !.wanted = S])
          ELSE Locked(w, t, S)
    BY <1>4 DEF LockHistory
  <2>2. S \in SUBSET (1..Len(h))
    BY <2>1 DEF LatestRow, OpenRows
  <2>3. CASE HistoryTaken(w, t.id, S)
    <3> DEFINE n == [t EXCEPT !.pc = "waitHistory", !.wanted = S]
    <3>1. /\ n \in TxnRecord
          /\ n.op = t.op /\ n.by = t.by /\ n.id = t.id /\ n.src = t.src
          /\ n.read = t.read /\ n.arg = t.arg /\ n.pc = "waitHistory" /\ n.wanted = S
          /\ n.held = t.held /\ n.close = t.close /\ n.version = t.version
      <4>1. S \in SUBSET Nat
        BY <2>2
      <4> HIDE DEF h
      <4> QED
        BY <1>2, <4>1 DEF TxnRecord, Step
    <3>2. t.pc = "lockHistory" /\ Go(w, n)
      BY <1>4, <2>1, <2>3 DEF LockHistory
    <3> HIDE DEF n
    <3>3. AtStep(n) /\ InHistory(n)
      BY <1>3, <2>2, <3>1 DEF AtStep, InHistory
    <3>4. RequestOK(n)
      BY <1>2, <3>1, <3>2, <3>3, SameRequest
    <3> QED
      BY <1>2, <3>1, <3>2, <3>4, GoKeeps
  <2>4. CASE ~HistoryTaken(w, t.id, S)
    BY <1>1, <2>1, <2>2, <2>4, LockedKeeps
  <2> QED
    BY <2>3, <2>4
<1>5. CASE WakeHistory(w)
  <2> DEFINE got == IF t.op = "revert" THEN t.wanted ELSE t.wanted \cap OpenRows(history[t.id])
  <2>1. Locked(w, t, got)
    BY <1>5 DEF WakeHistory
  <2>2. got \in SUBSET (1..Len(h))
    BY <1>3 DEF InHistory
  <2> HIDE DEF got
  <2> QED
    BY <1>1, <2>1, <2>2, LockedKeeps
<1> QED
  BY <1>4, <1>5

LEMMA StatementKeeps ==
  ASSUME TInv, NEW w \in Worker,
         \/ FindDraft(w) \/ ReadMaster(w) \/ UpdateDraft(w) \/ UpdateMaster(w)
         \/ FindOpen(w) \/ CloseOpen(w) \/ Abort(w)
  PROVE  TInv'
<1> DEFINE t == txn[w]
<1>1. t \in TxnRecord /\ t.pc # "idle" /\ RequestOK(t) /\ Busy(w)
  BY DEF TInv, Busy, FindDraft, ReadMaster, UpdateDraft, UpdateMaster, FindOpen, CloseOpen, Abort
<1>2. Remembers(t) /\ Checked(t) /\ AtStep(t) /\ InHistory(t)
  BY <1>1 DEF RequestOK
<1>3. /\ rows \in [RecordId -> Row] /\ t.id \in RecordId /\ Len(history[t.id]) \in Nat
      /\ \A r \in RecordId : Len(history[r]) \in Nat
  BY <1>2 DEF TInv, TablesOK, TypeOK, Remembers
<1>4. Idle \in TxnRecord /\ RequestOK(Idle)
  BY IdleType DEF RequestOK
\* The same request, at another statement.
<1>5. ASSUME NEW n \in TxnRecord, Go(w, n),
             n.op = t.op, n.by = t.by, n.id = t.id, n.src = t.src, n.read = t.read,
             n.arg = t.arg, n.wanted = t.wanted, n.version = t.version,
             n.held \in SUBSET (1..Len(history[t.id])), n.close \in 0..Len(history[t.id]),
             n.pc \in {"lockHistory", "closeOpen", "finish"},
             t.pc \notin {"findDraft", "insertDraft", "readMaster"},
             n.pc = "closeOpen" => t.op = "revert",
             n.pc = "finish" =>
               t.op = "revert" \/ (t.pc = "update" /\ t.op = "publish" /\ n.close = t.close)
      PROVE  TInv'
  <2>1. AtStep(n)
    BY <1>2, <1>5 DEF AtStep
  <2>2. InHistory(n)
    BY <1>2, <1>5 DEF InHistory
  <2>3. RequestOK(n)
    <3>1. n.pc \in {"findDraft", "insertDraft"} <=> t.pc \in {"findDraft", "insertDraft"}
      BY <1>5
    <3> QED
      BY <1>1, <1>5, <2>1, <2>2, <3>1, SameRequest
  <2> QED
    BY <1>1, <1>5, <2>3, GoKeeps
<1>6. CASE FindDraft(w)
  <2> DEFINE ds == DraftsOf(t.id)
  <2>1. /\ t.pc = "findDraft" /\ t.op = "edit"
        /\ \/ Go(w, [t EXCEPT !.pc = "insertDraft"])
           \/ \E d \in ds : Go(w, [t EXCEPT !.pc = "update", !.id = d, !.read = rows[d]])
    BY <1>2, <1>6 DEF FindDraft, AtStep
  <2>2. CASE Go(w, [t EXCEPT !.pc = "insertDraft"])
    <3> DEFINE n == [t EXCEPT !.pc = "insertDraft"]
    <3>1. /\ n \in TxnRecord
          /\ n.op = t.op /\ n.by = t.by /\ n.id = t.id /\ n.src = t.src
          /\ n.read = t.read /\ n.arg = t.arg /\ n.pc = "insertDraft" /\ n.wanted = t.wanted
          /\ n.held = t.held /\ n.close = t.close /\ n.version = t.version
      BY <1>1 DEF TxnRecord, Step
    <3> HIDE DEF n
    <3>2. AtStep(n) /\ InHistory(n)
      BY <1>2, <2>1, <3>1 DEF AtStep, InHistory
    <3>3. RequestOK(n)
      BY <1>1, <2>1, <3>1, <3>2, SameRequest
    <3> QED
      BY <1>1, <2>2, <3>1, <3>3, GoKeeps DEF n
  <2>3. CASE \E d \in ds : Go(w, [t EXCEPT !.pc = "update", !.id = d, !.read = rows[d]])
    <3>1. PICK d \in ds : Go(w, [t EXCEPT !.pc = "update", !.id = d, !.read = rows[d]])
      BY <2>3
    <3> DEFINE n == [t EXCEPT !.pc = "update", !.id = d, !.read = rows[d]]
    <3>2. d \in RecordId /\ Stored(d) /\ rows[d].state = "draft" /\ ~rows[d].deleted
      BY <3>1 DEF DraftsOf, Draft, Live
    <3>3. /\ n \in TxnRecord
          /\ n.op = "edit" /\ n.by = t.by /\ n.id = d /\ n.src = t.src
          /\ n.read = rows[d] /\ n.arg = t.arg /\ n.pc = "update" /\ n.wanted = t.wanted
          /\ n.held = t.held /\ n.close = t.close /\ n.version = t.version
      BY <1>1, <1>3, <2>1, <3>2 DEF TxnRecord, Step
    <3> HIDE DEF n
    <3>4. Remembers(n) /\ AtStep(n)
      BY <1>2, <3>2, <3>3 DEF Remembers, AtStep, Stored, Master
    <3>5. Checked(n)
      <4>1. n.src = NoRecord /\ n.arg \in Body
        BY <1>2, <2>1, <3>3 DEF Checked
      <4>d. n.read = rows[d] /\ n.pc = "update" /\ n.op = "edit"
        BY <3>3
      <4>2. n.read.state = "draft" /\ ~n.read.deleted /\ n.pc = "update" /\ n.op = "edit"
        BY <3>2, <4>d, Zenon
      <4> QED
        BY <4>1, <4>2 DEF Checked
    <3>6. InHistory(n)
      <4>1. n.wanted = {} /\ n.held = {} /\ n.close = 0 /\ n.version = 0 /\ Len(history[d]) \in Nat
        BY <1>2, <1>3, <2>1, <3>2, <3>3 DEF AtStep
      <4> QED
        BY <3>3, <4>1 DEF InHistory
    <3> QED
      BY <1>1, <3>1, <3>3, <3>4, <3>5, <3>6, GoKeeps DEF n, RequestOK
  <2> QED
    BY <2>1, <2>2, <2>3
<1>7. CASE ReadMaster(w)
  <2> DEFINE m == t.read.draftOf
             n == [t EXCEPT !.pc = "lockHistory", !.id = m, !.src = t.id,
                            !.read = rows[m], !.arg = t.read.data]
  <2>1. t.pc = "readMaster" /\ t.op = "publish" /\ t.src = NoRecord
    BY <1>2, <1>7 DEF ReadMaster, AtStep
  <2>2. CASE ~Golden(m)
    <3>1. Go(w, Idle)
      BY <1>7, <2>2 DEF ReadMaster
    <3> QED
      BY <1>1, <1>4, <3>1, GoKeeps
  <2>3. CASE Golden(m)
    <3>1. Go(w, n)
      BY <1>7, <2>3 DEF ReadMaster
    <3>2. rows[t.id].draftOf = m /\ m # NoRecord
      BY <1>2, <2>1 DEF Remembers, AtStep
    <3>3. m \in RecordId /\ rows[m] \in Row /\ t.read.data \in Data
      <4>1. rows[t.id].draftOf \in RecordId \cup {NoRecord}
        BY <1>3 DEF Row
      <4>2. t.read \in Row
        BY <1>1 DEF TxnRecord
      <4> QED
        BY <1>3, <3>2, <4>1, <4>2 DEF Row
    <3>4. /\ n \in TxnRecord
          /\ n.op = "publish" /\ n.by = t.by /\ n.id = m /\ n.src = t.id
          /\ n.read = rows[m] /\ n.arg = t.read.data /\ n.pc = "lockHistory"
          /\ n.wanted = t.wanted /\ n.held = t.held /\ n.close = t.close
          /\ n.version = t.version
      <4> HIDE DEF m
      <4> QED
        BY <1>1, <1>3, <2>1, <3>3 DEF TxnRecord, Step
    <3>5. Stored(m) /\ rows[m].state = "active" /\ ~rows[m].deleted
      BY <2>3 DEF Golden, Live
    <3> HIDE DEF n, m
    <3>6. Remembers(n) /\ AtStep(n)
      BY <1>2, <3>3, <3>4, <3>5 DEF Remembers, AtStep, Stored, Master
    <3>7. Checked(n)
      BY <1>2, <1>3, <2>1, <3>2, <3>3, <3>4, <3>5, NullsAssumption DEF Checked
    <3>8. InHistory(n)
      <4>1. n.wanted = {} /\ n.held = {} /\ n.close = 0 /\ n.version = 0 /\ Len(history[m]) \in Nat
        BY <1>2, <1>3, <2>1, <3>3, <3>4 DEF AtStep
      <4> QED
        BY <3>4, <4>1 DEF InHistory
    <3> QED
      BY <1>1, <3>1, <3>4, <3>6, <3>7, <3>8, GoKeeps DEF RequestOK
  <2> QED
    BY <2>2, <2>3
<1>8. CASE UpdateDraft(w)
  <2> DEFINE n == [t EXCEPT !.pc = "lockHistory", !.locked = {t.id}]
  <2>1. t.pc = "update" /\ Go(w, n)
    BY <1>8 DEF UpdateDraft
  <2>2. /\ n \in TxnRecord
        /\ n.op = t.op /\ n.by = t.by /\ n.id = t.id /\ n.src = t.src /\ n.read = t.read
        /\ n.arg = t.arg /\ n.wanted = t.wanted /\ n.version = t.version
        /\ n.held = t.held /\ n.close = t.close /\ n.pc = "lockHistory"
    BY <1>1, <1>3 DEF TxnRecord, Step
  <2> HIDE DEF n
  <2>3. t.held \in SUBSET (1..Len(history[t.id])) /\ t.close \in 0..Len(history[t.id])
    BY <1>2 DEF InHistory
  <2> QED
    BY <1>5, <2>1, <2>2, <2>3
<1>9. CASE UpdateMaster(w)
  <2> DEFINE n == [t EXCEPT !.pc = "finish", !.locked = {t.id}]
  <2>1. t.pc = "update" /\ t.op = "publish" /\ Go(w, n)
    BY <1>9 DEF UpdateMaster
  <2>2. /\ n \in TxnRecord
        /\ n.op = t.op /\ n.by = t.by /\ n.id = t.id /\ n.src = t.src /\ n.read = t.read
        /\ n.arg = t.arg /\ n.wanted = t.wanted /\ n.version = t.version
        /\ n.held = t.held /\ n.close = t.close /\ n.pc = "finish"
    BY <1>1, <1>3 DEF TxnRecord, Step
  <2> HIDE DEF n
  <2>3. t.held \in SUBSET (1..Len(history[t.id])) /\ t.close \in 0..Len(history[t.id])
    BY <1>2 DEF InHistory
  <2> QED
    BY <1>5, <2>1, <2>2, <2>3
<1>10. CASE FindOpen(w)
  <2>1. /\ t.pc = "findOpen" /\ t.op = "revert"
        /\ \E i \in FirstOpen(history[t.id]) : Go(w, [t EXCEPT !.pc = "closeOpen", !.close = i])
    BY <1>2, <1>10 DEF FindOpen, AtStep
  <2>2. PICK i \in FirstOpen(history[t.id]) : Go(w, [t EXCEPT !.pc = "closeOpen", !.close = i])
    BY <2>1
  <2> DEFINE n == [t EXCEPT !.pc = "closeOpen", !.close = i]
  <2>3. i \in 0..Len(history[t.id]) /\ i \in Nat
    BY <1>3, <2>2 DEF FirstOpen, OpenRows
  <2>4. /\ n \in TxnRecord
        /\ n.op = t.op /\ n.by = t.by /\ n.id = t.id /\ n.src = t.src /\ n.read = t.read
        /\ n.arg = t.arg /\ n.wanted = t.wanted /\ n.version = t.version
        /\ n.held = t.held /\ n.close = i /\ n.pc = "closeOpen"
    BY <1>1, <2>3 DEF TxnRecord, Step
  <2>5. Go(w, n)
    BY <2>2
  <2> HIDE DEF n
  <2>6. t.held \in SUBSET (1..Len(history[t.id]))
    BY <1>2 DEF InHistory
  <2> QED
    BY <1>5, <2>1, <2>3, <2>4, <2>5, <2>6
<1>11. CASE CloseOpen(w)
  <2> DEFINE held == t.held \cup ({t.close} \ {0})
             n == [t EXCEPT !.pc = "finish", !.held = held]
  <2>1. t.pc = "closeOpen" /\ t.op = "revert" /\ Go(w, n)
    BY <1>1, <1>2, <1>11 DEF CloseOpen, AtStep, TxnRecord
  <2>2. /\ held \in SUBSET (1..Len(history[t.id])) /\ t.close \in 0..Len(history[t.id])
        /\ held \in SUBSET Nat
    BY <1>2, <1>3 DEF InHistory
  <2> HIDE DEF held
  <2>3. /\ n \in TxnRecord
        /\ n.op = t.op /\ n.by = t.by /\ n.id = t.id /\ n.src = t.src /\ n.read = t.read
        /\ n.arg = t.arg /\ n.wanted = t.wanted /\ n.version = t.version
        /\ n.held = held /\ n.close = t.close /\ n.pc = "finish"
    BY <1>1, <2>2 DEF TxnRecord, Step
  <2> HIDE DEF n
  <2> QED
    BY <1>5, <2>1, <2>2, <2>3
<1>12. CASE Abort(w)
  BY <1>1, <1>4, <1>12, GoKeeps DEF Abort
<1> QED
  BY <1>6, <1>7, <1>8, <1>9, <1>10, <1>11, <1>12

-----------------------------------------------------------------------------
(* The commits *)

\* A commit uses up the room its request was given.
LEMMA CommitKeeps ==
  ASSUME TInv, TablesOK', Grows, NEW r \in RecordId, NEW g,
         history' = [history EXCEPT ![r] = g], Len(g) = Len(history[r]) + 1,
         \/ \E w \in Worker : Busy(w) /\ txn' = [txn EXCEPT ![w] = Idle]
         \/ HasRoomForMore /\ UNCHANGED txn
  PROVE  TInv'
<1>1. /\ TypeOK /\ TypeOK' /\ txn \in [Worker -> TxnRecord]
      /\ IsFiniteSet(Written) /\ IsFiniteSet(BusyWorkers)
      /\ Cardinality(Written) + Cardinality(BusyWorkers) <= MaxChanges
  BY DEF TInv, TablesOK, RoomKept
<1>2. IsFiniteSet(Written') /\ Cardinality(Written') = Cardinality(Written) + 1
  BY <1>1, WrittenGrows
<1>3. Cardinality(Written) \in Nat /\ Cardinality(BusyWorkers) \in Nat
  BY <1>1, FS_CardinalityType
<1>4. CASE \E w \in Worker : Busy(w) /\ txn' = [txn EXCEPT ![w] = Idle]
  <2>1. PICK w \in Worker : Busy(w) /\ txn' = [txn EXCEPT ![w] = Idle]
    BY <1>4
  <2>2. /\ txn' \in [Worker -> TxnRecord] /\ txn'[w] = Idle
        /\ \A v \in Worker \ {w} : txn'[v] = txn[v]
    BY <1>1, <2>1, IdleType
  <2>3. BusyWorkers' = BusyWorkers \ {w} /\ w \in BusyWorkers
    BY <2>1, <2>2, IdleType DEF BusyWorkers, Busy
  <2>4. IsFiniteSet(BusyWorkers') /\ Cardinality(BusyWorkers') = Cardinality(BusyWorkers) - 1
    BY <1>1, <2>3, FS_RemoveElement
  <2>5. RoomKept'
    BY <1>1, <1>2, <1>3, <2>4, BoundAssumption DEF RoomKept
  <2>6. ASSUME NEW v \in Worker PROVE RequestOK(txn[v])'
    <3>1. CASE v = w
      BY <2>2, <3>1, IdleType DEF RequestOK
    <3>2. CASE v # w
      BY <1>1, <2>2, <3>2, StillOK
    <3> QED
      BY <3>1, <3>2
  <2> QED
    BY <2>2, <2>5, <2>6 DEF TInv
<1>5. CASE HasRoomForMore /\ UNCHANGED txn
  <2>1. BusyWorkers' = BusyWorkers
    BY <1>5 DEF BusyWorkers, Busy
  <2>2. Cardinality(Written) + Cardinality(BusyWorkers) < MaxChanges
    BY <1>5 DEF HasRoomForMore, BusyWorkers
  <2>3. RoomKept'
    BY <1>1, <1>2, <1>3, <2>1, <2>2, BoundAssumption DEF RoomKept
  <2>4. \A v \in Worker : RequestOK(txn[v])'
    BY <1>1, <1>5, StillOK
  <2> QED
    BY <1>1, <1>5, <2>3, <2>4 DEF TInv
<1> QED
  BY <1>4, <1>5

\* A new row: nothing is closed, and its version is the first.
LEMMA InsertKeeps ==
  ASSUME TInv, NEW r \in RecordId, ~Stored(r), NEW row \in Row, NEW logged, NEW u \in Writer,
         NEW sent \in Seq(Event), Accepts(rows, r, row), Insert(r, row, logged, u, sent),
         row.state # "absent", row.draftOf # NoRecord => row.state = "draft",
         row.draftOf # NoRecord => Master(row.draftOf),
         logged = IF row.draftOf # NoRecord THEN "DRAFT_CREATED" ELSE "INSERT",
         row.state \in {"active", "retired"} => ~RequiresDraft,
         \/ \E w \in Worker : Busy(w) /\ txn' = [txn EXCEPT ![w] = Idle]
         \/ HasRoomForMore /\ UNCHANGED txn
  PROVE  TInv'
<1>1. TablesOK /\ TypeOK /\ history[r] \in Seq(Version) /\ Len(history[r]) \in Nat
  BY DEF TInv, TablesOK, TypeOK
<1>2. WriteStep(rows, r, row, row, 0, 1, "INSERT", u, TRUE, sent)
  BY DEF Insert, WriteStep
<1>3. Lawful(r, row, row, 0, 1, "INSERT", u)
  BY <1>1 DEF Lawful, Stored, Master, ChangeAction
<1>4. rows \in OrWithoutDraft(r)
  BY DEF OrWithoutDraft
<1>5. TablesOK' /\ Grows /\ Len(history'[r]) = Len(history[r]) + 1
  BY <1>1, <1>2, <1>3, <1>4, WriteKeepsTables
<1>6. history' = [history EXCEPT ![r] = WriteHistory(history[r], 0, 1, row, "INSERT", u)]
  BY <1>1 DEF Insert, TypeOK
<1> DEFINE g == WriteHistory(history[r], 0, 1, row, "INSERT", u)
<1>7. Len(g) = Len(history[r]) + 1
  <2>1. history'[r] = g
    BY <1>1, <1>6 DEF TypeOK
  <2> QED
    BY <1>5, <2>1
<1> HIDE DEF g
<1>8. history' = [history EXCEPT ![r] = g]
  BY <1>6 DEF g
<1> QED
  BY <1>5, <1>7, <1>8, CommitKeeps

LEMMA CreateKeeps ==
  ASSUME TInv, NEW w \in Worker, NEW r \in RecordId, NEW body \in Body, NEW u \in Writer,
         PostRecord(w, r, body, u)
  PROVE  TInv'
<1> DEFINE row == Created(body)
           sent == IF RequiresDraft THEN <<>> ELSE <<"record.created">>
<1>1. /\ ~Stored(r) /\ Accepts(rows, r, row) /\ Insert(r, row, "INSERT", u, sent)
      /\ HasRoomForMore /\ UNCHANGED txn
  BY DEF PostRecord
<1>2. /\ row \in Row /\ row.state = IF RequiresDraft THEN "draft" ELSE "active"
      /\ row.draftOf = NoRecord
  BY CreatedType
<1>3. sent \in Seq(Event)
  <2>1. <<"record.created">> \in Seq(Event) /\ <<>> \in Seq(Event)
    BY DEF Event
  <2> QED
    BY <2>1, Zenon
<1> HIDE DEF row, sent
<1> QED
  BY <1>1, <1>2, <1>3, InsertKeeps

LEMMA InsertDraftKeeps ==
  ASSUME TInv, NEW w \in Worker, InsertDraft(w)
  PROVE  TInv'
<1> DEFINE t == txn[w]
           row == DraftCopy(t.read, t.id, t.arg)
           fresh == {d \in RecordId : ~Stored(d) /\ Accepts(rows, d, row)}
<1>1. /\ t.pc = "insertDraft" /\ Busy(w) /\ t.pc # "idle" /\ txn' = [txn EXCEPT ![w] = Idle]
      /\ t \in TxnRecord /\ RequestOK(t)
  BY DEF InsertDraft, TInv, Busy
<1>2. Remembers(t) /\ Checked(t) /\ AtStep(t)
  BY <1>1 DEF RequestOK
<1>3. /\ t.op = "edit" /\ t.read.state = "active" /\ t.id \in RecordId /\ t.arg \in Body
      /\ t.read \in Row /\ t.by \in Writer
  BY <1>1, <1>2 DEF Checked, AtStep, Remembers, TxnRecord
<1>4. Master(t.id)
  BY <1>2, <1>3 DEF Remembers
<1>5. CASE fresh = {}
  <2>1. Go(w, Idle)
    BY <1>1, <1>5 DEF InsertDraft, Go
  <2> QED
    BY <2>1, IdleType, GoKeeps DEF RequestOK
<1>6. CASE fresh # {}
  <2>1. PICK d \in fresh : Insert(d, row, "DRAFT_CREATED", t.by, <<>>)
    BY <1>6 DEF InsertDraft
  <2>2. d \in RecordId /\ ~Stored(d) /\ Accepts(rows, d, row)
    BY <2>1
  <2>3. /\ row \in Row /\ row.state = "draft" /\ row.draftOf = t.id /\ t.id # NoRecord
    BY <1>3, DraftCopyType, NullsAssumption
  <2>4. <<>> \in Seq(Event)
    OBVIOUS
  <2>5. t.by \in Writer /\ \E v \in Worker : Busy(v) /\ txn' = [txn EXCEPT ![v] = Idle]
    BY <1>1, <1>3
  <2> HIDE DEF row, t
  <2> QED
    BY <1>4, <2>1, <2>2, <2>3, <2>4, <2>5, InsertKeeps
<1> QED
  BY <1>5, <1>6

\* The row a request writes, by endpoint.
LEMMA NewRowType ==
  ASSUME TypeOK, NEW t \in TxnRecord, RequestOK(t), t.pc = "finish", NEW cur \in Row
  PROVE  LET row == NewRow(t, cur) IN
         /\ row \in Row /\ row.draftOf = cur.draftOf
         /\ row.state = IF t.op = "publish" /\ t.src = NoRecord THEN "active"
                        ELSE IF t.op = "retire" THEN "retired" ELSE cur.state
         /\ t.op = "delete" => row.deleted
<1>1. Remembers(t) /\ Checked(t)
  BY DEF RequestOK
<1>2. t.op \in Endpoint /\ t.op # "create" /\ t.id \in RecordId /\ t.read \in Row
  BY <1>1 DEF Remembers, TxnRecord
<1>3. CASE t.op = "edit"
  <2>1. NewRow(t, cur) = Edited(cur, t.read, t.arg) /\ t.arg \in Body
    BY <1>1, <1>3 DEF NewRow, Checked
  <2> DEFINE new == Edited(cur, t.read, t.arg)
  <2>2. new \in Row /\ new.draftOf = cur.draftOf /\ new.state = cur.state
    BY <1>2, <2>1, EditedType
  <2> HIDE DEF new
  <2> QED
    BY <1>3, <2>1, <2>2 DEF new
<1>4. CASE t.op = "delete"
  <2>1. NewRow(t, cur) = Deleted(cur)
    BY <1>4 DEF NewRow
  <2> QED
    BY <1>4, <2>1, DeletedType
<1>5. CASE t.op = "revert"
  <2>1. NewRow(t, cur) = Reverted(cur, t.arg)
    BY <1>5 DEF NewRow
  <2>2. PICK i \in 1..Len(history[t.id]) : t.arg = history[t.id][i].data
    BY <1>1, <1>5 DEF Checked
  <2>3. history[t.id][i] \in Version
    BY <1>2, <2>2 DEF TypeOK
  <2>4. t.arg \in Data
    BY <2>2, <2>3 DEF Version
  <2> DEFINE new == Reverted(cur, t.arg)
  <2>5. new \in Row /\ new.draftOf = cur.draftOf /\ new.state = cur.state
    BY <2>4, RevertedType
  <2> HIDE DEF new
  <2> QED
    BY <1>5, <2>1, <2>5 DEF new
<1>6. CASE t.op = "publish" /\ t.src = NoRecord
  <2>1. NewRow(t, cur) = Promoted(cur, t.read)
    BY <1>6 DEF NewRow
  <2> QED
    BY <1>2, <1>6, <2>1, PromotedType
<1>7. CASE t.op = "publish" /\ t.src # NoRecord
  <2>1. NewRow(t, cur) = MergedInto(cur, t.arg) /\ t.arg \in Data
    BY <1>1, <1>7 DEF NewRow, Checked
  <2> QED
    BY <1>7, <2>1, MergedIntoType
<1>8. CASE t.op = "retire"
  <2>1. NewRow(t, cur) = Retired(cur)
    BY <1>8 DEF NewRow
  <2> QED
    BY <1>8, <2>1, RetiredType
<1> QED
  BY <1>2, <1>3, <1>4, <1>5, <1>6, <1>7, <1>8 DEF Endpoint

LEMMA FinishKeeps ==
  ASSUME TInv, NEW w \in Worker, Finish(w)
  PROVE  TInv'
<1> DEFINE t == txn[w]
           row == NewRow(t, rows[t.id])
           told == NewRow(t, t.read)
           others == IF t.src = NoRecord THEN rows ELSE [rows EXCEPT ![t.src] = Deleted(@)]
           action == ActionOf(t.op)
           sent == EventsOf(t)
<1>1. /\ t.pc = "finish" /\ Busy(w) /\ t.pc # "idle" /\ txn' = [txn EXCEPT ![w] = Idle]
      /\ t \in TxnRecord /\ RequestOK(t) /\ TypeOK /\ TablesOK
  BY DEF Finish, Refuse, Go, TInv, Busy, TablesOK
<1>2. Remembers(t) /\ Checked(t) /\ AtStep(t) /\ InHistory(t)
  BY <1>1 DEF RequestOK
<1>3. /\ t.id \in RecordId /\ Stored(t.id) /\ rows[t.id] \in Row /\ t.read \in Row
      /\ t.op \in Endpoint /\ t.op # "create" /\ t.by \in Writer
      /\ history \in [RecordId -> Seq(Version)]
  BY <1>1, <1>2 DEF Remembers, TypeOK, TxnRecord
<1>4. CASE UNCHANGED store
  <2>1. Go(w, Idle)
    BY <1>1, <1>4 DEF Go
  <2> QED
    BY <2>1, IdleType, GoKeeps DEF RequestOK
<1>5. CASE store' # store
  <2>1. /\ Accepts(others, t.id, row)
        /\ rows' = [others EXCEPT ![t.id] = row]
        /\ history' = [history EXCEPT ![t.id] =
             WriteHistory(@, t.close, t.version, told, action, t.by)]
        /\ audit' = [audit EXCEPT ![t.id] =
             LogChange(@, action, t.by, told.status, t.op = "edit")]
        /\ events' = [events EXCEPT ![t.id] = @ \o sent]
    BY <1>5 DEF Finish, Refuse, Go
  <2>2. action \in ChangeAction /\ action # "INSERT" /\ (action = "DELETE" <=> t.op = "delete")
        /\ (action = "PUBLISH" <=> t.op = "publish")
    BY <1>3 DEF ActionOf, ChangeAction, Endpoint
  <2>3. sent \in Seq(Event)
    <3>1. /\ <<"record.created">> \in Seq(Event) /\ <<"record.published">> \in Seq(Event)
          /\ <<"record.retired">> \in Seq(Event) /\ <<>> \in Seq(Event)
      BY DEF Event
    <3>2. sent \in {<<"record.created">>, <<"record.published">>, <<"record.retired">>, <<>>}
      BY DEF EventsOf
    <3> QED
      BY <3>1, <3>2
  <2>4. others \in OrWithoutDraft(t.id)
    <3>1. CASE t.src = NoRecord
      BY <3>1 DEF OrWithoutDraft
    <3>2. CASE t.src # NoRecord
      <4>1. t.src \in {x \in RecordId : rows[x].draftOf = t.id}
        BY <1>2, <3>2 DEF Checked
      <4> QED
        BY <3>2, <4>1 DEF OrWithoutDraft
    <3> QED
      BY <3>1, <3>2
  <2>5. /\ row \in Row /\ row.draftOf = rows[t.id].draftOf
        /\ row.state = (IF t.op = "publish" /\ t.src = NoRecord THEN "active"
                        ELSE IF t.op = "retire" THEN "retired" ELSE rows[t.id].state)
        /\ t.op = "delete" => row.deleted
        /\ told \in Row
    BY <1>1, <1>3, NewRowType
  <2> HIDE DEF row, told, others, action, sent
  <2>6. WriteStep(others, t.id, row, told, t.close, t.version, action, t.by, t.op = "edit", sent)
    BY <2>1, <2>2 DEF WriteStep
  <2>7. Lawful(t.id, row, told, t.close, t.version, action, t.by)
    <3>1. /\ t.close \in 0..Len(history[t.id]) /\ t.version \in 0..Len(history[t.id]) + 1
      BY <1>2 DEF InHistory
    <3>2. row.state # "absent" /\ (Master(t.id) => row.state \in {"active", "retired"})
      BY <1>3, <2>5 DEF Stored, Master
    <3>3. row.draftOf # NoRecord => row.state = "draft"
      <4> SUFFICES ASSUME row.draftOf # NoRecord PROVE row.state = "draft"
        OBVIOUS
      <4>1. rows[t.id].state = "draft" /\ t.read.draftOf # NoRecord
        BY <1>1, <1>2, <1>3, <2>5 DEF TablesOK, DraftsPointAtMasters, Remembers
      <4>2. t.op # "retire" /\ ~(t.op = "publish" /\ t.src = NoRecord)
        BY <1>1, <1>2, <4>1 DEF Checked, Remembers, Master
      <4> QED
        BY <2>5, <4>1, <4>2
    <3>4. row.state \in {"active", "retired"} /\ ~Master(t.id) =>
            action = "PUBLISH" /\ t.by \in Publisher
      <4> SUFFICES ASSUME row.state \in {"active", "retired"}, ~Master(t.id)
                   PROVE  action = "PUBLISH" /\ t.by \in Publisher
        OBVIOUS
      <4>1. t.op # "retire"
        BY <1>2 DEF Checked, Remembers
      <4>2. t.op = "publish"
        BY <2>5, <4>1 DEF Master
      <4> QED
        BY <1>2, <2>2, <4>2 DEF Checked
    <3> QED
      BY <1>3, <2>2, <2>5, <3>1, <3>2, <3>3, <3>4 DEF Lawful
  <2>8. TablesOK' /\ Grows /\ Len(history'[t.id]) = Len(history[t.id]) + 1
    BY <1>1, <1>3, <2>3, <2>4, <2>6, <2>7, WriteKeepsTables
  <2> DEFINE g == WriteHistory(history[t.id], t.close, t.version, told, action, t.by)
  <2>9. history' = [history EXCEPT ![t.id] = g]
    BY <2>1
  <2> HIDE DEF g
  <2>10. Len(g) = Len(history[t.id]) + 1
    BY <1>3, <2>8, <2>9
  <2>11. \E v \in Worker : Busy(v) /\ txn' = [txn EXCEPT ![v] = Idle]
    BY <1>1
  <2> QED
    BY <1>3, <2>8, <2>9, <2>10, <2>11, CommitKeeps
<1> QED
  BY <1>4, <1>5

\* A request under way still has room for its version.
LEMMA BusyHasRoom ==
  ASSUME TInv, NEW w \in Worker, Busy(w)
  PROVE  HasRoom
<1>1. BusyWorkers # {} /\ IsFiniteSet(BusyWorkers) /\ IsFiniteSet(Written)
  BY DEF TInv, RoomKept, BusyWorkers
<1>2. Cardinality(BusyWorkers) \in Nat /\ Cardinality(BusyWorkers) # 0
  BY <1>1, FS_CardinalityType, FS_EmptySet
<1>3. Cardinality(Written) \in Nat
  BY <1>1, FS_CardinalityType
<1>4. Cardinality(Written) + Cardinality(BusyWorkers) <= MaxChanges
  BY DEF TInv, RoomKept
<1> QED
  BY <1>2, <1>3, <1>4, BoundAssumption DEF HasRoom

-----------------------------------------------------------------------------
(* The invariant holds of every behaviour *)

LEMMA InitInv == TxnInit => TInv
<1> SUFFICES ASSUME TxnInit PROVE TInv
  OBVIOUS
<1>1. Absent \in Row /\ Absent.state = "absent" /\ Absent.draftOf = NoRecord
  BY BlankType, StatusType DEF Absent, Row
<1>2. /\ \A r \in RecordId : rows[r] = Absent /\ history[r] = <<>> /\ audit[r] = <<>>
      /\ \A w \in Worker : txn[w] = Idle
  BY DEF TxnInit
<1>3. TypeOK
  BY <1>1 DEF TxnInit, TypeOK
<1>4. StoredHasHistory /\ VersionsInRange
  BY <1>1, <1>2 DEF StoredHasHistory, VersionsInRange, Stored
<1>5. DraftsPointAtMasters /\ OneGoldenPerKey /\ LiveHasOpenVersion /\ GoldenWasPublished
  BY <1>1, <1>2
     DEF DraftsPointAtMasters, OneGoldenPerKey, LiveHasOpenVersion, GoldenWasPublished,
         Golden, Live,
         Stored
<1>6. AuditFollowsHistory
  <2>1. Changes(<<>>, 0) = {} /\ Cardinality({}) = 0 /\ Len(<<>>) = 0
    BY FS_EmptySet DEF Changes
  <2>2. \A c : Repeats(<<>>, <<>>, c)
    BY <2>1 DEF Repeats
  <2> QED
    BY <1>2, <2>2 DEF AuditFollowsHistory
<1>7. txn \in [Worker -> TxnRecord] /\ \A w \in Worker : RequestOK(txn[w])
  BY <1>2, IdleType DEF TxnInit, RequestOK
<1>8. RoomKept
  <2>1. Written = {} /\ BusyWorkers = {}
    BY <1>2, IdleType DEF Written, BusyWorkers, Busy
  <2> QED
    BY <2>1, FS_EmptySet, BoundAssumption DEF RoomKept
<1> QED
  BY <1>3, <1>4, <1>5, <1>6, <1>7, <1>8 DEF TInv, TablesOK

LEMMA RestartKeeps == ASSUME TInv, Restart PROVE TInv'
<1>1. UNCHANGED store /\ txn' = [w \in Worker |-> Idle]
  BY DEF Restart
<1>2. TablesOK' /\ Written' = Written
  BY <1>1, StoreStays
<1>3. txn' \in [Worker -> TxnRecord] /\ \A w \in Worker : txn'[w] = Idle
  BY <1>1, IdleType
<1>4. \A w \in Worker : RequestOK(txn[w])'
  BY <1>3, IdleType DEF RequestOK
<1>5. BusyWorkers' \in SUBSET BusyWorkers
  BY <1>3, IdleType DEF BusyWorkers, Busy
<1>6. RoomKept'
  BY <1>2, <1>5, RoomStays DEF TInv, RoomKept
<1> QED
  BY <1>2, <1>3, <1>4, <1>6 DEF TInv

LEMMA StutterKeeps == ASSUME TInv, UNCHANGED vars PROVE TInv'
<1>1. UNCHANGED store /\ txn' = txn
  BY DEF vars, store
<1>2. TablesOK' /\ Written' = Written /\ \A t : RequestOK(t) <=> RequestOK(t)'
  BY <1>1, StoreStays
<1>3. RoomKept'
  BY <1>1, <1>2 DEF TInv, RoomKept, BusyWorkers, Busy
<1>4. \A w \in Worker : RequestOK(txn[w])'
  <2> SUFFICES ASSUME NEW w \in Worker PROVE RequestOK(txn[w])'
    OBVIOUS
  <2>1. TypeOK' /\ Grows /\ txn'[w] = txn[w]
    BY <1>1, <1>2, StoreStays DEF TablesOK
  <2> QED
    BY <2>1, StillOK
<1> QED
  BY <1>1, <1>2, <1>3, <1>4 DEF TInv

LEMMA NextKeeps == TInv /\ [TxnNext]_vars => TInv'
<1> SUFFICES ASSUME TInv, [TxnNext]_vars PROVE TInv'
  OBVIOUS
<1>1. ASSUME NEW w \in Worker, Request(w) PROVE TInv'
  <2>1. PICK r \in RecordId, u \in Writer :
          \/ \E body \in Body : PostRecord(w, r, body, u) \/ BeginEdit(w, r, body, u)
          \/ BeginDelete(w, r, u)
          \/ \E target \in 1..MaxChanges : BeginRevert(w, r, target, u)
          \/ BeginPublish(w, r, u)
          \/ BeginRetire(w, r, u)
    BY <1>1 DEF Request
  <2>2. CASE \E body \in Body : PostRecord(w, r, body, u)
    BY <2>2, CreateKeeps
  <2>3. CASE \/ \E body \in Body : BeginEdit(w, r, body, u)
             \/ BeginDelete(w, r, u)
             \/ \E target \in 1..MaxChanges : BeginRevert(w, r, target, u)
             \/ BeginPublish(w, r, u)
             \/ BeginRetire(w, r, u)
    BY <2>3, RequestKeeps
  <2> QED
    BY <2>1, <2>2, <2>3
<1>2. ASSUME NEW w \in Worker, Statement(w) PROVE TInv'
  BY <1>2, StatementKeeps, LockHistoryKeeps, InsertDraftKeeps DEF Statement
<1>3. ASSUME NEW w \in Worker, LockingStatement(w) PROVE TInv'
  BY <1>3, StatementKeeps, LockHistoryKeeps, FinishKeeps DEF LockingStatement
<1>4. ASSUME NEW w \in Worker, Abort(w) PROVE TInv'
  BY <1>4, StatementKeeps
<1> QED
  BY <1>1, <1>2, <1>3, <1>4, RestartKeeps, StutterKeeps DEF TxnNext

THEOREM OverlapKeepsInvariant == TxnSpec => []TInv
BY InitInv, NextKeeps, PTL DEF TxnSpec

\* Requests that overlap stay within the tables' columns and within the bound:
\* no lock, close or version number points beyond the history of its record.
THEOREM OverlapTypeCorrect == TxnSpec => []TxnTypeOK
<1>1. TInv => TxnTypeOK
  <2> SUFFICES ASSUME TInv, NEW w \in Worker PROVE txn[w] \in Txn
    BY DEF TInv, TablesOK, TxnTypeOK
  <2> DEFINE t == txn[w]
  <2>1. t \in TxnRecord /\ RequestOK(t) /\ TypeOK
    BY DEF TInv, TablesOK
  <2>2. CASE t.pc = "idle"
    <3>1. t = Idle
      BY <2>1, <2>2 DEF RequestOK
    <3>2. Absent \in Row
      BY BlankType, StatusType DEF Absent, Row
    <3>3. Idle \in Txn
      BY <3>2, BlankType, BoundAssumption DEF Idle, Txn, Step, Endpoint, Position
    <3> QED
      BY <3>1, <3>3
  <2>3. CASE t.pc # "idle"
    <3>1. t.id \in RecordId /\ InHistory(t)
      BY <2>1, <2>3 DEF RequestOK, Remembers
    <3>2. Len(history[t.id]) + 1 <= MaxChanges
      <4>1. Cardinality(Written) < MaxChanges
        BY <2>3, BusyHasRoom DEF Busy, HasRoom
      <4>2. IsFiniteSet(Written) /\ Cardinality(Written) \in Nat
        BY FS_CardinalityType DEF TInv, RoomKept
      <4>3. Len(history[t.id]) <= Cardinality(Written) /\ Len(history[t.id]) \in Nat
        BY <2>1, <3>1, <4>2, LenBound DEF TypeOK
      <4> QED
        BY <4>1, <4>2, <4>3, BoundAssumption
    <3>3. /\ t.wanted \in SUBSET Position /\ t.held \in SUBSET Position
          /\ t.close \in Position /\ t.version \in 0..MaxChanges
      <4>1. Len(history[t.id]) \in Nat
        BY <2>1, <3>1 DEF TypeOK
      <4> QED
        BY <3>1, <3>2, <4>1, BoundAssumption DEF InHistory, Position
    <3> QED
      BY <2>1, <3>3 DEF TxnRecord, Txn
  <2> QED
    BY <2>2, <2>3
<1> QED
  BY <1>1, OverlapKeepsInvariant, PTL

\* The unique index decides at every commit, so no two golden records share a
\* key, whatever overlaps.
THEOREM OverlapKeepsKeysUnique == TxnSpec => []OneGoldenPerKey
<1>1. TInv => OneGoldenPerKey
  BY DEF TInv, TablesOK
<1> QED
  BY <1>1, OverlapKeepsInvariant, PTL

\* A draft inserted for a master that is retired or deleted meanwhile still
\* points at a record that has been golden, and a publish that overlaps with
\* a retirement leaves no draft of a draft.
THEOREM OverlapKeepsDraftsAtMasters == TxnSpec => []DraftsPointAtMasters
<1>1. TInv => DraftsPointAtMasters
  BY DEF TInv, TablesOK
<1> QED
  BY <1>1, OverlapKeepsInvariant, PTL

\* Whoever closes the current version also writes the next one or deletes the
\* record in the same commit, so a live record is never without one.
THEOREM OverlapKeepsOpenVersion == TxnSpec => []LiveHasOpenVersion
<1>1. TInv => LiveHasOpenVersion
  BY DEF TInv, TablesOK
<1> QED
  BY <1>1, OverlapKeepsInvariant, PTL

\* History and audit log are written by one commit, so they stay in step even
\* where version numbers repeat.
THEOREM OverlapKeepsAudit == TxnSpec => []AuditFollowsHistory
<1>1. TInv => AuditFollowsHistory
  BY DEF TInv, TablesOK
<1> QED
  BY <1>1, OverlapKeepsInvariant, PTL

\* No interleaving makes a record golden without a publisher: what a request
\* checked of the state may be stale at its commit, but only a publish, checked
\* for the right to publish, ever sets it to active.
THEOREM OverlapKeepsApproval == TxnSpec => []GoldenWasPublished
<1>1. TInv => GoldenWasPublished
  BY DEF TInv, TablesOK
<1> QED
  BY <1>1, OverlapKeepsInvariant, PTL

-----------------------------------------------------------------------------
(* A request that read nothing stale is a request of Records *)

\* What a sound and fresh request finishes, given the shape of the commit.
LEMMA SerialFinish ==
  ASSUME TInv, NEW w \in Worker, Finish(w), store' # store, Fresh(w)
  PROVE  Next
<1> DEFINE t == txn[w]
           id == t.id
           action == ActionOf(t.op)
           row == NewRow(t, rows[id])
           others == IF t.src = NoRecord THEN rows ELSE [rows EXCEPT ![t.src] = Deleted(@)]
<1>1. /\ t.pc = "finish" /\ Busy(w) /\ t \in TxnRecord /\ RequestOK(t)
  BY DEF Finish, Refuse, Go, TInv, Busy
<1>2. Remembers(t) /\ Checked(t) /\ InHistory(t) /\ t.op # "create" /\ t.op \in Endpoint
  BY <1>1 DEF RequestOK, Remembers, TxnRecord
<1>3. /\ rows[id] = t.read /\ id \in RecordId /\ Stored(id) /\ t.by \in Writer
      /\ t.close \in FirstOpen(history[id])
  BY <1>1, <1>2 DEF Fresh, Remembers
<1>4. HasRoom
  BY <1>1, BusyHasRoom
<1>5. /\ Accepts(others, id, row)
      /\ rows' = [others EXCEPT ![id] = row]
      /\ history' = [history EXCEPT ![id] =
           WriteHistory(@, t.close, t.version, row, action, t.by)]
      /\ audit' = [audit EXCEPT ![id] = LogChange(@, action, t.by, row.status, t.op = "edit")]
      /\ events' = [events EXCEPT ![id] = @ \o EventsOf(t)]
  <2>1. NewRow(t, t.read) = row
    BY <1>3
  <2> QED
    BY <2>1 DEF Finish, Refuse, Go
<1> HIDE DEF row, others, action
<1>6. Save(others, id, row, t.close, t.version, action, action, t.op = "edit", t.by,
                  EventsOf(t))
  BY <1>4, <1>5 DEF Save
<1>7. t.op # "revert" =>
        SaveNext(others, id, row, action, t.op = "edit", t.by, EventsOf(t))
  <2> SUFFICES ASSUME t.op # "revert"
               PROVE  SaveNext(others, id, row, action, t.op = "edit", t.by, EventsOf(t))
    OBVIOUS
  <2>1. t.version = VersionAt(history[id], t.close) + 1
    BY <1>1, <1>2 DEF InHistory
  <2>2. t.close \in FirstOpen(history[id])
    BY <1>3
  <2> QED
    BY <1>6, <2>1, <2>2 DEF SaveNext
<1>8. /\ ~rows[id].deleted => Live(id)
      /\ ~rows[id].deleted /\ rows[id].state = "active" => Golden(id)
      /\ ~rows[id].deleted /\ rows[id].state = "draft" => Draft(id)
  BY <1>3 DEF Live, Golden, Draft
<1>9. CASE t.op = "edit"
  <2>1. /\ t.src = NoRecord /\ ~rows[id].deleted /\ rows[id].state # "active"
        /\ rows[id].state = "retired" => t.by \in Publisher
        /\ t.arg \in Body
    BY <1>1, <1>2, <1>3, <1>9 DEF Checked
  <2>2. /\ row = Edited(rows[id], rows[id], t.arg) /\ action = "UPDATE"
        /\ others = rows /\ EventsOf(t) = <<>>
    BY <1>3, <1>9, <2>1 DEF row, others, action, NewRow, ActionOf, EventsOf
  <2>3. SaveNext(rows, id, Edited(rows[id], rows[id], t.arg), "UPDATE", TRUE, t.by,
                        <<>>)
    BY <1>7, <1>9, <2>2
  <2>4. EditInPlace(id, t.arg, t.by)
    BY <1>3, <1>8, <2>1, <2>3 DEF EditInPlace
  <2> QED
    BY <1>3, <2>1, <2>4 DEF Next
<1>10. CASE t.op = "delete"
  <2>1. t.src = NoRecord /\ ~rows[id].deleted
    BY <1>2, <1>3, <1>10 DEF Checked
  <2>2. /\ row = Deleted(rows[id]) /\ action = "DELETE"
        /\ others = rows /\ EventsOf(t) = <<>>
    BY <1>3, <1>10, <2>1 DEF row, others, action, NewRow, ActionOf, EventsOf
  <2>3. SaveNext(rows, id, Deleted(rows[id]), "DELETE", FALSE, t.by, <<>>)
    BY <1>7, <1>10, <2>2
  <2>4. DeleteRecord(id, t.by)
    BY <1>3, <1>8, <2>1, <2>3 DEF DeleteRecord
  <2> QED
    BY <1>3, <2>4 DEF Next
<1>11. CASE t.op = "revert"
  <2>1. /\ t.src = NoRecord
        /\ rows[id].state \in {"active", "retired"} => t.by \in Publisher
        /\ \E target \in 1..Len(history[id]) : t.arg = history[id][target].data
    BY <1>2, <1>3, <1>11 DEF Checked
  <2>2. PICK target \in 1..Len(history[id]) : t.arg = history[id][target].data
    BY <2>1
  <2>3. /\ row = Reverted(rows[id], history[id][target].data) /\ action = "REVERT"
        /\ others = rows /\ EventsOf(t) = <<>>
    BY <1>3, <1>11, <2>1, <2>2 DEF row, others, action, NewRow, ActionOf, EventsOf
  <2>4. PICK latest \in LatestRow(history[id]) : t.version = history[id][latest].version + 1
    BY <1>11 DEF Fresh
  <2>5. Save(rows, id, Reverted(rows[id], history[id][target].data), t.close,
                    history[id][latest].version + 1, "REVERT", "REVERT", FALSE, t.by, <<>>)
    BY <1>6, <1>11, <2>3, <2>4
  <2>6. /\ Stored(id) /\ latest \in LatestRow(history[id])
        /\ t.close \in FirstOpen(history[id])
    BY <1>3, <2>4
  <2>7. RevertRecord(id, target, t.by)
    BY <1>3, <2>1, <2>2, <2>5, <2>6 DEF RevertRecord
  <2>8. target \in 1..MaxChanges
    <3>1. TypeOK /\ IsFiniteSet(Written) /\ Len(history[id]) \in Nat
      BY <1>3 DEF TInv, TablesOK, TypeOK, RoomKept
    <3>2. Len(history[id]) <= Cardinality(Written) /\ Cardinality(Written) \in Nat
      BY <1>3, <3>1, LenBound, FS_CardinalityType
    <3>3. Cardinality(Written) < MaxChanges
      BY <1>4 DEF HasRoom
    <3> QED
      BY <2>2, <3>1, <3>2, <3>3, BoundAssumption
  <2> QED
    BY <1>3, <2>7, <2>8 DEF Next
<1>12. CASE t.op = "publish" /\ t.src = NoRecord
  <2>1. /\ t.by \in Publisher /\ rows[id].draftOf = NoRecord /\ rows[id].state = "draft"
        /\ ~rows[id].deleted
    BY <1>1, <1>2, <1>3, <1>12 DEF Checked
  <2>2. /\ row = Promoted(rows[id], rows[id]) /\ action = "PUBLISH"
        /\ others = rows /\ EventsOf(t) = <<"record.created">>
    BY <1>3, <1>12 DEF row, others, action, NewRow, ActionOf, EventsOf
  <2>3. SaveNext(rows, id, Promoted(rows[id], rows[id]), "PUBLISH", FALSE, t.by,
                        <<"record.created">>)
    BY <1>7, <1>12, <2>2
  <2>4. PublishNewRecord(id, t.by)
    BY <1>8, <2>1, <2>3 DEF PublishNewRecord
  <2> QED
    BY <1>3, <2>4 DEF Next
<1>13. CASE t.op = "publish" /\ t.src # NoRecord
  <2>1. /\ t.by \in Publisher /\ t.src \in RecordId /\ rows[t.src].draftOf = id
        /\ rows[id].state = "active" /\ ~rows[id].deleted /\ id # NoRecord
    BY <1>2, <1>3, <1>13, NullsAssumption DEF Checked
  <2>2. t.src \in DraftsOf(id) /\ rows[t.src].data = t.arg
    BY <1>13 DEF Fresh
  <2>3. Draft(t.src)
    BY <2>2 DEF DraftsOf
  <2>4. /\ row = MergedInto(rows[id], rows[t.src].data) /\ action = "PUBLISH"
        /\ others = [rows EXCEPT ![t.src] = Deleted(@)]
        /\ EventsOf(t) = <<"record.published">>
    BY <1>3, <1>13, <2>2 DEF row, others, action, NewRow, ActionOf, EventsOf
  <2>5. SaveNext([rows EXCEPT ![t.src] = Deleted(@)], id,
                        MergedInto(rows[id], rows[t.src].data), "PUBLISH", FALSE, t.by,
                        <<"record.published">>)
    BY <1>7, <1>13, <2>4
  <2>6. PublishEdit(t.src, t.by)
    BY <1>8, <2>1, <2>3, <2>5 DEF PublishEdit
  <2> QED
    BY <1>3, <2>1, <2>6 DEF Next
<1>14. CASE t.op = "retire"
  <2>1. /\ AllowRetire /\ t.by \in Publisher /\ rows[id].state = "active" /\ ~rows[id].deleted
        /\ t.src = NoRecord
    BY <1>2, <1>3, <1>14 DEF Checked
  <2>2. /\ row = Retired(rows[id]) /\ action = "RETIRE"
        /\ others = rows /\ EventsOf(t) = <<"record.retired">>
    BY <1>3, <1>14, <2>1 DEF row, others, action, NewRow, ActionOf, EventsOf
  <2>3. SaveNext(rows, id, Retired(rows[id]), "RETIRE", FALSE, t.by,
                        <<"record.retired">>)
    BY <1>7, <1>14, <2>2
  <2>4. RetireRecord(id, t.by)
    BY <1>8, <2>1, <2>3 DEF RetireRecord
  <2> QED
    BY <1>3, <2>4 DEF Next
<1> QED
  BY <1>2, <1>9, <1>10, <1>11, <1>12, <1>13, <1>14 DEF Endpoint

LEMMA SerialInsertDraft ==
  ASSUME TInv, NEW w \in Worker, InsertDraft(w), store' # store, Fresh(w)
  PROVE  Next
<1> DEFINE t == txn[w]
           row == DraftCopy(t.read, t.id, t.arg)
<1>1. /\ t.pc = "insertDraft" /\ Busy(w) /\ t \in TxnRecord /\ RequestOK(t)
  BY DEF InsertDraft, TInv, Busy
<1>2. Remembers(t) /\ Checked(t) /\ AtStep(t)
  BY <1>1 DEF RequestOK
<1>3. /\ rows[t.id] = t.read /\ t.id \in RecordId /\ Stored(t.id) /\ t.by \in Writer
      /\ DraftsOf(t.id) = {} /\ t.arg \in Body /\ rows[t.id].state = "active"
      /\ ~rows[t.id].deleted
  BY <1>1, <1>2 DEF Fresh, Remembers, Checked, AtStep
<1>4. HasRoom
  BY <1>1, BusyHasRoom
<1>5. PICK d \in RecordId : /\ ~Stored(d) /\ Accepts(rows, d, row)
                            /\ Insert(d, row, "DRAFT_CREATED", t.by, <<>>)
  BY DEF InsertDraft
<1>6. Save(rows, d, row, 0, 1, "INSERT", "DRAFT_CREATED", TRUE, t.by, <<>>)
  <2> HIDE DEF row
  <2> QED
    BY <1>4, <1>5 DEF Insert, Save
<1>7. row = DraftCopy(rows[t.id], t.id, t.arg)
  BY <1>3
<1>8. Golden(t.id) /\ DraftsOf(t.id) = {} /\ ~Stored(d)
  BY <1>3, <1>5 DEF Golden, Live
<1> HIDE DEF row
<1>9. StartDraft(t.id, d, t.arg, t.by)
  BY <1>3, <1>6, <1>7, <1>8 DEF StartDraft
<1> QED
  BY <1>3, <1>9 DEF Next

LEMMA SerialCreate ==
  ASSUME TInv, NEW w \in Worker, NEW r \in RecordId, NEW body \in Body, NEW u \in Writer,
         PostRecord(w, r, body, u)
  PROVE  Next
<1> DEFINE row == Created(body)
           sent == IF RequiresDraft THEN <<>> ELSE <<"record.created">>
<1>1. /\ ~Stored(r) /\ Accepts(rows, r, row) /\ Insert(r, row, "INSERT", u, sent)
      /\ HasRoomForMore
  BY DEF PostRecord
<1>2. HasRoom
  <2>1. IsFiniteSet(BusyWorkers) /\ IsFiniteSet(Written)
    BY DEF TInv, RoomKept
  <2>2. Cardinality(BusyWorkers) \in Nat /\ Cardinality(Written) \in Nat
    BY <2>1, FS_CardinalityType
  <2>3. Cardinality(Written) + Cardinality(BusyWorkers) < MaxChanges
    BY <1>1 DEF HasRoomForMore, BusyWorkers
  <2> QED
    BY <2>2, <2>3, BoundAssumption DEF HasRoom
<1>3. row = Created(body) /\ ~Stored(r)
  BY <1>1
<1> HIDE DEF row, sent
<1>4. Save(rows, r, row, 0, 1, "INSERT", "INSERT", TRUE, u, sent)
  BY <1>1, <1>2 DEF Insert, Save
<1>5. CreateRecord(r, body, u)
  BY <1>3, <1>4 DEF CreateRecord, sent
<1> QED
  BY <1>5 DEF Next

\* Only commits write the tables, and they end their request.
LEMMA CommitsWrite ==
  ASSUME TInv, TxnNext, store' # store
  PROVE  \/ Next
         \/ \E w \in Worker : (Finish(w) \/ InsertDraft(w)) /\ Busy(w) /\ ~Busy(w)'
<1>1. ASSUME NEW w \in Worker, Finish(w) \/ InsertDraft(w) PROVE Busy(w) /\ ~Busy(w)'
  <2>1. txn[w].pc # "idle" /\ txn' = [txn EXCEPT ![w] = Idle]
    BY <1>1 DEF Finish, Refuse, Go, InsertDraft
  <2> QED
    BY <2>1, IdleType DEF Busy, TInv
<1>2. ASSUME NEW w \in Worker, NEW t, Go(w, t) PROVE FALSE
  BY <1>2 DEF Go
<1>3. ASSUME NEW w \in Worker, Request(w) PROVE Next
  <2>1. PICK r \in RecordId, u \in Writer :
          \/ \E body \in Body : PostRecord(w, r, body, u) \/ BeginEdit(w, r, body, u)
          \/ BeginDelete(w, r, u)
          \/ \E target \in 1..MaxChanges : BeginRevert(w, r, target, u)
          \/ BeginPublish(w, r, u)
          \/ BeginRetire(w, r, u)
    BY <1>3 DEF Request
  <2>2. CASE \E body \in Body : PostRecord(w, r, body, u)
    BY <2>2, SerialCreate
  <2>3. CASE \/ \E body \in Body : BeginEdit(w, r, body, u)
             \/ BeginDelete(w, r, u)
             \/ \E target \in 1..MaxChanges : BeginRevert(w, r, target, u)
             \/ BeginPublish(w, r, u)
             \/ BeginRetire(w, r, u)
    BY <2>3 DEF BeginEdit, BeginDelete, BeginRevert, BeginPublish, BeginRetire, Begin
  <2> QED
    BY <2>1, <2>2, <2>3
<1>4. ASSUME NEW w \in Worker, Statement(w) \/ LockingStatement(w)
      PROVE  (Finish(w) \/ InsertDraft(w)) /\ Busy(w) /\ ~Busy(w)'
  <2>1. CASE Finish(w) \/ InsertDraft(w)
    BY <1>1, <2>1
  <2>2. CASE FindDraft(w)
    BY <1>2, <2>2 DEF FindDraft
  <2>3. CASE ReadMaster(w)
    BY <1>2, <2>3 DEF ReadMaster
  <2>4. CASE LockHistory(w)
    BY <1>2, <2>4 DEF LockHistory, Locked
  <2>5. CASE FindOpen(w) \/ UpdateDraft(w) \/ UpdateMaster(w) \/ CloseOpen(w)
    BY <1>2, <2>5 DEF FindOpen, UpdateDraft, UpdateMaster, CloseOpen
  <2>6. CASE WakeHistory(w)
    BY <1>2, <2>6 DEF WakeHistory, Locked
  <2> QED
    BY <1>4, <2>1, <2>2, <2>3, <2>4, <2>5, <2>6 DEF Statement, LockingStatement
<1>5. ASSUME NEW w \in Worker, Abort(w) PROVE FALSE
  BY <1>2, <1>5 DEF Abort
<1>6. ~Restart
  BY DEF Restart
<1> QED
  BY <1>3, <1>4, <1>5, <1>6 DEF TxnNext

\* A request whose reads still hold at its commit has the effect of one request
\* of Records, whatever its statements were interleaved with: the locks, the
\* order of the statements and what the handlers recheck add nothing and lose
\* nothing but what a stale read brings in.
THEOREM OverlapIsSerialUnlessStale == TxnSpec => SerialUnlessStale
<1>1. TInv /\ [TxnNext]_vars => [store' # store /\ ~Stale => Next]_vars
  <2> SUFFICES ASSUME TInv, TxnNext, store' # store, ~Stale PROVE Next
    OBVIOUS
  <2>1. ASSUME NEW w \in Worker, Finish(w) \/ InsertDraft(w), Busy(w) /\ ~Busy(w)'
        PROVE  Next
    <3>1. Fresh(w)
      BY <2>1 DEF Stale
    <3> QED
      BY <2>1, <3>1, SerialFinish, SerialInsertDraft
  <2> QED
    BY <2>1, CommitsWrite
<1>2. SerialUnlessStale <=> [][store' # store /\ ~Stale => Next]_vars
  BY DEF SerialUnlessStale
<1> QED
  BY <1>1, <1>2, OverlapKeepsInvariant, PTL DEF TxnSpec

-----------------------------------------------------------------------------
(* Requests about different records: the handlers implement Records *)

\* No two requests under way are about one record, a record and its drafts
\* counting as one. In particular so while requests come one at a time.
Apart ==
  \A v, w \in Worker :
    v # w /\ Busy(v) /\ Busy(w) => Owner(txn[v].id) # Owner(txn[w].id)

\* With nobody to come between, what request t has read is still so.
Steady(t) ==
  LET h == history[t.id] IN
  /\ rows[t.id] = t.read
  /\ t.pc # "waitHistory"
  /\ t.pc = "insertDraft" => DraftsOf(t.id) = {}
  /\ t.pc = "readMaster" => Draft(t.id)
  /\ t.src # NoRecord => t.src \in DraftsOf(t.id) /\ rows[t.src].data = t.arg
  /\ t.op = "revert" /\ t.pc # "lockHistory" =>
       \E i \in LatestRow(h) : t.version = h[i].version + 1
  /\ t.pc \in {"closeOpen", "finish"} \/ (t.pc = "update" /\ t.op = "publish") =>
       t.close \in FirstOpen(h)

AllSteady == \A w \in Worker : Busy(w) => Steady(txn[w])

\* A step that writes record f, its drafts and perhaps a new draft of it leaves
\* the rest alone.
Outside(f) ==
  /\ \A x \in RecordId : Stored(x) /\ Owner(x) # f =>
       rows'[x] = rows[x] /\ history'[x] = history[x]
  /\ \A x \in RecordId : Stored(x) /\ Owner(x) = f => rows'[x].draftOf = rows[x].draftOf
  /\ \A x \in RecordId : ~Stored(x) =>
       rows'[x] = rows[x] \/ rows'[x].draftOf \in {f, NoRecord}

\* Such a step does not disturb a request about another record: it finds no new
\* draft of that record, and the draft it is about to merge is as it was.
LEMMA SteadyOutside ==
  ASSUME TInv, NEW t \in TxnRecord, t.pc # "idle", RequestOK(t), Steady(t),
         NEW f, Owner(t.id) # f, Outside(f)
  PROVE  Steady(t)'
<1>1. Remembers(t) /\ Checked(t) /\ AtStep(t)
  BY DEF RequestOK
<1>2. /\ t.id \in RecordId /\ Stored(t.id) /\ rows[t.id] = t.read /\ t.id # NoRecord
      /\ DraftsPointAtMasters
  BY <1>1, NullsAssumption DEF Remembers, Steady, TInv, TablesOK
<1>3. rows'[t.id] = rows[t.id] /\ history'[t.id] = history[t.id]
  BY <1>2 DEF Outside
<1>4. t.read.state = "active" => Owner(t.id) = t.id /\ t.id # f
  BY <1>2 DEF DraftsPointAtMasters, Owner
<1>5. t.pc = "insertDraft" => DraftsOf(t.id)' = {}
  <2> SUFFICES ASSUME t.pc = "insertDraft", NEW d \in RecordId, rows'[d].draftOf = t.id,
                      Draft(d)'
               PROVE  FALSE
    BY DEF DraftsOf
  <2>1. t.read.state = "active" /\ DraftsOf(t.id) = {}
    BY <1>1 DEF Checked, AtStep, Steady
  <2>2. t.id # f
    BY <1>4, <2>1
  <2>3. CASE ~Stored(d)
    <3>1. rows[d].draftOf = NoRecord
      BY <2>3 DEF TInv, TablesOK, StoredHasHistory, Absent
    <3> QED
      BY <1>2, <2>2, <2>3, <3>1 DEF Outside
  <2>4. CASE Stored(d) /\ Owner(d) = f
    BY <1>2, <2>2, <2>4 DEF Outside, Owner
  <2>5. CASE Stored(d) /\ Owner(d) # f
    <3>1. rows'[d] = rows[d]
      BY <2>5 DEF Outside
    <3> QED
      BY <2>1, <3>1 DEF DraftsOf, Draft, Live, Stored
  <2> QED
    BY <2>3, <2>4, <2>5
<1>6. t.pc = "readMaster" => Draft(t.id)'
  BY <1>3 DEF Steady, Draft, Live, Stored
<1>7. t.src # NoRecord => t.src \in DraftsOf(t.id)' /\ rows'[t.src].data = t.arg
  <2> SUFFICES ASSUME t.src # NoRecord
               PROVE  t.src \in DraftsOf(t.id)' /\ rows'[t.src].data = t.arg
    OBVIOUS
  <2>1. t.src \in DraftsOf(t.id) /\ rows[t.src].data = t.arg /\ t.read.state = "active"
    BY <1>1 DEF Steady, Checked
  <2>2. Stored(t.src) /\ rows[t.src].draftOf = t.id /\ t.src \in RecordId
    BY <2>1 DEF DraftsOf, Draft, Live
  <2>3. rows'[t.src] = rows[t.src]
    BY <1>2, <1>4, <2>1, <2>2 DEF Outside, Owner
  <2> QED
    BY <2>1, <2>3 DEF DraftsOf, Draft, Live, Stored
<1> QED
  BY <1>3, <1>5, <1>6, <1>7 DEF Steady

\* What a commit writes is its own record and the draft it merged.
LEMMA FinishOutside ==
  ASSUME TInv, NEW w \in Worker, Finish(w)
  PROVE  Outside(Owner(txn[w].id))
<1> DEFINE t == txn[w]
           id == t.id
           row == NewRow(t, rows[id])
           others == IF t.src = NoRecord THEN rows ELSE [rows EXCEPT ![t.src] = Deleted(@)]
<1>1. t.pc = "finish" /\ t \in TxnRecord /\ RequestOK(t)
  BY DEF Finish, Refuse, Go, TInv
<1>2. Remembers(t) /\ Checked(t)
  BY <1>1 DEF RequestOK
<1>3. /\ id \in RecordId /\ Stored(id) /\ id # NoRecord /\ TypeOK /\ rows[id] \in Row
      /\ DraftsPointAtMasters /\ rows = [x \in RecordId |-> rows[x]]
  BY <1>2, NullsAssumption DEF Remembers, TInv, TablesOK, TypeOK
<1>4. row.draftOf = rows[id].draftOf
  BY <1>1, <1>3, NewRowType
<1>5. CASE UNCHANGED store
  BY <1>5 DEF Outside, store
<1>6. CASE /\ rows' = [others EXCEPT ![id] = row]
           /\ \E g : history' = [history EXCEPT ![id] = g]
  <2>1. t.src # NoRecord =>
          /\ t.src \in RecordId /\ rows[t.src].draftOf = id /\ Owner(id) = id
          /\ rows[t.src] \in Row
    <3> SUFFICES ASSUME t.src # NoRecord
                 PROVE  /\ t.src \in RecordId /\ rows[t.src].draftOf = id /\ Owner(id) = id
                        /\ rows[t.src] \in Row
      OBVIOUS
    <3>1. t.src \in RecordId /\ rows[t.src].draftOf = id
      BY <1>2 DEF Checked
    <3>2. rows[id].state \in {"active", "retired"}
      BY <1>3, <3>1 DEF DraftsPointAtMasters
    <3>3. rows[id].draftOf = NoRecord
      BY <1>3, <3>2 DEF DraftsPointAtMasters
    <3> QED
      BY <1>3, <3>1, <3>3 DEF Owner, TypeOK
  <2>2. ASSUME NEW x \in RecordId, x # id, x # t.src
        PROVE  rows'[x] = rows[x] /\ history'[x] = history[x]
    <3> HIDE DEF row
    <3> QED
      BY <1>3, <1>6, <2>1, <2>2 DEF TypeOK
  <2>3. rows'[id].draftOf = rows[id].draftOf
    <3> HIDE DEF row
    <3>1. id \in DOMAIN others
      BY <1>3
    <3> QED
      BY <1>4, <1>6, <3>1
  <2>4. ASSUME t.src # NoRecord, t.src # id PROVE rows'[t.src].draftOf = id
    <3>1. Deleted(rows[t.src]).draftOf = id
      BY <2>1, <2>4, DeletedType
    <3> HIDE DEF row
    <3> QED
      BY <1>3, <1>6, <2>1, <2>4, <3>1
  <2>5. t.src # NoRecord => Stored(t.src) /\ Owner(t.src) = id /\ t.src # id
    BY <1>3, <2>1 DEF Owner, DraftsPointAtMasters, Stored
  <2> HIDE DEF row, others
  <2>6. ASSUME NEW x \in RecordId, Stored(x), Owner(x) # Owner(id)
        PROVE  rows'[x] = rows[x] /\ history'[x] = history[x]
    BY <1>3, <2>1, <2>2, <2>5, <2>6, NullsAssumption
  <2>7. ASSUME NEW x \in RecordId PROVE rows'[x].draftOf = rows[x].draftOf
    BY <2>1, <2>2, <2>3, <2>4, <2>5, <2>7, NullsAssumption
  <2>8. ASSUME NEW x \in RecordId, ~Stored(x) PROVE rows'[x] = rows[x]
    BY <1>3, <2>2, <2>5, <2>8, NullsAssumption
  <2> QED
    BY <2>6, <2>7, <2>8 DEF Outside
<1> QED
  BY <1>5, <1>6 DEF Finish, Refuse, Go

\* An INSERT brings a new record, or a new draft of its record.
LEMMA InsertOutside ==
  ASSUME TInv, NEW r \in RecordId, ~Stored(r), NEW row, NEW logged, NEW u, NEW sent,
         Insert(r, row, logged, u, sent), NEW f, row.draftOf \in {f, NoRecord}
  PROVE  Outside(f)
<1>1. /\ rows' = [rows EXCEPT ![r] = row] /\ rows = [x \in RecordId |-> rows[x]]
      /\ \A x \in RecordId \ {r} : history'[x] = history[x]
  BY DEF Insert, TInv, TablesOK, TypeOK
<1> QED
  BY <1>1 DEF Outside

LEMMA InsertDraftOutside ==
  ASSUME TInv, NEW w \in Worker, InsertDraft(w)
  PROVE  Outside(Owner(txn[w].id))
<1> DEFINE t == txn[w]
           row == DraftCopy(t.read, t.id, t.arg)
<1>1. t.pc = "insertDraft" /\ t.pc # "idle" /\ RequestOK(t)
  BY DEF InsertDraft, TInv
<1>2. Owner(t.id) = t.id
  <2>1. Remembers(t) /\ Checked(t) /\ AtStep(t)
    BY <1>1 DEF RequestOK
  <2>2. t.id \in RecordId /\ rows[t.id].state \in {"active", "retired"}
    BY <1>1, <2>1 DEF Remembers, Checked, AtStep, Master
  <2> QED
    BY <2>2 DEF TInv, TablesOK, DraftsPointAtMasters, Owner
<1>3. CASE UNCHANGED store
  BY <1>3 DEF Outside, store
<1>4. ASSUME NEW d \in RecordId, ~Stored(d), Insert(d, row, "DRAFT_CREATED", t.by, <<>>)
      PROVE  Outside(Owner(t.id))
  <2>1. row.draftOf = Owner(t.id)
    BY <1>2 DEF DraftCopy
  <2> HIDE DEF row
  <2> QED
    BY <1>4, <2>1, InsertOutside
<1> QED
  BY <1>3, <1>4 DEF InsertDraft

LEMMA GoStaysSteady ==
  ASSUME TInv, AllSteady, NEW w \in Worker, NEW t, Go(w, t), t.pc # "idle" => Steady(t)
  PROVE  AllSteady'
<1>1. txn' = [txn EXCEPT ![w] = t] /\ txn = [v \in Worker |-> txn[v]]
  BY DEF Go, TInv
<1>2. rows' = rows /\ history' = history
  BY DEF Go, store
<1>3. ASSUME NEW v \in Worker, Busy(v)' PROVE Steady(txn[v])'
  <2>1. CASE v = w
    <3>1. txn'[v] = t /\ t.pc # "idle"
      BY <1>1, <1>3, <2>1 DEF Busy
    <3> QED
      BY <1>2, <3>1 DEF Steady, DraftsOf, Draft, Live, Stored
  <2>2. CASE v # w
    <3>1. txn'[v] = txn[v] /\ Busy(v)
      BY <1>1, <1>3, <2>2 DEF Busy
    <3>2. Steady(txn[v])
      BY <3>1 DEF AllSteady
    <3> QED
      BY <1>2, <3>1, <3>2 DEF Steady, DraftsOf, Draft, Live, Stored
  <2> QED
    BY <2>1, <2>2
<1> QED
  BY <1>3 DEF AllSteady

\* A step that ends request w, or starts none, and writes outside the records of
\* the others.
LEMMA CommitStaysSteady ==
  ASSUME TInv, AllSteady, NEW f, Outside(f),
         \A v \in Worker : Busy(v)' => /\ Busy(v) /\ txn'[v] = txn[v]
                                       /\ Owner(txn[v].id) # f
  PROVE  AllSteady'
<1> SUFFICES ASSUME NEW v \in Worker, Busy(v)' PROVE Steady(txn[v])'
  BY DEF AllSteady
<1>1. Busy(v) /\ txn'[v] = txn[v] /\ Owner(txn[v].id) # f
  OBVIOUS
<1> DEFINE t == txn[v]
<1>2. t \in TxnRecord /\ t.pc # "idle" /\ RequestOK(t) /\ Steady(t)
  BY <1>1 DEF TInv, Busy, AllSteady
<1> HIDE DEF t
<1>3. rows'[t.id] = t.read /\ Steady(t)'
  BY <1>1, <1>2, SteadyOutside DEF t, Steady
<1> QED
  BY <1>1, <1>3 DEF t, Steady, DraftsOf

\* After its lock a request knows which version to close and which to write.
LEMMA LockedStaysSteady ==
  ASSUME TInv, AllSteady, NEW w \in Worker, txn[w].pc = "lockHistory", Steady(txn[w]),
         NEW got, Locked(w, txn[w], got),
         IF txn[w].op = "revert" THEN \E i \in LatestRow(history[txn[w].id]) : got = {i}
                                 ELSE got = OpenRows(history[txn[w].id])
  PROVE  AllSteady'
<1> DEFINE t == txn[w]
           h == history[t.id]
<1>1. PICK i \in IF got = {} THEN {0} ELSE got :
        Go(w, [t EXCEPT
                 !.pc = IF t.op = "revert" THEN "findOpen"
                        ELSE IF t.src # NoRecord THEN "update" ELSE "finish",
                 !.held = got, !.wanted = {},
                 !.close = IF t.op = "revert" THEN 0 ELSE i,
                 !.version = VersionAt(h, i) + 1])
  BY DEF Locked
<1> DEFINE n == [t EXCEPT
                   !.pc = IF t.op = "revert" THEN "findOpen"
                          ELSE IF t.src # NoRecord THEN "update" ELSE "finish",
                   !.held = got, !.wanted = {},
                   !.close = IF t.op = "revert" THEN 0 ELSE i,
                   !.version = VersionAt(h, i) + 1]
<1>2. /\ n.op = t.op /\ n.id = t.id /\ n.src = t.src /\ n.read = t.read /\ n.arg = t.arg
      /\ n.pc = IF t.op = "revert" THEN "findOpen"
                ELSE IF t.src # NoRecord THEN "update" ELSE "finish"
      /\ n.close = IF t.op = "revert" THEN 0 ELSE i
      /\ n.version = VersionAt(h, i) + 1
  BY DEF TInv, TxnRecord
<1>3. Go(w, n)
  BY <1>1
<1> HIDE DEF n
<1>4. t.op = "revert" => \E k \in LatestRow(h) : n.version = h[k].version + 1
  <2>1. LatestRow(h) \subseteq 1..Len(h)
    BY DEF LatestRow
  <2>2. \A k \in 1..Len(h) : VersionAt(h, k) = h[k].version
    BY DEF VersionAt
  <2> QED
    BY <1>1, <1>2, <2>1, <2>2
<1>5. t.op # "revert" => n.close \in FirstOpen(h)
  BY <1>1, <1>2 DEF FirstOpen
<1>6. Steady(n)
  BY <1>2, <1>4, <1>5 DEF Steady
<1> QED
  BY <1>3, <1>6, GoStaysSteady

\* What a worker reads first is what it finds.
LEMMA BeginStaysSteady ==
  ASSUME TInv, AllSteady, NEW w \in Worker, NEW op, NEW u, NEW pc, NEW r, NEW arg,
         Begin(w, op, u, pc, r, arg),
         pc \in {"findDraft", "lockHistory"} \/ (pc = "readMaster" /\ Draft(r)),
         pc = "lockHistory" \/ op # "revert"
  PROVE  AllSteady'
<1> DEFINE n == [Idle EXCEPT !.pc = pc, !.op = op, !.by = u, !.id = r, !.read = rows[r],
                             !.arg = arg]
<1>1. Go(w, n)
  BY DEF Begin, Go
<1>2. n.pc = pc /\ n.op = op /\ n.id = r /\ n.read = rows[r] /\ n.src = NoRecord
  BY StartIs
<1> HIDE DEF n
<1>3. Steady(n)
  BY <1>2 DEF Steady
<1> QED
  BY <1>1, <1>3, GoStaysSteady

LEMMA StatementStaysSteady ==
  ASSUME TInv, Apart, AllSteady, NEW w \in Worker, Statement(w) \/ LockingStatement(w)
  PROVE  AllSteady'
<1> DEFINE t == txn[w]
           h == history[t.id]
<1>1. t \in TxnRecord /\ t.pc # "idle" /\ RequestOK(t) /\ Steady(t)
  BY DEF TInv, AllSteady, Busy, Statement, LockingStatement, FindDraft, ReadMaster, LockHistory,
         FindOpen, InsertDraft, UpdateDraft, UpdateMaster, WakeHistory, CloseOpen, Finish, Refuse
<1>2. Remembers(t) /\ Checked(t) /\ AtStep(t)
  BY <1>1 DEF RequestOK
<1>3. CASE FindDraft(w)
  <2>1. CASE DraftsOf(t.id) = {} /\ Go(w, [t EXCEPT !.pc = "insertDraft"])
    <3> DEFINE n == [t EXCEPT !.pc = "insertDraft"]
    <3>1. /\ n.pc = "insertDraft" /\ n.op = t.op /\ n.id = t.id /\ n.src = t.src
          /\ n.read = t.read /\ n.arg = t.arg
      BY <1>1 DEF TxnRecord
    <3>2. Go(w, n)
      BY <2>1
    <3>3. t.op = "edit"
      BY <1>2, <1>3 DEF FindDraft, AtStep
    <3> HIDE DEF n
    <3>4. Steady(n)
      BY <1>1, <2>1, <3>1, <3>3 DEF Steady
    <3> QED
      BY <3>2, <3>4, GoStaysSteady
  <2>2. ASSUME NEW d \in DraftsOf(t.id),
               Go(w, [t EXCEPT !.pc = "update", !.id = d, !.read = rows[d]])
        PROVE  AllSteady'
    <3> DEFINE n == [t EXCEPT !.pc = "update", !.id = d, !.read = rows[d]]
    <3>1. n.pc = "update" /\ n.op = t.op /\ n.id = d /\ n.src = t.src /\ n.read = rows[d]
      BY <1>1 DEF TxnRecord
    <3>2. Go(w, n)
      BY <2>2
    <3>3. t.op = "edit" /\ t.src = NoRecord
      BY <1>2, <1>3 DEF FindDraft, AtStep, Checked
    <3> HIDE DEF n
    <3>4. Steady(n)
      BY <3>1, <3>3 DEF Steady
    <3> QED
      BY <3>2, <3>4, GoStaysSteady
  <2> QED
    BY <1>3, <2>1, <2>2 DEF FindDraft
<1>4. CASE ReadMaster(w)
  <2> DEFINE m == t.read.draftOf
  <2>1. CASE Go(w, Idle)
    BY <2>1, IdleType, GoStaysSteady
  <2>2. CASE Go(w, [t EXCEPT !.pc = "lockHistory", !.id = m, !.src = t.id,
                             !.read = rows[m], !.arg = t.read.data])
    <3> DEFINE n == [t EXCEPT !.pc = "lockHistory", !.id = m, !.src = t.id,
                              !.read = rows[m], !.arg = t.read.data]
    <3>1. /\ n.pc = "lockHistory" /\ n.op = t.op /\ n.id = m /\ n.src = t.id /\ n.read = rows[m]
          /\ n.arg = t.read.data
      BY <1>1 DEF TxnRecord
    <3>2. Go(w, n)
      BY <2>2
    <3>3. t.id \in DraftsOf(m) /\ rows[t.id].data = t.read.data
      BY <1>1, <1>2, <1>4 DEF Steady, ReadMaster, DraftsOf, Remembers
    <3> HIDE DEF n, m
    <3>4. Steady(n)
      BY <3>1, <3>3 DEF Steady
    <3> QED
      BY <3>2, <3>4, GoStaysSteady
  <2> QED
    BY <1>4, <2>1, <2>2 DEF ReadMaster
<1>5. CASE LockHistory(w)
  <2>1. PICK S \in IF t.op = "revert" THEN {{i} : i \in LatestRow(h)} ELSE {OpenRows(h)} :
          IF HistoryTaken(w, t.id, S)
          THEN Go(w, [t EXCEPT !.pc = "waitHistory", !.wanted = S])
          ELSE Locked(w, t, S)
    BY <1>5 DEF LockHistory
  <2>2. ~HistoryTaken(w, t.id, S)
    <3> SUFFICES ASSUME NEW v \in Worker \ {w}, txn[v].id = t.id, txn[v].held # {} PROVE FALSE
      BY DEF HistoryTaken
    <3>1. Busy(v)
      BY DEF TInv, RequestOK, Idle, Busy
    <3> QED
      BY <1>1, <3>1 DEF Apart, Busy
  <2>3. Locked(w, t, S) /\ t.pc = "lockHistory"
    BY <1>5, <2>1, <2>2 DEF LockHistory
  <2>4. IF t.op = "revert" THEN \E i \in LatestRow(h) : S = {i} ELSE S = OpenRows(h)
    BY <2>1
  <2> QED
    BY <1>1, <2>3, <2>4, LockedStaysSteady
<1>6. CASE FindOpen(w)
  <2>1. PICK i \in FirstOpen(h) : Go(w, [t EXCEPT !.pc = "closeOpen", !.close = i])
    BY <1>6 DEF FindOpen
  <2> DEFINE n == [t EXCEPT !.pc = "closeOpen", !.close = i]
  <2>2. /\ n.pc = "closeOpen" /\ n.op = t.op /\ n.id = t.id /\ n.src = t.src
        /\ n.read = t.read /\ n.arg = t.arg /\ n.close = i /\ n.version = t.version
    BY <1>1 DEF TxnRecord
  <2>3. Go(w, n) /\ t.pc = "findOpen"
    BY <1>6, <2>1 DEF FindOpen
  <2> HIDE DEF n
  <2>4. Steady(n)
    BY <1>1, <2>1, <2>2, <2>3 DEF Steady
  <2> QED
    BY <2>3, <2>4, GoStaysSteady
<1>7. CASE UpdateDraft(w)
  <2> DEFINE n == [t EXCEPT !.pc = "lockHistory", !.locked = {t.id}]
  <2>1. /\ n.pc = "lockHistory" /\ n.op = t.op /\ n.id = t.id /\ n.src = t.src
        /\ n.read = t.read /\ n.arg = t.arg
    BY <1>1 DEF TxnRecord
  <2>2. Go(w, n)
    BY <1>7 DEF UpdateDraft
  <2> HIDE DEF n
  <2>3. Steady(n)
    BY <1>1, <2>1 DEF Steady
  <2> QED
    BY <2>2, <2>3, GoStaysSteady
<1>8. CASE UpdateMaster(w)
  <2> DEFINE n == [t EXCEPT !.pc = "finish", !.locked = {t.id}]
  <2>1. /\ n.pc = "finish" /\ n.op = t.op /\ n.id = t.id /\ n.src = t.src
        /\ n.read = t.read /\ n.arg = t.arg /\ n.close = t.close
    BY <1>1 DEF TxnRecord
  <2>2. Go(w, n) /\ t.pc = "update" /\ t.op = "publish"
    BY <1>8 DEF UpdateMaster
  <2> HIDE DEF n
  <2>3. Steady(n)
    BY <1>1, <2>1, <2>2 DEF Steady
  <2> QED
    BY <2>2, <2>3, GoStaysSteady
<1>9. CASE WakeHistory(w)
  BY <1>1, <1>9 DEF Steady, WakeHistory
<1>10. CASE CloseOpen(w)
  <2> DEFINE held == t.held \cup ({t.close} \ {0})
             n == [t EXCEPT !.pc = "finish", !.held = held]
  <2>1. Go(w, n) /\ t.pc = "closeOpen"
    BY <1>1, <1>10 DEF CloseOpen, TxnRecord
  <2> HIDE DEF held
  <2>2. /\ n.pc = "finish" /\ n.op = t.op /\ n.id = t.id /\ n.src = t.src
        /\ n.read = t.read /\ n.arg = t.arg /\ n.close = t.close /\ n.version = t.version
    BY <1>1 DEF TxnRecord
  <2> HIDE DEF n
  <2>3. Steady(n)
    BY <1>1, <2>1, <2>2 DEF Steady
  <2> QED
    BY <2>1, <2>3, GoStaysSteady
<1>11. CASE Finish(w) \/ InsertDraft(w)
  <2>1. \A v \in Worker : Busy(v)' => v # w /\ Busy(v) /\ txn'[v] = txn[v]
    <3>1. txn' = [txn EXCEPT ![w] = Idle] /\ txn = [v \in Worker |-> txn[v]]
      BY <1>11 DEF Finish, Refuse, Go, InsertDraft, TInv
    <3> QED
      BY <3>1, IdleType DEF Busy
  <2>2. \A v \in Worker : Busy(v)' => /\ Busy(v) /\ txn'[v] = txn[v]
                                     /\ Owner(txn[v].id) # Owner(t.id)
    BY <1>1, <2>1 DEF Apart, Busy
  <2>3. Outside(Owner(t.id))
    BY <1>11, FinishOutside, InsertDraftOutside
  <2> QED
    BY <2>2, <2>3, CommitStaysSteady
<1> QED
  BY <1>3, <1>4, <1>5, <1>6, <1>7, <1>8, <1>9, <1>10, <1>11 DEF Statement, LockingStatement

LEMMA ApartStaysSteady ==
  ASSUME TInv, Apart, AllSteady, TxnNext
  PROVE  AllSteady'
<1>1. ASSUME NEW w \in Worker, Request(w) PROVE AllSteady'
  <2>1. PICK r \in RecordId, u \in Writer :
          \/ \E body \in Body : PostRecord(w, r, body, u) \/ BeginEdit(w, r, body, u)
          \/ BeginDelete(w, r, u)
          \/ \E target \in 1..MaxChanges : BeginRevert(w, r, target, u)
          \/ BeginPublish(w, r, u)
          \/ BeginRetire(w, r, u)
    BY <1>1 DEF Request
  <2>2. CASE \E body \in Body : PostRecord(w, r, body, u)
    <3>1. PICK body \in Body : PostRecord(w, r, body, u)
      BY <2>2
    <3>2. Outside(NoRecord)
      BY <3>1, InsertOutside DEF PostRecord, Created
    <3>3. \A v \in Worker : Busy(v) => Owner(txn[v].id) # NoRecord
      BY NullsAssumption DEF TInv, RequestOK, Remembers, Owner, Busy
    <3>4. txn' = txn
      BY <3>1 DEF PostRecord
    <3> QED
      BY <3>2, <3>3, <3>4, CommitStaysSteady DEF Busy
  <2>3. CASE \E body \in Body : BeginEdit(w, r, body, u)
    <3>1. PICK body \in Body :
            Begin(w, "edit", u, IF Golden(r) THEN "findDraft" ELSE "lockHistory", r, body)
      BY <2>3 DEF BeginEdit
    <3> DEFINE pc == IF Golden(r) THEN "findDraft" ELSE "lockHistory"
    <3>2. Begin(w, "edit", u, pc, r, body) /\ pc \in {"findDraft", "lockHistory"}
      BY <3>1
    <3> HIDE DEF pc
    <3> QED
      BY <3>2, BeginStaysSteady
  <2>4. CASE BeginDelete(w, r, u)
    BY <2>4, BeginStaysSteady DEF BeginDelete
  <2>5. CASE \E target \in 1..MaxChanges : BeginRevert(w, r, target, u)
    BY <2>5, BeginStaysSteady DEF BeginRevert
  <2>6. CASE BeginPublish(w, r, u)
    <3> DEFINE pc == IF rows[r].draftOf = NoRecord THEN "lockHistory" ELSE "readMaster"
    <3>1. Begin(w, "publish", u, pc, r, Blank) /\ Draft(r) /\ pc \in {"lockHistory", "readMaster"}
      BY <2>6 DEF BeginPublish
    <3> HIDE DEF pc
    <3> QED
      BY <3>1, BeginStaysSteady
  <2>7. CASE BeginRetire(w, r, u)
    BY <2>7, BeginStaysSteady DEF BeginRetire
  <2> QED
    BY <2>1, <2>2, <2>3, <2>4, <2>5, <2>6, <2>7
<1>2. ASSUME NEW w \in Worker, Abort(w) PROVE AllSteady'
  BY <1>2, IdleType, GoStaysSteady DEF Abort
<1>3. CASE Restart
  BY <1>3, IdleType DEF Restart, AllSteady, Busy
<1> QED
  BY <1>1, <1>2, <1>3, StatementStaysSteady DEF TxnNext

LEMMA ApartReadsFresh ==
  ASSUME AllSteady, NEW w \in Worker, Finish(w) \/ InsertDraft(w), Busy(w)
  PROVE  Fresh(w)
<1>1. Steady(txn[w]) /\ txn[w].pc \in {"finish", "insertDraft"}
  BY DEF AllSteady, Finish, Refuse, Go, InsertDraft
<1> QED
  BY <1>1 DEF Steady, Fresh

\* Without two requests about one record, the handlers of objects.py, statement by
\* statement, are Records: a request has no effect before its commit, and at its
\* commit that of its one step, however many requests about other records are
\* under way, are refused, fail or are cut off by a stop of the process. What is
\* proved of Records therefore holds of them; what RecordTxns shows going wrong
\* takes two requests about one record.
THEOREM ApartIsRecords == TxnSpec /\ []Apart => Spec
<1>1. TxnInit => Init /\ AllSteady
  BY IdleType DEF TxnInit, Init, AllSteady, Busy
<1>2. TInv /\ Apart /\ AllSteady /\ [TxnNext]_vars => AllSteady'
  <2> SUFFICES ASSUME TInv, AllSteady, UNCHANGED vars PROVE AllSteady'
    BY ApartStaysSteady
  <2> QED
    BY DEF vars, AllSteady, Busy, Steady, DraftsOf, Draft, Live, Stored
<1>3. TInv /\ AllSteady /\ [TxnNext]_vars => [Next]_store
  <2> SUFFICES ASSUME TInv, AllSteady, TxnNext, store' # store PROVE Next
    BY DEF vars, store
  <2> QED
    BY ApartReadsFresh, CommitsWrite, SerialFinish, SerialInsertDraft
<1>4. Spec <=> Init /\ [][Next]_store
  BY DEF Spec
<1> QED
  BY <1>1, <1>2, <1>3, <1>4, OverlapKeepsInvariant, PTL DEF TxnSpec

\* So the handlers implement Records when there is one worker.
THEOREM OneAtATimeIsRecords == (\A v, w \in Worker : v = w) => (TxnSpec => Spec)
<1> SUFFICES ASSUME \A v, w \in Worker : v = w PROVE TxnSpec => Spec
  OBVIOUS
<1>1. TxnInit => Apart
  BY DEF Apart
<1>2. Apart'
  BY DEF Apart
<1> QED
  BY <1>1, <1>2, ApartIsRecords, PTL DEF TxnSpec

\* What a stale read can spoil is kept as long as requests about one record do not
\* overlap: versions are numbered without repeats (the promise of Changelog.md that
\* VersionsUnique refutes for two edits of one draft), the newest tells what the
\* record table says, statuses are fresh, and subscribers hear of a life in order.
THEOREM ApartKeepsTheTables ==
  TxnSpec /\ []Apart =>
    [](/\ VersionsUnique /\ HistoryWellFormed /\ HistoryTellsTheRecord /\ StatusFresh
       /\ SecondDraftWasReverted /\ EventsFollowLifecycle)
<1>1. TypeOK /\ HistoryWellFormed => VersionsUnique
  BY DEF HistoryWellFormed, VersionsUnique
<1> QED
  BY <1>1, ApartIsRecords, TypeCorrect, HistoryIsNumbered, HistoryAgrees, StatusIsFresh,
     SecondDraftNeedsRevert, EventsFollow, PTL

\* Then, too, golden data changes by a publisher's hand only (the rule that
\* GoldenDataIsApproved refutes for an edit that overlaps the draft's publication), no
\* record moves backwards, and readers have the promise of MasterData kept.
THEOREM ApartKeepsThePromise ==
  TxnSpec /\ []Apart => GoldenDataIsApproved /\ LifecycleOrder /\ PromiseKept
BY ApartIsRecords, GoldenDataNeedsPublisher, LifecycleMovesForward, RecordsKeepThePromise,
   PTL
=============================================================================
