----------------------------- MODULE RecordTxns -----------------------------
(***************************************************************************)
(* The record API of app/api/objects.py when requests overlap.             *)
(*                                                                         *)
(* The handlers are sync functions, so FastAPI runs them in threads, each  *)
(* with a session of its own: one request is one PostgreSQL transaction at *)
(* READ COMMITTED. A step here is one statement, or a run of statements    *)
(* nothing can come between. A SELECT sees what is committed; SELECT ...   *)
(* FOR UPDATE and UPDATE wait for the transaction that locked or wrote the *)
(* row and then look at its newest version: the former drops a row that no *)
(* longer meets its WHERE, the latter sets its columns on it. Writes show  *)
(* at the commit.                                                          *)
(*                                                                         *)
(* Records, which this module extends, is what each commit amounts to as   *)
(* long as no request has read what another one then changes.              *)
(***************************************************************************)
EXTENDS Records

CONSTANTS
  Worker,   \* threads of the pool, each serving one request at a time
  Enabled   \* the endpoints in use, a subset of Endpoint

Endpoint == {"create", "edit", "delete", "revert", "publish", "retire"}

ASSUME EnabledAssumption == Enabled \subseteq Endpoint

VARIABLE txn   \* the request each worker is serving

vars == <<rows, history, audit, events, txn>>

Step == {"idle", "findDraft", "insertDraft", "readMaster", "update", "lockHistory",
         "waitHistory", "findOpen", "closeOpen", "finish"}

Position == 0..MaxChanges

Txn == [pc : Step, op : Endpoint, by : Writer \cup {Null},
        id : RecordId \cup {NoRecord},    \* the record the request writes
        src : RecordId \cup {NoRecord},   \* the draft a publish merges
        read : Row,                       \* record id as the handler read it
        arg : Body \cup Data,             \* request body, target version or draft data
        wanted : SUBSET Position,         \* history rows of id a lock waits for
        held : SUBSET Position,           \* history rows of id that are locked
        close : Position,                 \* the history row to close, 0 for none
        version : 0..MaxChanges,          \* the version number to write
        locked : SUBSET RecordId]         \* records the transaction has updated

Idle ==
  [pc |-> "idle", op |-> "create", by |-> Null,
   id |-> NoRecord, src |-> NoRecord, read |-> Absent,
   arg |-> Blank, wanted |-> {}, held |-> {}, close |-> 0, version |-> 0, locked |-> {}]

Busy(w) == txn[w].pc # "idle"

TxnInit ==
  /\ rows = [r \in RecordId |-> Absent]
  /\ history = [r \in RecordId |-> <<>>]
  /\ audit = [r \in RecordId |-> <<>>]
  /\ events = [r \in RecordId |-> <<>>]
  /\ txn = [w \in Worker |-> Idle]

-----------------------------------------------------------------------------
(* Locks *)

\* Some other transaction holds one of the history rows S of record r.
HistoryTaken(w, r, S) ==
  \E v \in Worker \ {w} : txn[v].id = r /\ txn[v].held \cap S # {}

RowTaken(w, r) == \E v \in Worker \ {w} : r \in txn[v].locked

\* The records the last UPDATEs of a transaction still have to lock: the draft
\* that a merge deletes; otherwise the record itself.
ToUpdate(t) == {IF t.src # NoRecord THEN t.src ELSE t.id}

\* The transactions w cannot go on without.
WaitsFor(w) ==
  LET t == txn[w] IN
  {v \in Worker \ {w} :
     \/ t.pc = "update" /\ t.id \in txn[v].locked
     \/ t.pc = "finish" /\ ToUpdate(t) \cap txn[v].locked # {}
     \/ t.pc = "waitHistory" /\ txn[v].id = t.id /\ t.wanted \cap txn[v].held # {}
     \/ t.pc = "closeOpen" /\ txn[v].id = t.id /\ t.close \in txn[v].held}

Deadlocked(w) ==
  \E S \in SUBSET Worker : w \in S /\ \A v \in S : WaitsFor(v) \cap S # {}

-----------------------------------------------------------------------------
(* The request a worker takes up: its first SELECT, and the early returns   *)
(* that depend on it. The bound leaves room for what is under way.          *)

HasRoomForMore ==
  Cardinality(Written) + Cardinality({v \in Worker : Busy(v)}) < MaxChanges

Begin(w, op, u, pc, r, arg) ==
  /\ ~Busy(w)
  /\ op \in Enabled
  /\ HasRoomForMore
  /\ txn' = [txn EXCEPT ![w] = [Idle EXCEPT !.pc = pc, !.op = op, !.by = u, !.id = r,
                                            !.read = rows[r], !.arg = arg]]
  /\ UNCHANGED store

\* PUT: an active record leads to its draft, another one is written in place.
BeginEdit(w, r, body, u) ==
  /\ Live(r)
  /\ rows[r].state = "retired" => u \in Publisher
  /\ Begin(w, "edit", u, IF Golden(r) THEN "findDraft" ELSE "lockHistory", r, body)

BeginDelete(w, r, u) == Live(r) /\ Begin(w, "delete", u, "lockHistory", r, Blank)

\* The target version is read here; its data never changes afterwards.
BeginRevert(w, r, target, u) ==
  /\ Stored(r)
  /\ target \in 1..Len(history[r])
  /\ rows[r].state \in {"active", "retired"} => u \in Publisher
  /\ Begin(w, "revert", u, "lockHistory", r, history[r][target].data)

\* Bug: publish takes every draft for a new record.
Bug_PromotesEdits(w, d, u) ==
  u \in Publisher /\ Draft(d) /\ Begin(w, "publish", u, "lockHistory", d, Blank)

BeginPublish(w, d, u) ==
  /\ u \in Publisher
  /\ Draft(d)
  /\ Begin(w, "publish", u,
           IF rows[d].draftOf = NoRecord THEN "lockHistory" ELSE "readMaster", d, Blank)

BeginRetire(w, r, u) ==
  /\ AllowRetire
  /\ u \in Publisher
  /\ Golden(r)
  /\ Begin(w, "retire", u, "lockHistory", r, Blank)

-----------------------------------------------------------------------------
(* The statements of a request *)

Go(w, t) == txn' = [txn EXCEPT ![w] = t] /\ UNCHANGED store

\* PUT on an active record: SELECT its draft. An existing draft is updated
\* before its history is locked.
FindDraft(w) ==
  LET t == txn[w]  ds == DraftsOf(t.id) IN
  /\ t.pc = "findDraft"
  /\ \/ ds = {} /\ Go(w, [t EXCEPT !.pc = "insertDraft"])
     \/ \E d \in ds : Go(w, [t EXCEPT !.pc = "update", !.id = d, !.read = rows[d]])

\* Publish of an edit: SELECT the master, or 404. The draft becomes the source.
ReadMaster(w) ==
  LET t == txn[w]  m == t.read.draftOf IN
  /\ t.pc = "readMaster"
  /\ IF Golden(m)
     THEN Go(w, [t EXCEPT !.pc = "lockHistory", !.id = m, !.src = t.id,
                          !.read = rows[m], !.arg = t.read.data])
     ELSE Go(w, Idle)

\* UPDATE of the draft of an active record.
UpdateDraft(w) ==
  LET t == txn[w] IN
  /\ t.pc = "update" /\ t.op = "edit"
  /\ ~RowTaken(w, t.id)
  /\ Go(w, [t EXCEPT !.pc = "lockHistory", !.locked = {t.id}])

\* UPDATE of the master in a publish; the draft is deleted next.
UpdateMaster(w) ==
  LET t == txn[w] IN
  /\ t.pc = "update" /\ t.op = "publish"
  /\ ~RowTaken(w, t.id)
  /\ Go(w, [t EXCEPT !.pc = "finish", !.locked = {t.id}])

\* What follows the lock on history rows got: the version number counts on
\* from the first of them, and 0 stands for "none found". A revert has the
\* latest row and still looks for the open one.
Locked(w, t, got) ==
  \E i \in IF got = {} THEN {0} ELSE got :
    Go(w, [t EXCEPT
             !.pc = IF t.op = "revert" THEN "findOpen"
                    ELSE IF t.src # NoRecord THEN "update" ELSE "finish",
             !.held = got, !.wanted = {},
             !.close = IF t.op = "revert" THEN 0 ELSE i,
             !.version = VersionAt(history[t.id], i) + 1])

\* SELECT ... FOR UPDATE on the history of the record: the open rows, or for a
\* revert the latest one. If another transaction holds one of them, wait.
LockHistory(w) ==
  LET t == txn[w]  h == history[t.id] IN
  /\ t.pc = "lockHistory"
  /\ \E S \in IF t.op = "revert" THEN {{i} : i \in LatestRow(h)} ELSE {OpenRows(h)} :
       IF HistoryTaken(w, t.id, S)
       THEN Go(w, [t EXCEPT !.pc = "waitHistory", !.wanted = S])
       ELSE Locked(w, t, S)

\* The wait is over. PostgreSQL looks at the rows again: those closed meanwhile
\* no longer match, and a row added meanwhile was not in the statement's
\* snapshot.
WakeHistory(w) ==
  LET t == txn[w] IN
  /\ t.pc = "waitHistory"
  /\ ~HistoryTaken(w, t.id, t.wanted)
  /\ Locked(w, t, IF t.op = "revert" THEN t.wanted
                  ELSE t.wanted \cap OpenRows(history[t.id]))

\* Revert: SELECT the open row, without a lock ...
FindOpen(w) ==
  LET t == txn[w] IN
  /\ t.pc = "findOpen"
  /\ \E i \in FirstOpen(history[t.id]) :
       Go(w, [t EXCEPT !.pc = "closeOpen", !.close = i])

\* ... and UPDATE it.
CloseOpen(w) ==
  LET t == txn[w] IN
  /\ t.pc = "closeOpen"
  /\ ~HistoryTaken(w, t.id, {t.close})
  /\ Go(w, [t EXCEPT !.pc = "finish", !.held = @ \cup ({t.close} \ {0})])

-----------------------------------------------------------------------------
(* The end of a request *)

\* The record after the UPDATE of request t that finds version cur. With
\* cur = t.read it is the record as the handler believes it to be, which is
\* what it writes to the history.
NewRow(t, cur) ==
  CASE t.op = "edit" -> Edited(cur, t.read, t.arg)
    [] t.op = "delete" -> Deleted(cur)
    [] t.op = "revert" -> Reverted(cur, t.arg)
    [] t.op = "publish" /\ t.src = NoRecord -> Promoted(cur, t.read)
    [] t.op = "publish" /\ t.src # NoRecord -> MergedInto(cur, t.arg)
    [] t.op = "retire" -> Retired(cur)

ActionOf(op) ==
  CASE op = "edit" -> "UPDATE" [] op = "delete" -> "DELETE" [] op = "revert" -> "REVERT"
    [] op = "publish" -> "PUBLISH" [] op = "retire" -> "RETIRE"

EventsOf(t) ==
  CASE t.op = "publish" ->
         IF t.src = NoRecord THEN <<"record.created">> ELSE <<"record.published">>
    [] t.op = "retire" -> <<"record.retired">>
    [] OTHER -> <<>>

\* Bug: answered without a rollback, its transaction open and its locks held.
Bug_KeepsLocks(w) == Go(w, [txn[w] EXCEPT !.pc = "answered"])

\* A version that the constraints refuse: db.rollback(), and the answer 422.
Refuse(w) == Go(w, Idle)

\* The last UPDATE, the INSERTs into history and audit log, the commit, and the
\* event that add_task queues once the commit is through.
Finish(w) ==
  LET t == txn[w]
      row == NewRow(t, rows[t.id])
      written == NewRow(t, t.read)
      others == IF t.src = NoRecord THEN rows
                ELSE [rows EXCEPT ![t.src] = Deleted(@)]
  IN
  /\ t.pc = "finish"
  /\ \A r \in ToUpdate(t) : ~RowTaken(w, r)
  /\ IF Accepts(others, t.id, row)
     THEN /\ txn' = [txn EXCEPT ![w] = Idle]
          /\ rows' = [others EXCEPT ![t.id] = row]
          /\ history' = [history EXCEPT ![t.id] =
               WriteHistory(@, t.close, t.version, written, ActionOf(t.op), t.by)]
          /\ audit' = [audit EXCEPT ![t.id] =
               LogChange(@, ActionOf(t.op), t.by, written.status, t.op = "edit")]
          /\ events' = [events EXCEPT ![t.id] = @ \o EventsOf(t)]
     ELSE Refuse(w)

\* An INSERT locks nothing anyone waits for: the new record, its history and
\* its audit entry appear with the commit.
Insert(r, row, logged, u, sent) ==
  /\ rows' = [rows EXCEPT ![r] = row]
  /\ history' = [history EXCEPT ![r] = WriteHistory(@, 0, 1, row, "INSERT", u)]
  /\ audit' = [audit EXCEPT ![r] = LogChange(@, logged, u, row.status, TRUE)]
  /\ events' = [events EXCEPT ![r] = @ \o sent]

\* PUT on an active record without a draft: INSERT the copy. With no RecordId
\* left, a bound of the model, the request fails.
InsertDraft(w) ==
  LET t == txn[w]
      row == DraftCopy(t.read, t.id, t.arg)
      fresh == {d \in RecordId : ~Stored(d) /\ Accepts(rows, d, row)}
  IN
  /\ t.pc = "insertDraft"
  /\ txn' = [txn EXCEPT ![w] = Idle]
  /\ IF fresh = {} THEN UNCHANGED store
     ELSE \E d \in fresh : Insert(d, row, "DRAFT_CREATED", t.by, <<>>)

\* POST /records reads nothing first, so nothing comes between its statements.
PostRecord(w, r, body, u) ==
  /\ ~Busy(w)
  /\ "create" \in Enabled
  /\ HasRoomForMore
  /\ ~Stored(r)
  /\ Accepts(rows, r, Created(body))
  /\ Insert(r, Created(body), "INSERT", u,
            IF RequiresDraft THEN <<>> ELSE <<"record.created">>)
  /\ UNCHANGED txn

\* The connection is lost, or, with Deadlocked(w), PostgreSQL ends a deadlock
\* at this transaction's cost: it is rolled back.
Abort(w) == Busy(w) /\ Go(w, Idle)

\* The application stops and starts again: PostgreSQL rolls everything back.
Restart ==
  /\ \E w \in Worker : Busy(w)
  /\ txn' = [w \in Worker |-> Idle]
  /\ UNCHANGED store

-----------------------------------------------------------------------------

Request(w) ==
  \E r \in RecordId, u \in Writer :
    \/ \E body \in Body : PostRecord(w, r, body, u) \/ BeginEdit(w, r, body, u)
    \/ BeginDelete(w, r, u)
    \/ \E target \in 1..MaxChanges : BeginRevert(w, r, target, u)
    \/ BeginPublish(w, r, u)
    \/ BeginRetire(w, r, u)

\* The statements that never wait.
Statement(w) ==
  \/ FindDraft(w) \/ ReadMaster(w) \/ LockHistory(w) \/ FindOpen(w) \/ InsertDraft(w)

\* The statements that may have to wait for a lock.
LockingStatement(w) ==
  \/ UpdateDraft(w) \/ UpdateMaster(w) \/ WakeHistory(w) \/ CloseOpen(w) \/ Finish(w)

TxnNext ==
  \/ \E w \in Worker : Request(w) \/ Statement(w) \/ LockingStatement(w) \/ Abort(w)
  \/ Restart

TxnSpec == TxnInit /\ [][TxnNext]_vars

\* What happens of its own accord: a thread goes on with its request;
\* PostgreSQL grants a lock in the order of arrival, so a waiter to whom it is
\* free again and again gets it; the deadlock detector runs. No client has to
\* send a request, and no transaction has to fail otherwise.
Fairness ==
  /\ \A w \in Worker : WF_vars(Statement(w)) /\ SF_vars(LockingStatement(w))
  /\ WF_vars(\E w \in Worker : Deadlocked(w) /\ Abort(w))

FairSpec == TxnSpec /\ Fairness

-----------------------------------------------------------------------------
(* Properties of overlapping requests, beside those of RecordProperties *)

TxnTypeOK == TypeOK /\ txn \in [Worker -> Txn]

\* A live record always has a current version, however updates, deletes and
\* reverts of it overlap: none of them closes the last open history row without
\* opening another or deleting the record.
LiveHasOpenVersion == \A r \in RecordId : Live(r) => OpenRows(history[r]) # {}

\* Every request ends, deadlocks between the two lock orders (history then
\* record; record then history) included.
RequestsEnd == \A w \in Worker : Busy(w) ~> ~Busy(w)

\* What request w read of its records still holds when it commits: the record
\* itself, the current version it closes (for a revert, also the latest one),
\* the draft it merges, that there is no draft yet.
Fresh(w) ==
  LET t == txn[w]  h == history[t.id] IN
  /\ rows[t.id] = t.read
  /\ t.pc = "insertDraft" => DraftsOf(t.id) = {}
  /\ t.src # NoRecord => t.src \in DraftsOf(t.id) /\ rows[t.src].data = t.arg
  /\ t.op = "revert" => \E i \in LatestRow(h) : t.version = h[i].version + 1
  /\ t.pc = "finish" => t.close \in FirstOpen(h)

\* A request that has read nothing stale has, statement by statement, the
\* effect of one request of Records at the moment of its commit, whatever
\* runs beside it. As long as no two requests are about one record and its
\* drafts, every request is such a one.
Stale == \E w \in Worker : Busy(w) /\ ~Busy(w)' /\ ~Fresh(w)
SerialUnlessStale == [][store' # store /\ ~Stale => Next]_vars

\* "History version counter is now incremented atomically using SELECT ... FOR
\* UPDATE on the open history row, preventing duplicate version numbers under
\* concurrent updates" (Changelog.md). The row a waiter waited for is closed by
\* then, so it finds none and starts at 1 again.
VersionsUnique ==
  \A r \in RecordId : \A i, j \in 1..Len(history[r]) :
    history[r][i].version = history[r][j].version => i = j
=============================================================================
