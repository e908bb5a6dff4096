---------------------------- MODULE RecordStore ----------------------------
(***************************************************************************)
(* The tables behind one configured object (say crm.customer) and the pure *)
(* operators the request handlers of app/api/objects.py apply to them.     *)
(*                                                                         *)
(* The state is what PostgreSQL holds after the last commit: the record    *)
(* table, its history table, the part of _system.audit_log about each      *)
(* record, and, beside the database, the webhook events the application    *)
(* has scheduled. Records (one request at a time) and RecordTxns           *)
(* (statements of concurrent requests) are two next-state relations over   *)
(* this state; both build their steps from the operators below.            *)
(***************************************************************************)
EXTENDS Integers, Sequences, FiniteSets

CONSTANTS
  RecordId,       \* the _id values that uuid4() can hand out
  NoRecord,       \* NULL in _draft_of_id
  Column,         \* attribute and parent-key columns of the object
  Value,          \* values other than NULL
  Null,
  UniqueColumn,   \* attributes configured unique: true
  RequiredColumn, \* attributes configured required: true
  Body,           \* request bodies after _filter_columns
  Broken,         \* the data some soft validation rule rejects
  Writer,         \* users with can_write on the schema
  Publisher,      \* users with can_publish on the schema
  Source,         \* "inbound:<name>", the user name of a push
  RequiresDraft,  \* requires_draft of the object
  AllowRetire,    \* allow_retire of the object
  MaxChanges      \* bound of the model: history rows in all

\* Whose name a history or audit row can carry.
Actor == Writer \cup Source

Cell == Value \cup {Null}
Data == [Column -> Cell]

\* NULL is no value, of a column or of a whole record.
ASSUME NullsAssumption ==
  NoRecord \notin RecordId /\ Null \notin Value /\ Null \notin Data
ASSUME ColumnAssumption ==
  UniqueColumn \subseteq Column /\ RequiredColumn \subseteq Column
ASSUME BodyAssumption ==
  \A b \in Body : \E S \in SUBSET Column : b \in [S -> Cell]
ASSUME BrokenAssumption == Broken \subseteq Data
\* can_publish implies can_write (permissions.set_permission).
ASSUME UserAssumption == Publisher \subseteq Writer
ASSUME SourceAssumption == Null \notin Source
ASSUME ConfigAssumption == RequiresDraft \in BOOLEAN /\ AllowRetire \in BOOLEAN
ASSUME BoundAssumption == MaxChanges \in Nat

VARIABLES
  rows,     \* the record table
  history,  \* the history table, per record, in insertion order
  audit,    \* _system.audit_log, per record, in insertion order
  events    \* webhook events handed to BackgroundTasks, per record

store == <<rows, history, audit, events>>

State == {"draft", "active", "retired"}
Validity == {"valid", "invalid"}
ChangeAction ==
  {"INSERT", "UPDATE", "DELETE", "REVERT", "PUBLISH", "RETIRE"}
AuditAction == ChangeAction \cup {"DRAFT_CREATED", "VALIDATION_OVERRIDE"}
Event == {"record.created", "record.published", "record.retired"}

Row == [state : State \cup {"absent"}, deleted : BOOLEAN,
        draftOf : RecordId \cup {NoRecord}, data : Data, status : Validity]
Version == [version : Nat, open : BOOLEAN, action : ChangeAction,
            state : State \cup {"absent"}, data : Data, status : Validity,
            by : Actor]
AuditEntry == [action : AuditAction, by : Actor]

-----------------------------------------------------------------------------
(* What the handlers read *)

Stored(r) == rows[r].state # "absent"
Live(r) == Stored(r) /\ ~rows[r].deleted
Golden(r) == Live(r) /\ rows[r].state = "active"
Draft(r) == Live(r) /\ rows[r].state = "draft"

\* The live drafts PUT on an active record looks for.
DraftsOf(r) == {d \in RecordId : Draft(d) /\ rows[d].draftOf = r}

\* The rules of the object, as record_violations sees the merged record.
Status(data) == IF data \in Broken THEN "invalid" ELSE "valid"

Merge(data, body) ==
  [c \in Column |-> IF c \in DOMAIN body THEN body[c] ELSE data[c]]

Blank == [c \in Column |-> Null]

-----------------------------------------------------------------------------
(* What the database accepts *)

\* The partial unique index covers active, live rows and ignores NULLs.
Indexed(row) == row.state = "active" /\ ~row.deleted

SameKey(a, b) == \E c \in UniqueColumn : a.data[c] # Null /\ a.data[c] = b.data[c]

\* Bug: the unique index is missing.
Bug_NoIndex(t, r, row) == \A c \in RequiredColumn : row.data[c] # Null

\* The rows of table t, with row as the new version of record r, satisfy the
\* NOT NULL and UNIQUE constraints.
Accepts(t, r, row) ==
  /\ \A c \in RequiredColumn : row.data[c] # Null
  /\ Indexed(row) =>
       \A o \in RecordId \ {r} : Indexed(t[o]) => ~SameKey(t[o], row)

-----------------------------------------------------------------------------
(* The new version of a row. cur is the version the UPDATE statement finds, *)
(* snap the one the handler read earlier and validates; the statement sets  *)
(* only the columns it names.                                               *)

Absent == [state |-> "absent", deleted |-> FALSE, draftOf |-> NoRecord,
           data |-> Blank, status |-> Status(Blank)]

\* Bug: requires_draft is ignored.
Bug_CreatedActive(body) ==
  [state |-> "active", deleted |-> FALSE, draftOf |-> NoRecord,
   data |-> Merge(Blank, body), status |-> Status(Merge(Blank, body))]

Created(body) ==
  LET data == Merge(Blank, body) IN
  [state |-> IF RequiresDraft THEN "draft" ELSE "active", deleted |-> FALSE,
   draftOf |-> NoRecord, data |-> data, status |-> Status(data)]

DraftCopy(master, r, body) ==
  LET data == Merge(master.data, body) IN
  [state |-> "draft", deleted |-> FALSE, draftOf |-> r, data |-> data,
   status |-> Status(data)]

\* Bug: only the submitted fields are validated.
Bug_ValidatesBody(cur, snap, body) ==
  [cur EXCEPT !.data = Merge(cur.data, body), !.status = Status(Merge(Blank, body))]

Edited(cur, snap, body) ==
  [cur EXCEPT !.data = Merge(cur.data, body),
              !.status = Status(Merge(snap.data, body))]

Deleted(cur) == [cur EXCEPT !.deleted = TRUE]

Reverted(cur, data) ==
  [cur EXCEPT !.data = data, !.deleted = FALSE, !.status = Status(data)]

Promoted(cur, snap) ==
  [cur EXCEPT !.state = "active", !.status = Status(snap.data)]

MergedInto(cur, data) == [cur EXCEPT !.data = data, !.status = Status(data)]

Retired(cur) == [cur EXCEPT !.state = "retired"]

-----------------------------------------------------------------------------
(* The history table: a handler closes at most one open row of the record  *)
(* (0 stands for none) and appends a snapshot under the next version.       *)

OpenRows(h) == {i \in 1..Len(h) : h[i].open}

\* SELECT ... WHERE _valid_to IS NULL ... .first(): any open row, or none.
FirstOpen(h) == IF OpenRows(h) = {} THEN {0} ELSE OpenRows(h)

\* SELECT ... ORDER BY _version DESC LIMIT 1.
LatestRow(h) == {i \in 1..Len(h) : \A j \in 1..Len(h) : h[j].version <= h[i].version}

VersionAt(h, i) == IF i = 0 THEN 0 ELSE h[i].version

\* Bug: the current version is not closed.
Bug_KeepsOpen(h, i) == h

CloseRow(h, i) ==
  [j \in 1..Len(h) |-> IF j = i THEN [h[j] EXCEPT !.open = FALSE] ELSE h[j]]

\* Bugs: the DELETE row is written open; RETIRE is taken for an end of life,
\* too; the user is not passed on.
Bug_DeleteOpen(row, v, action, u) ==
  [version |-> v, open |-> TRUE, action |-> action,
   state |-> row.state, data |-> row.data, status |-> row.status, by |-> u]
Bug_RetireClosed(row, v, action, u) ==
  [version |-> v, open |-> action \notin {"DELETE", "RETIRE"}, action |-> action,
   state |-> row.state, data |-> row.data, status |-> row.status, by |-> u]
Bug_NoUser(row, v, action, u) ==
  [version |-> v, open |-> action # "DELETE", action |-> action,
   state |-> row.state, data |-> row.data, status |-> row.status, by |-> Null]

Snapshot(row, v, action, u) ==
  [version |-> v, open |-> action # "DELETE", action |-> action,
   state |-> row.state, data |-> row.data, status |-> row.status, by |-> u]

WriteHistory(h, close, v, row, action, u) ==
  Append(CloseRow(h, close), Snapshot(row, v, action, u))

\* Bug: an override is logged in place of the change.
Bug_OverrideOnly(log, action, u, status, overridable) ==
  Append(log, [action |-> IF overridable /\ status = "invalid"
                          THEN "VALIDATION_OVERRIDE" ELSE action, by |-> u])

\* log_change, and the second entry a confirmed override adds.
LogChange(log, action, u, status, overridable) ==
  log \o <<[action |-> action, by |-> u]>>
      \o (IF overridable /\ status = "invalid"
          THEN <<[action |-> "VALIDATION_OVERRIDE", by |-> u]>> ELSE <<>>)

-----------------------------------------------------------------------------
\* The bound of the model: no change is made once MaxChanges are written.
Written == UNION {{r} \X (1..Len(history[r])) : r \in RecordId}
HasRoom == Cardinality(Written) < MaxChanges
=============================================================================
