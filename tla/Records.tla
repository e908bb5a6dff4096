------------------------------ MODULE Records ------------------------------
(***************************************************************************)
(* The record API of app/api/objects.py when requests do not overlap: one  *)
(* action is one request, from its first SELECT to its commit.             *)
(*                                                                         *)
(* A request the handler rejects (404, 403, 422) changes nothing and is no *)
(* step. require_change_reason and confirm_validation_override only reject *)
(* requests that the same user can repeat with a reason or a confirmation, *)
(* so they restrict no step either; what a confirmed override leaves       *)
(* behind is in LogChange.                                                 *)
(***************************************************************************)
EXTENDS RecordProperties

\* One statement group shared by the handlers: the record's new version, its
\* history (close row i of the record, append version v), its audit entry
\* and the event given to BackgroundTasks after the commit.
Save(t, r, row, i, v, action, logged, overridable, u, sent) ==
  /\ HasRoom
  /\ Accepts(t, r, row)
  /\ rows' = [t EXCEPT ![r] = row]
  /\ history' = [history EXCEPT ![r] = WriteHistory(@, i, v, row, action, u)]
  /\ audit' = [audit EXCEPT ![r] = LogChange(@, logged, u, row.status, overridable)]
  /\ events' = [events EXCEPT ![r] = @ \o sent]

\* The next version of a record that exists: what follows its open history row.
SaveNext(t, r, row, action, overridable, u, sent) ==
  \E i \in FirstOpen(history[r]) :
    Save(t, r, row, i, VersionAt(history[r], i) + 1, action, action, overridable, u, sent)

Init ==
  /\ rows = [r \in RecordId |-> Absent]
  /\ history = [r \in RecordId |-> <<>>]
  /\ audit = [r \in RecordId |-> <<>>]
  /\ events = [r \in RecordId |-> <<>>]

\* POST /records
CreateRecord(r, body, u) ==
  /\ u \in Writer
  /\ ~Stored(r)
  /\ Save(rows, r, Created(body), 0, 1, "INSERT", "INSERT", TRUE, u,
          IF RequiresDraft THEN <<>> ELSE <<"record.created">>)

\* Bugs: PUT does not look for a draft; PUT copies drafts as well.
Bug_AlwaysCopies(r, d, body, u) ==
  /\ u \in Writer /\ Golden(r) /\ ~Stored(d)
  /\ Save(rows, d, DraftCopy(rows[r], r, body), 0, 1, "INSERT", "DRAFT_CREATED", TRUE, u, <<>>)
Bug_CopiesDrafts(r, d, body, u) ==
  /\ u \in Writer /\ Live(r) /\ DraftsOf(r) = {} /\ ~Stored(d)
  /\ Save(rows, d, DraftCopy(rows[r], r, body), 0, 1, "INSERT", "DRAFT_CREATED", TRUE, u, <<>>)

\* PUT on an active record without a draft: the edit goes into a copy.
StartDraft(r, d, body, u) ==
  /\ u \in Writer
  /\ Golden(r)
  /\ DraftsOf(r) = {}
  /\ ~Stored(d)
  /\ Save(rows, d, DraftCopy(rows[r], r, body), 0, 1, "INSERT", "DRAFT_CREATED", TRUE, u, <<>>)

\* PUT on an active record that has a draft: the edit goes into that draft.
AmendDraft(r, body, u) ==
  /\ u \in Writer
  /\ Golden(r)
  /\ \E d \in DraftsOf(r) :
       SaveNext(rows, d, Edited(rows[d], rows[d], body), "UPDATE", TRUE, u, <<>>)

\* Bug: active records are written in place.
Bug_EditsActive(r, body, u) ==
  /\ u \in Writer /\ Live(r) /\ (rows[r].state # "draft" => u \in Publisher)
  /\ SaveNext(rows, r, Edited(rows[r], rows[r], body), "UPDATE", TRUE, u, <<>>)

\* PUT on a draft or a retired record.
EditInPlace(r, body, u) ==
  /\ u \in Writer
  /\ Live(r)
  /\ rows[r].state # "active"
  /\ rows[r].state = "retired" => u \in Publisher
  /\ SaveNext(rows, r, Edited(rows[r], rows[r], body), "UPDATE", TRUE, u, <<>>)

\* DELETE, in any state.
DeleteRecord(r, u) ==
  /\ u \in Writer
  /\ Live(r)
  /\ SaveNext(rows, r, Deleted(rows[r]), "DELETE", FALSE, u, <<>>)

\* Bug: a revert needs write access only.
Bug_EditorReverts(r, target, u) ==
  /\ u \in Writer /\ Stored(r) /\ target \in 1..Len(history[r])
  /\ \E latest \in LatestRow(history[r]), i \in FirstOpen(history[r]) :
       Save(rows, r, Reverted(rows[r], history[r][target].data), i,
            history[r][latest].version + 1, "REVERT", "REVERT", FALSE, u, <<>>)

\* POST .../revert/{version}, of deleted records too.
RevertRecord(r, target, u) ==
  /\ u \in Writer
  /\ Stored(r)
  /\ target \in 1..Len(history[r])
  /\ rows[r].state \in {"active", "retired"} => u \in Publisher
  /\ \E latest \in LatestRow(history[r]), i \in FirstOpen(history[r]) :
       Save(rows, r, Reverted(rows[r], history[r][target].data), i,
            history[r][latest].version + 1, "REVERT", "REVERT", FALSE, u, <<>>)

\* POST .../publish of a draft with no master: it becomes the golden record.
PublishNewRecord(d, u) ==
  /\ u \in Publisher
  /\ Draft(d)
  /\ rows[d].draftOf = NoRecord
  /\ SaveNext(rows, d, Promoted(rows[d], rows[d]), "PUBLISH", FALSE, u, <<"record.created">>)

\* Bug: the master is announced again.
Bug_AnnouncesAgain(d, u) ==
  /\ u \in Publisher /\ Draft(d) /\ rows[d].draftOf # NoRecord /\ Golden(rows[d].draftOf)
  /\ SaveNext([rows EXCEPT ![d] = Deleted(@)], rows[d].draftOf,
              MergedInto(rows[rows[d].draftOf], rows[d].data),
              "PUBLISH", FALSE, u, <<"record.created">>)

\* POST .../publish of an edit: the master takes the draft's data and the
\* draft is deleted, with no history or audit entry of its own.
PublishEdit(d, u) ==
  LET master == rows[d].draftOf IN
  /\ u \in Publisher
  /\ Draft(d)
  /\ master # NoRecord
  /\ Golden(master)
  /\ SaveNext([rows EXCEPT ![d] = Deleted(@)], master, MergedInto(rows[master], rows[d].data),
              "PUBLISH", FALSE, u, <<"record.published">>)

\* Bug: drafts can be retired.
Bug_RetiresDrafts(r, u) ==
  /\ AllowRetire /\ u \in Publisher /\ Live(r)
  /\ SaveNext(rows, r, Retired(rows[r]), "RETIRE", FALSE, u, <<"record.retired">>)

\* POST .../retire
RetireRecord(r, u) ==
  /\ AllowRetire
  /\ u \in Publisher
  /\ Golden(r)
  /\ SaveNext(rows, r, Retired(rows[r]), "RETIRE", FALSE, u, <<"record.retired">>)

Next ==
  \E r \in RecordId, u \in Writer :
    \/ \E body \in Body : CreateRecord(r, body, u)
    \/ \E body \in Body, d \in RecordId : StartDraft(r, d, body, u)
    \/ \E body \in Body : AmendDraft(r, body, u)
    \/ \E body \in Body : EditInPlace(r, body, u)
    \/ DeleteRecord(r, u)
    \/ \E target \in 1..MaxChanges : RevertRecord(r, target, u)
    \/ PublishNewRecord(r, u)
    \/ PublishEdit(r, u)
    \/ RetireRecord(r, u)

Spec == Init /\ [][Next]_store
=============================================================================
