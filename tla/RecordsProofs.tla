--------------------------- MODULE RecordsProofs ---------------------------
(***************************************************************************)
(* Proofs about Records, for any number of records, users, columns and     *)
(* values, any rules and either setting of requires_draft.                 *)
(***************************************************************************)
EXTENDS Records, RecordStoreProofs

-----------------------------------------------------------------------------
(* The inductive invariant. The properties support each other: the version  *)
(* number is right because a live record's newest version is open, which     *)
(* HistoryTellsTheRecord says, and that one needs the numbering to know the   *)
(* newest version. AbsentIsBlank starts every record from nothing.            *)
(* SecondDraftWasReverted counts drafts, and is inductive only as a statement *)
(* about any two of them. EventsFollowLifecycle comes after the rest: it needs *)
(* ImportedIsMaster, since a record imported golden is never announced and so  *)
(* must not be published later.                                                *)

AbsentIsBlank ==
  \A r \in RecordId : ~Stored(r) => rows[r] = Absent /\ history[r] = <<>>

ImportedIsMaster ==
  \A r \in RecordId : Imported(r) => rows[r].state \in {"active", "retired"}

WasReverted(d) == \E i \in 1..Len(history[d]) : history[d][i].action = "REVERT"

RivalDraftWasReverted ==
  \A r \in RecordId : \A d, e \in DraftsOf(r) : d # e => WasReverted(d) \/ WasReverted(e)

IInv ==
  /\ TypeOK
  /\ AbsentIsBlank
  /\ HistoryWellFormed
  /\ HistoryTellsTheRecord
  /\ DraftsPointAtMasters
  /\ StatusFresh
  /\ OneGoldenPerKey
  /\ GoldenWasPublished
  /\ AuditFollowsHistory
  /\ ImportedIsMaster
  /\ RivalDraftWasReverted

\* The open version of a live record is its newest one, and a new record has
\* none.
LEMMA OpenIsNewest ==
  ASSUME IInv, NEW r \in RecordId
  PROVE  /\ history[r] \in Seq(Version)
         /\ FirstOpen(history[r]) \subseteq {0, Len(history[r])}
         /\ Live(r) => FirstOpen(history[r]) = {Len(history[r])} /\ Len(history[r]) > 0
         /\ ~Stored(r) => FirstOpen(history[r]) = {0} /\ Len(history[r]) = 0
         /\ Len(history[r]) > 0 => VersionAt(history[r], Len(history[r])) = Len(history[r])
<1> DEFINE h == history[r]
<1>1. h \in Seq(Version) /\ Len(h) \in Nat
  BY DEF IInv, TypeOK
<1>2. \A i \in 1..Len(h) : h[i].version = i /\ (h[i].open => i = Len(h))
  BY DEF IInv, HistoryWellFormed
<1>3. OpenRows(h) \subseteq {Len(h)}
  BY <1>2 DEF OpenRows
<1>4. FirstOpen(h) \subseteq {0, Len(h)}
  BY <1>3 DEF FirstOpen
<1>5. ASSUME Live(r) PROVE FirstOpen(h) = {Len(h)} /\ Len(h) > 0
  <2>1. Stored(r) /\ h # <<>> /\ h[Len(h)].open
    BY <1>5 DEF IInv, HistoryTellsTheRecord, Live
  <2>2. Len(h) > 0
    BY <1>1, <2>1
  <2>3. OpenRows(h) = {Len(h)}
    BY <1>1, <1>3, <2>1, <2>2 DEF OpenRows
  <2> QED
    BY <2>2, <2>3 DEF FirstOpen
<1>6. ASSUME ~Stored(r) PROVE FirstOpen(h) = {0} /\ Len(h) = 0
  <2>1. h = <<>>
    BY <1>6 DEF IInv, AbsentIsBlank
  <2> QED
    BY <2>1 DEF FirstOpen, OpenRows
<1>7. Len(h) > 0 => VersionAt(h, Len(h)) = Len(h)
  BY <1>1, <1>2 DEF VersionAt
<1> QED
  BY <1>1, <1>4, <1>5, <1>6, <1>7

\* The latest version by number is the newest one.
LEMMA LatestIsNewest ==
  ASSUME IInv, NEW r \in RecordId, NEW i \in LatestRow(history[r])
  PROVE  history[r][i].version = Len(history[r])
<1>1. history[r] \in Seq(Version) /\ Len(history[r]) \in Nat
  BY DEF IInv, TypeOK
<1>2. i \in 1..Len(history[r])
  BY DEF LatestRow
<1>3. Len(history[r]) \in 1..Len(history[r])
  BY <1>1, <1>2
<1>4. history[r][Len(history[r])].version <= history[r][i].version
  BY <1>3 DEF LatestRow
<1>5. \A j \in 1..Len(history[r]) : history[r][j].version = j
  BY DEF IInv, HistoryWellFormed
<1> QED
  BY <1>1, <1>2, <1>3, <1>4, <1>5

-----------------------------------------------------------------------------
(* What every request has in common: it appends one version, numbered on,    *)
(* logs it, announces what the version means for the golden record, and, when *)
(* it publishes an edit, deletes the draft besides.                            *)

EditsOf(r) == {d \in RecordId \ {r} : rows[d].state = "draft" /\ rows[d].draftOf = r}

\* The first version of an edit draft is logged as DRAFT_CREATED.
Logged(row, action) ==
  IF action = "INSERT" /\ row.draftOf # NoRecord THEN "DRAFT_CREATED" ELSE action

ChangeStep(r, row, action, u) ==
  \E t, i, overridable :
    /\ Save(t, r, row, i, Len(history[r]) + 1, action, Logged(row, action), overridable, u,
            EventOf(rows[r].state, row.state, action))
    /\ t = rows \/ \E d \in EditsOf(r) : t = [rows EXCEPT ![d] = Deleted(@)]
    /\ i \in FirstOpen(history[r])

\* The values of the histories of a record and its drafts: what the promise
\* calls submitted.
SubmittedFor(r) ==
  {d \in Data : \E x \in RecordId :
     Owner(x) = r /\ \E i \in 1..Len(history[x]) : history[x][i].data = d}

\* What a request may do to the record it writes.
Legal(r, row, action, u) ==
  /\ row \in Row /\ row.state # "absent" /\ action \in ChangeAction /\ u \in Actor
  /\ row.status = Status(row.data)
  /\ row.deleted = IF action = "DELETE" THEN TRUE ELSE FALSE
  /\ \/ row.state = rows[r].state
     \/ rows[r].state = "absent" /\ row.state = "draft"
     \/ rows[r].state = "absent" /\ row.state = "active" /\ ~RequiresDraft
     \/ /\ rows[r].state = "draft" /\ row.state = "active" /\ rows[r].draftOf = NoRecord
        /\ action = "PUBLISH" /\ u \in Publisher
     \/ rows[r].state = "active" /\ row.state = "retired"
  /\ \/ row.draftOf = rows[r].draftOf
     \/ /\ rows[r].state = "absent" /\ row.state = "draft"
        /\ row.draftOf \in RecordId /\ Golden(row.draftOf) /\ DraftsOf(row.draftOf) = {}
  /\ Stored(r) /\ ~Live(r) => action = "REVERT"
  /\ rows[r].state \in {"active", "retired"} /\ row.data # rows[r].data => u \in Publisher
  /\ Golden(r) /\ ~Indexed(row) => row.data = rows[r].data
  /\ Stored(r) /\ Indexed(row) => row.data \in SubmittedFor(r)

\* The data of a stored record is among what was submitted for its owner.
LEMMA CurrentWasSubmitted ==
  ASSUME IInv, NEW x \in RecordId, Stored(x)
  PROVE  rows[x].data \in SubmittedFor(Owner(x))
<1>1. rows[x] \in Row /\ history[x] \in Seq(Version)
  BY DEF IInv, TypeOK
<1>2. history[x] # <<>> /\ history[x][Len(history[x])].data = rows[x].data
  BY DEF IInv, HistoryTellsTheRecord
<1>3. Len(history[x]) \in 1..Len(history[x])
  BY <1>1, <1>2
<1>4. rows[x].data \in Data
  BY <1>1 DEF Row
<1> QED
  BY <1>2, <1>3, <1>4 DEF SubmittedFor

\* Active and retired records are their own owners.
LEMMA OwnsItself ==
  ASSUME IInv, NEW r \in RecordId, rows[r].state # "draft"
  PROVE  Owner(r) = r
BY DEF IInv, DraftsPointAtMasters, Owner

LegalStep ==
  \E r \in RecordId : \E row, action, u :
    ChangeStep(r, row, action, u) /\ Legal(r, row, action, u)

\* SaveNext on a live record is such a step.
LEMMA SaveNextIsChange ==
  ASSUME IInv, NEW t, NEW r \in RecordId, NEW row, NEW action, action # "INSERT",
         NEW overridable, NEW u,
         Live(r),
         SaveNext(t, r, row, action, overridable, u, EventOf(rows[r].state, row.state, action)),
         t = rows \/ \E d \in EditsOf(r) : t = [rows EXCEPT ![d] = Deleted(@)]
  PROVE  ChangeStep(r, row, action, u)
<1>1. PICK i \in FirstOpen(history[r]) :
        Save(t, r, row, i, VersionAt(history[r], i) + 1, action, action, overridable, u,
             EventOf(rows[r].state, row.state, action))
  BY DEF SaveNext
<1>2. VersionAt(history[r], i) = Len(history[r])
  BY OpenIsNewest
<1>3. Logged(row, action) = action
  BY DEF Logged
<1> QED
  BY <1>1, <1>2, <1>3 DEF ChangeStep

\* Every request is a legal step: the guards of the handlers, put together.
LEMMA NextIsLegal ==
  ASSUME IInv, Next
  PROVE  LegalStep
<1>0. PICK r \in RecordId, u \in Writer :
        \/ \E body \in Body : CreateRecord(r, body, u)
        \/ \E body \in Body, d \in RecordId : StartDraft(r, d, body, u)
        \/ \E body \in Body : AmendDraft(r, body, u)
        \/ \E body \in Body : EditInPlace(r, body, u)
        \/ DeleteRecord(r, u)
        \/ \E target \in 1..MaxChanges : RevertRecord(r, target, u)
        \/ PublishNewRecord(r, u)
        \/ PublishEdit(r, u)
        \/ RetireRecord(r, u)
  BY DEF Next
<1> USE DEF TypeOK, Actor
<1>t. /\ \A x \in RecordId : rows[x] \in Row /\ history[x] \in Seq(Version)
      /\ \A x \in RecordId : rows[x].status = Status(rows[x].data)
  BY DEF IInv, StatusFresh
<1>1. CASE \E body \in Body : CreateRecord(r, body, u)
  <2>1. PICK body \in Body : CreateRecord(r, body, u)
    BY <1>1
  <2>2. /\ rows[r].state = "absent" /\ rows[r].draftOf = NoRecord
        /\ Len(history[r]) = 0 /\ FirstOpen(history[r]) = {0}
    BY <2>1, OpenIsNewest DEF CreateRecord, Stored, IInv, AbsentIsBlank, Absent
  <2>s. /\ Logged(Created(body), "INSERT") = "INSERT"
        /\ EventOf(rows[r].state, Created(body).state, "INSERT")
             = IF RequiresDraft THEN <<>> ELSE <<"record.created">>
    BY <2>2, CreatedType DEF Logged, EventOf
  <2>v. Len(history[r]) + 1 = 1
    BY <2>2
  <2>w. Save(rows, r, Created(body), 0, Len(history[r]) + 1, "INSERT",
             Logged(Created(body), "INSERT"), TRUE, u,
             EventOf(rows[r].state, Created(body).state, "INSERT"))
    BY <2>1, <2>s, <2>v DEF CreateRecord
  <2>3. ChangeStep(r, Created(body), "INSERT", u)
    BY <2>2, <2>w DEF ChangeStep
  <2>4. Legal(r, Created(body), "INSERT", u)
    BY <2>2, CreatedType DEF Legal, ChangeAction, Golden, Live, Stored
  <2> QED
    BY <2>3, <2>4 DEF LegalStep
<1>2. CASE \E body \in Body, d \in RecordId : StartDraft(r, d, body, u)
  <2>1. PICK body \in Body, d \in RecordId : StartDraft(r, d, body, u)
    BY <1>2
  <2>2. /\ rows[d].state = "absent"
        /\ Len(history[d]) = 0 /\ FirstOpen(history[d]) = {0}
    BY <2>1, OpenIsNewest DEF StartDraft, Stored
  <2>v. Len(history[d]) + 1 = 1
    BY <2>2
  <2> DEFINE row == DraftCopy(rows[r], r, body)
  <2>3. /\ row \in Row /\ row.state = "draft" /\ row.draftOf = r
        /\ row.deleted = FALSE /\ row.status = Status(row.data)
    BY <1>t, DraftCopyType
  <2>4. /\ Save(rows, d, row, 0, 1, "INSERT", "DRAFT_CREATED", TRUE, u, <<>>)
        /\ Golden(r) /\ DraftsOf(r) = {}
    BY <2>1 DEF StartDraft
  <2> HIDE DEF row
  <2>5. /\ Logged(row, "INSERT") = "DRAFT_CREATED"
        /\ EventOf(rows[d].state, row.state, "INSERT") = <<>>
    BY <2>2, <2>3, NullsAssumption DEF Logged, EventOf
  <2>6. ChangeStep(d, row, "INSERT", u)
    BY <2>2, <2>v, <2>4, <2>5 DEF ChangeStep
  <2>7. ~Golden(d) /\ ~Stored(d)
    BY <2>2 DEF Golden, Live, Stored
  <2>8. Legal(d, row, "INSERT", u)
    BY <2>2, <2>3, <2>4, <2>7 DEF Legal, ChangeAction
  <2> QED
    BY <2>6, <2>8 DEF LegalStep
<1>3. CASE \E body \in Body : AmendDraft(r, body, u)
  <2>1. PICK body \in Body, d \in DraftsOf(r) :
          SaveNext(rows, d, Edited(rows[d], rows[d], body), "UPDATE", TRUE, u, <<>>)
    BY <1>3 DEF AmendDraft
  <2>2. d \in RecordId /\ Live(d) /\ rows[d].state = "draft" /\ rows[d].deleted = FALSE
    BY <1>t DEF DraftsOf, Draft, Live, Row
  <2>s. EventOf(rows[d].state, Edited(rows[d], rows[d], body).state, "UPDATE") = <<>>
    BY <1>t, <2>2, EditedType DEF EventOf
  <2>3. ChangeStep(d, Edited(rows[d], rows[d], body), "UPDATE", u)
    BY <2>1, <2>2, <2>s, SaveNextIsChange
  <2>4. Legal(d, Edited(rows[d], rows[d], body), "UPDATE", u)
    BY <1>t, <2>2, EditedType DEF Legal, ChangeAction, Golden, Indexed
  <2> QED
    BY <2>2, <2>3, <2>4 DEF LegalStep
<1>4. CASE \E body \in Body : EditInPlace(r, body, u)
  <2>1. PICK body \in Body : EditInPlace(r, body, u)
    BY <1>4
  <2>2. /\ Live(r) /\ rows[r].state \notin {"active", "absent"} /\ rows[r].deleted = FALSE
        /\ rows[r].state = "retired" => u \in Publisher
    BY <1>t, <2>1 DEF EditInPlace, Live, Stored, Row
  <2>s. EventOf(rows[r].state, Edited(rows[r], rows[r], body).state, "UPDATE") = <<>>
    BY <1>t, EditedType DEF EventOf
  <2>3. ChangeStep(r, Edited(rows[r], rows[r], body), "UPDATE", u)
    BY <2>1, <2>2, <2>s, SaveNextIsChange DEF EditInPlace
  <2>4. Legal(r, Edited(rows[r], rows[r], body), "UPDATE", u)
    BY <1>t, <2>2, EditedType DEF Legal, ChangeAction, Golden, Indexed
  <2> QED
    BY <2>3, <2>4 DEF LegalStep
<1>5. CASE DeleteRecord(r, u)
  <2>1. Live(r) /\ rows[r].state # "absent"
    BY <1>5 DEF DeleteRecord, Live, Stored
  <2>s. EventOf(rows[r].state, Deleted(rows[r]).state, "DELETE") = <<>>
    BY <1>t, DeletedType DEF EventOf
  <2>2. ChangeStep(r, Deleted(rows[r]), "DELETE", u)
    BY <1>5, <2>1, <2>s, SaveNextIsChange DEF DeleteRecord
  <2>3. Legal(r, Deleted(rows[r]), "DELETE", u)
    BY <1>t, <2>1, DeletedType DEF Legal, ChangeAction, Indexed
  <2> QED
    BY <2>2, <2>3 DEF LegalStep
<1>6. CASE \E target \in 1..MaxChanges : RevertRecord(r, target, u)
  <2>1. PICK target \in 1..MaxChanges : RevertRecord(r, target, u)
    BY <1>6
  <2> DEFINE was == history[r][target].data
  <2>2. target \in 1..Len(history[r]) /\ rows[r].state # "absent"
    BY <2>1 DEF RevertRecord, Stored
  <2>3. was \in Data
    <3>1. history[r][target] \in Version
      BY <1>t, <2>2
    <3> QED
      BY <3>1 DEF Version
  <2>4. PICK latest \in LatestRow(history[r]), i \in FirstOpen(history[r]) :
          Save(rows, r, Reverted(rows[r], was), i,
               history[r][latest].version + 1, "REVERT", "REVERT", FALSE, u, <<>>)
    BY <2>1 DEF RevertRecord
  <2>s. /\ Logged(Reverted(rows[r], was), "REVERT") = "REVERT"
        /\ EventOf(rows[r].state, Reverted(rows[r], was).state, "REVERT") = <<>>
    BY <1>t, <2>3, RevertedType DEF Logged, EventOf
  <2>5. ChangeStep(r, Reverted(rows[r], was), "REVERT", u)
    BY <2>4, <2>s, LatestIsNewest DEF ChangeStep
  <2>6. rows[r].state \in {"active", "retired"} => u \in Publisher
    BY <2>1 DEF RevertRecord
  <2>7. Legal(r, Reverted(rows[r], was), "REVERT", u)
    <3> HIDE DEF was
    <3>1. rows[r] \in Row
      BY <1>t
    <3>2. /\ Reverted(rows[r], was) \in Row /\ Reverted(rows[r], was).deleted = FALSE
          /\ Reverted(rows[r], was).state = rows[r].state
          /\ Reverted(rows[r], was).draftOf = rows[r].draftOf
          /\ Reverted(rows[r], was).data = was
          /\ Reverted(rows[r], was).status = Status(was)
      BY <2>3, <3>1, RevertedType
    <3>3. Indexed(Reverted(rows[r], was)) => Owner(r) = r
      BY <3>2, OwnsItself DEF Indexed
    <3>4. Indexed(Reverted(rows[r], was)) => was \in SubmittedFor(r)
      BY <2>2, <2>3, <3>3 DEF SubmittedFor, was
    <3>5. Golden(r) => Indexed(Reverted(rows[r], was))
      BY <3>2 DEF Golden, Indexed
    <3> QED
      BY <2>2, <2>6, <3>2, <3>4, <3>5 DEF Legal, ChangeAction
  <2> QED
    BY <2>5, <2>7 DEF LegalStep
<1>7. CASE PublishNewRecord(r, u)
  <2>1. /\ Live(r) /\ rows[r].state = "draft" /\ rows[r].deleted = FALSE
        /\ rows[r].draftOf = NoRecord /\ u \in Publisher
    BY <1>7, <1>t DEF PublishNewRecord, Draft, Live, Row
  <2>s. EventOf(rows[r].state, Promoted(rows[r], rows[r]).state, "PUBLISH") = <<"record.created">>
    BY <1>t, <2>1, PromotedType DEF EventOf
  <2>2. ChangeStep(r, Promoted(rows[r], rows[r]), "PUBLISH", u)
    BY <1>7, <2>1, <2>s, SaveNextIsChange DEF PublishNewRecord
  <2>3. Legal(r, Promoted(rows[r], rows[r]), "PUBLISH", u)
    <3> DEFINE row == Promoted(rows[r], rows[r])
    <3>1. /\ row \in Row /\ row.deleted = FALSE /\ row.state = "active"
          /\ row.draftOf = rows[r].draftOf /\ row.status = Status(row.data)
          /\ row.data = rows[r].data
      BY <1>t, <2>1, PromotedType
    <3>3. row.data \in SubmittedFor(r)
      BY <2>1, <3>1, CurrentWasSubmitted DEF Owner, Live
    <3> HIDE DEF row
    <3>2. Legal(r, row, "PUBLISH", u)
      BY <2>1, <3>1, <3>3 DEF Legal, ChangeAction
    <3> QED
      BY <3>2 DEF row
  <2> QED
    BY <2>2, <2>3 DEF LegalStep
<1>8. CASE PublishEdit(r, u)
  <2> DEFINE m == rows[r].draftOf
             t == [rows EXCEPT ![r] = Deleted(@)]
  <2>1. /\ rows[r].state = "draft" /\ m # NoRecord /\ Golden(m) /\ u \in Publisher
        /\ SaveNext(t, m, MergedInto(rows[m], rows[r].data), "PUBLISH", FALSE, u,
                    <<"record.published">>)
    BY <1>8 DEF PublishEdit, Draft
  <2>2. m \in RecordId
    BY <1>t, <2>1 DEF Row
  <2>3. Live(m) /\ rows[m].state = "active" /\ rows[m].deleted = FALSE
    BY <1>t, <2>1, <2>2 DEF Golden, Live, Row
  <2>4. r \in EditsOf(m)
    BY <2>1, <2>3 DEF EditsOf
  <2>5. "PUBLISH" \in ChangeAction
    BY DEF ChangeAction
  <2>7. rows[r].data \in Data
    BY <1>t DEF Row
  <2>s. EventOf(rows[m].state, MergedInto(rows[m], rows[r].data).state, "PUBLISH")
          = <<"record.published">>
    BY <1>t, <2>2, <2>3, <2>7, MergedIntoType DEF EventOf
  <2>6. ChangeStep(m, MergedInto(rows[m], rows[r].data), "PUBLISH", u)
    BY <2>1, <2>2, <2>3, <2>4, <2>s, SaveNextIsChange
  <2>8. Legal(m, MergedInto(rows[m], rows[r].data), "PUBLISH", u)
    <3> DEFINE row == MergedInto(rows[m], rows[r].data)
    <3>1. /\ row \in Row /\ row.deleted = FALSE /\ row.state = "active"
          /\ row.draftOf = rows[m].draftOf /\ row.status = Status(row.data)
          /\ row.data = rows[r].data
      BY <1>t, <2>2, <2>3, <2>7, MergedIntoType
    <3>3. row.data \in SubmittedFor(m)
      BY <2>1, <3>1, CurrentWasSubmitted DEF Owner, Stored
    <3>4. Indexed(row)
      BY <3>1 DEF Indexed
    <3> HIDE DEF row
    <3>2. Legal(m, row, "PUBLISH", u)
      BY <2>1, <2>2, <2>3, <2>5, <3>1, <3>3, <3>4 DEF Legal
    <3> QED
      BY <3>2 DEF row
  <2> QED
    BY <2>2, <2>6, <2>8 DEF LegalStep
<1>9. CASE RetireRecord(r, u)
  <2>1. Live(r) /\ rows[r].state = "active" /\ rows[r].deleted = FALSE
    BY <1>9, <1>t DEF RetireRecord, Golden, Live, Row
  <2>s. EventOf(rows[r].state, Retired(rows[r]).state, "RETIRE") = <<"record.retired">>
    BY <1>t, <2>1, RetiredType DEF EventOf
  <2>2. ChangeStep(r, Retired(rows[r]), "RETIRE", u)
    BY <1>9, <2>1, <2>s, SaveNextIsChange DEF RetireRecord
  <2>3. Legal(r, Retired(rows[r]), "RETIRE", u)
    BY <1>t, <2>1, RetiredType DEF Legal, ChangeAction, Indexed
  <2> QED
    BY <2>2, <2>3 DEF LegalStep
<1> QED
  BY <1>0, <1>1, <1>2, <1>3, <1>4, <1>5, <1>6, <1>7, <1>8, <1>9

-----------------------------------------------------------------------------
(* What a legal step leaves behind *)

RowsEffect(r, row) ==
  /\ rows' \in [RecordId -> Row]
  /\ rows'[r] = row
  /\ \A x \in RecordId \ {r} :
       rows'[x] = rows[x] \/ (x \in EditsOf(r) /\ rows'[x] = Deleted(rows[x]))
  /\ Indexed(row) => \A o \in RecordId \ {r} : Indexed(rows'[o]) => ~SameKey(rows'[o], row)

HistoryEffect(r, row, action, u) ==
  LET h == history[r]  g == history'[r] IN
  /\ history' \in [RecordId -> Seq(Version)]
  /\ \A x \in RecordId \ {r} : history'[x] = history[x]
  /\ Len(g) = Len(h) + 1
  /\ g[Len(h) + 1] = Snapshot(row, Len(h) + 1, action, u)
  /\ \A j \in 1..Len(h) :
       /\ g[j].version = j /\ ~g[j].open
       /\ g[j].action = h[j].action /\ g[j].by = h[j].by
       /\ g[j].state = h[j].state /\ g[j].data = h[j].data

LogEffect(r, row) ==
  /\ audit' \in [RecordId -> Seq(AuditEntry)]
  /\ \A x \in RecordId \ {r} : audit'[x] = audit[x]
  /\ Repeats(audit'[r], history'[r], row.draftOf # NoRecord)

EventEffect(r, row, action) ==
  events' = [events EXCEPT ![r] = events[r] \o EventOf(rows[r].state, row.state, action)]

LEMMA ChangeEffect ==
  ASSUME IInv, NEW r \in RecordId, NEW row, NEW action, NEW u,
         ChangeStep(r, row, action, u), Legal(r, row, action, u)
  PROVE  /\ RowsEffect(r, row)
         /\ HistoryEffect(r, row, action, u)
         /\ LogEffect(r, row)
         /\ EventEffect(r, row, action)
<1>1. PICK t, i, overridable :
        /\ Save(t, r, row, i, Len(history[r]) + 1, action, Logged(row, action), overridable, u,
                EventOf(rows[r].state, row.state, action))
        /\ t = rows \/ \E d \in EditsOf(r) : t = [rows EXCEPT ![d] = Deleted(@)]
        /\ i \in FirstOpen(history[r])
  BY DEF ChangeStep
<1>2. /\ rows \in [RecordId -> Row]
      /\ history \in [RecordId -> Seq(Version)]
      /\ audit \in [RecordId -> Seq(AuditEntry)]
      /\ events \in [RecordId -> Seq(Event)]
  BY DEF IInv, TypeOK
<1>3. row \in Row /\ action \in ChangeAction /\ u \in Actor
  BY DEF Legal
<1>4. /\ t \in [RecordId -> Row]
      /\ \A x \in RecordId \ {r} :
           t[x] = rows[x] \/ (x \in EditsOf(r) /\ t[x] = Deleted(rows[x]))
  <2>1. \A d \in RecordId : Deleted(rows[d]) \in Row
    BY <1>2, DeletedType
  <2>2. EditsOf(r) \subseteq RecordId
    BY DEF EditsOf
  <2> QED
    BY <1>1, <1>2, <2>1, <2>2
<1>5. rows' = [t EXCEPT ![r] = row] /\ Accepts(t, r, row)
  BY <1>1 DEF Save
<1>6. RowsEffect(r, row)
  <2>1. rows' \in [RecordId -> Row] /\ rows'[r] = row
    BY <1>3, <1>4, <1>5
  <2>2. \A x \in RecordId \ {r} : rows'[x] = t[x]
    BY <1>4, <1>5
  <2>3. Indexed(row) => \A o \in RecordId \ {r} : Indexed(t[o]) => ~SameKey(t[o], row)
    BY <1>5 DEF Accepts
  <2> QED
    BY <1>4, <2>1, <2>2, <2>3 DEF RowsEffect
<1>7. HistoryEffect(r, row, action, u)
  <2> DEFINE h == history[r]
             g == WriteHistory(h, i, Len(h) + 1, row, action, u)
  <2>1. history' = [history EXCEPT ![r] = g]
    BY <1>1, <1>2 DEF Save
  <2>2. h \in Seq(Version) /\ Len(h) \in Nat
    BY <1>2
  <2>3. i \in {0, Len(h)} /\ i \in 0..Len(h)
    BY <1>1, <2>2, OpenIsNewest
  <2>4. \A j \in 1..Len(h) : h[j].version = j /\ (h[j].open => j = Len(h))
    BY DEF IInv, HistoryWellFormed
  <2>5. \A j \in 1..Len(h) : h[j].open => j = i
    BY <1>1, <2>2, <2>3, <2>4 DEF FirstOpen, OpenRows
  <2>6. /\ g \in Seq(Version)
        /\ Len(g) = Len(h) + 1
        /\ g[Len(h) + 1] = Snapshot(row, Len(h) + 1, action, u)
        /\ \A j \in 1..Len(h) :
             /\ g[j].version = h[j].version /\ g[j].action = h[j].action
             /\ g[j].by = h[j].by /\ g[j].state = h[j].state /\ g[j].data = h[j].data
             /\ g[j].open = (h[j].open /\ j # i)
    BY <1>3, <2>2, <2>3, WriteHistoryShape
  <2>7. history'[r] = g /\ history' \in [RecordId -> Seq(Version)]
        /\ \A x \in RecordId \ {r} : history'[x] = history[x]
    BY <1>2, <2>1, <2>6
  <2> HIDE DEF g
  <2> QED
    BY <2>4, <2>5, <2>6, <2>7 DEF HistoryEffect
<1>8. LogEffect(r, row)
  <2> DEFINE logged == Logged(row, action)
             g == WriteHistory(history[r], i, Len(history[r]) + 1, row, action, u)
             new == LogChange(audit[r], logged, u, row.status, overridable)
             was == rows[r].draftOf # NoRecord
             copy == row.draftOf # NoRecord
  <2>1. /\ audit' = [audit EXCEPT ![r] = new]
        /\ history' = [history EXCEPT ![r] = g]
    BY <1>1, <1>2 DEF Save
  <2>2. logged \in AuditAction
    BY <1>3 DEF Logged, AuditAction
  <2>3. new \in Seq(AuditEntry)
    BY <1>2, <1>3, <2>2, LogChangeType
  <2>4. /\ history[r] \in Seq(Version) /\ audit[r] \in Seq(AuditEntry)
        /\ i \in 0..Len(history[r]) /\ Len(history[r]) + 1 \in Nat
    BY <1>1, <1>2, OpenIsNewest
  <2>5. Repeats(audit[r], history[r], was)
    BY DEF IInv, AuditFollowsHistory
  <2>6. was = copy \/ history[r] = <<>>
    BY DEF Legal, IInv, AbsentIsBlank, Stored
  <2>7. logged = IF action = "INSERT" /\ copy THEN "DRAFT_CREATED" ELSE action
    BY DEF Logged
  <2> HIDE DEF logged, was, copy
  <2>8. Repeats(new, g, copy)
    BY <1>3, <2>4, <2>5, <2>6, <2>7, RepeatsStep
  <2> HIDE DEF new, g
  <2>9. /\ audit' \in [RecordId -> Seq(AuditEntry)] /\ audit'[r] = new /\ history'[r] = g
        /\ \A x \in RecordId \ {r} : audit'[x] = audit[x]
    BY <1>2, <2>1, <2>3
  <2> QED
    BY <2>8, <2>9 DEF LogEffect, copy
<1>9. EventEffect(r, row, action)
  BY <1>1, <1>2 DEF Save, EventEffect
<1> QED
  BY <1>6, <1>7, <1>8, <1>9

\* No request makes a stored record an imported one, or the reverse.
LEMMA ImportedStays ==
  ASSUME IInv, NEW r \in RecordId, NEW row, NEW action, NEW u,
         ChangeStep(r, row, action, u), Legal(r, row, action, u),
         NEW x \in RecordId
  PROVE  Imported(x)' = Imported(x)
<1> DEFINE h == history[r]
           g == history'[r]
<1>1. HistoryEffect(r, row, action, u) /\ Len(h) \in Nat
  BY ChangeEffect DEF IInv, TypeOK
<1>2. CASE x # r
  BY <1>1, <1>2 DEF HistoryEffect, Imported
<1>3. CASE x = r /\ h # <<>>
  <2>1. h \in Seq(Version) /\ g \in Seq(Version)
    BY <1>1 DEF HistoryEffect, IInv, TypeOK
  <2>2. 1 \in 1..Len(h) /\ g # <<>> /\ g[1].state = h[1].state
    BY <1>1, <1>3, <2>1 DEF HistoryEffect
  <2> QED
    BY <1>3, <2>2 DEF Imported
<1>4. CASE x = r /\ h = <<>>
  <2>1. rows[r].state = "absent"
    BY <1>4 DEF IInv, HistoryTellsTheRecord, Stored
  <2>2. g[1] = Snapshot(row, Len(h) + 1, action, u)
    BY <1>1, <1>4 DEF HistoryEffect
  <2>3. g[1].state = row.state
    BY <2>2 DEF Snapshot
  <2>4. ~(RequiresDraft /\ row.state = "active")
    BY <2>1 DEF Legal
  <2> QED
    BY <1>4, <2>3, <2>4 DEF Imported
<1> QED
  BY <1>2, <1>3, <1>4

-----------------------------------------------------------------------------
(* A legal step preserves each conjunct of the invariant *)

LEMMA LegalStepPreserves ==
  ASSUME IInv, LegalStep
  PROVE  IInv'
<1>r. PICK r \in RecordId :
        \E row, action, u : ChangeStep(r, row, action, u) /\ Legal(r, row, action, u)
  BY DEF LegalStep
<1>0. PICK row, action, u : ChangeStep(r, row, action, u) /\ Legal(r, row, action, u)
  BY <1>r
<1> DEFINE h == history[r]
           g == history'[r]
<1>1. /\ RowsEffect(r, row) /\ HistoryEffect(r, row, action, u)
      /\ LogEffect(r, row) /\ EventEffect(r, row, action)
  BY <1>0, ChangeEffect
<1>3. /\ rows \in [RecordId -> Row] /\ history \in [RecordId -> Seq(Version)]
      /\ Len(h) \in Nat /\ row \in Row
  BY <1>0 DEF IInv, TypeOK, Legal
<1>4. /\ rows'[r] = row
      /\ \A x \in RecordId \ {r} :
           \/ rows'[x] = rows[x]
           \/ /\ rows[x].state = "draft" /\ rows[x].draftOf = r
              /\ rows'[x].state = "draft" /\ rows'[x].draftOf = r
              /\ rows'[x].deleted = TRUE
              /\ rows'[x].data = rows[x].data /\ rows'[x].status = rows[x].status
  <2>1. \A x \in RecordId : rows[x] \in Row
    BY <1>3
  <2>2. rows'[r] = row
    BY <1>1 DEF RowsEffect
  <2>3. ASSUME NEW x \in RecordId \ {r}, rows'[x] # rows[x]
        PROVE  /\ rows[x].state = "draft" /\ rows[x].draftOf = r
               /\ rows'[x].state = "draft" /\ rows'[x].draftOf = r
               /\ rows'[x].deleted = TRUE
               /\ rows'[x].data = rows[x].data /\ rows'[x].status = rows[x].status
    <3>1. x \in EditsOf(r) /\ rows'[x] = Deleted(rows[x])
      BY <1>1, <2>3 DEF RowsEffect
    <3>2. rows[x].state = "draft" /\ rows[x].draftOf = r
      BY <3>1 DEF EditsOf
    <3>3. /\ Deleted(rows[x]).deleted = TRUE
          /\ Deleted(rows[x]).state = rows[x].state /\ Deleted(rows[x]).draftOf = rows[x].draftOf
          /\ Deleted(rows[x]).data = rows[x].data /\ Deleted(rows[x]).status = rows[x].status
      BY <2>1, DeletedType
    <3> QED
      BY <3>1, <3>2, <3>3
  <2> QED
    BY <2>2, <2>3
<1>5. \A x \in RecordId \ {r} :
        /\ rows'[x].state = rows[x].state /\ rows'[x].draftOf = rows[x].draftOf
        /\ rows'[x].data = rows[x].data /\ rows'[x].status = rows[x].status
        /\ history'[x] = history[x]
  BY <1>1, <1>4 DEF HistoryEffect
<1>6. /\ Len(g) = Len(h) + 1
      /\ g[Len(h) + 1] = Snapshot(row, Len(h) + 1, action, u)
      /\ \A j \in 1..Len(h) :
           /\ g[j].version = j /\ ~g[j].open
           /\ g[j].action = h[j].action /\ g[j].by = h[j].by /\ g[j].state = h[j].state
  BY <1>1 DEF HistoryEffect
<1>7. row.state \in {"draft", "active", "retired"}
  BY <1>0, <1>3 DEF Legal, Row, State
<1>8. \A x \in RecordId : rows[x].state = "absent" =>
        rows[x].draftOf = NoRecord /\ history[x] = <<>>
  BY DEF IInv, AbsentIsBlank, Stored, Absent
<1> HIDE DEF h, g
<1>9. AbsentIsBlank'
  <2> SUFFICES ASSUME NEW x \in RecordId, rows'[x].state = "absent"
               PROVE  rows'[x] = Absent /\ history'[x] = <<>>
    BY DEF AbsentIsBlank, Stored
  <2>1. x # r
    BY <1>4, <1>7
  <2>2. rows'[x] = rows[x]
    BY <1>4, <2>1
  <2> QED
    BY <1>5, <2>1, <2>2 DEF IInv, AbsentIsBlank, Stored
<1>10. HistoryWellFormed'
  <2> SUFFICES ASSUME NEW x \in RecordId, NEW i \in 1..Len(history'[x])
               PROVE  /\ history'[x][i].version = i
                      /\ history'[x][i].open => i = Len(history'[x])
    BY DEF HistoryWellFormed
  <2>1. CASE x # r
    BY <1>5, <2>1 DEF IInv, HistoryWellFormed
  <2>2. CASE x = r
    <3>1. i \in 1..Len(h) \/ i = Len(h) + 1
      BY <1>3, <1>6, <2>2 DEF g
    <3>2. g[Len(h) + 1].version = Len(h) + 1
      BY <1>6 DEF Snapshot
    <3> QED
      BY <1>3, <1>6, <2>2, <3>1, <3>2 DEF g
  <2> QED
    BY <2>1, <2>2
<1>11. HistoryTellsTheRecord'
  <2> SUFFICES ASSUME NEW x \in RecordId, rows'[x].state # "absent"
               PROVE  LET k == history'[x]  e == k[Len(k)] IN
                      /\ k # <<>>
                      /\ e.state = rows'[x].state /\ e.data = rows'[x].data
                      /\ e.status = rows'[x].status
                      /\ Live(x)' => e.open
                      /\ e.open /\ ~Live(x)' =>
                           rows'[x].state = "draft" /\ rows'[x].draftOf # NoRecord
    BY DEF HistoryTellsTheRecord, Stored
  <2>1. CASE x = r
    <3>1. g # <<>> /\ g[Len(g)] = Snapshot(row, Len(h) + 1, action, u)
      BY <1>3, <1>6
    <3>2. /\ g[Len(g)].state = row.state /\ g[Len(g)].data = row.data
          /\ g[Len(g)].status = row.status /\ g[Len(g)].open = (action # "DELETE")
      BY <3>1 DEF Snapshot
    <3>3. Live(x)' <=> action # "DELETE"
      BY <1>0, <1>4, <1>7, <2>1 DEF Live, Stored, Legal
    <3> QED
      BY <1>4, <2>1, <3>1, <3>2, <3>3 DEF g
  <2>2. CASE x # r
    <3> DEFINE e == history[x][Len(history[x])]
    <3>1. /\ history[x] # <<>>
          /\ e.state = rows[x].state /\ e.data = rows[x].data /\ e.status = rows[x].status
          /\ Live(x) => e.open
          /\ e.open /\ ~Live(x) => rows[x].state = "draft" /\ rows[x].draftOf # NoRecord
      BY <1>5, <2>2 DEF IInv, HistoryTellsTheRecord, Stored
    <3>2. CASE rows'[x] = rows[x]
      BY <1>5, <2>2, <3>1, <3>2 DEF Live, Stored
    <3>3. CASE rows'[x].deleted = TRUE /\ rows'[x].state = "draft" /\ rows'[x].draftOf = r
      <4>1. ~Live(x)' /\ r # NoRecord
        BY <3>3, NullsAssumption DEF Live
      <4> QED
        BY <1>5, <2>2, <3>1, <3>3, <4>1
    <3> QED
      BY <1>4, <2>2, <3>2, <3>3
  <2> QED
    BY <2>1, <2>2
<1>12. DraftsPointAtMasters'
  <2> SUFFICES ASSUME NEW d \in RecordId, rows'[d].draftOf # NoRecord
               PROVE  /\ rows'[d].state = "draft"
                      /\ rows'[rows'[d].draftOf].state \in {"active", "retired"}
    BY DEF DraftsPointAtMasters
  <2>1. \A x \in RecordId : rows[x].draftOf # NoRecord =>
          /\ rows[x].state = "draft" /\ rows[x].draftOf \in RecordId
          /\ rows[rows[x].draftOf].state \in {"active", "retired"}
    BY <1>3 DEF IInv, DraftsPointAtMasters, Row
  \* A master stays active or retired.
  <2>2. \A m \in RecordId : rows[m].state \in {"active", "retired"} =>
          rows'[m].state \in {"active", "retired"}
    BY <1>0, <1>4, <1>5 DEF Legal
  <2>3. CASE d # r
    BY <1>5, <2>1, <2>2, <2>3
  <2>4. CASE d = r /\ row.draftOf = rows[r].draftOf
    <3>1. rows[r].state = "draft" /\ rows[r].draftOf # NoRecord
      BY <1>4, <2>1, <2>4
    <3>2. row.state = "draft"
      BY <1>0, <3>1 DEF Legal
    <3> QED
      BY <1>4, <2>1, <2>2, <2>4, <3>1, <3>2
  <2>5. CASE d = r /\ row.state = "draft" /\ row.draftOf \in RecordId /\ Golden(row.draftOf)
    BY <1>4, <2>2, <2>5 DEF Golden
  <2> QED
    BY <1>0, <2>3, <2>4, <2>5 DEF Legal
<1>13. StatusFresh'
  <2> SUFFICES ASSUME NEW x \in RecordId
               PROVE  rows'[x].status = Status(rows'[x].data)
    BY DEF StatusFresh, Status
  <2>1. rows[x].status = Status(rows[x].data)
    BY DEF IInv, StatusFresh
  <2> QED
    BY <1>0, <1>4, <1>5, <2>1 DEF Legal
<1>14. OneGoldenPerKey'
  <2> SUFFICES ASSUME NEW x \in RecordId, NEW y \in RecordId, Golden(x)', Golden(y)', x # y
               PROVE  ~SameKey(rows'[x], rows'[y])
    BY DEF OneGoldenPerKey, SameKey
  <2>1. /\ rows'[x].state = "active" /\ ~rows'[x].deleted
        /\ rows'[y].state = "active" /\ ~rows'[y].deleted
    BY DEF Golden, Live
  <2>2. Indexed(rows'[x]) /\ Indexed(rows'[y])
    BY <2>1 DEF Indexed
  <2>3. CASE x = r
    <3>1. ~SameKey(rows'[y], rows'[x])
      BY <1>1, <1>4, <2>2, <2>3 DEF RowsEffect
    <3> QED
      BY <3>1 DEF SameKey
  <2>4. CASE y = r
    BY <1>1, <1>4, <2>2, <2>4 DEF RowsEffect
  <2>5. CASE x # r /\ y # r
    <3>1. rows'[x] = rows[x] /\ rows'[y] = rows[y]
      BY <1>4, <2>1, <2>5
    <3>2. Golden(x) /\ Golden(y)
      BY <2>1, <3>1 DEF Golden, Live, Stored
    <3> QED
      BY <3>1, <3>2 DEF IInv, OneGoldenPerKey
  <2> QED
    BY <2>3, <2>4, <2>5
<1>15. GoldenWasPublished'
  <2> SUFFICES ASSUME RequiresDraft, NEW x \in RecordId, rows'[x].state \in {"active", "retired"}
               PROVE  \E i \in 1..Len(history'[x]) :
                        /\ history'[x][i].by \in Publisher
                        /\ \/ i > 1 /\ history'[x][i].action = "PUBLISH"
                           \/ i = 1 /\ history'[x][i].state = "active"
    BY DEF GoldenWasPublished
  <2>1. CASE x # r
    BY <1>5, <2>1 DEF IInv, GoldenWasPublished
  <2>2. CASE x = r /\ rows[r].state \in {"active", "retired"}
    <3>1. PICK i \in 1..Len(h) :
            /\ h[i].by \in Publisher
            /\ \/ i > 1 /\ h[i].action = "PUBLISH"
               \/ i = 1 /\ h[i].state = "active"
      BY <2>2 DEF IInv, GoldenWasPublished, h
    <3>2. i \in 1..Len(g)
      BY <1>3, <1>6, <3>1
    <3>3. g[i].by = h[i].by /\ g[i].action = h[i].action /\ g[i].state = h[i].state
      BY <1>6, <3>1
    <3> QED
      BY <2>2, <3>1, <3>2, <3>3 DEF g
  <2>3. CASE x = r /\ rows[r].state \notin {"active", "retired"}
    <3>1. rows[r].state = "draft" /\ action = "PUBLISH" /\ u \in Publisher
      BY <1>0, <1>4, <2>3 DEF Legal
    <3>2. h # <<>>
      BY <3>1 DEF IInv, HistoryTellsTheRecord, Stored, h
    <3>3. h \in Seq(Version) /\ Len(h) + 1 \in 1..Len(g) /\ Len(h) + 1 > 1
      BY <1>3, <1>6, <3>2 DEF h
    <3>4. g[Len(h) + 1].action = action /\ g[Len(h) + 1].by = u
      BY <1>6 DEF Snapshot
    <3> QED
      BY <2>3, <3>1, <3>3, <3>4 DEF g
  <2> QED
    BY <2>1, <2>2, <2>3
<1>16. AuditFollowsHistory'
  <2> SUFFICES ASSUME NEW x \in RecordId
               PROVE  Repeats(audit'[x], history'[x], rows'[x].draftOf # NoRecord)
    BY DEF AuditFollowsHistory
  <2>1. CASE x = r
    BY <1>1, <1>4, <2>1 DEF LogEffect
  <2>2. CASE x # r
    <3>1. Repeats(audit[x], history[x], rows[x].draftOf # NoRecord)
      BY DEF IInv, AuditFollowsHistory
    <3>2. audit'[x] = audit[x] /\ history'[x] = history[x] /\ rows'[x].draftOf = rows[x].draftOf
      BY <1>1, <1>5, <2>2 DEF LogEffect
    <3> QED
      BY <3>1, <3>2
  <2> QED
    BY <2>1, <2>2
<1>17. \A x \in RecordId : Imported(x)' = Imported(x)
  BY <1>0, ImportedStays
<1>18. ImportedIsMaster'
  <2>1. \A x \in RecordId : rows[x].state \in {"active", "retired"} =>
          rows'[x].state \in {"active", "retired"}
    BY <1>0, <1>4, <1>5 DEF Legal
  <2> QED
    BY <1>17, <2>1 DEF IInv, ImportedIsMaster
<1>19. events' \in [RecordId -> Seq(Event)]
  <2>1. EventOf(rows[r].state, row.state, action) \in Seq(Event)
    BY EventOfType
  <2> QED
    BY <1>1, <2>1 DEF EventEffect, IInv, TypeOK
<1>20. RivalDraftWasReverted'
  \* Drafts are made, or brought back, by the step that writes them.
  <2>1. ASSUME NEW m \in RecordId, NEW x \in DraftsOf(m)', x \notin DraftsOf(m)
        PROVE  x = r /\ (DraftsOf(m) = {} \/ WasReverted(r)')
    <3>1. x \in RecordId /\ rows'[x].state = "draft" /\ ~rows'[x].deleted /\ rows'[x].draftOf = m
      BY <2>1 DEF DraftsOf, Draft, Live
    <3>2. x = r
      <4>1. CASE x # r
        <5>1. rows'[x] = rows[x]
          BY <1>4, <3>1, <4>1
        <5> QED
          BY <2>1, <3>1, <5>1 DEF DraftsOf, Draft, Live, Stored
      <4> QED
        BY <4>1
    <3>3. CASE rows[r].state = "absent"
      <4>1. rows[r].draftOf # m
        BY <1>8, <3>3, NullsAssumption
      <4> QED
        BY <1>0, <1>4, <3>1, <3>2, <4>1 DEF Legal
    <3>4. CASE rows[r].state # "absent"
      <4>1. rows[r].state = "draft" /\ rows[r].draftOf = m
        BY <1>0, <1>4, <3>1, <3>2, <3>4 DEF Legal
      <4>2. ~Live(r) /\ Stored(r)
        BY <2>1, <3>2, <4>1 DEF DraftsOf, Draft, Stored
      <4>3. action = "REVERT"
        BY <1>0, <4>2 DEF Legal
      <4>4. g[Len(h) + 1].action = "REVERT" /\ Len(h) + 1 \in 1..Len(g)
        BY <1>3, <1>6, <4>3 DEF Snapshot
      <4> QED
        BY <3>2, <4>4 DEF WasReverted, g
    <3> QED
      BY <3>2, <3>3, <3>4
  <2>2. ASSUME NEW x \in RecordId, WasReverted(x)
        PROVE  WasReverted(x)'
    <3>1. CASE x # r
      BY <1>5, <2>2, <3>1 DEF WasReverted
    <3>2. CASE x = r
      <4>1. PICK i \in 1..Len(h) : h[i].action = "REVERT"
        BY <2>2, <3>2 DEF WasReverted, h
      <4>2. i \in 1..Len(g) /\ g[i].action = "REVERT"
        BY <1>3, <1>6, <4>1
      <4> QED
        BY <3>2, <4>2 DEF WasReverted, g
    <3> QED
      BY <3>1, <3>2
  <2>3. SUFFICES ASSUME NEW m \in RecordId, NEW x \in DraftsOf(m)', NEW y \in DraftsOf(m)', x # y
                 PROVE  WasReverted(x)' \/ WasReverted(y)'
    BY DEF RivalDraftWasReverted
  <2>4. x \in RecordId /\ y \in RecordId
    BY DEF DraftsOf
  <2>5. CASE x \in DraftsOf(m) /\ y \in DraftsOf(m)
    <3>1. WasReverted(x) \/ WasReverted(y)
      BY <2>3, <2>5 DEF IInv, RivalDraftWasReverted
    <3> QED
      BY <2>2, <2>4, <3>1
  <2>6. CASE x \notin DraftsOf(m)
    <3>1. y \in DraftsOf(m)
      BY <2>1, <2>3, <2>6
    <3> QED
      BY <2>1, <2>6, <3>1
  <2>7. CASE y \notin DraftsOf(m)
    <3>1. x \in DraftsOf(m)
      BY <2>1, <2>3, <2>7
    <3> QED
      BY <2>1, <2>7, <3>1
  <2> QED
    BY <2>5, <2>6, <2>7
<1>2. TypeOK'
  BY <1>1, <1>19 DEF TypeOK, RowsEffect, HistoryEffect, LogEffect
<1> QED
  BY <1>2, <1>9, <1>10, <1>11, <1>12, <1>13, <1>14, <1>15, <1>16, <1>18, <1>20 DEF IInv

-----------------------------------------------------------------------------
(* The theorems *)

LEMMA InitIInv == Init => IInv
<1> SUFFICES ASSUME Init PROVE IInv
  OBVIOUS
<1>1. Absent \in Row
  BY BlankType, StatusType DEF Absent, Row
<1>2. TypeOK
  BY <1>1 DEF Init, TypeOK
<1>3. \A r \in RecordId : ~Stored(r) /\ rows[r] = Absent /\ history[r] = <<>>
  BY DEF Init, Stored, Absent
<1>4. AbsentIsBlank /\ HistoryWellFormed /\ HistoryTellsTheRecord
  BY <1>3 DEF AbsentIsBlank, HistoryWellFormed, HistoryTellsTheRecord
<1>5. DraftsPointAtMasters /\ OneGoldenPerKey /\ GoldenWasPublished
  BY <1>3 DEF DraftsPointAtMasters, OneGoldenPerKey, GoldenWasPublished, Golden, Live, Absent
<1>6. StatusFresh
  BY <1>3 DEF StatusFresh, Absent
<1>7. \A r \in RecordId : ~Imported(r) /\ DraftsOf(r) = {}
  BY <1>3 DEF Imported, DraftsOf, Draft, Live
<1>8. ImportedIsMaster /\ RivalDraftWasReverted
  BY <1>7 DEF ImportedIsMaster, RivalDraftWasReverted
<1>9. AuditFollowsHistory
  <2>1. Changes(<<>>, 0) = {}
    BY DEF Changes
  <2>2. Repeats(<<>>, <<>>, FALSE)
    BY <2>1, FS_EmptySet DEF Repeats
  <2>3. \A r \in RecordId : (rows[r].draftOf # NoRecord) = FALSE
    BY <1>3 DEF Absent
  <2> QED
    BY <1>3, <2>2, <2>3 DEF Init, AuditFollowsHistory
<1> QED
  BY <1>2, <1>4, <1>5, <1>6, <1>8, <1>9 DEF IInv

LEMMA InitFollows == Init => EventsFollowLifecycle
BY DEF Init, EventsFollowLifecycle, Imported, Absent

\* A legal step announces what it does.
LEMMA LegalStepFollows ==
  ASSUME IInv, EventsFollowLifecycle, LegalStep
  PROVE  EventsFollowLifecycle'
<1>r. PICK r \in RecordId :
        \E row, action, u : ChangeStep(r, row, action, u) /\ Legal(r, row, action, u)
  BY DEF LegalStep
<1>0. PICK row, action, u : ChangeStep(r, row, action, u) /\ Legal(r, row, action, u)
  BY <1>r
<1>1. RowsEffect(r, row) /\ EventEffect(r, row, action)
  BY <1>0, ChangeEffect
<1>2. \A x \in RecordId : Imported(x)' = Imported(x)
  BY <1>0, ImportedStays
<1>3. rows'[r] = row /\ \A x \in RecordId \ {r} : rows'[x].state = rows[x].state
  <2>1. \A x \in RecordId : Deleted(rows[x]).state = rows[x].state
    BY DeletedType DEF IInv, TypeOK
  <2> QED
    BY <1>1, <2>1 DEF RowsEffect
<1> DEFINE e == events[r]
           f == e \o EventOf(rows[r].state, row.state, action)
           imported == Imported(r)
<1>4. e \in Seq(Event) /\ Follows(e, rows[r].state, imported)
  BY DEF IInv, TypeOK, EventsFollowLifecycle, Follows
<1>5. imported => rows[r].state \in {"active", "retired"}
  BY DEF IInv, ImportedIsMaster
<1>6. \/ row.state = rows[r].state
      \/ rows[r].state = "absent" /\ row.state = "draft"
      \/ rows[r].state \in {"absent", "draft"} /\ row.state = "active"
      \/ rows[r].state = "active" /\ row.state = "retired"
  BY <1>0 DEF Legal
<1>7. events' = [events EXCEPT ![r] = f] /\ events \in [RecordId -> Seq(Event)]
  BY <1>1 DEF EventEffect, IInv, TypeOK
<1> HIDE DEF e, imported
<1>8. Follows(f, row.state, imported)
  BY <1>4, <1>5, <1>6, FollowsStep
<1> HIDE DEF f
<1>9. ASSUME NEW x \in RecordId
      PROVE  Follows(events'[x], rows'[x].state, Imported(x)')
  <2>1. CASE x = r
    BY <1>2, <1>3, <1>7, <1>8, <2>1 DEF imported
  <2>2. CASE x # r
    <3>1. Follows(events[x], rows[x].state, Imported(x))
      BY DEF EventsFollowLifecycle, Follows
    <3> QED
      BY <1>2, <1>3, <1>7, <2>2, <3>1
  <2> QED
    BY <2>1, <2>2
<1> QED
  BY <1>9 DEF EventsFollowLifecycle, Follows

\* A step that leaves the tables alone leaves the invariant alone.
LEMMA StutterPreserves == IInv /\ UNCHANGED store => IInv'
<1> SUFFICES ASSUME IInv, UNCHANGED store PROVE IInv'
  OBVIOUS
<1>1. rows' = rows /\ history' = history /\ audit' = audit /\ events' = events
  BY DEF store
<1>2. TypeOK' /\ AbsentIsBlank' /\ HistoryWellFormed'
  BY <1>1 DEF IInv, TypeOK, AbsentIsBlank, HistoryWellFormed, Stored
<1>3. HistoryTellsTheRecord' /\ DraftsPointAtMasters' /\ StatusFresh'
  BY <1>1 DEF IInv, HistoryTellsTheRecord, DraftsPointAtMasters, StatusFresh, Stored, Live, Status
<1>4. OneGoldenPerKey' /\ GoldenWasPublished'
  BY <1>1 DEF IInv, OneGoldenPerKey, GoldenWasPublished, Golden, Live, Stored, SameKey
<1>5. AuditFollowsHistory' /\ ImportedIsMaster' /\ RivalDraftWasReverted'
  BY <1>1 DEF IInv, AuditFollowsHistory, ImportedIsMaster, Imported,
              RivalDraftWasReverted, WasReverted, DraftsOf, Draft, Live, Stored
<1> QED
  BY <1>2, <1>3, <1>4, <1>5 DEF IInv

\* The invariant holds in every state that non-overlapping requests reach, for
\* every set of records, columns, users and rules, and for any number of changes.
THEOREM InvariantHolds == Spec => []IInv
<1>1. Init => IInv
  BY InitIInv
<1>2. IInv /\ [Next]_store => IInv'
  BY NextIsLegal, LegalStepPreserves, StutterPreserves
<1> QED
  BY <1>1, <1>2, PTL DEF Spec

\* The record table, the history, the audit log and the event queue hold only
\* what their columns allow, whatever the request handlers are asked to do.
THEOREM TypeCorrect == Spec => []TypeOK
<1>1. IInv => TypeOK
  BY DEF IInv
<1> QED
  BY <1>1, InvariantHolds, PTL

\* write_history numbers the versions of a record 1, 2, 3, ... and closes each
\* before it opens the next, deletes and the reverts that follow them included.
THEOREM HistoryIsNumbered == Spec => []HistoryWellFormed
<1>1. IInv => HistoryWellFormed
  BY DEF IInv
<1> QED
  BY <1>1, InvariantHolds, PTL

\* The newest version write_history stored is what the record table holds.
THEOREM HistoryAgrees == Spec => []HistoryTellsTheRecord
<1>1. IInv => HistoryTellsTheRecord
  BY DEF IInv
<1> QED
  BY <1>1, InvariantHolds, PTL

\* The unique index is enough for every path to the golden state: create,
\* publish of a new record, publish of an edit, revert and undelete.
THEOREM KeysAreUnique == Spec => []OneGoldenPerKey
<1>1. IInv => OneGoldenPerKey
  BY DEF IInv
<1> QED
  BY <1>1, InvariantHolds, PTL

\* update_record never makes a draft of a draft, and no handler takes the master
\* of a draft back to a draft.
THEOREM DraftsHaveMasters == Spec => []DraftsPointAtMasters
<1>1. IInv => DraftsPointAtMasters
  BY DEF IInv
<1> QED
  BY <1>1, InvariantHolds, PTL

\* Every handler that writes data stores the verdict of record_violations on
\* the data it leaves.
THEOREM StatusIsFresh == Spec => []StatusFresh
<1>1. IInv => StatusFresh
  BY DEF IInv
<1> QED
  BY <1>1, InvariantHolds, PTL

\* With requires_draft, no sequence of requests makes a record golden without
\* publish_record run by a publisher.
THEOREM GoldenIsPublished == Spec => []GoldenWasPublished
<1>1. IInv => GoldenWasPublished
  BY DEF IInv
<1> QED
  BY <1>1, InvariantHolds, PTL

\* The audit log of a record repeats its history, entry by entry: every handler
\* calls write_history and log_change for the same change, and the entry that a
\* confirmed override adds stands for no version.
THEOREM AuditRepeatsHistory == Spec => []AuditFollowsHistory
<1>1. IInv => AuditFollowsHistory
  BY DEF IInv
<1> QED
  BY <1>1, InvariantHolds, PTL

\* Subscribers hear record.created once, first and exactly when the record has
\* been golden, and nothing after record.retired, whatever the path it took.
THEOREM EventsFollow == Spec => []EventsFollowLifecycle
<1>1. Init => EventsFollowLifecycle
  BY InitFollows
<1>2. EventsFollowLifecycle /\ IInv /\ [Next]_store => EventsFollowLifecycle'
  <2>1. UNCHANGED store => EventsFollowLifecycle' = EventsFollowLifecycle
    BY DEF store, EventsFollowLifecycle, Imported
  <2> QED
    BY <2>1, NextIsLegal, LegalStepFollows
<1> QED
  BY <1>1, <1>2, InvariantHolds, PTL DEF Spec

\* PUT never makes a second draft of a master: two live ones take a revert that
\* undeleted one of them.
THEOREM SecondDraftNeedsRevert == Spec => []SecondDraftWasReverted
<1>1. IInv => SecondDraftWasReverted
  <2> SUFFICES ASSUME IInv, NEW r \in RecordId,
                      \A d \in DraftsOf(r) : ~WasReverted(d)
               PROVE  ~(Cardinality(DraftsOf(r)) > 1)
    BY DEF SecondDraftWasReverted, WasReverted
  <2>1. \A d, e \in DraftsOf(r) : d = e
    BY DEF IInv, RivalDraftWasReverted
  <2>2. CASE DraftsOf(r) = {}
    BY <2>2, FS_EmptySet
  <2>3. ASSUME NEW d \in DraftsOf(r)
        PROVE  ~(Cardinality(DraftsOf(r)) > 1)
    <3>1. DraftsOf(r) = {d}
      BY <2>1
    <3>2. Cardinality({d}) = 1
      BY FS_Singleton
    <3> QED
      BY <3>1, <3>2
  <2> QED
    BY <2>2, <2>3
<1> QED
  BY <1>1, InvariantHolds, PTL

-----------------------------------------------------------------------------
(* What a step may never do *)

\* What a legal step does to each record, for the two theorems that follow.
LEMMA LegalStepOnRecord ==
  ASSUME IInv, LegalStep, NEW x \in RecordId
  PROVE  \/ rows'[x].state = rows[x].state /\ rows'[x].data = rows[x].data
         \/ \E row, action, u :
              /\ Legal(x, row, action, u)
              /\ rows'[x] = row
              /\ history'[x][Len(history'[x])].by = u
<1>r. PICK r \in RecordId :
        \E row, action, u : ChangeStep(r, row, action, u) /\ Legal(r, row, action, u)
  BY DEF LegalStep
<1>1. PICK row, action, u : ChangeStep(r, row, action, u) /\ Legal(r, row, action, u)
  BY <1>r
<1>2. RowsEffect(r, row) /\ HistoryEffect(r, row, action, u)
  BY <1>1, ChangeEffect
<1>3. CASE x = r
  <2>1. history'[r][Len(history'[r])] = Snapshot(row, Len(history[r]) + 1, action, u)
    BY <1>2 DEF HistoryEffect
  <2>2. history'[r][Len(history'[r])].by = u
    BY <2>1 DEF Snapshot
  <2> QED
    BY <1>1, <1>2, <1>3, <2>2 DEF RowsEffect
<1>4. CASE x # r
  <2>1. rows[x] \in Row
    BY DEF IInv, TypeOK
  <2>2. Deleted(rows[x]).state = rows[x].state /\ Deleted(rows[x]).data = rows[x].data
    BY <2>1, DeletedType
  <2> QED
    BY <1>2, <1>4, <2>2 DEF RowsEffect
<1> QED
  BY <1>3, <1>4

\* A record moves draft -> active -> retired and never back: neither a revert to
\* an old version nor a delete and its undoing restores an earlier state.
THEOREM LifecycleMovesForward == Spec => LifecycleOrder
<1> DEFINE Forward ==
      \A r \in RecordId :
        <<rows[r].state, rows'[r].state>> \in
          {<<s, s>> : s \in State \cup {"absent"}} \cup
          {<<"absent", "draft">>, <<"absent", "active">>, <<"draft", "active">>,
           <<"active", "retired">>}
<1>1. IInv /\ [Next]_store => [Forward]_store
  <2> SUFFICES ASSUME IInv, Next, NEW x \in RecordId
               PROVE  <<rows[x].state, rows'[x].state>> \in
                        {<<s, s>> : s \in State \cup {"absent"}} \cup
                        {<<"absent", "draft">>, <<"absent", "active">>,
                         <<"draft", "active">>, <<"active", "retired">>}
    OBVIOUS
  <2>1. rows[x].state \in State \cup {"absent"}
    BY DEF IInv, TypeOK, Row
  <2>2. \/ rows'[x].state = rows[x].state
        \/ rows[x].state = "absent" /\ rows'[x].state \in {"draft", "active"}
        \/ rows[x].state = "draft" /\ rows'[x].state = "active"
        \/ rows[x].state = "active" /\ rows'[x].state = "retired"
    BY NextIsLegal, LegalStepOnRecord DEF Legal
  <2> QED
    BY <2>1, <2>2
<1>2. LifecycleOrder <=> [][Forward]_store
  BY DEF LifecycleOrder
<1> HIDE DEF Forward
<1> QED
  BY <1>1, <1>2, InvariantHolds, PTL DEF Spec

\* No request of a user without can_publish changes the data of a golden record,
\* and the history names the publisher who did.
THEOREM GoldenDataNeedsPublisher == Spec => GoldenDataIsApproved
<1> DEFINE Approved ==
      \A r \in RecordId :
        Golden(r) /\ Golden(r)' /\ rows'[r].data # rows[r].data =>
          history'[r][Len(history'[r])].by \in Publisher
<1>1. IInv /\ [Next]_store => [Approved]_store
  <2> SUFFICES ASSUME IInv, Next, NEW x \in RecordId, Golden(x), rows'[x].data # rows[x].data
               PROVE  history'[x][Len(history'[x])].by \in Publisher
    OBVIOUS
  <2> QED
    BY NextIsLegal, LegalStepOnRecord DEF Legal, Golden
<1>2. GoldenDataIsApproved <=> [][Approved]_store
  BY DEF GoldenDataIsApproved
<1> HIDE DEF Approved
<1> QED
  BY <1>1, <1>2, InvariantHolds, PTL DEF Spec
=============================================================================
