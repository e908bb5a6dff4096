------------------------------- MODULE Feeds -------------------------------
(***************************************************************************)
(* The two ways records come in by machine, beside the record API: file    *)
(* imports (app/api/import_export.py) and pushes of inbound sources        *)
(* (app/api/inbound.py, _inbound_upsert). They write the same tables as    *)
(* the record API, by other code, and may stand between any two of its     *)
(* requests. One action is one request; RecordTxns is about the overlap of *)
(* requests.                                                               *)
(*                                                                         *)
(* A file's rows, or the two halves of a push (claim the record, then      *)
(* change it), are steps of one transaction. They are operators from the   *)
(* tables a step finds to the set of tables it can leave, so that several  *)
(* can follow each other before the commit.                                *)
(***************************************************************************)
EXTENDS Records

CONSTANTS
  SourceId,          \* identifiers records have in a source system
  Push,              \* what pushes identify themselves by: <<source, id>>
  Emptied,           \* the id of a push that sends it as null or ""; Null: not sent
  PushBody,          \* pushed fields after the field_map
  MatchKey,          \* match_key of the sources, or Null
  File,              \* import files: sequences of rows
  UpsertKey,         \* values of the upsert_key parameter; Null is none
  ImportSource,      \* values of the source_system parameter; Null is none
  AllowDirectImport  \* allow_direct_active_import of the object

PartialRows == UNION {[S -> Cell] : S \in SUBSET Column}

SentId == SourceId \cup {Null, Emptied}

ASSUME PushAssumption == Push \subseteq Source \X SentId
ASSUME EmptiedAssumption == Emptied # Null /\ SourceId \cap {Null, Emptied} = {}
ASSUME FeedBodyAssumption == PushBody \subseteq PartialRows /\ File \subseteq Seq(PartialRows)
ASSUME KeyAssumption == MatchKey \in Column \cup {Null} /\ UpsertKey \subseteq Column \cup {Null}
ASSUME OriginAssumption == ImportSource \subseteq Source \cup {Null}
ASSUME ImportAssumption == AllowDirectImport \in BOOLEAN

VARIABLE source   \* _source_system and _source_id of each record

feed == <<rows, history, audit, events, source>>

Identity == [system : Source \cup {Null}, id : SourceId \cup {Null}]
NoSource == [system |-> Null, id |-> Null]

\* What is not sent stays as it is; what is sent empty is written as NULL.
Stamp(old, src, id) ==
  [system |-> IF src = Null THEN old.system ELSE src,
   id |-> CASE id = Null -> old.id [] id = Emptied -> Null [] OTHER -> id]

-----------------------------------------------------------------------------
(* One row of a feed, inside its transaction *)

Begun == [rows |-> rows, history |-> history, audit |-> audit, source |-> source,
          ok |-> TRUE]

InState(s, state) == {r \in RecordId : s.rows[r].state = state /\ ~s.rows[r].deleted}
Found(s) == InState(s, "draft") \cup InState(s, "active") \cup InState(s, "retired")
Unused(s) == InState(s, "absent")

\* Bug: no savepoint takes back the history row closed before the UPDATE failed.
Bug_HalfWritten(s, r) ==
  [s EXCEPT !.ok = FALSE, !.history[r] = CloseRow(@, Len(@))]

\* The row's savepoint, or the transaction, is rolled back.
Failed(s, r) == [s EXCEPT !.ok = FALSE]

\* Bug: the source is stamped by a bare UPDATE.
Bug_SilentClaim(s, r, row, origin, action, logged, u) ==
  IF ~Accepts(s.rows, r, row) THEN {Failed(s, r)}
  ELSE IF row = s.rows[r] THEN {[s EXCEPT !.source[r] = origin]}
  ELSE {[rows |-> [s.rows EXCEPT ![r] = row],
          history |-> [s.history EXCEPT
            ![r] = WriteHistory(@, i, VersionAt(@, i) + 1, row, action, u)],
          audit |-> [s.audit EXCEPT ![r] = LogChange(@, logged, u, row.status, FALSE)],
          source |-> [s.source EXCEPT ![r] = origin], ok |-> TRUE]
          : i \in FirstOpen(s.history[r])}

\* The new version of record r with its history and audit entry. Feeds ask for
\* no confirmation, so nothing is logged as an override.
Change(s, r, row, origin, action, logged, u) ==
  IF ~Accepts(s.rows, r, row) THEN {Failed(s, r)}
  ELSE {[rows |-> [s.rows EXCEPT ![r] = row],
          history |-> [s.history EXCEPT
            ![r] = WriteHistory(@, i, VersionAt(@, i) + 1, row, action, u)],
          audit |-> [s.audit EXCEPT ![r] = LogChange(@, logged, u, row.status, FALSE)],
          source |-> [s.source EXCEPT ![r] = origin], ok |-> TRUE]
          : i \in FirstOpen(s.history[r])}

Enter(s, body, state, origin, u) ==
  UNION {Change(s, r, [Created(body) EXCEPT !.state = state], origin, "INSERT", "INSERT", u)
           : r \in Unused(s)}

UpdateRow(s, r, body, origin, u) ==
  Change(s, r, Edited(s.rows[r], s.rows[r], body), origin, "UPDATE", "UPDATE", u)

\* Bug: the new draft is logged like a new record.
Bug_LogsCopyAsInsert(s, r, body, src, id, u) ==
  LET drafts == {d \in InState(s, "draft") : s.rows[d].draftOf = r} IN
  IF drafts # {}
  THEN UNION {UpdateRow(s, d, body, Stamp(s.source[d], src, id), u) : d \in drafts}
  ELSE UNION {Change(s, d, DraftCopy(s.rows[r], r, body), Stamp(s.source[r], src, id),
                     "INSERT", "INSERT", u) : d \in Unused(s)}

\* Draft-copy-on-edit for active record r: any draft of it, or a new copy.
ChangeByDraft(s, r, body, src, id, u) ==
  LET drafts == {d \in InState(s, "draft") : s.rows[d].draftOf = r} IN
  IF drafts # {}
  THEN UNION {UpdateRow(s, d, body, Stamp(s.source[d], src, id), u) : d \in drafts}
  ELSE UNION {Change(s, d, DraftCopy(s.rows[r], r, body), Stamp(s.source[r], src, id),
                     "INSERT", "DRAFT_CREATED", u) : d \in Unused(s)}

-----------------------------------------------------------------------------
(* Imports *)

\* Bug: anyone who may import may change a retired record in place.
Bug_UpsertsRetired(s, r, body, initial, sys, u) ==
  IF s.rows[r].state = "active" /\ initial = "draft"
  THEN ChangeByDraft(s, r, body, sys, Null, u)
  ELSE UpdateRow(s, r, body, Stamp(s.source[r], sys, Null), u)

\* Bug: a record that is found takes the state of new ones.
Bug_UpsertsState(s, r, body, initial, sys, u) ==
  IF s.rows[r].state = "active" /\ initial = "draft"
  THEN ChangeByDraft(s, r, body, sys, Null, u)
  ELSE Change(s, r, [Edited(s.rows[r], s.rows[r], body) EXCEPT !.state = initial],
              Stamp(s.source[r], sys, Null), "UPDATE", "UPDATE", u)

\* A row whose key names record r.
Upsert(s, r, body, initial, sys, u) ==
  CASE s.rows[r].state = "retired" /\ u \notin Publisher -> {Failed(s, r)}
    [] s.rows[r].state = "active" /\ initial = "draft" ->
         ChangeByDraft(s, r, body, sys, Null, u)
    [] OTHER -> UpdateRow(s, r, body, Stamp(s.source[r], sys, Null), u)

\* Bug: the key is looked up among drafts.
Bug_HitsDrafts(s, body, key) ==
  {r \in InState(s, "draft") :
     key \in DOMAIN body /\ body[key] # Null /\ s.rows[r].data[key] = body[key]}

\* The live records the upsert key finds; the handler takes the first.
Hits(s, body, key) ==
  {r \in Found(s) : key \in DOMAIN body /\ body[key] # Null /\ s.rows[r].data[key] = body[key]}

ImportRow(s, body, key, initial, sys, u) ==
  IF Hits(s, body, key) = {} THEN Enter(s, body, initial, Stamp(NoSource, sys, Null), u)
  ELSE UNION {Upsert(s, r, body, initial, sys, u) : r \in Hits(s, body, key)}

\* One row of the file, from any of the tables the rows before it can leave.
\* Strict: one failure takes everything back. Otherwise a failed row leaves the
\* rest of the file to go on.
NextRow(tables, body, key, initial, sys, strict, u) ==
  LET left == UNION {ImportRow(s, body, key, initial, sys, u) : s \in tables}
  IN IF strict THEN {s \in left : s.ok} ELSE {[s EXCEPT !.ok = TRUE] : s \in left}

Import(s, file, key, initial, sys, strict, u) ==
  LET after[n \in 0..Len(file)] ==
        IF n = 0 THEN {s} ELSE NextRow(after[n - 1], file[n], key, initial, sys, strict, u)
  IN after[Len(file)]

\* No feed starts without room (HasRoom in the requests below) or commits
\* beyond it.
Commit(s) ==
  /\ Cardinality(UNION {{r} \X DOMAIN s.history[r] : r \in RecordId}) <= MaxChanges
  /\ rows' = s.rows /\ history' = s.history /\ audit' = s.audit /\ source' = s.source
  /\ UNCHANGED events

\* Bug: an editor may import as active.
Bug_EditorImports(u, file, key, initial, sys, strict) ==
  /\ HasRoom
  /\ initial = "active" => AllowDirectImport
  /\ \E s \in Import(Begun, file, key, initial, sys, strict, u) : Commit(s)

\* POST .../import
ImportRecords(u, file, key, initial, sys, strict) ==
  /\ HasRoom
  /\ initial = "active" => u \in Publisher /\ AllowDirectImport
  /\ \E s \in Import(Begun, file, key, initial, sys, strict, u) : Commit(s)

-----------------------------------------------------------------------------
(* Pushes *)

\* Bug: the lookup by source and id is for drafts only.
Bug_IdentifiesDrafts(s, src, id) ==
  {r \in InState(s, "draft") : id \in SourceId /\ s.source[r] = [system |-> src, id |-> id]}

\* The lookup by source and id; drafts sort first.
Identified(s, src, id) ==
  LET hits == {r \in InState(s, "draft") \cup InState(s, "active") :
                 id \in SourceId /\ s.source[r] = [system |-> src, id |-> id]}
  IN IF hits \cap InState(s, "draft") # {} THEN hits \cap InState(s, "draft") ELSE hits

\* The lookup by match_key: an active record and nothing but drafts of it, or a
\* single draft. Anything else is ambiguous.
Claimable(s, body) ==
  LET hits == {r \in InState(s, "draft") \cup InState(s, "active") :
                 /\ MatchKey \in DOMAIN body
                 /\ body[MatchKey] # Null
                 /\ s.rows[r].data[MatchKey] = body[MatchKey]}
      active == hits \cap InState(s, "active")
      drafts == hits \ active
  IN {r \in active : active = {r} /\ \A d \in drafts : s.rows[d].draftOf = r}
       \cup {d \in drafts : hits = {d}}

\* Bug: a push is written to the active record.
Bug_AbsorbInPlace(s, r, src, id, body) ==
  UpdateRow(s, r, body, Stamp(s.source[r], src, id), src)

\* What the push changes, once it has found its record.
Absorb(s, r, src, id, body) ==
  IF s.rows[r].state = "active" THEN ChangeByDraft(s, r, body, src, id, src)
  ELSE UpdateRow(s, r, body, Stamp(s.source[r], src, id), src)

\* A claim writes no empty id; the change that follows it does.
Claim(s, r, src, id) ==
  LET kept == IF id = Emptied THEN Null ELSE id
  IN Change(s, r, s.rows[r], Stamp(s.source[r], src, kept), "UPDATE", "UPDATE", src)

Pushed(s, src, id, body) ==
  CASE Identified(s, src, id) # {} ->
         UNION {Absorb(s, r, src, id, body) : r \in Identified(s, src, id)}
    [] Identified(s, src, id) = {} /\ Claimable(s, body) # {} ->
         UNION {UNION {Absorb(t, r, src, id, body) : t \in Claim(s, r, src, id)}
                  : r \in Claimable(s, body)}
    [] OTHER -> Enter(s, body, "draft", Stamp(NoSource, src, id), src)

\* POST /inbound. A constraint that refuses the row takes the claim back, too.
ReceiveInbound(src, id, body) ==
  /\ HasRoom
  /\ \E s \in Pushed(Begun, src, id, body) : s.ok /\ Commit(s)

-----------------------------------------------------------------------------
(* The record API beside them. Publishing an edit copies the draft's source    *)
(* to the master, a new draft takes its master's; nothing else touches it.     *)

FeedInit == Init /\ source = [r \in RecordId |-> NoSource]

Api ==
  \E r \in RecordId, u \in Writer :
    \/ /\ PublishEdit(r, u)
       /\ source' = [source EXCEPT ![rows[r].draftOf] = source[r]]
    \/ \E body \in Body, d \in RecordId :
         /\ StartDraft(r, d, body, u)
         /\ source' = [source EXCEPT ![d] = source[r]]
    \/ /\ \/ \E body \in Body :
               CreateRecord(r, body, u) \/ AmendDraft(r, body, u) \/ EditInPlace(r, body, u)
          \/ \E target \in 1..MaxChanges : RevertRecord(r, target, u)
          \/ DeleteRecord(r, u) \/ PublishNewRecord(r, u) \/ RetireRecord(r, u)
       /\ UNCHANGED source

FeedNext ==
  \/ Api
  \/ \E u \in Writer, file \in File, key \in UpsertKey, sys \in ImportSource,
        initial \in {"draft", "active"}, strict \in BOOLEAN :
       ImportRecords(u, file, key, initial, sys, strict)
  \/ \E p \in Push, body \in PushBody : ReceiveInbound(p[1], p[2], body)

FeedSpec == FeedInit /\ [][FeedNext]_feed

-----------------------------------------------------------------------------
(* Properties, beside those of RecordProperties *)

\* What the docs and the code agree a subscriber can rely on, with feeds about:
\* no event before the record is golden; record.created at most once and first;
\* nothing after record.retired; and a record that is or was golden has sent
\* something, unless a publisher imported it as active. (Which event comes first
\* they disagree about: EventsAsDocumented.)
FeedEventsFollow ==
  \A r \in RecordId :
    /\ events[r] # <<>> => rows[r].state \in {"active", "retired"}
    /\ rows[r].state \in {"active", "retired"} /\ events[r] = <<>> =>
         history[r][1].state = "active" /\ history[r][1].by \in Publisher
    /\ \A i \in 1..Len(events[r]) :
         /\ events[r][i] = "record.created" => i = 1
         /\ events[r][i] = "record.retired" => i = Len(events[r]) /\ rows[r].state = "retired"

\* Every table and log holds what its columns allow, feeds included.
FeedTypeOK == TypeOK /\ source \in [RecordId -> Identity]

\* "All inbound records always land as drafts -- the lifecycle is never
\* bypassed" (docs/reference.md:291): no push changes the data, the state or the
\* status of a record that is or was golden, whichever lookup finds it. (A claim
\* writes its source columns, as docs/reference.md:321 says; that it leaves a
\* version is ProvenanceIsRecorded.)
Pushes == \E p \in Push, body \in PushBody : ReceiveInbound(p[1], p[2], body)
PushesLandAsDrafts ==
  [][Pushes => \A r \in RecordId :
       rows[r].state \in {"active", "retired"} => rows'[r] = rows[r]]_feed

\* Data of a record that is or was golden changes in place only by a
\* publisher's hand: neither a push nor an editor's file reaches it, whichever
\* record the keys pick.
MasterDataIsApproved ==
  [][\A r \in RecordId :
       Live(r) /\ rows[r].state \in {"active", "retired"} /\ rows'[r].data # rows[r].data =>
         history'[r][Len(history'[r])].by \in Publisher]_feed

\* Where a golden record comes from never changes without a version that says
\* so: a claim by that source, a publish, or a publisher's import
\* (Changelog.md:81).
ProvenanceIsRecorded ==
  [][\A r \in RecordId : Golden(r) /\ Golden(r)' /\ source'[r] # source[r] =>
       /\ Len(history'[r]) > Len(history[r])
       /\ LET e == history'[r][Len(history'[r])]
          IN e.by \in Publisher \cup {source'[r].system}]_feed

\* A source that always sends ids, and that no import file is attributed to, has
\* one record per id ("fast and unambiguous", docs/reference.md:320): two live
\* records it knows by the same id are drafts of one record, or that record,
\* unless a revert brought one of them back.
Tracked ==
  {src \in Source \ ImportSource : <<src, Null>> \notin Push /\ <<src, Emptied>> \notin Push}
BroughtBack(r) ==
  \E x \in RecordId : Owner(x) = r /\ \E i \in DOMAIN history[x] : history[x][i].action = "REVERT"
Known(r) ==
  /\ Golden(r) \/ Draft(r)
  /\ source[r].id # Null
  /\ source[r].system \in Tracked
SourceIdNamesOneRecord ==
  \A x, y \in RecordId : Known(x) /\ Known(y) /\ source[x] = source[y] =>
    Owner(x) = Owner(y) \/ BroughtBack(Owner(x)) \/ BroughtBack(Owner(y))

\* An exported golden record that comes back under a unique key is accepted, and
\* leaves what consumers see as it was, whichever record the key picks.
ReimportKeepsGolden ==
  \A r \in RecordId, u \in Publisher, key \in UpsertKey \cap UniqueColumn :
    Golden(r) /\ rows[r].data[key] # Null =>
      \A s \in ImportRow(Begun, rows[r].data, key, "active", Null, u) :
        /\ s.ok
        /\ \A x \in RecordId : Golden(x) =>
             s.rows[x].data = rows[x].data /\ s.rows[x].state = "active"

\* With feeds beside the record API consumers still see only what was submitted
\* for the record, and never two records under one key; no feed takes a golden
\* record from them or makes one of a draft that waits for approval
\* (docs/reference.md:11).
FeedPromiseKept == Promise!FedSpec

\* The requests of the record API keep the whole promise, approval of new
\* records included, on records that feeds have entered, changed and claimed.
\* (FeedPromiseKept lets a feed's request register golden records, so by itself
\* it would forgive the API one, too.)
ApiKeepsThePromise == [][Api => Promise!Next]_feed
=============================================================================
