-------------------------- MODULE RecordProperties --------------------------
(***************************************************************************)
(* What should be true of the record tables, stated once over the state of *)
(* RecordStore and checked of both of its next-state relations: Records,   *)
(* where they all hold, and RecordTxns, where requests overlap and some do *)
(* not.                                                                    *)
(***************************************************************************)
EXTENDS RecordStore

\* Every table and log holds what its columns allow.
TypeOK ==
  /\ rows \in [RecordId -> Row]
  /\ history \in [RecordId -> Seq(Version)]
  /\ audit \in [RecordId -> Seq(AuditEntry)]
  /\ events \in [RecordId -> Seq(Event)]

\* The versions of a record are numbered 1, 2, 3, ... in the order they were
\* written, and only the newest can be open. A revert after a delete is where
\* the numbering is easy to get wrong: no row is open then.
HistoryWellFormed ==
  \A r \in RecordId : \A i \in 1..Len(history[r]) :
    /\ history[r][i].version = i
    /\ history[r][i].open => i = Len(history[r])

\* The newest version of a record says what the record table says, and it is
\* open exactly while the record is live; the one exception is a draft that a
\* publish removed, whose last version stays open. A handler that builds the
\* snapshot and the UPDATE from different values breaks it.
HistoryTellsTheRecord ==
  \A r \in RecordId : Stored(r) =>
    LET h == history[r]  e == h[Len(h)] IN
    /\ h # <<>>
    /\ e.state = rows[r].state /\ e.data = rows[r].data /\ e.status = rows[r].status
    /\ Live(r) => e.open
    /\ e.open /\ ~Live(r) => rows[r].state = "draft" /\ rows[r].draftOf # NoRecord

\* Only drafts point at a master, and the master is a record that has been
\* golden: a draft of a draft would publish into nothing.
DraftsPointAtMasters ==
  \A d \in RecordId : rows[d].draftOf # NoRecord =>
    /\ rows[d].state = "draft"
    /\ rows[rows[d].draftOf].state \in {"active", "retired"}

\* No two golden records share the value of a unique attribute, however they
\* became golden: created, published, reverted or undeleted.
OneGoldenPerKey ==
  \A a, b \in RecordId : Golden(a) /\ Golden(b) /\ a # b => ~SameKey(rows[a], rows[b])

\* The stored validation status is the verdict of the rules on the stored data,
\* on every path that writes data or state.
StatusFresh == \A r \in RecordId : rows[r].status = Status(rows[r].data)

\* A second live draft of one master exists only if a deleted draft was brought
\* back: PUT reuses the draft it finds.
SecondDraftWasReverted ==
  \A r \in RecordId : Cardinality(DraftsOf(r)) > 1 =>
    \E d \in DraftsOf(r) : \E i \in 1..Len(history[d]) : history[d][i].action = "REVERT"

\* Under requires_draft, every record that is or was golden was made so by a
\* publisher: published after an editor's draft, or imported as active.
GoldenWasPublished ==
  RequiresDraft =>
    \A r \in RecordId : rows[r].state \in {"active", "retired"} =>
      \E i \in 1..Len(history[r]) :
        /\ history[r][i].by \in Publisher
        /\ \/ i > 1 /\ history[r][i].action = "PUBLISH"
           \/ i = 1 /\ history[r][i].state = "active"

\* The entries of an audit log up to the k-th, overrides aside.
Changes(log, k) == {j \in 1..k : log[j].action # "VALIDATION_OVERRIDE"}

\* The n-th change in the log tells of the n-th version. copy: the record is an
\* edit draft, whose INSERT is logged as DRAFT_CREATED.
Repeats(log, h, copy) ==
  /\ Cardinality(Changes(log, Len(log))) = Len(h)
  /\ \A k \in Changes(log, Len(log)) :
       LET e == h[Cardinality(Changes(log, k))] IN
       /\ log[k].by = e.by
       /\ log[k].action = IF e.action = "INSERT" /\ copy THEN "DRAFT_CREATED" ELSE e.action

\* The audit log of a record, overrides aside, repeats its history entry by
\* entry: same action, same user.
AuditFollowsHistory ==
  \A r \in RecordId : Repeats(audit[r], history[r], rows[r].draftOf # NoRecord)

\* A record that an import made golden. (Without requires_draft the first
\* version does not tell an import from a POST.)
Imported(r) == RequiresDraft /\ history[r] # <<>> /\ history[r][1].state = "active"

\* The events as the code sends them, which is not how the docs describe them
\* (EventsAsDocumented): record.created comes once, first, when a record becomes
\* golden, by POST or by publish; nothing follows record.retired; and a record
\* imported as active is never announced.
EventsFollowLifecycle ==
  \A r \in RecordId :
    /\ ~Imported(r) => (events[r] # <<>>) = (rows[r].state \in {"active", "retired"})
    /\ \A i \in 1..Len(events[r]) :
         /\ (events[r][i] = "record.created") = (i = 1 /\ ~Imported(r))
         /\ events[r][i] = "record.retired" => i = Len(events[r]) /\ rows[r].state = "retired"

\* Data of a golden record changes in place only by a publisher's hand.
GoldenDataIsApproved ==
  [][\A r \in RecordId :
       Golden(r) /\ Golden(r)' /\ rows'[r].data # rows[r].data =>
         history'[r][Len(history'[r])].by \in Publisher]_store

\* "record.created fires when a brand-new record is created directly as active.
\* record.published fires when a draft goes through the review-and-approve flow"
\* (docs/reference.md:272). Not so: a draft of no master is announced by
\* record.created when it is published, and an import as active by nothing.
Sent(r, event) == events'[r] = Append(events[r], event)
EventsAsDocumented ==
  [][\A r \in RecordId : rows'[r].state = "active" =>
       /\ rows[r].state = "absent" => Sent(r, "record.created")
       /\ rows[r].state = "draft" => Sent(r, "record.published")]_store

\* A record moves draft -> active -> retired and never back, delete and revert
\* included.
LifecycleOrder ==
  [][\A r \in RecordId :
       <<rows[r].state, rows'[r].state>> \in
         {<<s, s>> : s \in State \cup {"absent"}} \cup
         {<<"absent", "draft">>, <<"absent", "active">>, <<"draft", "active">>,
          <<"active", "retired">>}]_store

-----------------------------------------------------------------------------
(* The promise to consumers (MasterData): a record's golden value is its     *)
(* data while it is golden, and a value counts as submitted for a record     *)
(* once the history of the record or of a draft of it holds it.              *)

Owner(x) == IF rows[x].draftOf = NoRecord THEN x ELSE rows[x].draftOf

Promise ==
  INSTANCE MasterData WITH
    None <- Null,
    Conflict <- LAMBDA x, y : \E c \in UniqueColumn : x[c] # Null /\ x[c] = y[c],
    golden <- [r \in RecordId |-> IF Golden(r) THEN rows[r].data ELSE Null],
    submitted <- [r \in RecordId |->
      {d \in Data : \E x \in RecordId :
         /\ Owner(x) = r
         /\ \E i \in 1..Len(history[x]) : history[x][i].data = d}]

\* Whatever the requests, consumers see only values submitted for the record,
\* never two records under one key, and no golden record that skipped approval.
PromiseKept == Promise!Spec
=============================================================================
