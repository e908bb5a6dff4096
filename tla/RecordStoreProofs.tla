------------------------- MODULE RecordStoreProofs -------------------------
(***************************************************************************)
(* Lemmas about the operators of RecordStore: what the handlers write is   *)
(* what the tables hold, what a version and its audit entries add to the   *)
(* history and the log. They speak of values, not of the state, and serve  *)
(* the proofs about Records, RecordTxns and Feeds alike.                   *)
(***************************************************************************)
EXTENDS RecordProperties, FiniteSetTheorems, TLAPS

-----------------------------------------------------------------------------
(* The operators of RecordStore stay within their types *)

LEMMA MergeType ==
  ASSUME NEW d \in Data, NEW b \in Body
  PROVE  Merge(d, b) \in Data
<1>1. PICK S \in SUBSET Column : b \in [S -> Cell]
  BY BodyAssumption
<1> QED
  BY <1>1 DEF Merge, Data

LEMMA BlankType == Blank \in Data
BY DEF Blank, Data, Cell

LEMMA StatusType == \A d : Status(d) \in Validity
BY DEF Status, Validity

LEMMA CreatedType ==
  ASSUME NEW b \in Body
  PROVE  /\ Created(b) \in Row
         /\ Created(b).state = IF RequiresDraft THEN "draft" ELSE "active"
         /\ Created(b).draftOf = NoRecord /\ Created(b).deleted = FALSE
         /\ Created(b).status = Status(Created(b).data)
BY MergeType, BlankType, StatusType DEF Created, Row, State

LEMMA DraftCopyType ==
  ASSUME NEW m \in Row, NEW r \in RecordId, NEW b \in Body
  PROVE  /\ DraftCopy(m, r, b) \in Row
         /\ DraftCopy(m, r, b).state = "draft" /\ DraftCopy(m, r, b).draftOf = r
         /\ DraftCopy(m, r, b).deleted = FALSE
         /\ DraftCopy(m, r, b).status = Status(DraftCopy(m, r, b).data)
BY MergeType, StatusType DEF DraftCopy, Row, State

\* An UPDATE keeps the columns it does not name.
LEMMA EditedType ==
  ASSUME NEW c \in Row, NEW snap \in Row, NEW b \in Body
  PROVE  /\ Edited(c, snap, b) \in Row
         /\ Edited(c, snap, b).state = c.state /\ Edited(c, snap, b).draftOf = c.draftOf
         /\ Edited(c, snap, b).deleted = c.deleted
         /\ c = snap => Edited(c, snap, b).status = Status(Edited(c, snap, b).data)
BY MergeType, StatusType DEF Edited, Row

LEMMA DeletedType ==
  ASSUME NEW c \in Row
  PROVE  /\ Deleted(c) \in Row /\ Deleted(c).deleted = TRUE
         /\ Deleted(c).state = c.state /\ Deleted(c).draftOf = c.draftOf
         /\ Deleted(c).data = c.data /\ Deleted(c).status = c.status
BY DEF Deleted, Row

LEMMA RevertedType ==
  ASSUME NEW c \in Row, NEW d \in Data
  PROVE  /\ Reverted(c, d) \in Row /\ Reverted(c, d).deleted = FALSE
         /\ Reverted(c, d).state = c.state /\ Reverted(c, d).draftOf = c.draftOf
         /\ Reverted(c, d).data = d /\ Reverted(c, d).status = Status(d)
BY StatusType DEF Reverted, Row

LEMMA PromotedType ==
  ASSUME NEW c \in Row, NEW snap \in Row
  PROVE  /\ Promoted(c, snap) \in Row /\ Promoted(c, snap).state = "active"
         /\ Promoted(c, snap).draftOf = c.draftOf /\ Promoted(c, snap).deleted = c.deleted
         /\ Promoted(c, snap).data = c.data /\ Promoted(c, snap).status = Status(snap.data)
BY StatusType DEF Promoted, Row, State

LEMMA MergedIntoType ==
  ASSUME NEW c \in Row, NEW d \in Data
  PROVE  /\ MergedInto(c, d) \in Row
         /\ MergedInto(c, d).state = c.state /\ MergedInto(c, d).draftOf = c.draftOf
         /\ MergedInto(c, d).deleted = c.deleted
         /\ MergedInto(c, d).data = d /\ MergedInto(c, d).status = Status(d)
BY StatusType DEF MergedInto, Row

LEMMA RetiredType ==
  ASSUME NEW c \in Row
  PROVE  /\ Retired(c) \in Row /\ Retired(c).state = "retired"
         /\ Retired(c).draftOf = c.draftOf /\ Retired(c).deleted = c.deleted
         /\ Retired(c).data = c.data /\ Retired(c).status = c.status
BY DEF Retired, Row, State

\* What WriteHistory does to the history of a record: one more version, the old
\* ones unchanged but for the closed one.
LEMMA WriteHistoryShape ==
  ASSUME NEW h \in Seq(Version), NEW i \in 0..Len(h), NEW v \in Nat, NEW row \in Row,
         NEW action \in ChangeAction, NEW u \in Actor
  PROVE  LET g == WriteHistory(h, i, v, row, action, u) IN
         /\ g \in Seq(Version)
         /\ Len(g) = Len(h) + 1
         /\ g[Len(h) + 1] = Snapshot(row, v, action, u)
         /\ \A j \in 1..Len(h) :
              /\ g[j].version = h[j].version /\ g[j].action = h[j].action
              /\ g[j].by = h[j].by /\ g[j].state = h[j].state /\ g[j].data = h[j].data
              /\ g[j].open = (h[j].open /\ j # i)
<1>1. Snapshot(row, v, action, u) \in Version
  BY DEF Snapshot, Version, Row
<1>2. /\ CloseRow(h, i) \in Seq(Version)
      /\ Len(CloseRow(h, i)) = Len(h)
      /\ \A j \in 1..Len(h) :
           CloseRow(h, i)[j] = IF j = i THEN [h[j] EXCEPT !.open = FALSE] ELSE h[j]
  <2>1. \A j \in 1..Len(h) : h[j] \in Version
    OBVIOUS
  <2>2. \A j \in 1..Len(h) : [h[j] EXCEPT !.open = FALSE] \in Version
    BY <2>1 DEF Version
  <2> QED
    BY <2>1, <2>2 DEF CloseRow
<1>3. \A j \in 1..Len(h) : h[j] \in Version
  OBVIOUS
<1>4. \A j \in 1..Len(h) :
        /\ CloseRow(h, i)[j].version = h[j].version /\ CloseRow(h, i)[j].action = h[j].action
        /\ CloseRow(h, i)[j].by = h[j].by /\ CloseRow(h, i)[j].state = h[j].state
        /\ CloseRow(h, i)[j].data = h[j].data
        /\ CloseRow(h, i)[j].open = (h[j].open /\ j # i)
  BY <1>2, <1>3 DEF Version
<1> QED
  BY <1>1, <1>2, <1>4 DEF WriteHistory

\* LogChange appends audit entries and nothing else.
LEMMA LogChangeType ==
  ASSUME NEW log \in Seq(AuditEntry), NEW action \in AuditAction, NEW u \in Actor,
         NEW status, NEW overridable
  PROVE  LogChange(log, action, u, status, overridable) \in Seq(AuditEntry)
<1>1. <<[action |-> action, by |-> u]>> \in Seq(AuditEntry)
  BY DEF AuditEntry
<1>2. <<[action |-> "VALIDATION_OVERRIDE", by |-> u]>> \in Seq(AuditEntry)
  BY DEF AuditEntry, AuditAction
<1>3. <<>> \in Seq(AuditEntry)
  OBVIOUS
<1> QED
  BY <1>1, <1>2, <1>3 DEF LogChange

-----------------------------------------------------------------------------
(* The audit log beside the history *)

LEMMA ChangesFinite ==
  ASSUME NEW log, NEW k \in Nat
  PROVE  IsFiniteSet(Changes(log, k)) /\ Cardinality(Changes(log, k)) \in Nat
<1>1. IsFiniteSet(1..k)
  BY FS_Interval
<1>2. Changes(log, k) \in SUBSET (1..k)
  BY DEF Changes
<1>3. IsFiniteSet(Changes(log, k))
  BY <1>1, <1>2, FS_Subset
<1> QED
  BY <1>3, FS_CardinalityType

\* The changes up to an entry are among those of the whole log.
LEMMA ChangesCount ==
  ASSUME NEW log, NEW n \in Nat, NEW k \in Changes(log, n)
  PROVE  Cardinality(Changes(log, k)) \in 1..Cardinality(Changes(log, n))
<1>1. k \in 1..n /\ k \in Nat /\ k \in Changes(log, k)
  BY DEF Changes
<1>2. Changes(log, k) \in SUBSET Changes(log, n)
  BY <1>1 DEF Changes
<1>3. Cardinality(Changes(log, k)) <= Cardinality(Changes(log, n))
  BY <1>2, ChangesFinite, FS_Subset
<1>4. Cardinality(Changes(log, k)) # 0
  BY <1>1, ChangesFinite, FS_EmptySet
<1> QED
  BY <1>1, <1>3, <1>4, ChangesFinite

\* What LogChange does to a log: the entry of the change, and maybe an override.
LEMMA LogChangeShape ==
  ASSUME NEW log \in Seq(AuditEntry), NEW action \in AuditAction, NEW u \in Actor,
         NEW status, NEW overridable, action # "VALIDATION_OVERRIDE"
  PROVE  LET new == LogChange(log, action, u, status, overridable)
             n == Len(log) IN
         /\ Len(new) \in {n + 1, n + 2}
         /\ \A k \in 1..n : new[k] = log[k]
         /\ new[n + 1] = [action |-> action, by |-> u]
         /\ \A k \in 0..n : Changes(new, k) = Changes(log, k)
         /\ n + 1 \notin Changes(log, n)
         /\ Changes(new, n + 1) = Changes(log, n) \cup {n + 1}
         /\ Changes(new, Len(new)) = Changes(log, n) \cup {n + 1}
<1> DEFINE new == LogChange(log, action, u, status, overridable)
           n == Len(log)
           entry == [action |-> action, by |-> u]
           more == IF overridable /\ status = "invalid"
                   THEN <<[action |-> "VALIDATION_OVERRIDE", by |-> u]>> ELSE <<>>
<1>1. /\ n \in Nat /\ <<entry>> \in Seq(AuditEntry) /\ more \in Seq(AuditEntry)
      /\ more = <<>> \/ more = <<[action |-> "VALIDATION_OVERRIDE", by |-> u]>>
  <2>1. entry \in AuditEntry
    BY DEF AuditEntry
  <2>2. [action |-> "VALIDATION_OVERRIDE", by |-> u] \in AuditEntry
    BY DEF AuditEntry, AuditAction
  <2>3. /\ <<[action |-> "VALIDATION_OVERRIDE", by |-> u]>> \in Seq(AuditEntry)
        /\ <<>> \in Seq(AuditEntry)
    BY <2>2
  <2>4. more = <<>> \/ more = <<[action |-> "VALIDATION_OVERRIDE", by |-> u]>>
    OBVIOUS
  <2> HIDE DEF entry, more
  <2>5. <<entry>> \in Seq(AuditEntry) /\ n \in Nat
    BY <2>1
  <2>6. more \in Seq(AuditEntry)
    BY <2>3, <2>4, Zenon
  <2> QED
    BY <2>4, <2>5, <2>6, Zenon
<1>2. new = log \o <<entry>> \o more
  BY DEF LogChange
<1> HIDE DEF new, entry, more
<1>3. /\ Len(new) = n + 1 + Len(more)
      /\ \A k \in 1..n : new[k] = log[k]
      /\ new[n + 1] = entry
      /\ \A k \in 1..Len(more) : new[n + 1 + k] = more[k]
  <2> DEFINE long == log \o <<entry>>
  <2>1. /\ long \in Seq(AuditEntry) /\ Len(long) = n + 1 /\ long[n + 1] = entry
        /\ \A k \in 1..n : long[k] = log[k]
    BY <1>1
  <2>2. new = long \o more
    BY <1>2
  <2> HIDE DEF long
  <2> QED
    BY <1>1, <2>1, <2>2
<1>4. CASE more = <<>>
  <2>1. Len(new) = n + 1
    BY <1>1, <1>3, <1>4
  <2> QED
    BY <1>1, <1>3, <2>1 DEF Changes, new, entry
<1>5. CASE more = <<[action |-> "VALIDATION_OVERRIDE", by |-> u]>>
  <2>1. Len(new) = n + 2 /\ new[n + 2].action = "VALIDATION_OVERRIDE"
    BY <1>1, <1>3, <1>5
  <2> QED
    BY <1>1, <1>3, <2>1 DEF Changes, new, entry
<1> QED
  BY <1>1, <1>4, <1>5

\* A version and the audit entry the handlers write with it go together. An
\* edit draft is told from other records when its first version is written.
LEMMA RepeatsStep ==
  ASSUME NEW h \in Seq(Version), NEW log \in Seq(AuditEntry), NEW copy, NEW was,
         NEW i \in 0..Len(h), NEW v \in Nat, NEW row \in Row,
         NEW action \in ChangeAction, NEW u \in Actor, NEW status, NEW overridable,
         Repeats(log, h, was), was = copy \/ h = <<>>
  PROVE  LET logged == IF action = "INSERT" /\ copy THEN "DRAFT_CREATED" ELSE action IN
         Repeats(LogChange(log, logged, u, status, overridable),
                 WriteHistory(h, i, v, row, action, u), copy)
<1> DEFINE logged == IF action = "INSERT" /\ copy THEN "DRAFT_CREATED" ELSE action
           new == LogChange(log, logged, u, status, overridable)
           g == WriteHistory(h, i, v, row, action, u)
           n == Len(log)
<1>1. logged \in AuditAction /\ logged # "VALIDATION_OVERRIDE" /\ n \in Nat /\ Len(h) \in Nat
  BY DEF AuditAction, ChangeAction
<1>2. /\ Len(new) \in Nat
      /\ \A k \in 1..n : new[k] = log[k]
      /\ new[n + 1] = [action |-> logged, by |-> u]
      /\ \A k \in 0..n : Changes(new, k) = Changes(log, k)
      /\ n + 1 \notin Changes(log, n)
      /\ Changes(new, n + 1) = Changes(log, n) \cup {n + 1}
      /\ Changes(new, Len(new)) = Changes(log, n) \cup {n + 1}
  <2> HIDE DEF logged
  <2> QED
    BY <1>1, LogChangeShape
<1>3. /\ Len(g) = Len(h) + 1
      /\ g[Len(h) + 1] = Snapshot(row, v, action, u)
      /\ \A j \in 1..Len(h) : g[j].action = h[j].action /\ g[j].by = h[j].by
  BY WriteHistoryShape
<1> HIDE DEF new, g, logged
<1>4. Cardinality(Changes(log, n)) = Len(h)
  BY DEF Repeats
<1>5. Cardinality(Changes(new, n + 1)) = Len(h) + 1
  BY <1>1, <1>2, <1>4, ChangesFinite, FS_AddElement
<1>6. ASSUME NEW k \in Changes(new, Len(new))
      PROVE  LET e == g[Cardinality(Changes(new, k))] IN
             /\ new[k].by = e.by
             /\ new[k].action =
                  IF e.action = "INSERT" /\ copy THEN "DRAFT_CREATED" ELSE e.action
  <2>1. CASE k = n + 1
    <3>1. /\ g[Len(h) + 1].by = u /\ g[Len(h) + 1].action = action
          /\ new[k].by = u /\ new[k].action = logged
      BY <1>2, <1>3, <2>1 DEF Snapshot
    <3> QED
      BY <1>5, <2>1, <3>1 DEF logged
  <2>2. CASE k # n + 1
    <3>1. k \in Changes(log, n)
      BY <1>2, <2>2
    <3>2. k \in 1..n
      BY <3>1 DEF Changes
    <3>3. Cardinality(Changes(log, k)) \in 1..Len(h)
      BY <1>1, <1>4, <3>1, ChangesCount
    <3>4. was = copy
      BY <1>1, <3>3
    <3>5. /\ log[k].by = h[Cardinality(Changes(log, k))].by
          /\ log[k].action = IF h[Cardinality(Changes(log, k))].action = "INSERT" /\ was
                             THEN "DRAFT_CREATED" ELSE h[Cardinality(Changes(log, k))].action
      BY <3>1 DEF Repeats
    <3>6. Changes(new, k) = Changes(log, k) /\ new[k] = log[k]
      BY <1>1, <1>2, <3>2
    <3> HIDE <1>6
    <3> QED
      BY <1>3, <3>3, <3>4, <3>5, <3>6
  <2> QED
    BY <2>1, <2>2
<1> QED
  BY <1>2, <1>3, <1>4, <1>5, <1>6 DEF Repeats, new, g, logged

-----------------------------------------------------------------------------
(* The webhook events of one record *)

\* What EventsFollowLifecycle asks of a record in a state with the events e.
Follows(e, state, imported) ==
  /\ ~imported => (e # <<>>) = (state \in {"active", "retired"})
  /\ \A i \in 1..Len(e) :
       /\ (e[i] = "record.created") = (i = 1 /\ ~imported)
       /\ e[i] = "record.retired" => i = Len(e) /\ state = "retired"

\* What a request announces when a record goes from one state to the next.
EventOf(from, to, action) ==
  IF to = "active" /\ from # "active" THEN <<"record.created">>
  ELSE IF to = "active" /\ action = "PUBLISH" THEN <<"record.published">>
  ELSE IF to = "retired" /\ from # "retired" THEN <<"record.retired">>
  ELSE <<>>

LEMMA EventOfType == \A from, to, action : EventOf(from, to, action) \in Seq(Event)
<1>1. SUFFICES ASSUME NEW from, NEW to, NEW action PROVE EventOf(from, to, action) \in Seq(Event)
  OBVIOUS
<1>2. /\ <<"record.created">> \in Seq(Event) /\ <<"record.published">> \in Seq(Event)
      /\ <<"record.retired">> \in Seq(Event) /\ <<>> \in Seq(Event)
  BY DEF Event
<1>3. EventOf(from, to, action) \in
        {<<"record.created">>, <<"record.published">>, <<"record.retired">>, <<>>}
  BY Zenon DEF EventOf
<1> QED
  BY <1>2, <1>3, Zenon

\* The events stay in step with the states, along the paths a record can take.
LEMMA FollowsStep ==
  ASSUME NEW e \in Seq(Event), NEW from, NEW to, NEW action, NEW imported,
         Follows(e, from, imported), imported => from \in {"active", "retired"},
         \/ to = from
         \/ from = "absent" /\ to = "draft"
         \/ from \in {"absent", "draft"} /\ to = "active"
         \/ from = "active" /\ to = "retired"
  PROVE  /\ e \o EventOf(from, to, action) \in Seq(Event)
         /\ Follows(e \o EventOf(from, to, action), to, imported)
<1>1. Len(e) \in Nat /\ (e # <<>> <=> Len(e) > 0)
  OBVIOUS
<1>2. CASE EventOf(from, to, action) = <<>>
  <2>1. e \o <<>> = e
    OBVIOUS
  <2>2. to = from \/ (from = "absent" /\ to = "draft")
    BY <1>2 DEF EventOf
  <2> QED
    BY <1>2, <2>1, <2>2 DEF Follows
<1>3. ASSUME NEW w \in Event, EventOf(from, to, action) = <<w>>
      PROVE  /\ e \o <<w>> \in Seq(Event)
             /\ Follows(e \o <<w>>, to, imported)
  <2> DEFINE f == e \o <<w>>
  <2>1. /\ f \in Seq(Event) /\ Len(f) = Len(e) + 1 /\ f[Len(e) + 1] = w
        /\ \A i \in 1..Len(e) : f[i] = e[i]
    OBVIOUS
  <2>2. f # <<>>
    BY <1>1, <2>1
  <2> HIDE DEF f
  <2>3. to \in {"active", "retired"}
    BY <1>3 DEF EventOf
  <2>4. w = "record.created" <=> Len(e) = 0 /\ ~imported
    <3>1. CASE to = "active" /\ from # "active"
      BY <1>1, <1>3, <3>1 DEF EventOf, Follows
    <3>2. CASE ~(to = "active" /\ from # "active")
      BY <1>1, <1>3, <3>2 DEF EventOf, Follows
    <3> QED
      BY <3>1, <3>2
  <2>5. w = "record.retired" => to = "retired"
    BY <1>3 DEF EventOf
  <2>6. \A i \in 1..Len(e) : e[i] # "record.retired"
    BY <1>3 DEF EventOf, Follows
  <2>7. ASSUME NEW i \in 1..Len(f)
        PROVE  /\ (f[i] = "record.created") = (i = 1 /\ ~imported)
               /\ f[i] = "record.retired" => i = Len(f) /\ to = "retired"
    <3>1. CASE i = Len(e) + 1
      BY <1>1, <2>1, <2>4, <2>5, <3>1
    <3>2. CASE i # Len(e) + 1
      <4>1. i \in 1..Len(e) /\ f[i] = e[i]
        BY <1>1, <2>1, <3>2
      <4>2. (e[i] = "record.created") = (i = 1 /\ ~imported)
        BY <4>1 DEF Follows
      <4> QED
        BY <2>6, <4>1, <4>2
    <3> QED
      BY <3>1, <3>2
  <2> QED
    BY <2>1, <2>2, <2>3, <2>7 DEF Follows, f
<1>4. \/ EventOf(from, to, action) = <<>>
      \/ \E w \in Event : EventOf(from, to, action) = <<w>>
  BY DEF EventOf, Event
<1> QED
  <2>1. CASE EventOf(from, to, action) = <<>>
    <3>1. e \o <<>> = e
      OBVIOUS
    <3> QED
      BY <1>2, <2>1, <3>1
  <2>2. CASE \E w \in Event : EventOf(from, to, action) = <<w>>
    BY <1>3, <2>2
  <2> QED
    BY <1>4, <2>1, <2>2
=============================================================================
