---------------------------- MODULE FeedsProofs ----------------------------
(***************************************************************************)
(* Proofs about Feeds: what the record API keeps, imports and pushes keep  *)
(* too, for any files, keys, sources, bodies and records, and with any     *)
(* number of changes.                                                      *)
(*                                                                         *)
(* A feed changes the tables row by row inside its transaction, so the     *)
(* invariant of RecordsProofs is restated here of the tables s a step of a *)
(* transaction finds (StoreOK), record by record where it can be           *)
(* (RecordOK). Each operator of Feeds keeps it; a file keeps it by         *)
(* induction over its rows.                                                *)
(***************************************************************************)
EXTENDS Feeds, PromiseProofs

-----------------------------------------------------------------------------
(* One record and what a feed writes over it *)

FirstGolden(h) == RequiresDraft /\ h # <<>> /\ h[1].state = "active"

ApprovedIn(h) ==
  \E i \in 1..Len(h) :
    /\ h[i].by \in Publisher
    /\ \/ i > 1 /\ h[i].action = "PUBLISH"
       \/ i = 1 /\ h[i].state = "active"

Numbered(h) == \A i \in 1..Len(h) : h[i].version = i /\ (h[i].open => i = Len(h))

Tells(h, row) ==
  LET e == h[Len(h)] IN
  /\ h # <<>>
  /\ e.state = row.state /\ e.data = row.data /\ e.status = row.status
  /\ ~row.deleted => e.open
  /\ e.open /\ row.deleted => row.state = "draft" /\ row.draftOf # NoRecord

Filled(row) == \A c \in RequiredColumn : row.data[c] # Null

\* The events of a record follow its life, but for the announcement of a record
\* that a publisher imported as active.
Announces(e, row, h) ==
  \E imported \in BOOLEAN :
    /\ Follows(e, row.state, imported)
    /\ imported => /\ row.state \in {"active", "retired"}
                   /\ h # <<>> /\ h[1].state = "active" /\ h[1].by \in Publisher
    /\ RequiresDraft => imported = FirstGolden(h)

\* The parts of the invariant that are about one record: its row, its history,
\* its audit log and its events.
RecordOK(row, h, log, e) ==
  /\ row \in Row /\ h \in Seq(Version) /\ log \in Seq(AuditEntry)
  /\ row.state = "absent" => row = Absent /\ h = <<>>
  /\ Numbered(h)
  /\ row.state # "absent" => Tells(h, row) /\ Filled(row)
  /\ row.status = Status(row.data)
  /\ RequiresDraft /\ row.state \in {"active", "retired"} => ApprovedIn(h)
  /\ Repeats(log, h, row.draftOf # NoRecord)
  /\ FirstGolden(h) => row.state \in {"active", "retired"}
  /\ Announces(e, row, h)

\* What a feed may write over the row c: a new draft, with the consent of a
\* publisher (trusted) a new golden record, or other data in a live record.
FeedWrites(c, row, action, trusted) ==
  /\ row \in Row /\ row.deleted = FALSE /\ row.status = Status(row.data)
  /\ \/ /\ c.state = "absent" /\ action = "INSERT"
        /\ row.state = "draft" \/ (row.state = "active" /\ row.draftOf = NoRecord /\ trusted)
     \/ /\ c.state # "absent" /\ c.deleted = FALSE /\ action = "UPDATE"
        /\ row.state = c.state /\ row.draftOf = c.draftOf

\* The version a feed adds to the history of a record.
LEMMA FeedVersion ==
  ASSUME NEW c, NEW h, NEW log, NEW e, RecordOK(c, h, log, e),
         NEW row, NEW action, NEW trusted, FeedWrites(c, row, action, trusted),
         NEW u \in Actor, NEW i \in FirstOpen(h)
  PROVE  LET g == WriteHistory(h, i, VersionAt(h, i) + 1, row, action, u) IN
         /\ i \in 0..Len(h) /\ VersionAt(h, i) + 1 = Len(h) + 1
         /\ g \in Seq(Version) /\ Len(g) = Len(h) + 1
         /\ g[Len(h) + 1] = Snapshot(row, Len(h) + 1, action, u)
         /\ \A j \in 1..Len(h) :
              /\ g[j].version = j /\ ~g[j].open
              /\ g[j].action = h[j].action /\ g[j].by = h[j].by /\ g[j].state = h[j].state
              /\ g[j].data = h[j].data
<1>1. h \in Seq(Version) /\ Len(h) \in Nat
  BY DEF RecordOK
<1>2. \A j \in 1..Len(h) : h[j].version = j /\ (h[j].open => j = Len(h))
  BY DEF RecordOK, Numbered
<1>3. OpenRows(h) \subseteq {Len(h)}
  BY <1>2 DEF OpenRows
<1>4. i = Len(h) /\ \A j \in 1..Len(h) : h[j].open => j = i
  <2>1. CASE c.state = "absent"
    <3>1. h = <<>>
      BY <2>1 DEF RecordOK
    <3> QED
      BY <3>1 DEF FirstOpen, OpenRows
  <2>2. CASE c.state # "absent"
    <3>1. h # <<>> /\ h[Len(h)].open
      BY <2>2 DEF RecordOK, Tells, FeedWrites
    <3>2. Len(h) \in OpenRows(h)
      BY <1>1, <3>1 DEF OpenRows
    <3> QED
      BY <1>1, <1>2, <1>3, <3>2 DEF FirstOpen
  <2> QED
    BY <2>1, <2>2
<1>5. VersionAt(h, i) = Len(h)
  BY <1>1, <1>2, <1>4 DEF VersionAt
<1>6. row \in Row /\ action \in ChangeAction
  BY DEF FeedWrites, ChangeAction
<1>7. LET g == WriteHistory(h, i, Len(h) + 1, row, action, u) IN
      /\ g \in Seq(Version) /\ Len(g) = Len(h) + 1
      /\ g[Len(h) + 1] = Snapshot(row, Len(h) + 1, action, u)
      /\ \A j \in 1..Len(h) :
           /\ g[j].version = h[j].version /\ g[j].action = h[j].action
           /\ g[j].by = h[j].by /\ g[j].state = h[j].state /\ g[j].data = h[j].data
           /\ g[j].open = (h[j].open /\ j # i)
  <2>1. i \in 0..Len(h) /\ Len(h) + 1 \in Nat
    BY <1>1, <1>4
  <2> QED
    BY <1>1, <1>6, <2>1, WriteHistoryShape
<1> DEFINE g == WriteHistory(h, i, Len(h) + 1, row, action, u)
<1> HIDE DEF g
<1>8. \A j \in 1..Len(h) :
        /\ g[j].version = j /\ ~g[j].open
        /\ g[j].action = h[j].action /\ g[j].by = h[j].by /\ g[j].state = h[j].state
        /\ g[j].data = h[j].data
  BY <1>2, <1>4, <1>7 DEF g
<1> QED
  BY <1>1, <1>4, <1>5, <1>7, <1>8 DEF g

\* A record that a feed writes to is as sound as before.
LEMMA FeedKeepsRecord ==
  ASSUME NEW c, NEW h, NEW log, NEW e, RecordOK(c, h, log, e), e \in Seq(Event),
         NEW row, NEW action, NEW trusted, FeedWrites(c, row, action, trusted),
         Filled(row), NEW u \in Actor, trusted => u \in Publisher, NEW i \in FirstOpen(h)
  PROVE  RecordOK(row, WriteHistory(h, i, VersionAt(h, i) + 1, row, action, u),
                  LogChange(log, Logged(row, action), u, row.status, FALSE), e)
<1> DEFINE g == WriteHistory(h, i, VersionAt(h, i) + 1, row, action, u)
           logged == Logged(row, action)
           new == LogChange(log, logged, u, row.status, FALSE)
           n == Len(h)
<1>1. /\ i \in 0..n /\ VersionAt(h, i) + 1 = n + 1
      /\ g \in Seq(Version) /\ Len(g) = n + 1
      /\ g[n + 1] = Snapshot(row, n + 1, action, u)
      /\ \A j \in 1..n :
           /\ g[j].version = j /\ ~g[j].open
           /\ g[j].action = h[j].action /\ g[j].by = h[j].by /\ g[j].state = h[j].state
  BY FeedVersion
<1>2. /\ g[n + 1].version = n + 1 /\ g[n + 1].action = action /\ g[n + 1].by = u
      /\ g[n + 1].state = row.state /\ g[n + 1].data = row.data
      /\ g[n + 1].status = row.status /\ g[n + 1].open = (action # "DELETE")
  BY <1>1 DEF Snapshot
<1>3. /\ h \in Seq(Version) /\ log \in Seq(AuditEntry) /\ n \in Nat /\ (h = <<>> <=> n = 0)
      /\ row \in Row /\ c \in Row /\ action \in ChangeAction /\ action # "DELETE"
      /\ g # <<>> /\ row.state \in {"draft", "active", "retired"}
  <2>1. h \in Seq(Version) /\ log \in Seq(AuditEntry) /\ row \in Row /\ c \in Row
    BY DEF RecordOK, FeedWrites
  <2>2. action \in ChangeAction /\ action # "DELETE"
    BY DEF FeedWrites, ChangeAction
  <2>3. n \in Nat /\ (h = <<>> <=> n = 0)
    BY <2>1
  <2>4. g # <<>>
    BY <1>1, <2>3
  <2>5. row.state \in {"draft", "active", "retired"}
    BY <2>1 DEF FeedWrites, Row, State
  <2> QED
    BY <2>1, <2>2, <2>3, <2>4, <2>5
<1>4. new \in Seq(AuditEntry) /\ Repeats(new, g, row.draftOf # NoRecord)
  <2> DEFINE was == c.draftOf # NoRecord
             copy == row.draftOf # NoRecord
  <2>1. Repeats(log, h, was)
    BY DEF RecordOK
  <2>2. was = copy \/ h = <<>>
    BY DEF RecordOK, FeedWrites
  <2>3. logged = IF action = "INSERT" /\ copy THEN "DRAFT_CREATED" ELSE action
    BY DEF Logged
  <2>4. logged \in AuditAction
    BY <1>3 DEF Logged, AuditAction
  <2>5. new \in Seq(AuditEntry)
    BY <1>3, <2>4, LogChangeType
  <2>v. VersionAt(h, i) + 1 \in Nat
    BY <1>1, <1>3
  <2> HIDE DEF was, copy, logged
  <2>6. Repeats(new, g, copy)
    BY <1>1, <1>3, <2>1, <2>2, <2>3, <2>v, RepeatsStep
  <2> QED
    BY <2>5, <2>6 DEF copy
<1> HIDE DEF g, new
<1>5. Numbered(g)
  <2>1. SUFFICES ASSUME NEW j \in 1..Len(g)
                 PROVE  g[j].version = j /\ (g[j].open => j = Len(g))
    BY DEF Numbered
  <2>2. j \in 1..n \/ j = n + 1
    BY <1>1, <1>3
  <2> QED
    BY <1>1, <1>2, <2>2
<1>6. Tells(g, row)
  BY <1>1, <1>2, <1>3 DEF Tells, FeedWrites
<1>7. row.status = Status(row.data) /\ row.state # "absent"
  BY <1>3 DEF FeedWrites
<1>8. FirstGolden(g) = IF c.state = "absent" THEN RequiresDraft /\ row.state = "active"
                       ELSE FirstGolden(h)
  <2>1. CASE c.state = "absent"
    <3>1. n = 0
      BY <1>3, <2>1 DEF RecordOK
    <3> QED
      BY <1>2, <1>3, <2>1, <3>1 DEF FirstGolden
  <2>2. CASE c.state # "absent"
    <3>1. n > 0
      BY <1>3, <2>2 DEF RecordOK, Tells
    <3>2. g[1].state = h[1].state
      BY <1>1, <1>3, <3>1
    <3> QED
      BY <1>3, <2>2, <3>1, <3>2 DEF FirstGolden
  <2> QED
    BY <2>1, <2>2
<1>9. ASSUME RequiresDraft, row.state \in {"active", "retired"}
      PROVE  ApprovedIn(g)
  <2>1. CASE c.state = "absent"
    <3>1. n = 0 /\ trusted /\ row.state = "active"
      BY <1>3, <1>9, <2>1 DEF RecordOK, FeedWrites
    <3> QED
      BY <1>1, <1>2, <3>1 DEF ApprovedIn
  <2>2. CASE c.state # "absent"
    <3>1. ApprovedIn(h)
      BY <1>9, <2>2 DEF RecordOK, FeedWrites
    <3>2. PICK j \in 1..n : /\ h[j].by \in Publisher
                            /\ \/ j > 1 /\ h[j].action = "PUBLISH"
                               \/ j = 1 /\ h[j].state = "active"
      BY <3>1 DEF ApprovedIn
    <3>3. j \in 1..Len(g)
      BY <1>1, <1>3
    <3> QED
      BY <1>1, <3>2, <3>3 DEF ApprovedIn
  <2> QED
    BY <2>1, <2>2
<1>10. FirstGolden(g) => row.state \in {"active", "retired"}
  BY <1>8 DEF RecordOK, FeedWrites
<1>11. Announces(e, row, g)
  <2>1. PICK old \in BOOLEAN :
          /\ Follows(e, c.state, old)
          /\ old => /\ c.state \in {"active", "retired"}
                    /\ h # <<>> /\ h[1].state = "active" /\ h[1].by \in Publisher
          /\ RequiresDraft => old = FirstGolden(h)
    BY DEF RecordOK, Announces
  <2>2. CASE c.state = "absent"
    <3>1. e = <<>> /\ Len(e) = 0
      BY <2>1, <2>2 DEF Follows
    <3>2. n = 0 /\ (row.state = "draft" \/ (row.state = "active" /\ u \in Publisher))
      BY <1>3, <2>2 DEF RecordOK, FeedWrites
    <3> DEFINE imported == row.state = "active"
    <3>3. Follows(e, row.state, imported)
      BY <3>1, <3>2 DEF Follows
    <3>4. imported => h = <<>> /\ g[1].state = "active" /\ g[1].by \in Publisher
      BY <1>2, <1>3, <3>2
    <3>5. RequiresDraft => imported = FirstGolden(g)
      BY <1>8, <2>2
    <3>6. imported \in BOOLEAN /\ (imported => row.state \in {"active", "retired"})
      OBVIOUS
    <3> HIDE DEF imported
    <3> QED
      BY <1>3, <3>3, <3>4, <3>5, <3>6 DEF Announces
  <2>3. CASE c.state # "absent"
    <3>1. row.state = c.state
      BY <2>3 DEF FeedWrites
    <3>2. old => g[1].state = "active" /\ g[1].by \in Publisher
      <4>1. h # <<>> => 1 \in 1..n
        BY <1>3
      <4> QED
        BY <1>1, <2>1, <4>1
    <3>3. RequiresDraft => old = FirstGolden(g)
      BY <1>8, <2>1, <2>3
    <3> QED
      BY <1>3, <2>1, <3>1, <3>2, <3>3 DEF Announces
  <2> QED
    BY <2>2, <2>3
<1>12. RecordOK(row, g, new, e)
  BY <1>1, <1>3, <1>4, <1>5, <1>6, <1>7, <1>9, <1>10, <1>11 DEF RecordOK
<1> QED
  BY <1>12 DEF g, new

-----------------------------------------------------------------------------
(* The tables inside a transaction *)

MasterState == {"active", "retired"}

DraftIn(s, d, m) == s.rows[d].state = "draft" /\ ~s.rows[d].deleted /\ s.rows[d].draftOf = m

RevertedIn(s, d) == \E i \in 1..Len(s.history[d]) : s.history[d][i].action = "REVERT"

\* The store is one, with its columns.
Tables(s) ==
  /\ s = [rows |-> s.rows, history |-> s.history, audit |-> s.audit, source |-> s.source,
          ok |-> s.ok]
  /\ s.rows = [x \in RecordId |-> s.rows[x]]
  /\ s.history = [x \in RecordId |-> s.history[x]]
  /\ s.audit = [x \in RecordId |-> s.audit[x]]
  /\ s.source \in [RecordId -> Identity]

DraftsHaveMastersIn(s) ==
  \A d \in RecordId : s.rows[d].draftOf # NoRecord =>
    s.rows[d].state = "draft" /\ s.rows[s.rows[d].draftOf].state \in MasterState

KeysApartIn(s) ==
  \A x, y \in RecordId : Indexed(s.rows[x]) /\ Indexed(s.rows[y]) /\ x # y =>
    ~SameKey(s.rows[x], s.rows[y])

RivalsIn(s) ==
  \A m \in RecordId : \A d, e \in RecordId :
    DraftIn(s, d, m) /\ DraftIn(s, e, m) /\ d # e => RevertedIn(s, d) \/ RevertedIn(s, e)

\* Sources. KnownAs: the lookup by source and id can find x under that origin.
TrackedId(origin) == origin.id # Null /\ origin.system \in Tracked

KnownAs(s, x, origin) ==
  s.rows[x].state \in {"draft", "active"} /\ ~s.rows[x].deleted /\ s.source[x] = origin

OwnerOf(row, x) == IF row.draftOf = NoRecord THEN x ELSE row.draftOf

BroughtBackIn(s, m) == \E z \in RecordId : OwnerOf(s.rows[z], z) = m /\ RevertedIn(s, z)

SameOwner(s, m, o) == m = o \/ BroughtBackIn(s, m) \/ BroughtBackIn(s, o)

SourcesIn(s) ==
  /\ \A x \in RecordId : s.rows[x].state = "absent" => s.source[x] = NoSource
  /\ \A origin \in Identity : TrackedId(origin) =>
       \A x, y \in RecordId : KnownAs(s, x, origin) /\ KnownAs(s, y, origin) =>
         SameOwner(s, OwnerOf(s.rows[x], x), OwnerOf(s.rows[y], y))

\* The new version row of record r may be known as origin: whoever is known so
\* already has the same owner.
Fits(s, r, row, origin) ==
  TrackedId(origin) /\ row.state \in {"draft", "active"} =>
    \A x \in RecordId \ {r} : KnownAs(s, x, origin) =>
      SameOwner(s, OwnerOf(s.rows[x], x), OwnerOf(row, r))

StoreOK(s) ==
  /\ Tables(s)
  /\ \A x \in RecordId : events[x] \in Seq(Event)
  /\ \A x \in RecordId : RecordOK(s.rows[x], s.history[x], s.audit[x], events[x])
  /\ DraftsHaveMastersIn(s)
  /\ KeysApartIn(s)
  /\ RivalsIn(s)
  /\ SourcesIn(s)

\* From s to t, each record is as it was, or has a new version by u and has
\* moved forward: it is live, as it was if it was there before, and its earlier
\* versions keep their data. Only a trusted u changes what is or was golden;
\* another can do no more to it than leave its own name as the source (a claim).
MovesRecord(s, t, x, u, trusted) ==
  /\ Len(t.history[x]) > Len(s.history[x])
  /\ t.history[x][Len(t.history[x])].by = u
  /\ \A i \in 1..Len(s.history[x]) : t.history[x][i].data = s.history[x][i].data
  /\ t.rows[x].state # "absent" /\ ~t.rows[x].deleted
  /\ s.rows[x].state # "absent" =>
       ~s.rows[x].deleted /\ t.rows[x].draftOf = s.rows[x].draftOf
  /\ \/ t.rows[x].state = s.rows[x].state
     \/ s.rows[x].state = "absent" /\ t.rows[x].state \in {"draft", "active"}
  /\ s.rows[x].state \in MasterState /\ ~trusted =>
       t.rows[x] = s.rows[x] /\ t.source[x].system = u

KeepsRecord(s, t, x) ==
  /\ t.rows[x] = s.rows[x] /\ t.history[x] = s.history[x] /\ t.source[x] = s.source[x]

Moves(s, t, u, trusted) ==
  \A x \in RecordId : KeepsRecord(s, t, x) \/ MovesRecord(s, t, x, u, trusted)

\* Row after row of one feed is one move.
LEMMA MovesCompose ==
  ASSUME NEW s, NEW t, NEW w, NEW u, NEW trusted, StoreOK(s), StoreOK(t), StoreOK(w),
         Moves(s, t, u, trusted), Moves(t, w, u, trusted)
  PROVE  Moves(s, w, u, trusted)
<1>1. SUFFICES ASSUME NEW x \in RecordId, ~KeepsRecord(s, w, x)
               PROVE  MovesRecord(s, w, x, u, trusted)
  BY DEF Moves
<1>2. /\ Len(s.history[x]) \in Nat /\ Len(t.history[x]) \in Nat /\ Len(w.history[x]) \in Nat
  BY DEF StoreOK, RecordOK
<1>3. CASE KeepsRecord(s, t, x)
  <2>1. MovesRecord(t, w, x, u, trusted)
    BY <1>1, <1>3 DEF Moves, KeepsRecord
  <2> QED
    BY <1>3, <2>1 DEF MovesRecord, KeepsRecord
<1>4. CASE KeepsRecord(t, w, x)
  <2>1. MovesRecord(s, t, x, u, trusted)
    BY <1>1, <1>4 DEF Moves, KeepsRecord
  <2> QED
    BY <1>4, <2>1 DEF MovesRecord, KeepsRecord
<1>5. CASE MovesRecord(s, t, x, u, trusted) /\ MovesRecord(t, w, x, u, trusted)
  <2>1. Len(w.history[x]) > Len(s.history[x])
    BY <1>2, <1>5 DEF MovesRecord
  <2>2. \A i \in 1..Len(s.history[x]) : w.history[x][i].data = s.history[x][i].data
    BY <1>2, <1>5 DEF MovesRecord
  <2> QED
    BY <1>5, <2>1, <2>2 DEF MovesRecord
<1> QED
  BY <1>3, <1>4, <1>5 DEF Moves

\* A row that fails leaves the tables as they are; only ok changes.
LEMMA FlagKeepsStore ==
  ASSUME NEW s, StoreOK(s), NEW flag, NEW u, NEW trusted
  PROVE  LET t == [s EXCEPT !.ok = flag] IN StoreOK(t) /\ Moves(s, t, u, trusted)
<1> DEFINE t == [s EXCEPT !.ok = flag]
<1>1. t = [rows |-> s.rows, history |-> s.history, audit |-> s.audit, source |-> s.source,
           ok |-> flag]
  BY DEF StoreOK, Tables
<1>2. /\ t.rows = s.rows /\ t.history = s.history /\ t.audit = s.audit /\ t.source = s.source
      /\ t = [rows |-> t.rows, history |-> t.history, audit |-> t.audit, source |-> t.source,
              ok |-> t.ok]
  BY <1>1
<1> HIDE DEF t
<1>3. Tables(t)
  BY <1>2 DEF StoreOK, Tables
<1>4. DraftsHaveMastersIn(t) /\ KeysApartIn(t) /\ RivalsIn(t)
  BY <1>2 DEF StoreOK, DraftsHaveMastersIn, KeysApartIn, RivalsIn, DraftIn, RevertedIn
<1>s. SourcesIn(t)
  BY <1>2 DEF StoreOK, SourcesIn, KnownAs, SameOwner, BroughtBackIn, RevertedIn
<1>5. StoreOK(t)
  BY <1>2, <1>3, <1>4, <1>s DEF StoreOK
<1>6. Moves(s, t, u, trusted)
  BY <1>2 DEF Moves, KeepsRecord
<1> QED
  BY <1>5, <1>6 DEF t

\* A row that the constraints accept is written, with its source.
LEMMA AcceptedChange ==
  ASSUME NEW s, StoreOK(s), NEW r \in RecordId, NEW row, NEW origin, NEW action, NEW logged,
         NEW u, Accepts(s.rows, r, row), NEW t \in Change(s, r, row, origin, action, logged, u)
  PROVE  /\ t.ok
         /\ t.rows[r] = row /\ t.source[r] = origin
         /\ \A x \in RecordId \ {r} : t.rows[x] = s.rows[x]
<1>1. PICK i \in FirstOpen(s.history[r]) :
        t = [rows |-> [s.rows EXCEPT ![r] = row],
             history |-> [s.history EXCEPT
               ![r] = WriteHistory(@, i, VersionAt(@, i) + 1, row, action, u)],
             audit |-> [s.audit EXCEPT ![r] = LogChange(@, logged, u, row.status, FALSE)],
             source |-> [s.source EXCEPT ![r] = origin], ok |-> TRUE]
  BY Zenon DEF Change
<1>2. /\ t.ok /\ t.rows = [s.rows EXCEPT ![r] = row]
      /\ t.source = [s.source EXCEPT ![r] = origin]
  BY <1>1
<1>3. s.source \in [RecordId -> Identity] /\ s.rows = [x \in RecordId |-> s.rows[x]]
  BY DEF StoreOK, Tables
<1> QED
  BY <1>2, <1>3

\* A new version of one record, with its audit entry, keeps the store and is a
\* move of u.
LEMMA ChangeKeepsStore ==
  ASSUME NEW s, StoreOK(s), NEW r \in RecordId, NEW row, NEW origin \in Identity, NEW action,
         NEW u \in Actor, NEW trusted, trusted => u \in Publisher,
         FeedWrites(s.rows[r], row, action, trusted),
         s.rows[r].state \in MasterState /\ ~trusted => row = s.rows[r] /\ origin.system = u,
         \/ row.draftOf = s.rows[r].draftOf
         \/ /\ s.rows[r].state = "absent" /\ row.state = "draft"
            /\ row.draftOf \in RecordId /\ s.rows[row.draftOf].state = "active"
            /\ \A d \in RecordId : ~DraftIn(s, d, row.draftOf),
         Fits(s, r, row, origin),
         NEW t \in Change(s, r, row, origin, action, Logged(row, action), u)
  PROVE  /\ StoreOK(t) /\ Moves(s, t, u, trusted)
         /\ row = s.rows[r] => \A x \in RecordId : t.rows[x] = s.rows[x]
<1>1. CASE ~Accepts(s.rows, r, row)
  <2>1. t = [s EXCEPT !.ok = FALSE]
    BY <1>1, Zenon DEF Change, Failed
  <2>2. t.rows = s.rows
    BY <2>1 DEF StoreOK, Tables
  <2> QED
    BY <2>1, <2>2, FlagKeepsStore
<1>2. CASE Accepts(s.rows, r, row)
  <2>1. PICK i \in FirstOpen(s.history[r]) :
          t = [rows |-> [s.rows EXCEPT ![r] = row],
               history |-> [s.history EXCEPT
                 ![r] = WriteHistory(@, i, VersionAt(@, i) + 1, row, action, u)],
               audit |-> [s.audit EXCEPT
                 ![r] = LogChange(@, Logged(row, action), u, row.status, FALSE)],
               source |-> [s.source EXCEPT ![r] = origin], ok |-> TRUE]
    BY <1>2, Zenon DEF Change
  <2> DEFINE c == s.rows[r]
             h == s.history[r]
             g == WriteHistory(h, i, VersionAt(h, i) + 1, row, action, u)
             log == s.audit[r]
             e == events[r]
             new == LogChange(log, Logged(row, action), u, row.status, FALSE)
  <2>2. /\ RecordOK(row, g, new, events[r]) /\ Len(g) > Len(h) /\ g[Len(g)].by = u
        /\ \A j \in 1..Len(h) : g[j].action = h[j].action /\ g[j].data = h[j].data
        /\ Len(g) = Len(h) + 1 /\ Len(h) \in Nat
    <3>1. /\ RecordOK(c, h, log, e) /\ e \in Seq(Event) /\ Len(h) \in Nat
          /\ FeedWrites(c, row, action, trusted) /\ i \in FirstOpen(h)
      BY DEF StoreOK, RecordOK
    <3>f. Filled(row)
      BY <1>2 DEF Accepts, Filled
    <3> HIDE DEF c, h, log, e
    <3>2. RecordOK(row, g, new, e)
      BY <3>1, <3>f, FeedKeepsRecord
    <3>v. g[Len(h) + 1] = Snapshot(row, Len(h) + 1, action, u)
      BY <3>1, FeedVersion
    <3>3. /\ Len(g) = Len(h) + 1
          /\ \A j \in 1..Len(h) : g[j].action = h[j].action /\ g[j].data = h[j].data
      BY <3>1, FeedVersion
    <3> HIDE DEF g, new
    <3> QED
      BY <3>1, <3>2, <3>v, <3>3 DEF e, Snapshot
  <2>3. t = [rows |-> [s.rows EXCEPT ![r] = row], history |-> [s.history EXCEPT ![r] = g],
             audit |-> [s.audit EXCEPT ![r] = new],
             source |-> [s.source EXCEPT ![r] = origin], ok |-> TRUE]
    BY <2>1
  <2> HIDE DEF g, new
  <2>4. /\ t = [rows |-> t.rows, history |-> t.history, audit |-> t.audit, source |-> t.source,
                ok |-> t.ok]
        /\ t.rows = [s.rows EXCEPT ![r] = row] /\ t.history = [s.history EXCEPT ![r] = g]
        /\ t.audit = [s.audit EXCEPT ![r] = new] /\ t.source = [s.source EXCEPT ![r] = origin]
    BY <2>3
  <2>5. /\ s.rows = [x \in RecordId |-> s.rows[x]]
        /\ s.history = [x \in RecordId |-> s.history[x]]
        /\ s.audit = [x \in RecordId |-> s.audit[x]]
        /\ s.source \in [RecordId -> Identity]
    BY DEF StoreOK, Tables
  <2>6. Tables(t)
    BY <2>4, <2>5 DEF Tables
  <2>7. /\ t.rows[r] = row /\ t.history[r] = g /\ t.audit[r] = new /\ t.source[r] = origin
        /\ \A x \in RecordId \ {r} :
             /\ t.rows[x] = s.rows[x] /\ t.history[x] = s.history[x]
             /\ t.audit[x] = s.audit[x] /\ t.source[x] = s.source[x]
    BY <2>4, <2>5
  <2>8. /\ \A x \in RecordId : RecordOK(s.rows[x], s.history[x], s.audit[x], events[x])
        /\ DraftsHaveMastersIn(s) /\ KeysApartIn(s) /\ RivalsIn(s)
        /\ \A x \in RecordId : s.rows[x] \in Row
    BY DEF StoreOK, RecordOK
  <2>9. \A x \in RecordId : RecordOK(t.rows[x], t.history[x], t.audit[x], events[x])
    BY <2>2, <2>7, <2>8
  <2> HIDE DEF c, h
  <2>10. DraftsHaveMastersIn(t)
    <3>1. \A x \in RecordId : s.rows[x].state \in MasterState => t.rows[x].state \in MasterState
      BY <2>7 DEF FeedWrites, MasterState
    <3>2. SUFFICES ASSUME NEW d \in RecordId, t.rows[d].draftOf # NoRecord
                   PROVE  /\ t.rows[d].state = "draft"
                          /\ t.rows[t.rows[d].draftOf].state \in MasterState
      BY DEF DraftsHaveMastersIn
    <3>3. \A x \in RecordId : s.rows[x].draftOf \in RecordId \cup {NoRecord}
      BY <2>8 DEF Row
    <3>4. CASE t.rows[d].draftOf = s.rows[d].draftOf
      <4>1. /\ s.rows[d].state = "draft" /\ s.rows[d].draftOf \in RecordId
            /\ s.rows[s.rows[d].draftOf].state \in MasterState
        BY <2>8, <3>2, <3>3, <3>4 DEF DraftsHaveMastersIn
      <4>2. t.rows[d].state = "draft"
        BY <2>7, <4>1 DEF FeedWrites
      <4> QED
        BY <3>1, <3>4, <4>1, <4>2
    <3>5. CASE d = r /\ row.draftOf \in RecordId /\ row.state = "draft"
               /\ s.rows[row.draftOf].state = "active"
      BY <2>7, <3>1, <3>5 DEF MasterState
    <3> QED
      BY <2>7, <3>4, <3>5
  <2>11. KeysApartIn(t)
    <3>1. SUFFICES ASSUME NEW x \in RecordId, NEW y \in RecordId,
                          Indexed(t.rows[x]), Indexed(t.rows[y]), x # y
                   PROVE  ~SameKey(t.rows[x], t.rows[y])
      BY DEF KeysApartIn
    <3>2. Indexed(row) => \A o \in RecordId \ {r} : Indexed(s.rows[o]) => ~SameKey(s.rows[o], row)
      BY <1>2 DEF Accepts
    <3>3. CASE x = r
      <4>1. ~SameKey(t.rows[y], t.rows[x])
        BY <2>7, <3>1, <3>2, <3>3
      <4> QED
        BY <4>1 DEF SameKey
    <3>4. CASE y = r
      BY <2>7, <3>1, <3>2, <3>4
    <3>5. CASE x # r /\ y # r
      BY <2>7, <2>8, <3>1, <3>5 DEF KeysApartIn
    <3> QED
      BY <3>3, <3>4, <3>5
  <2>r. \A x \in RecordId : RevertedIn(s, x) => RevertedIn(t, x)
    <3>1. SUFFICES ASSUME NEW x \in RecordId, RevertedIn(s, x) PROVE RevertedIn(t, x)
      OBVIOUS
    <3>2. CASE x # r
      BY <2>7, <3>1, <3>2 DEF RevertedIn
    <3>3. CASE x = r
      <4>1. PICK j \in 1..Len(h) : h[j].action = "REVERT"
        BY <3>1, <3>3 DEF RevertedIn, h
      <4>2. j \in 1..Len(g) /\ g[j].action = "REVERT"
        BY <2>2, <4>1
      <4> QED
        BY <2>7, <3>3, <4>2 DEF RevertedIn
    <3> QED
      BY <3>2, <3>3
  <2>12. RivalsIn(t)
    \* A draft that is new is the only one of its master.
    <3>2. ASSUME NEW m \in RecordId, NEW d \in RecordId, DraftIn(t, d, m), ~DraftIn(s, d, m)
          PROVE  d = r /\ \A x \in RecordId : ~DraftIn(s, x, m)
      <4>1. d = r
        BY <2>7, <3>2 DEF DraftIn
      <4>2. row.state = "draft" /\ row.draftOf = m
        BY <2>7, <3>2, <4>1 DEF DraftIn
      <4>3. CASE row.draftOf = s.rows[r].draftOf
        <5>1. s.rows[r].state = "draft"
          BY <2>8, <4>2, <4>3, NullsAssumption DEF DraftsHaveMastersIn
        <5>2. s.rows[r].deleted = FALSE
          BY <5>1 DEF FeedWrites
        <5> QED
          BY <3>2, <4>1, <4>2, <4>3, <5>1, <5>2 DEF DraftIn
      <4> QED
        BY <4>1, <4>2, <4>3
    <3>3. SUFFICES ASSUME NEW m \in RecordId, NEW d \in RecordId, NEW b \in RecordId,
                          DraftIn(t, d, m), DraftIn(t, b, m), d # b
                   PROVE  RevertedIn(t, d) \/ RevertedIn(t, b)
      BY DEF RivalsIn
    <3>4. DraftIn(s, d, m) /\ DraftIn(s, b, m)
      BY <3>2, <3>3
    <3>5. RevertedIn(s, d) \/ RevertedIn(s, b)
      BY <2>8, <3>3, <3>4 DEF RivalsIn
    <3> QED
      BY <2>r, <3>5
  <2>s. SourcesIn(t)
    <3>1. s.rows[r].state = "absent" => Len(h) = 0
      BY DEF StoreOK, RecordOK, h
    <3>2. \A x \in RecordId \ {r} : OwnerOf(t.rows[x], x) = OwnerOf(s.rows[x], x)
      BY <2>7
    <3>3. ASSUME NEW m, BroughtBackIn(s, m) PROVE BroughtBackIn(t, m)
      <4>1. PICK z \in RecordId : OwnerOf(s.rows[z], z) = m /\ RevertedIn(s, z)
        BY <3>3 DEF BroughtBackIn
      <4>2. RevertedIn(t, z)
        BY <2>r, <4>1
      <4>3. OwnerOf(t.rows[z], z) = m
        <5>1. CASE z = r
          <6>1. s.rows[r].state # "absent"
            BY <3>1, <4>1, <5>1 DEF RevertedIn, h
          <6> QED
            BY <2>7, <4>1, <5>1, <6>1 DEF FeedWrites, OwnerOf
        <5>2. CASE z # r
          BY <3>2, <4>1, <5>2
        <5> QED
          BY <5>1, <5>2
      <4> QED
        BY <4>2, <4>3 DEF BroughtBackIn
    <3>4. \A m, o : SameOwner(s, m, o) => SameOwner(t, m, o)
      BY <3>3 DEF SameOwner
    <3>5. \A m, o : SameOwner(t, m, o) => SameOwner(t, o, m)
      BY DEF SameOwner
    <3>6. SourcesIn(s)
      BY DEF StoreOK
    <3>7. ASSUME NEW x \in RecordId, t.rows[x].state = "absent" PROVE t.source[x] = NoSource
      <4>1. x # r
        BY <2>7, <3>7 DEF FeedWrites
      <4> QED
        BY <2>7, <3>6, <3>7, <4>1 DEF SourcesIn
    <3>8. ASSUME NEW o \in Identity, TrackedId(o), NEW x \in RecordId, NEW y \in RecordId,
                 KnownAs(t, x, o), KnownAs(t, y, o)
          PROVE  SameOwner(t, OwnerOf(t.rows[x], x), OwnerOf(t.rows[y], y))
      <4>1. \A z \in RecordId \ {r} : KnownAs(t, z, o) => KnownAs(s, z, o)
        BY <2>7 DEF KnownAs
      <4>2. ASSUME NEW z \in RecordId \ {r}, KnownAs(t, z, o), KnownAs(t, r, o)
            PROVE  SameOwner(t, OwnerOf(t.rows[z], z), OwnerOf(t.rows[r], r))
        <5>1. o = origin /\ row.state \in {"draft", "active"}
          BY <2>7, <4>2 DEF KnownAs
        <5>2. SameOwner(s, OwnerOf(s.rows[z], z), OwnerOf(row, r))
          BY <3>8, <4>1, <4>2, <5>1 DEF Fits
        <5> QED
          BY <2>7, <3>2, <3>4, <5>2
      <4>3. CASE x # r /\ y # r
        <5>1. SameOwner(s, OwnerOf(s.rows[x], x), OwnerOf(s.rows[y], y))
          BY <3>6, <3>8, <4>1, <4>3 DEF SourcesIn
        <5> QED
          BY <3>2, <3>4, <4>3, <5>1
      <4>4. CASE x = r /\ y = r
        BY <4>4 DEF SameOwner
      <4>5. CASE x # r /\ y = r
        BY <3>8, <4>2, <4>5
      <4>6. CASE x = r /\ y # r
        BY <3>5, <3>8, <4>2, <4>6
      <4> QED
        BY <4>3, <4>4, <4>5, <4>6
    <3> QED
      BY <3>7, <3>8 DEF SourcesIn
  <2>13. StoreOK(t)
    BY <2>6, <2>9, <2>10, <2>11, <2>12, <2>s DEF StoreOK
  <2>14. Moves(s, t, u, trusted)
    <3>1. \A x \in RecordId \ {r} : KeepsRecord(s, t, x)
      BY <2>7 DEF KeepsRecord
    <3>2. MovesRecord(s, t, r, u, trusted)
      BY <2>2, <2>7 DEF MovesRecord, FeedWrites, h
    <3> QED
      BY <3>1, <3>2 DEF Moves
  <2> QED
    BY <2>7, <2>13, <2>14
<1> QED
  BY <1>1, <1>2

-----------------------------------------------------------------------------
(* The steps of a feed, from one change to a whole request *)

LEMMA FedMergeType ==
  ASSUME NEW d \in Data, NEW body \in PartialRows
  PROVE  Merge(d, body) \in Data
<1>1. PICK S \in SUBSET Column : body \in [S -> Cell]
  BY DEF PartialRows
<1> QED
  BY <1>1 DEF Merge, Data

LEMMA StampType ==
  ASSUME NEW old \in Identity, NEW src \in Source \cup {Null}, NEW id \in SentId
  PROVE  /\ Stamp(old, src, id) \in Identity
         /\ src # Null => Stamp(old, src, id).system = src
BY EmptiedAssumption DEF Stamp, Identity, SentId

LEMMA NotSent == Null \in SentId
BY DEF SentId

\* What record r may be stamped with: src sends no ids and is not tracked, or r is
\* known to it by the id.
Stampable(s, r, src, id) ==
  \/ id \in {Null, Emptied} /\ src \notin Tracked
  \/ src # Null /\ id \in SourceId /\ KnownAs(s, r, [system |-> src, id |-> id])

\* Then a draft of r, or r, may be stamped so.
LEMMA StampFits ==
  ASSUME NEW s, StoreOK(s), NEW r \in RecordId, NEW d \in RecordId,
         OwnerOf(s.rows[d], d) = OwnerOf(s.rows[r], r),
         NEW src \in Source \cup {Null}, NEW id \in SentId,
         Stampable(s, r, src, id), NEW z, NEW row,
         OwnerOf(row, z) = OwnerOf(s.rows[d], d),
         row.state \in {"draft", "active"} =>
           s.rows[d].state \in {"draft", "active"} /\ ~s.rows[d].deleted
  PROVE  Fits(s, z, row, Stamp(s.source[d], src, id))
<1> DEFINE origin == Stamp(s.source[d], src, id)
<1>1. SUFFICES ASSUME TrackedId(origin), row.state \in {"draft", "active"},
                      NEW x \in RecordId, KnownAs(s, x, origin)
               PROVE  SameOwner(s, OwnerOf(s.rows[x], x), OwnerOf(row, z))
  BY DEF Fits
<1>2. s.source[d] \in Identity /\ SourcesIn(s) /\ origin \in Identity
  BY StampType DEF StoreOK, Tables
<1>3. CASE id \in {Null, Emptied} /\ src \notin Tracked
  <2>1. src = Null
    BY <1>1, <1>3 DEF Stamp, TrackedId
  <2>0. id = Null
    <3>1. SUFFICES ASSUME id = Emptied PROVE FALSE
      BY <1>3
    <3>2. origin.id = Null
      BY <3>1, EmptiedAssumption DEF Stamp
    <3> HIDE DEF origin
    <3> QED
      BY <1>1, <3>2 DEF TrackedId
  <2>2. origin = s.source[d]
    <3>1. origin = [system |-> s.source[d].system, id |-> s.source[d].id]
      BY <2>0, <2>1, EmptiedAssumption DEF Stamp
    <3> HIDE DEF origin
    <3> QED
      BY <1>2, <3>1 DEF Identity
  <2>3. KnownAs(s, d, origin)
    BY <1>1, <2>2 DEF KnownAs
  <2> HIDE DEF origin
  <2>4. SameOwner(s, OwnerOf(s.rows[x], x), OwnerOf(s.rows[d], d))
    BY <1>1, <1>2, <2>3 DEF SourcesIn
  <2> QED
    BY <2>4
<1>4. CASE src # Null /\ id \in SourceId /\ KnownAs(s, r, [system |-> src, id |-> id])
  <2>1. origin = [system |-> src, id |-> id]
    BY <1>4, EmptiedAssumption DEF Stamp
  <2>2. KnownAs(s, r, origin)
    BY <1>4, <2>1
  <2> HIDE DEF origin
  <2>3. SameOwner(s, OwnerOf(s.rows[x], x), OwnerOf(s.rows[r], r))
    BY <1>1, <1>2, <2>2 DEF SourcesIn
  <2> QED
    BY <2>3
<1> QED
  BY <1>3, <1>4 DEF Stampable

\* A row or push that names no record enters a new one.
LEMMA EnterKeepsStore ==
  ASSUME NEW s, StoreOK(s), NEW body \in PartialRows, NEW origin \in Identity, NEW u \in Actor,
         NEW trusted, trusted => u \in Publisher,
         NEW state, state = "draft" \/ (state = "active" /\ trusted),
         TrackedId(origin) => \A x \in RecordId : ~KnownAs(s, x, origin),
         NEW t \in Enter(s, body, state, origin, u)
  PROVE  StoreOK(t) /\ Moves(s, t, u, trusted)
<1> DEFINE row == [Created(body) EXCEPT !.state = state]
<1>1. PICK r \in Unused(s) : t \in Change(s, r, row, origin, "INSERT", "INSERT", u)
  BY DEF Enter
<1>2. r \in RecordId /\ s.rows[r].state = "absent"
  BY DEF Unused, InState
<1>3. s.rows[r].draftOf = NoRecord
  BY <1>2 DEF StoreOK, RecordOK, Absent
<1>4. /\ row \in Row /\ row.deleted = FALSE /\ row.draftOf = NoRecord /\ row.state = state
      /\ row.status = Status(row.data)
  <2>1. Merge(Blank, body) \in Data
    BY BlankType, FedMergeType
  <2>2. state \in State \cup {"absent"}
    BY DEF State
  <2> QED
    BY <2>1, <2>2, StatusType DEF Created, Row
<1> HIDE DEF row
<1>5. t \in Change(s, r, row, origin, "INSERT", Logged(row, "INSERT"), u)
  <2>1. Logged(row, "INSERT") = "INSERT"
    BY <1>4 DEF Logged
  <2> QED
    BY <1>1, <2>1
<1>6. FeedWrites(s.rows[r], row, "INSERT", trusted)
  BY <1>2, <1>4 DEF FeedWrites
<1>7. s.rows[r].state \notin MasterState
  BY <1>2 DEF MasterState
<1>8. Fits(s, r, row, origin)
  BY DEF Fits
<1> QED
  BY <1>2, <1>3, <1>4, <1>5, <1>6, <1>7, <1>8, ChangeKeepsStore

\* An update of a live record. Golden and retired ones take a publisher.
LEMMA UpdateRowKeepsStore ==
  ASSUME NEW s, StoreOK(s), NEW r \in RecordId, NEW body \in PartialRows,
         NEW origin \in Identity, NEW u \in Actor, NEW trusted, trusted => u \in Publisher,
         s.rows[r].state # "absent", s.rows[r].deleted = FALSE,
         s.rows[r].state \in MasterState => trusted,
         Fits(s, r, s.rows[r], origin),
         NEW t \in UpdateRow(s, r, body, origin, u)
  PROVE  StoreOK(t) /\ Moves(s, t, u, trusted)
<1> DEFINE c == s.rows[r]
           row == Edited(c, c, body)
<1>1. t \in Change(s, r, row, origin, "UPDATE", "UPDATE", u)
  BY DEF UpdateRow
<1>2. /\ row \in Row /\ row.deleted = FALSE /\ row.draftOf = c.draftOf /\ row.state = c.state
      /\ row.status = Status(row.data)
  <2>1. c \in Row
    BY DEF StoreOK, RecordOK
  <2>2. Merge(c.data, body) \in Data
    BY <2>1, FedMergeType DEF Row
  <2> QED
    BY <2>1, <2>2, StatusType DEF Edited, Row
<1> HIDE DEF row
<1>3. t \in Change(s, r, row, origin, "UPDATE", Logged(row, "UPDATE"), u)
  <2>1. Logged(row, "UPDATE") = "UPDATE"
    BY DEF Logged
  <2> QED
    BY <1>1, <2>1
<1>4. FeedWrites(s.rows[r], row, "UPDATE", trusted)
  BY <1>2 DEF FeedWrites
<1>5. Fits(s, r, row, origin)
  BY <1>2 DEF Fits, OwnerOf
<1> QED
  BY <1>2, <1>3, <1>4, <1>5, ChangeKeepsStore

\* A change of an active record goes to a draft of it.
LEMMA ChangeByDraftKeepsStore ==
  ASSUME NEW s, StoreOK(s), NEW r \in RecordId, s.rows[r].state = "active",
         s.rows[r].deleted = FALSE,
         NEW body \in PartialRows, NEW src \in Source \cup {Null}, NEW id \in SentId,
         Stampable(s, r, src, id), NEW u \in Actor, NEW trusted, trusted => u \in Publisher,
         NEW t \in ChangeByDraft(s, r, body, src, id, u)
  PROVE  StoreOK(t) /\ Moves(s, t, u, trusted)
<1> DEFINE drafts == {d \in InState(s, "draft") : s.rows[d].draftOf = r}
<1>0. OwnerOf(s.rows[r], r) = r
  BY DEF StoreOK, DraftsHaveMastersIn, OwnerOf
<1>1. CASE drafts # {}
  <2>1. PICK d \in drafts : t \in UpdateRow(s, d, body, Stamp(s.source[d], src, id), u)
    BY <1>1 DEF ChangeByDraft
  <2>2. d \in RecordId /\ s.rows[d].state = "draft" /\ ~s.rows[d].deleted /\ s.rows[d] \in Row
    BY DEF InState, StoreOK, RecordOK
  <2>3. s.rows[d].deleted = FALSE
    BY <2>2 DEF Row
  <2>4. Stamp(s.source[d], src, id) \in Identity
    BY <2>2, StampType DEF StoreOK, Tables
  <2>5. s.rows[d].state \notin MasterState /\ s.rows[d].state # "absent"
    BY <2>2 DEF MasterState
  <2>6. OwnerOf(s.rows[d], d) = r
    BY NullsAssumption DEF OwnerOf
  <2>7. Fits(s, d, s.rows[d], Stamp(s.source[d], src, id))
    BY <1>0, <2>2, <2>6, StampFits
  <2> QED
    BY <2>1, <2>2, <2>3, <2>4, <2>5, <2>7, UpdateRowKeepsStore
<1>2. CASE drafts = {}
  <2>1. PICK d \in Unused(s) :
          t \in Change(s, d, DraftCopy(s.rows[r], r, body), Stamp(s.source[r], src, id),
                       "INSERT", "DRAFT_CREATED", u)
    BY <1>2 DEF ChangeByDraft
  <2> DEFINE row == DraftCopy(s.rows[r], r, body)
             origin == Stamp(s.source[r], src, id)
  <2>2. d \in RecordId /\ s.rows[d].state = "absent"
    BY DEF Unused, InState
  <2>3. /\ row \in Row /\ row.deleted = FALSE /\ row.draftOf = r /\ row.state = "draft"
        /\ row.status = Status(row.data)
    <3>1. s.rows[r] \in Row
      BY DEF StoreOK, RecordOK
    <3>2. Merge(s.rows[r].data, body) \in Data
      BY <3>1, FedMergeType DEF Row
    <3> QED
      BY <3>1, <3>2, StatusType DEF DraftCopy, Row, State
  <2>4. origin \in Identity
    BY StampType DEF StoreOK, Tables
  <2> HIDE DEF row
  <2>f. Fits(s, d, row, origin)
    <3>1. OwnerOf(row, d) = OwnerOf(s.rows[r], r)
      BY <1>0, <2>3, NullsAssumption DEF OwnerOf
    <3> QED
      BY <3>1, StampFits
  <2> HIDE DEF origin
  <2>5. Logged(row, "INSERT") = "DRAFT_CREATED"
    BY <2>3, NullsAssumption DEF Logged
  <2>6. FeedWrites(s.rows[d], row, "INSERT", trusted)
    BY <2>2, <2>3 DEF FeedWrites
  <2>7. s.rows[d].state \notin MasterState
    BY <2>2 DEF MasterState
  <2>8. \A x \in RecordId : ~DraftIn(s, x, r)
    BY <1>2 DEF DraftIn, InState
  <2>9. t \in Change(s, d, row, origin, "INSERT", Logged(row, "INSERT"), u)
    BY <2>1, <2>5 DEF row, origin
  <2> QED
    BY <2>2, <2>3, <2>4, <2>f, <2>6, <2>7, <2>8, <2>9, ChangeKeepsStore
<1> QED
  BY <1>1, <1>2

\* What a lookup finds is stored and live.
LEMMA FoundIsLive ==
  ASSUME NEW s, StoreOK(s), NEW state, state # "absent", NEW r \in InState(s, state)
  PROVE  r \in RecordId /\ s.rows[r].state = state /\ s.rows[r].deleted = FALSE
<1>1. r \in RecordId /\ s.rows[r].state = state /\ ~s.rows[r].deleted
  BY DEF InState
<1>2. s.rows[r].deleted \in BOOLEAN
  BY <1>1 DEF StoreOK, RecordOK, Row
<1> QED
  BY <1>1, <1>2

LEMMA UpsertKeepsStore ==
  ASSUME NEW s, StoreOK(s), NEW r \in Found(s), NEW body \in PartialRows,
         NEW initial \in {"draft", "active"}, NEW sys \in Source \cup {Null}, sys \notin Tracked,
         NEW u \in Writer, initial = "active" => u \in Publisher,
         NEW t \in Upsert(s, r, body, initial, sys, u)
  PROVE  StoreOK(t) /\ Moves(s, t, u, u \in Publisher)
<1>1. /\ r \in RecordId /\ s.rows[r].state \in {"draft", "active", "retired"}
      /\ s.rows[r].deleted = FALSE
  <2>1. PICK state \in {"draft", "active", "retired"} : r \in InState(s, state)
    BY DEF Found
  <2>2. state # "absent"
    BY <2>1
  <2>3. r \in RecordId /\ s.rows[r].state = state /\ s.rows[r].deleted = FALSE
    BY <2>1, <2>2, FoundIsLive
  <2> QED
    BY <2>3
<1>2. u \in Actor
  BY DEF Actor
<1>s. Stampable(s, r, sys, Null)
  BY DEF Stampable
<1>3. CASE s.rows[r].state = "retired" /\ u \notin Publisher
  <2>1. t = [s EXCEPT !.ok = FALSE]
    BY <1>3 DEF Upsert, Failed
  <2> QED
    BY <2>1, FlagKeepsStore
<1>4. CASE s.rows[r].state = "active" /\ initial = "draft"
  <2>1. t \in ChangeByDraft(s, r, body, sys, Null, u)
    BY <1>4 DEF Upsert
  <2> QED
    BY <1>1, <1>2, <1>s, <1>4, <2>1, NotSent, ChangeByDraftKeepsStore
<1>5. CASE /\ ~(s.rows[r].state = "retired" /\ u \notin Publisher)
           /\ ~(s.rows[r].state = "active" /\ initial = "draft")
  <2>1. t \in UpdateRow(s, r, body, Stamp(s.source[r], sys, Null), u)
    BY <1>5 DEF Upsert
  <2>2. Stamp(s.source[r], sys, Null) \in Identity
    BY <1>1, NotSent, StampType DEF StoreOK, Tables
  <2>3. s.rows[r].state \in MasterState => u \in Publisher
    BY <1>5 DEF MasterState
  <2>4. s.rows[r].state # "absent"
    BY <1>1
  <2>5. Fits(s, r, s.rows[r], Stamp(s.source[r], sys, Null))
    BY <1>1, <1>s, NotSent, StampFits
  <2> QED
    BY <1>1, <1>2, <2>1, <2>2, <2>3, <2>4, <2>5, UpdateRowKeepsStore
<1> QED
  BY <1>3, <1>4, <1>5

\* One row of a file.
LEMMA ImportRowKeepsStore ==
  ASSUME NEW s, StoreOK(s), NEW body \in PartialRows, NEW key,
         NEW initial \in {"draft", "active"}, NEW sys \in Source \cup {Null}, sys \notin Tracked,
         NEW u \in Writer, initial = "active" => u \in Publisher,
         NEW t \in ImportRow(s, body, key, initial, sys, u)
  PROVE  StoreOK(t) /\ Moves(s, t, u, u \in Publisher)
<1>1. CASE Hits(s, body, key) = {}
  <2>1. t \in Enter(s, body, initial, Stamp(NoSource, sys, Null), u)
    BY <1>1 DEF ImportRow
  <2>2. Stamp(NoSource, sys, Null) \in Identity
    BY NotSent, StampType DEF NoSource, Identity
  <2>3. u \in Actor
    BY DEF Actor
  <2>4. ~TrackedId(Stamp(NoSource, sys, Null))
    BY DEF TrackedId, Stamp, NoSource
  <2> QED
    BY <2>1, <2>2, <2>3, <2>4, EnterKeepsStore
<1>2. CASE Hits(s, body, key) # {}
  <2>1. PICK r \in Hits(s, body, key) : t \in Upsert(s, r, body, initial, sys, u)
    BY <1>2 DEF ImportRow
  <2>2. r \in Found(s)
    BY DEF Hits
  <2> QED
    BY <2>1, <2>2, UpsertKeepsStore
<1> QED
  BY <1>1, <1>2

-----------------------------------------------------------------------------
(* A file: induction over its rows. The recursive function of Import exists,  *)
(* and what it holds after a row is sound, each by taking the first row of    *)
(* which it would not be so.                                                  *)

LEMMA Least ==
  ASSUME NEW T \in SUBSET Nat, T # {}
  PROVE  \E n \in T : \A m \in T : n <= m
<1>1. IsWellFoundedOn(OpToRel(<, Nat), Nat)
  BY NatLessThanWellFounded
<1>2. PICK n \in T : \A m \in T : ~(<<m, n>> \in OpToRel(<, Nat))
  BY <1>1, WFMin
<1>3. \A m \in T : ~(m < n)
  BY <1>2 DEF OpToRel
<1> QED
  BY <1>3

\* The tables before the first row, and after each of the first k rows.
FromRow(f, k, s, file, key, initial, sys, strict, u) ==
  f = [n \in 0..k |->
         IF n = 0 THEN {s} ELSE NextRow(f[n - 1], file[n], key, initial, sys, strict, u)]

LEMMA FromRowExists ==
  ASSUME NEW s, NEW file, NEW key, NEW initial, NEW sys, NEW strict, NEW u, NEW k \in Nat
  PROVE  \E f : FromRow(f, k, s, file, key, initial, sys, strict, u)
<1> DEFINE After(X, n) == NextRow(X, file[n], key, initial, sys, strict, u)
           Upto(f, j) == f = [n \in 0..j |-> IF n = 0 THEN {s} ELSE After(f[n - 1], n)]
           T == {j \in Nat : ~\E f : Upto(f, j)}
<1>1. ASSUME T # {} PROVE FALSE
  <2>1. PICK j \in T : \A m \in T : j <= m
    <3> HIDE DEF T
    <3>1. T \in SUBSET Nat
      BY DEF T
    <3> QED
      BY <1>1, <3>1, Least
  <2> HIDE DEF After
  <2>2. j # 0
    <3>1. Upto([n \in 0..0 |-> {s}], 0)
      OBVIOUS
    <3> QED
      BY <3>1
  <2>3. j \in Nat /\ j - 1 \in Nat /\ j - 1 \notin T
    <3>1. j \in Nat
      OBVIOUS
    <3> HIDE DEF T
    <3> QED
      BY <2>1, <2>2, <3>1
  <2>4. PICK f : Upto(f, j - 1)
    BY <2>3
  <2> DEFINE g == [n \in 0..j |-> IF n = j THEN After(f[j - 1], j) ELSE f[n]]
  <2>5. Upto(g, j)
    <3>1. \A n \in 0..(j - 1) : g[n] = f[n]
      BY <2>3
    <3>2. \A n \in 1..j : After(g[n - 1], n) = After(f[n - 1], n)
      BY <2>3, <3>1
    <3>3. \A n \in 0..(j - 1) : f[n] = IF n = 0 THEN {s} ELSE After(f[n - 1], n)
      BY <2>4
    <3>4. ASSUME NEW n \in 0..j
          PROVE  g[n] = IF n = 0 THEN {s} ELSE After(g[n - 1], n)
      <4>1. CASE n = j
        <5>1. g[j] = After(f[j - 1], j) /\ n \in 1..j
          BY <2>2, <2>3, <4>1
        <5> HIDE DEF g
        <5> QED
          BY <2>2, <3>2, <4>1, <5>1
      <4>2. CASE n # j
        <5>1. n \in 0..(j - 1)
          BY <2>3, <4>2
        <5>2. n # 0 => n \in 1..j
          BY <2>3
        <5> HIDE DEF g
        <5> QED
          BY <3>1, <3>2, <3>3, <5>1, <5>2
      <4> QED
        BY <4>1, <4>2
    <3> QED
      BY <3>4
  <2> QED
    BY <2>3, <2>5 DEF T
<1>2. PICK f : Upto(f, k)
  BY <1>1
<1>3. FromRow(f, k, s, file, key, initial, sys, strict, u)
  BY <1>2 DEF FromRow
<1> QED
  BY <1>3

LEMMA ImportIsFromRow ==
  ASSUME NEW s, NEW file, Len(file) \in Nat, NEW key, NEW initial, NEW sys, NEW strict, NEW u
  PROVE  \E f : /\ FromRow(f, Len(file), s, file, key, initial, sys, strict, u)
                /\ Import(s, file, key, initial, sys, strict, u) = f[Len(file)]
<1> DEFINE after[n \in 0..Len(file)] ==
             IF n = 0 THEN {s}
             ELSE NextRow(after[n - 1], file[n], key, initial, sys, strict, u)
<1>1. after = CHOOSE f : FromRow(f, Len(file), s, file, key, initial, sys, strict, u)
  BY DEF FromRow
<1>2. Import(s, file, key, initial, sys, strict, u) = after[Len(file)]
  BY DEF Import
<1> HIDE DEF after
<1>3. FromRow(after, Len(file), s, file, key, initial, sys, strict, u)
  BY <1>1, FromRowExists
<1> QED
  BY <1>2, <1>3

\* After one more row the tables are sound, and the whole way there is a move of
\* the user.
LEMMA NextRowKeepsStore ==
  ASSUME NEW s, NEW tables, NEW u \in Writer,
         \A w \in tables : StoreOK(w) /\ Moves(s, w, u, u \in Publisher),
         StoreOK(s), NEW body \in PartialRows, NEW key, NEW initial \in {"draft", "active"},
         NEW sys \in Source \cup {Null}, sys \notin Tracked, NEW strict,
         initial = "active" => u \in Publisher,
         NEW t \in NextRow(tables, body, key, initial, sys, strict, u)
  PROVE  StoreOK(t) /\ Moves(s, t, u, u \in Publisher)
<1> DEFINE left == UNION {ImportRow(w, body, key, initial, sys, u) : w \in tables}
<1>1. PICK x \in left : t = x \/ t = [x EXCEPT !.ok = TRUE]
  BY DEF NextRow
<1>2. PICK w \in tables : x \in ImportRow(w, body, key, initial, sys, u)
  OBVIOUS
<1>3. StoreOK(w) /\ Moves(s, w, u, u \in Publisher)
  OBVIOUS
<1>4. StoreOK(x) /\ Moves(w, x, u, u \in Publisher)
  BY <1>2, <1>3, ImportRowKeepsStore
<1>5. Moves(s, x, u, u \in Publisher)
  BY <1>3, <1>4, MovesCompose
<1>6. CASE t = x
  BY <1>4, <1>5, <1>6
<1>7. CASE t = [x EXCEPT !.ok = TRUE]
  <2>1. StoreOK(t) /\ Moves(x, t, u, u \in Publisher)
    BY <1>4, <1>7, FlagKeepsStore
  <2> QED
    BY <1>4, <1>5, <2>1, MovesCompose
<1> QED
  BY <1>1, <1>6, <1>7

LEMMA ImportKeepsStore ==
  ASSUME NEW s, StoreOK(s), NEW file \in Seq(PartialRows), NEW key,
         NEW initial \in {"draft", "active"},
         NEW sys \in Source \cup {Null}, sys \notin Tracked, NEW strict,
         NEW u \in Writer, initial = "active" => u \in Publisher,
         NEW t \in Import(s, file, key, initial, sys, strict, u)
  PROVE  StoreOK(t) /\ Moves(s, t, u, u \in Publisher)
<1> DEFINE Sound(w) == StoreOK(w) /\ Moves(s, w, u, u \in Publisher)
<1>1. Len(file) \in Nat
  OBVIOUS
<1>2. PICK f : /\ FromRow(f, Len(file), s, file, key, initial, sys, strict, u)
               /\ Import(s, file, key, initial, sys, strict, u) = f[Len(file)]
  BY <1>1, ImportIsFromRow
<1>3. /\ f[0] = {s}
      /\ \A n \in 1..Len(file) :
           f[n] = NextRow(f[n - 1], file[n], key, initial, sys, strict, u)
  <2>1. f = [n \in 0..Len(file) |-> IF n = 0 THEN {s}
                                    ELSE NextRow(f[n - 1], file[n], key, initial, sys, strict, u)]
    BY <1>2 DEF FromRow
  <2>2. \A n \in 0..Len(file) :
          f[n] = IF n = 0 THEN {s}
                 ELSE NextRow(f[n - 1], file[n], key, initial, sys, strict, u)
    BY <2>1
  <2>3. 0 \in 0..Len(file) /\ \A n \in 1..Len(file) : n \in 0..Len(file) /\ n # 0
    BY <1>1
  <2> QED
    BY <2>2, <2>3
<1> DEFINE T == {n \in 0..Len(file) : ~\A w \in f[n] : Sound(w)}
<1>4. ASSUME T # {} PROVE FALSE
  <2>1. PICK n \in T : \A m \in T : n <= m
    <3>1. T \in SUBSET Nat
      BY <1>1
    <3> HIDE DEF T
    <3> QED
      BY <1>4, <3>1, Least
  <2>2. n # 0
    <3>1. Sound(s)
      BY DEF Moves, KeepsRecord
    <3> HIDE DEF Sound
    <3> QED
      BY <1>3, <3>1
  <2>3. n \in 1..Len(file) /\ n - 1 \in 0..Len(file) /\ n - 1 \notin T
    <3>1. n \in 0..Len(file)
      OBVIOUS
    <3> HIDE DEF T
    <3> QED
      BY <1>1, <2>1, <2>2, <3>1
  <2>4. \A w \in f[n - 1] : Sound(w)
    BY <2>3
  <2>5. f[n] = NextRow(f[n - 1], file[n], key, initial, sys, strict, u) /\ file[n] \in PartialRows
    BY <1>3, <2>3
  <2>6. ASSUME NEW w \in f[n]
        PROVE  Sound(w)
    <3> DEFINE tables == f[n - 1]
               body == file[n]
    <3>1. w \in NextRow(tables, body, key, initial, sys, strict, u) /\ body \in PartialRows
      BY <2>5
    <3>2. \A x \in tables : StoreOK(x) /\ Moves(s, x, u, u \in Publisher)
      BY <2>4
    <3> HIDE DEF tables, body
    <3> QED
      BY <3>1, <3>2, NextRowKeepsStore
  <2> HIDE DEF Sound
  <2> QED
    BY <2>6
<1>5. \A w \in f[Len(file)] : Sound(w)
  <2> HIDE DEF Sound
  <2> QED
    BY <1>1, <1>4
<1> QED
  BY <1>2, <1>5

-----------------------------------------------------------------------------
(* A push. Its source is no publisher.                                        *)

LEMMA AbsorbKeepsStore ==
  ASSUME NEW s, StoreOK(s), NEW r \in RecordId, s.rows[r].state \in {"draft", "active"},
         s.rows[r].deleted = FALSE, NEW src \in Source, NEW id \in SentId,
         Stampable(s, r, src, id),
         NEW body \in PartialRows, NEW t \in Absorb(s, r, src, id, body)
  PROVE  StoreOK(t) /\ Moves(s, t, src, FALSE)
<1>1. src \in Actor
  BY DEF Actor
<1>2. CASE s.rows[r].state = "active"
  <2>1. t \in ChangeByDraft(s, r, body, src, id, src)
    BY <1>2 DEF Absorb
  <2> QED
    BY <1>1, <1>2, <2>1, ChangeByDraftKeepsStore
<1>3. CASE s.rows[r].state = "draft"
  <2>1. t \in UpdateRow(s, r, body, Stamp(s.source[r], src, id), src)
    BY <1>3 DEF Absorb
  <2>2. Stamp(s.source[r], src, id) \in Identity
    BY StampType DEF StoreOK, Tables
  <2>3. s.rows[r].state # "absent" /\ s.rows[r].state \notin MasterState
    BY <1>3 DEF MasterState
  <2>4. Fits(s, r, s.rows[r], Stamp(s.source[r], src, id))
    BY StampFits
  <2> QED
    BY <1>1, <2>1, <2>2, <2>3, <2>4, UpdateRowKeepsStore
<1> QED
  BY <1>2, <1>3

\* A claim writes a version of the record as it is, golden ones included, and
\* the source's name.
LEMMA ClaimKeepsStore ==
  ASSUME NEW s, StoreOK(s), NEW r \in RecordId, s.rows[r].state \in {"draft", "active"},
         s.rows[r].deleted = FALSE, NEW src \in Source, NEW id \in SentId,
         \/ id \in {Null, Emptied} /\ src \notin Tracked
         \/ id \in SourceId /\ \A x \in RecordId : ~KnownAs(s, x, [system |-> src, id |-> id]),
         NEW t \in Claim(s, r, src, id)
  PROVE  /\ StoreOK(t) /\ Moves(s, t, src, FALSE)
         /\ t.rows[r] = s.rows[r] /\ Stampable(t, r, src, id)
<1> DEFINE row == s.rows[r]
           kept == IF id = Emptied THEN Null ELSE id
           origin == Stamp(s.source[r], src, kept)
           trusted == FALSE
<1>1. t \in Change(s, r, row, origin, "UPDATE", "UPDATE", src)
  BY DEF Claim
<1>k. kept \in SentId
  BY DEF SentId
<1>2. src \in Actor
  BY DEF Actor
<1>3. origin \in Identity /\ origin.system = src
  BY <1>k, StampType, SourceAssumption DEF StoreOK, Tables
<1>s. /\ id \in SourceId => origin = [system |-> src, id |-> id]
      /\ src # Null
  BY SourceAssumption, EmptiedAssumption DEF Stamp
<1>f. Fits(s, r, row, origin)
  <2>1. CASE id \in {Null, Emptied} /\ src \notin Tracked
    BY <1>3, <2>1 DEF Fits, TrackedId
  <2>2. CASE id \in SourceId /\ \A x \in RecordId : ~KnownAs(s, x, [system |-> src, id |-> id])
    BY <1>s, <2>2 DEF Fits
  <2> QED
    BY <2>1, <2>2
<1>a. Accepts(s.rows, r, row)
  <2>1. \A c \in RequiredColumn : row.data[c] # Null
    BY DEF StoreOK, RecordOK, Filled
  <2>2. \A o \in RecordId \ {r} : Indexed(row) /\ Indexed(s.rows[o]) => ~SameKey(s.rows[o], row)
    BY DEF StoreOK, KeysApartIn
  <2> QED
    BY <2>1, <2>2 DEF Accepts
<1>t. t.source[r] = origin
  <2> HIDE DEF row, origin
  <2> QED
    BY <1>1, <1>a, AcceptedChange
<1>4. /\ row \in Row /\ row.status = Status(row.data) /\ row.state # "absent"
      /\ row.deleted = FALSE
  BY DEF StoreOK, RecordOK
<1> HIDE DEF origin
<1>5. FeedWrites(s.rows[r], row, "UPDATE", trusted)
  BY <1>4 DEF FeedWrites
<1>6. t \in Change(s, r, row, origin, "UPDATE", Logged(row, "UPDATE"), src)
  <2>1. Logged(row, "UPDATE") = "UPDATE"
    BY DEF Logged
  <2> QED
    BY <1>1, <2>1
<1>7. row = s.rows[r] /\ row.draftOf = s.rows[r].draftOf
  OBVIOUS
<1> HIDE DEF row, trusted
<1>8. s.rows[r].state \in MasterState /\ ~trusted => row = s.rows[r] /\ origin.system = src
  BY <1>3, <1>7
<1>9. trusted => src \in Publisher
  BY DEF trusted
<1>10. /\ StoreOK(t) /\ Moves(s, t, src, trusted)
       /\ row = s.rows[r] => \A x \in RecordId : t.rows[x] = s.rows[x]
  BY <1>2, <1>3, <1>f, <1>5, <1>6, <1>7, <1>8, <1>9, ChangeKeepsStore
<1>11. t.rows[r] = s.rows[r]
  BY <1>7, <1>10
<1>12. Stampable(t, r, src, id)
  BY <1>s, <1>t, <1>11 DEF Stampable, KnownAs
<1> QED
  BY <1>10, <1>11, <1>12 DEF trusted

LEMMA PushedKeepsStore ==
  ASSUME NEW s, StoreOK(s), NEW src \in Source, NEW id \in SentId,
         <<src, id>> \in Push, NEW body \in PartialRows, NEW t \in Pushed(s, src, id, body)
  PROVE  StoreOK(t) /\ Moves(s, t, src, FALSE)
<1> DEFINE Pushable(r) == /\ r \in RecordId /\ s.rows[r].state \in {"draft", "active"}
                          /\ s.rows[r].deleted = FALSE
<1>0. \A r \in InState(s, "draft") \cup InState(s, "active") : Pushable(r)
  <2>1. \A r \in InState(s, "draft") : Pushable(r)
    BY FoundIsLive
  <2>2. \A r \in InState(s, "active") : Pushable(r)
    BY FoundIsLive
  <2> QED
    BY <2>1, <2>2
<1>s. (id \in {Null, Emptied} => src \notin Tracked) /\ src # Null
  BY SourceAssumption DEF Tracked
<1>n. ASSUME Identified(s, src, id) = {}
      PROVE  \/ id \in {Null, Emptied} /\ src \notin Tracked
             \/ id \in SourceId /\ \A x \in RecordId : ~KnownAs(s, x, [system |-> src, id |-> id])
  BY <1>s, <1>n DEF Identified, KnownAs, InState, SentId
<1>1. CASE Identified(s, src, id) # {}
  <2>1. PICK r \in Identified(s, src, id) : t \in Absorb(s, r, src, id, body)
    BY <1>1 DEF Pushed
  <2>2. r \in InState(s, "draft") \cup InState(s, "active")
    BY DEF Identified
  <2>3. Pushable(r)
    BY <1>0, <2>2
  <2>4. Stampable(s, r, src, id)
    BY <1>s, <2>3 DEF Identified, Stampable, KnownAs
  <2> QED
    BY <2>1, <2>3, <2>4, AbsorbKeepsStore
<1>2. CASE Identified(s, src, id) = {} /\ Claimable(s, body) # {}
  <2>1. PICK r \in Claimable(s, body) :
          t \in UNION {Absorb(w, r, src, id, body) : w \in Claim(s, r, src, id)}
    BY <1>2 DEF Pushed
  <2>2. PICK w \in Claim(s, r, src, id) : t \in Absorb(w, r, src, id, body)
    BY <2>1
  <2>3. r \in InState(s, "draft") \cup InState(s, "active")
    BY DEF Claimable
  <2>4. Pushable(r)
    BY <1>0, <2>3
  <2>5. /\ StoreOK(w) /\ Moves(s, w, src, FALSE)
        /\ w.rows[r] = s.rows[r] /\ Stampable(w, r, src, id)
    BY <1>2, <1>n, <2>2, <2>4, ClaimKeepsStore
  <2>6. StoreOK(t) /\ Moves(w, t, src, FALSE)
    BY <2>2, <2>4, <2>5, AbsorbKeepsStore
  <2> QED
    BY <2>5, <2>6, MovesCompose
<1>3. CASE Identified(s, src, id) = {} /\ Claimable(s, body) = {}
  <2>1. t \in Enter(s, body, "draft", Stamp(NoSource, src, id), src)
    BY <1>3 DEF Pushed
  <2>2. Stamp(NoSource, src, id) \in Identity /\ src \in Actor
    BY StampType DEF NoSource, Identity, Actor
  <2>3. TrackedId(Stamp(NoSource, src, id)) =>
          \A x \in RecordId : ~KnownAs(s, x, Stamp(NoSource, src, id))
    <3>1. CASE id \in {Null, Emptied}
      BY <3>1, EmptiedAssumption DEF TrackedId, Stamp, NoSource
    <3>2. CASE id \in SourceId
      <4>1. Stamp(NoSource, src, id) = [system |-> src, id |-> id]
        BY <1>s, <3>2, EmptiedAssumption DEF Stamp
      <4> QED
        BY <1>3, <1>n, <3>2, <4>1, EmptiedAssumption
    <3> QED
      BY <3>1, <3>2 DEF SentId
  <2> QED
    BY <2>1, <2>2, <2>3, EnterKeepsStore
<1> QED
  BY <1>1, <1>2, <1>3

-----------------------------------------------------------------------------
(* The invariant of the record API, feeds included, and of the sources.      *)

\* The events as the code sends them, with feeds about: as without them
\* (EventsFollowLifecycle), or the record was imported as active and never says
\* record.created. Without requires_draft its first version does not tell it
\* from one that POST created: there is some record of which it was.
EventsAreSent ==
  \A r \in RecordId : \E imported \in BOOLEAN :
    /\ imported => /\ rows[r].state \in {"active", "retired"}
                   /\ history[r][1].state = "active" /\ history[r][1].by \in Publisher
    /\ RequiresDraft => imported = Imported(r)
    /\ ~imported => (events[r] # <<>>) = (rows[r].state \in {"active", "retired"})
    /\ \A i \in 1..Len(events[r]) :
         /\ (events[r][i] = "record.created") = (i = 1 /\ ~imported)
         /\ events[r][i] = "record.retired" => i = Len(events[r]) /\ rows[r].state = "retired"

RequiredFilled == \A r \in RecordId : Stored(r) => Filled(rows[r])

AbsentHasNoSource == \A r \in RecordId : ~Stored(r) => source[r] = NoSource

FeedInv ==
  /\ IInv
  /\ EventsAreSent
  /\ source \in [RecordId -> Identity]
  /\ RequiredFilled
  /\ AbsentHasNoSource
  /\ SourceIdNamesOneRecord

\* Between requests the tables are sound as a transaction finds them.
LEMMA BegunIsSound ==
  ASSUME FeedInv
  PROVE  StoreOK(Begun)
<1> DEFINE b == Begun
<1>1. /\ b = [rows |-> b.rows, history |-> b.history, audit |-> b.audit, source |-> b.source,
              ok |-> b.ok]
      /\ b.rows = rows /\ b.history = history /\ b.audit = audit /\ b.source = source
  BY DEF Begun
<1> HIDE DEF b
<1>2. Tables(b)
  BY <1>1 DEF FeedInv, IInv, TypeOK, Tables
<1>3. ASSUME NEW x \in RecordId
      PROVE  RecordOK(b.rows[x], b.history[x], b.audit[x], events[x])
  <2>1. /\ rows[x] \in Row /\ history[x] \in Seq(Version) /\ audit[x] \in Seq(AuditEntry)
        /\ rows[x].state = "absent" => rows[x] = Absent /\ history[x] = <<>>
        /\ rows[x].status = Status(rows[x].data)
    BY DEF FeedInv, IInv, TypeOK, AbsentIsBlank, StatusFresh, Stored
  <2>2. Numbered(history[x])
    BY DEF FeedInv, IInv, HistoryWellFormed, Numbered
  <2>3. rows[x].state # "absent" => Tells(history[x], rows[x])
    BY DEF FeedInv, IInv, HistoryTellsTheRecord, Tells, Stored, Live
  <2>f. rows[x].state # "absent" => Filled(rows[x])
    BY DEF FeedInv, RequiredFilled, Stored
  <2>4. RequiresDraft /\ rows[x].state \in {"active", "retired"} => ApprovedIn(history[x])
    BY DEF FeedInv, IInv, GoldenWasPublished, ApprovedIn
  <2>5. Repeats(audit[x], history[x], rows[x].draftOf # NoRecord)
    BY DEF FeedInv, IInv, AuditFollowsHistory
  <2>6. FirstGolden(history[x]) => rows[x].state \in {"active", "retired"}
    BY DEF FeedInv, IInv, ImportedIsMaster, Imported, FirstGolden
  <2>7. Announces(events[x], rows[x], history[x])
    <3>1. PICK imported \in BOOLEAN :
            /\ imported => /\ rows[x].state \in {"active", "retired"}
                           /\ history[x][1].state = "active" /\ history[x][1].by \in Publisher
            /\ RequiresDraft => imported = Imported(x)
            /\ Follows(events[x], rows[x].state, imported)
      BY DEF FeedInv, EventsAreSent, Follows
    <3>2. RequiresDraft => imported = FirstGolden(history[x])
      BY <3>1 DEF Imported, FirstGolden
    <3>3. imported => history[x] # <<>>
      BY <2>3, <3>1 DEF Tells
    <3> QED
      BY <3>1, <3>2, <3>3 DEF Announces
  <2> QED
    BY <1>1, <2>1, <2>2, <2>3, <2>f, <2>4, <2>5, <2>6, <2>7 DEF RecordOK
<1>4. DraftsHaveMastersIn(b)
  BY <1>1 DEF FeedInv, IInv, DraftsPointAtMasters, DraftsHaveMastersIn, MasterState
<1>5. KeysApartIn(b)
  <2>1. \A x \in RecordId : Indexed(rows[x]) => Golden(x)
    BY DEF Indexed, Golden, Live, Stored
  <2> QED
    BY <1>1, <2>1 DEF FeedInv, IInv, OneGoldenPerKey, KeysApartIn
<1>6. RivalsIn(b)
  <2>1. \A m, d \in RecordId : DraftIn(b, d, m) => d \in DraftsOf(m)
    BY <1>1 DEF DraftIn, DraftsOf, Draft, Live, Stored
  <2>2. \A d \in RecordId : WasReverted(d) => RevertedIn(b, d)
    BY <1>1 DEF WasReverted, RevertedIn
  <2> QED
    BY <2>1, <2>2 DEF FeedInv, IInv, RivalDraftWasReverted, RivalsIn
<1>7. \A x \in RecordId : events[x] \in Seq(Event)
  BY DEF FeedInv, IInv, TypeOK
<1>s. SourcesIn(b)
  <2>1. \A x \in RecordId : OwnerOf(b.rows[x], x) = Owner(x)
    BY <1>1 DEF OwnerOf, Owner
  <2>2. \A x \in RecordId : DOMAIN history[x] = 1..Len(history[x])
    BY DEF FeedInv, IInv, TypeOK
  <2>3. \A m : BroughtBack(m) => BroughtBackIn(b, m)
    BY <1>1, <2>1, <2>2 DEF BroughtBack, BroughtBackIn, RevertedIn
  <2>4. \A x \in RecordId, o \in Identity :
          TrackedId(o) /\ KnownAs(b, x, o) => Known(x) /\ source[x] = o
    BY <1>1 DEF TrackedId, KnownAs, Known, Golden, Draft, Live, Stored
  <2>5. \A x \in RecordId : b.rows[x].state = "absent" => b.source[x] = NoSource
    BY <1>1 DEF FeedInv, AbsentHasNoSource, Stored
  <2>6. ASSUME NEW o \in Identity, TrackedId(o), NEW x \in RecordId, NEW y \in RecordId,
               KnownAs(b, x, o), KnownAs(b, y, o)
        PROVE  SameOwner(b, OwnerOf(b.rows[x], x), OwnerOf(b.rows[y], y))
    <3>1. Owner(x) = Owner(y) \/ BroughtBack(Owner(x)) \/ BroughtBack(Owner(y))
      BY <2>4, <2>6 DEF FeedInv, SourceIdNamesOneRecord
    <3> QED
      BY <2>1, <2>3, <3>1 DEF SameOwner
  <2> QED
    BY <2>5, <2>6 DEF SourcesIn
<1>8. StoreOK(b)
  BY <1>2, <1>3, <1>4, <1>5, <1>6, <1>s, <1>7 DEF StoreOK
<1> QED
  BY <1>8 DEF b

\* A transaction that commits sound tables keeps the invariant.
LEMMA CommitKeepsInv ==
  ASSUME FeedInv, NEW s, StoreOK(s), Commit(s)
  PROVE  FeedInv'
<1>1. /\ rows' = s.rows /\ history' = s.history /\ audit' = s.audit /\ source' = s.source
      /\ events' = events
  BY DEF Commit
<1>2. \A x \in RecordId : RecordOK(rows'[x], history'[x], audit'[x], events'[x])
  BY <1>1 DEF StoreOK
<1>3. TypeOK' /\ source' \in [RecordId -> Identity]
  <2>1. \A x \in RecordId :
          rows'[x] \in Row /\ history'[x] \in Seq(Version) /\ audit'[x] \in Seq(AuditEntry)
    BY <1>2 DEF RecordOK
  <2>2. /\ rows' = [x \in RecordId |-> rows'[x]] /\ history' = [x \in RecordId |-> history'[x]]
        /\ audit' = [x \in RecordId |-> audit'[x]] /\ source' \in [RecordId -> Identity]
    BY <1>1 DEF StoreOK, Tables
  <2>3. events' \in [RecordId -> Seq(Event)]
    BY <1>1 DEF FeedInv, IInv, TypeOK
  <2> QED
    BY <2>1, <2>2, <2>3 DEF TypeOK
<1>4. AbsentIsBlank' /\ StatusFresh'
  BY <1>2 DEF RecordOK, AbsentIsBlank, StatusFresh, Stored, Status, Absent, Blank
<1>5. HistoryWellFormed'
  BY <1>2 DEF RecordOK, Numbered, HistoryWellFormed
<1>6. HistoryTellsTheRecord'
  BY <1>2 DEF RecordOK, Tells, HistoryTellsTheRecord, Stored, Live
<1>7. DraftsPointAtMasters'
  BY <1>1 DEF StoreOK, DraftsHaveMastersIn, DraftsPointAtMasters, MasterState
<1>8. OneGoldenPerKey'
  <2>1. \A x \in RecordId : Golden(x)' => Indexed(rows'[x])
    BY DEF Indexed, Golden, Live, Stored
  <2> QED
    BY <1>1, <2>1 DEF StoreOK, KeysApartIn, OneGoldenPerKey, SameKey
<1>9. GoldenWasPublished' /\ ImportedIsMaster'
  BY <1>2 DEF RecordOK, ApprovedIn, FirstGolden, GoldenWasPublished, ImportedIsMaster, Imported
<1>10. AuditFollowsHistory'
  BY <1>2 DEF RecordOK, AuditFollowsHistory
<1>11. RivalDraftWasReverted'
  <2>1. \A m \in RecordId : \A d \in DraftsOf(m)' : d \in RecordId /\ DraftIn(s, d, m)
    BY <1>1 DEF DraftIn, DraftsOf, Draft, Live, Stored
  <2>2. \A d \in RecordId : RevertedIn(s, d) => WasReverted(d)'
    BY <1>1 DEF WasReverted, RevertedIn
  <2> QED
    BY <2>1, <2>2 DEF StoreOK, RivalsIn, RivalDraftWasReverted
<1>12. EventsAreSent'
  <2>1. SUFFICES ASSUME NEW r \in RecordId
        PROVE \E imported \in BOOLEAN :
          /\ imported => /\ rows'[r].state \in {"active", "retired"}
                         /\ history'[r][1].state = "active" /\ history'[r][1].by \in Publisher
          /\ RequiresDraft => imported = Imported(r)'
          /\ Follows(events'[r], rows'[r].state, imported)
    BY DEF EventsAreSent, Follows
  <2>2. Imported(r)' = FirstGolden(history'[r])
    BY DEF Imported, FirstGolden
  <2>3. Announces(events'[r], rows'[r], history'[r])
    BY <1>2 DEF RecordOK
  <2> QED
    BY <2>2, <2>3 DEF Announces
<1>f. RequiredFilled'
  BY <1>2 DEF RecordOK, RequiredFilled, Filled, Stored
<1>s. AbsentHasNoSource' /\ SourceIdNamesOneRecord'
  <2>1. SourcesIn(s)
    BY DEF StoreOK
  <2>2. \A x \in RecordId : OwnerOf(s.rows[x], x) = Owner(x)'
    BY <1>1 DEF OwnerOf, Owner
  <2>3. \A x \in RecordId : DOMAIN history'[x] = 1..Len(history'[x])
    BY <1>3 DEF TypeOK
  <2>4. \A m : BroughtBackIn(s, m) => BroughtBack(m)'
    BY <1>1, <2>2, <2>3 DEF BroughtBack, BroughtBackIn, RevertedIn
  <2>5. \A x \in RecordId : Known(x)' => TrackedId(s.source[x]) /\ KnownAs(s, x, s.source[x])
    BY <1>1 DEF TrackedId, KnownAs, Known, Golden, Draft, Live, Stored
  <2>6. AbsentHasNoSource'
    BY <1>1, <2>1 DEF SourcesIn, AbsentHasNoSource, Stored, NoSource
  <2>7. ASSUME NEW x \in RecordId, NEW y \in RecordId, Known(x)', Known(y)',
               source'[x] = source'[y]
        PROVE  \/ Owner(x)' = Owner(y)'
               \/ BroughtBack(Owner(x))' \/ BroughtBack(Owner(y))'
    <3>1. s.source[x] \in Identity /\ s.source[x] = s.source[y]
      BY <1>1, <1>3, <2>7
    <3>2. SameOwner(s, OwnerOf(s.rows[x], x), OwnerOf(s.rows[y], y))
      BY <2>1, <2>5, <2>7, <3>1 DEF SourcesIn
    <3> QED
      BY <2>2, <2>4, <3>2 DEF SameOwner
  <2> QED
    BY <2>6, <2>7 DEF SourceIdNamesOneRecord
<1>13. IInv'
  BY <1>3, <1>4, <1>5, <1>6, <1>7, <1>8, <1>9, <1>10, <1>11 DEF IInv
<1> QED
  BY <1>3, <1>12, <1>f, <1>s, <1>13 DEF FeedInv

\* What every request of a feed has in common.
FeedStep(u, trusted) ==
  \E s : StoreOK(s) /\ Moves(Begun, s, u, trusted) /\ Commit(s)

LEMMA ImportIsFeedStep ==
  ASSUME FeedInv, NEW u \in Writer, NEW file \in File, NEW key, NEW sys \in ImportSource,
         NEW initial \in {"draft", "active"}, NEW strict,
         ImportRecords(u, file, key, initial, sys, strict)
  PROVE  FeedStep(u, u \in Publisher)
<1>1. /\ file \in Seq(PartialRows)
      /\ sys \in Source \cup {Null} /\ sys \notin Tracked
  BY FeedBodyAssumption, OriginAssumption DEF Tracked
<1>2. PICK s \in Import(Begun, file, key, initial, sys, strict, u) : Commit(s)
  BY DEF ImportRecords
<1>3. initial = "active" => u \in Publisher
  BY DEF ImportRecords
<1>4. StoreOK(Begun)
  BY BegunIsSound
<1> DEFINE b == Begun
<1> HIDE DEF b
<1>5. s \in Import(b, file, key, initial, sys, strict, u) /\ StoreOK(b)
  BY <1>2, <1>4 DEF b
<1>6. StoreOK(s) /\ Moves(b, s, u, u \in Publisher)
  BY <1>1, <1>3, <1>5, ImportKeepsStore
<1> QED
  BY <1>2, <1>6 DEF FeedStep, b

LEMMA PushIsFeedStep ==
  ASSUME FeedInv, NEW p \in Push, NEW body \in PushBody, ReceiveInbound(p[1], p[2], body)
  PROVE  p[1] \in Source /\ FeedStep(p[1], FALSE)
<1>1. p[1] \in Source /\ p[2] \in SentId /\ body \in PartialRows
  BY PushAssumption, FeedBodyAssumption
<1>2. PICK s \in Pushed(Begun, p[1], p[2], body) : Commit(s)
  BY DEF ReceiveInbound
<1>3. StoreOK(Begun)
  BY BegunIsSound
<1> DEFINE b == Begun
           src == p[1]
           id == p[2]
<1> HIDE DEF b, src, id
<1>4. /\ s \in Pushed(b, src, id, body) /\ StoreOK(b)
      /\ src \in Source /\ id \in SentId /\ <<src, id>> \in Push
  BY <1>1, <1>2, <1>3, PushAssumption DEF b, src, id
<1>5. StoreOK(s) /\ Moves(b, s, src, FALSE)
  BY <1>1, <1>4, PushedKeepsStore
<1> QED
  BY <1>1, <1>2, <1>5 DEF FeedStep, b, src

\* The record API beside the feeds is Records, and keeps sources apart.
LEMMA ApiIsNext ==
  ASSUME FeedInv, Api
  PROVE  Next /\ source' \in [RecordId -> Identity]
<1>1. PICK r \in RecordId, u \in Writer :
        \/ /\ PublishEdit(r, u)
           /\ source' = [source EXCEPT ![rows[r].draftOf] = source[r]]
        \/ \E body \in Body, d \in RecordId :
             /\ StartDraft(r, d, body, u)
             /\ source' = [source EXCEPT ![d] = source[r]]
        \/ /\ \/ \E body \in Body :
                   CreateRecord(r, body, u) \/ AmendDraft(r, body, u) \/ EditInPlace(r, body, u)
              \/ \E target \in 1..MaxChanges : RevertRecord(r, target, u)
              \/ DeleteRecord(r, u) \/ PublishNewRecord(r, u) \/ RetireRecord(r, u)
           /\ UNCHANGED source
  BY DEF Api
<1>2. source' \in [RecordId -> Identity]
  BY <1>1 DEF FeedInv
<1>3. Next
  BY <1>1 DEF Next
<1> QED
  BY <1>2, <1>3

\* A request is a feed's or the API's.
LEMMA FeedNextCases ==
  ASSUME FeedInv, FeedNext
  PROVE  \/ Api /\ Next /\ LegalStep /\ source' \in [RecordId -> Identity]
         \/ \E u \in Writer : FeedStep(u, u \in Publisher)
         \/ \E src \in Source : FeedStep(src, FALSE)
<1>1. CASE Api
  BY <1>1, ApiIsNext, NextIsLegal DEF FeedInv
<1>2. CASE \E u \in Writer, file \in File, key \in UpsertKey, sys \in ImportSource,
              initial \in {"draft", "active"}, strict \in BOOLEAN :
             ImportRecords(u, file, key, initial, sys, strict)
  BY <1>2, ImportIsFeedStep
<1>3. CASE \E p \in Push, body \in PushBody : ReceiveInbound(p[1], p[2], body)
  BY <1>3, PushIsFeedStep
<1> QED
  BY <1>1, <1>2, <1>3 DEF FeedNext

\* What one request of the API leaves of a record's life, seen from its sources.
LEMMA LegalStepOnLife ==
  ASSUME IInv, LegalStep, NEW x \in RecordId
  PROVE  /\ Stored(x) => Stored(x)' /\ rows'[x].draftOf = rows[x].draftOf
         /\ Stored(x) /\ (Golden(x) \/ Draft(x))' => Golden(x) \/ Draft(x) \/ WasReverted(x)'
         /\ WasReverted(x) => WasReverted(x)' /\ Stored(x)
<1>r. PICK r \in RecordId :
        \E row, action, u : ChangeStep(r, row, action, u) /\ Legal(r, row, action, u)
  BY DEF LegalStep
<1>1. PICK row, action, u : ChangeStep(r, row, action, u) /\ Legal(r, row, action, u)
  BY <1>r
<1>2. RowsEffect(r, row) /\ HistoryEffect(r, row, action, u)
  BY <1>1, ChangeEffect
<1>3. rows[x] \in Row /\ history[x] \in Seq(Version) /\ Len(history[x]) \in Nat
  BY DEF IInv, TypeOK
<1>4. WasReverted(x) => Stored(x)
  BY DEF IInv, AbsentIsBlank, WasReverted
<1>5. CASE x # r
  <2>1. history'[x] = history[x]
    BY <1>2, <1>5 DEF HistoryEffect
  <2>2. \/ rows'[x] = rows[x]
        \/ rows'[x].state = rows[x].state /\ rows'[x].draftOf = rows[x].draftOf /\ rows'[x].deleted
    BY <1>2, <1>3, <1>5, DeletedType DEF RowsEffect
  <2> QED
    BY <1>4, <2>1, <2>2 DEF WasReverted, Stored, Golden, Draft, Live
<1>6. CASE x = r
  <2> DEFINE h == history[r]
             g == history'[r]
  <2>1. /\ rows'[r] = row /\ row.state # "absent"
        /\ Stored(r) => row.draftOf = rows[r].draftOf
    BY <1>1, <1>2 DEF RowsEffect, Legal, Stored
  <2>2. /\ Len(g) = Len(h) + 1 /\ Len(h) \in Nat
        /\ g[Len(h) + 1] = Snapshot(row, Len(h) + 1, action, u)
        /\ \A k \in 1..Len(h) : g[k].action = h[k].action
    BY <1>2, <1>3, <1>6 DEF HistoryEffect
  <2>3. ASSUME WasReverted(r) PROVE WasReverted(r)'
    <3>1. PICK k \in 1..Len(h) : h[k].action = "REVERT"
      BY <2>3 DEF WasReverted
    <3>2. k \in 1..Len(g) /\ g[k].action = "REVERT"
      BY <2>2, <3>1
    <3> QED
      BY <3>2 DEF WasReverted
  <2>4. ASSUME Stored(r), (Golden(r) \/ Draft(r))', ~Golden(r), ~Draft(r)
        PROVE  WasReverted(r)'
    <3>1. rows[r].state # "retired" \/ ~Live(r)
      BY <1>1, <2>1, <2>4 DEF Legal, Golden, Draft, Live
    <3>2. action = "REVERT"
      BY <1>1, <1>3, <1>6, <2>4, <3>1 DEF Legal, Golden, Draft, Live, Stored, Row, State
    <3>3. g[Len(h) + 1].action = "REVERT" /\ Len(h) + 1 \in 1..Len(g)
      BY <2>2, <3>2 DEF Snapshot
    <3> QED
      BY <3>3 DEF WasReverted
  <2> QED
    BY <1>4, <1>6, <2>1, <2>3, <2>4 DEF Stored
<1> QED
  BY <1>5, <1>6

\* The constraints hold of every row a request of the API writes.
LEMMA LegalStepFills ==
  ASSUME IInv, RequiredFilled, LegalStep
  PROVE  RequiredFilled'
<1>r. PICK r \in RecordId :
        \E row, action, u : ChangeStep(r, row, action, u) /\ Legal(r, row, action, u)
  BY DEF LegalStep
<1>1. PICK row, action, u : ChangeStep(r, row, action, u) /\ Legal(r, row, action, u)
  BY <1>r
<1>2. RowsEffect(r, row)
  BY <1>1, ChangeEffect
<1>3. Filled(row)
  BY <1>1 DEF ChangeStep, Save, Accepts, Filled
<1>4. \A x \in RecordId : rows[x] \in Row
  BY DEF IInv, TypeOK
<1>5. ASSUME NEW x \in RecordId \ {r}, Stored(x)' PROVE Filled(rows'[x])
  <2>1. rows'[x].state = rows[x].state /\ rows'[x].data = rows[x].data
    BY <1>2, <1>4, DeletedType DEF RowsEffect
  <2>2. Filled(rows[x])
    BY <1>5, <2>1 DEF RequiredFilled, Stored
  <2> QED
    BY <2>1, <2>2 DEF Filled
<1>6. \A x \in RecordId : Stored(x)' => Filled(rows'[x])
  BY <1>2, <1>3, <1>5 DEF RowsEffect
<1> QED
  BY <1>6 DEF RequiredFilled, Filled

\* A request of the API announces what it does, of whichever records were
\* announced before.
LEMMA ApiFollows ==
  ASSUME IInv, EventsAreSent, LegalStep
  PROVE  EventsAreSent'
<1>r. PICK r \in RecordId :
        \E row, action, u : ChangeStep(r, row, action, u) /\ Legal(r, row, action, u)
  BY DEF LegalStep
<1>0. PICK row, action, u : ChangeStep(r, row, action, u) /\ Legal(r, row, action, u)
  BY <1>r
<1>1. RowsEffect(r, row) /\ HistoryEffect(r, row, action, u) /\ EventEffect(r, row, action)
  BY <1>0, ChangeEffect
<1>2. \A x \in RecordId : Imported(x)' = Imported(x)
  BY <1>0, ImportedStays
<1>3. rows'[r] = row /\ \A x \in RecordId \ {r} : rows'[x].state = rows[x].state
  <2>1. \A x \in RecordId : Deleted(rows[x]).state = rows[x].state
    BY DeletedType DEF IInv, TypeOK
  <2> QED
    BY <1>1, <2>1 DEF RowsEffect
<1>4. \A x \in RecordId : x # r => history'[x] = history[x] /\ events'[x] = events[x]
  BY <1>1 DEF HistoryEffect, EventEffect
<1>5. ASSUME NEW x \in RecordId
      PROVE  \E imported \in BOOLEAN :
               /\ imported => /\ rows'[x].state \in {"active", "retired"}
                              /\ history'[x][1].state = "active"
                              /\ history'[x][1].by \in Publisher
               /\ RequiresDraft => imported = Imported(x)'
               /\ Follows(events'[x], rows'[x].state, imported)
  <2>1. PICK imported \in BOOLEAN :
          /\ imported => /\ rows[x].state \in {"active", "retired"}
                         /\ history[x][1].state = "active" /\ history[x][1].by \in Publisher
          /\ RequiresDraft => imported = Imported(x)
          /\ Follows(events[x], rows[x].state, imported)
    BY DEF EventsAreSent, Follows
  <2>2. CASE x # r
    BY <1>2, <1>3, <1>4, <2>1, <2>2
  <2>3. CASE x = r
    <3> DEFINE e == events[r]
               f == e \o EventOf(rows[r].state, row.state, action)
    <3>1. e \in Seq(Event) /\ Follows(e, rows[r].state, imported)
      BY <2>1, <2>3 DEF IInv, TypeOK
    <3>2. \/ row.state = rows[r].state
          \/ rows[r].state = "absent" /\ row.state = "draft"
          \/ rows[r].state \in {"absent", "draft"} /\ row.state = "active"
          \/ rows[r].state = "active" /\ row.state = "retired"
      BY <1>0 DEF Legal
    <3>3. events' = [events EXCEPT ![r] = f] /\ events \in [RecordId -> Seq(Event)]
      BY <1>1 DEF EventEffect, IInv, TypeOK
    <3>4. imported => /\ rows'[r].state \in {"active", "retired"}
                      /\ history'[r][1].state = "active" /\ history'[r][1].by \in Publisher
      <4> SUFFICES ASSUME imported
                   PROVE  /\ rows'[r].state \in {"active", "retired"}
                          /\ history'[r][1].state = "active"
                          /\ history'[r][1].by \in Publisher
        OBVIOUS
      <4>1. rows[r].state \in {"active", "retired"}
        BY <2>1, <2>3
      <4>2. history[r] # <<>> /\ history[r] \in Seq(Version)
        BY <4>1 DEF IInv, TypeOK, HistoryTellsTheRecord, Stored
      <4>3. 1 \in 1..Len(history[r])
        BY <4>2
      <4>4. history'[r][1].state = history[r][1].state /\ history'[r][1].by = history[r][1].by
        BY <1>1, <4>3 DEF HistoryEffect
      <4> QED
        BY <1>3, <2>1, <2>3, <3>2, <4>1, <4>4
    <3> HIDE DEF e
    <3>5. Follows(f, row.state, imported)
      BY <2>1, <2>3, <3>1, <3>2, FollowsStep
    <3> HIDE DEF f
    <3> QED
      BY <1>2, <1>3, <2>1, <2>3, <3>3, <3>4, <3>5
  <2> QED
    BY <2>2, <2>3
<1> QED
  BY <1>5 DEF EventsAreSent, Follows

\* Whoever is known by an id after a request of the API was so before it, or got
\* it from its draft or its master, or was brought back.
LEMMA ApiKeepsSources ==
  ASSUME FeedInv, Api
  PROVE  AbsentHasNoSource' /\ SourceIdNamesOneRecord'
<1>0. IInv /\ IInv' /\ LegalStep /\ source \in [RecordId -> Identity]
  BY ApiIsNext, NextIsLegal, LegalStepPreserves DEF FeedInv
<1>1. /\ \A x \in RecordId : DOMAIN history[x] = 1..Len(history[x])
      /\ \A x \in RecordId : DOMAIN history'[x] = 1..Len(history'[x])
  BY <1>0 DEF IInv, TypeOK
<1>2. \A m : BroughtBack(m) <=> \E x \in RecordId : Owner(x) = m /\ WasReverted(x)
  BY <1>1 DEF BroughtBack, WasReverted
<1>3. \A m : BroughtBack(m)' <=> \E x \in RecordId : Owner(x)' = m /\ WasReverted(x)'
  BY <1>1 DEF BroughtBack, WasReverted
<1>4. \A x \in RecordId : Stored(x) => Owner(x)' = Owner(x)
  BY <1>0, LegalStepOnLife DEF Owner
<1>5. \A m : BroughtBack(m) => BroughtBack(m)'
  BY <1>0, <1>2, <1>3, <1>4, LegalStepOnLife
<1> DEFINE Before(x) == \E w \in RecordId :
             Known(w) /\ source[w] = source'[x] /\ Owner(w) = Owner(x)'
\* A record whose source stays.
<1>6. ASSUME NEW x \in RecordId, Known(x)', source'[x] = source[x]
      PROVE  Before(x) \/ BroughtBack(Owner(x))'
  <2>1. Stored(x)
    BY <1>6 DEF Known, FeedInv, AbsentHasNoSource, NoSource
  <2>2. Golden(x) \/ Draft(x) \/ WasReverted(x)'
    BY <1>0, <1>6, <2>1, LegalStepOnLife DEF Known
  <2>3. CASE Golden(x) \/ Draft(x)
    BY <1>4, <1>6, <2>1, <2>3 DEF Known
  <2>4. CASE WasReverted(x)'
    BY <1>3, <2>4
  <2> QED
    BY <2>2, <2>3, <2>4
<1>7. PICK r \in RecordId, u \in Writer :
        \/ /\ PublishEdit(r, u)
           /\ source' = [source EXCEPT ![rows[r].draftOf] = source[r]]
        \/ \E body \in Body, d \in RecordId :
             /\ StartDraft(r, d, body, u)
             /\ source' = [source EXCEPT ![d] = source[r]]
        \/ source' = source
  BY DEF Api
<1>8. /\ \A x \in RecordId : Known(x)' => Before(x) \/ BroughtBack(Owner(x))'
      /\ AbsentHasNoSource'
  <2>0. \A x \in RecordId : ~Stored(x)' => ~Stored(x)
    BY <1>0, LegalStepOnLife
  <2>1. CASE PublishEdit(r, u) /\ source' = [source EXCEPT ![rows[r].draftOf] = source[r]]
    <3>0. rows[r].draftOf \in RecordId
      BY <1>0, <2>1 DEF PublishEdit, IInv, TypeOK, Row
    <3>m. PICK m \in RecordId : m = rows[r].draftOf
      BY <3>0
    <3>1. Draft(r) /\ Golden(m)
      BY <2>1, <3>m DEF PublishEdit
    <3>2. source'[m] = source[r] /\ \A x \in RecordId \ {m} : source'[x] = source[x]
      BY <1>0, <2>1, <3>m
    <3>3. Owner(m) = m /\ Owner(r) = m
      BY <3>1, <3>m, NullsAssumption DEF Owner, Golden, IInv, DraftsPointAtMasters, FeedInv
    <3>4. Owner(m)' = m
      BY <1>4, <3>1, <3>3 DEF Golden, Live
    <3>5. Stored(m)'
      BY <1>0, <3>1, LegalStepOnLife DEF Golden, Live
    <3>6. Known(m)' => Known(r)
      BY <3>1, <3>2 DEF Known
    <3>7. Known(m)' => Before(m)
      BY <3>2, <3>3, <3>4, <3>6
    <3>8. \A x \in RecordId \ {m} : Known(x)' => Before(x) \/ BroughtBack(Owner(x))'
      BY <1>6, <3>2
    <3>9. AbsentHasNoSource'
      BY <2>0, <3>2, <3>5 DEF FeedInv, AbsentHasNoSource, NoSource
    <3> HIDE DEF Before
    <3> QED
      BY <3>7, <3>8, <3>9
  <2>2. CASE \E body \in Body, d \in RecordId :
               /\ StartDraft(r, d, body, u)
               /\ source' = [source EXCEPT ![d] = source[r]]
    <3>1. PICK body \in Body, d \in RecordId :
            /\ StartDraft(r, d, body, u)
            /\ source' = [source EXCEPT ![d] = source[r]]
      BY <2>2
    <3>2. source'[d] = source[r] /\ \A x \in RecordId \ {d} : source'[x] = source[x]
      BY <1>0, <3>1
    <3>3. rows' = [rows EXCEPT ![d] = DraftCopy(rows[r], r, body)] /\ Golden(r)
      BY <3>1 DEF StartDraft, Save
    <3>4. rows'[d] = DraftCopy(rows[r], r, body)
      BY <1>0, <3>3 DEF IInv, TypeOK
    <3>5. Owner(d)' = r /\ Stored(d)'
      BY <3>4, NullsAssumption DEF Owner, DraftCopy, Stored
    <3>6. Owner(r) = r
      BY <1>0, <3>3 DEF Owner, Golden, IInv, DraftsPointAtMasters
    <3>7. Known(d)' => Known(r)
      BY <3>2, <3>3 DEF Known
    <3>8. Known(d)' => Before(d)
      BY <3>2, <3>5, <3>6, <3>7
    <3>9. \A x \in RecordId \ {d} : Known(x)' => Before(x) \/ BroughtBack(Owner(x))'
      BY <1>6, <3>2
    <3>10. AbsentHasNoSource'
      BY <2>0, <3>2, <3>5 DEF FeedInv, AbsentHasNoSource, NoSource
    <3> HIDE DEF Before
    <3> QED
      BY <3>8, <3>9, <3>10
  <2>3. CASE source' = source
    <3>1. AbsentHasNoSource'
      BY <2>0, <2>3 DEF FeedInv, AbsentHasNoSource, NoSource
    <3> HIDE DEF Before
    <3> QED
      BY <1>6, <2>3, <3>1
  <2> HIDE DEF Before
  <2> QED
    BY <1>7, <2>1, <2>2, <2>3
<1>9. ASSUME NEW x \in RecordId, NEW y \in RecordId, Known(x)', Known(y)',
             source'[x] = source'[y], ~BroughtBack(Owner(x))', ~BroughtBack(Owner(y))'
      PROVE  Owner(x)' = Owner(y)'
  <2>1. PICK v \in RecordId : Known(v) /\ source[v] = source'[x] /\ Owner(v) = Owner(x)'
    BY <1>8, <1>9
  <2>2. PICK w \in RecordId : Known(w) /\ source[w] = source'[y] /\ Owner(w) = Owner(y)'
    BY <1>8, <1>9
  <2>3. Owner(v) = Owner(w) \/ BroughtBack(Owner(v)) \/ BroughtBack(Owner(w))
    BY <1>9, <2>1, <2>2 DEF FeedInv, SourceIdNamesOneRecord
  <2> QED
    BY <1>5, <1>9, <2>1, <2>2, <2>3
<1>10. SourceIdNamesOneRecord'
  BY <1>9 DEF SourceIdNamesOneRecord
<1> QED
  BY <1>8, <1>10

LEMMA FeedNextKeepsInv == FeedInv /\ [FeedNext]_feed => FeedInv'
<1>1. ASSUME FeedInv, UNCHANGED feed PROVE FeedInv'
  <2>1. UNCHANGED store /\ source' = source
    BY <1>1 DEF feed, store
  <2>2. IInv'
    BY <1>1, <2>1, StutterPreserves DEF FeedInv
  <2>3. EventsAreSent'
    BY <1>1, <2>1 DEF FeedInv, store, EventsAreSent, Imported
  <2>4. RequiredFilled' /\ AbsentHasNoSource'
    BY <1>1, <2>1 DEF FeedInv, store, RequiredFilled, AbsentHasNoSource, Filled, Stored, NoSource
  <2>5. SourceIdNamesOneRecord'
    BY <1>1, <2>1 DEF FeedInv, store, SourceIdNamesOneRecord, Known, BroughtBack, Owner,
                      Golden, Draft, Live, Stored
  <2> QED
    BY <1>1, <2>1, <2>2, <2>3, <2>4, <2>5 DEF FeedInv
<1>2. ASSUME FeedInv, FeedNext PROVE FeedInv'
  <2>1. CASE Api /\ LegalStep /\ source' \in [RecordId -> Identity]
    BY <1>2, <2>1, LegalStepPreserves, ApiFollows, LegalStepFills, ApiKeepsSources
       DEF FeedInv
  <2>2. ASSUME NEW u, NEW trusted, FeedStep(u, trusted) PROVE FeedInv'
    BY <1>2, <2>2, CommitKeepsInv DEF FeedStep
  <2> QED
    BY <1>2, <2>1, <2>2, FeedNextCases
<1> QED
  BY <1>1, <1>2

LEMMA FeedInvHolds == FeedSpec => []FeedInv
<1>1. FeedInit => FeedInv
  <2> SUFFICES ASSUME FeedInit PROVE FeedInv
    OBVIOUS
  <2>1. source \in [RecordId -> Identity] /\ \A x \in RecordId : source[x].id = Null
    BY DEF FeedInit, NoSource, Identity
  <2>2. \A x \in RecordId : ~Stored(x)
    BY DEF FeedInit, Init, Absent, Stored
  <2>3. RequiredFilled /\ AbsentHasNoSource /\ SourceIdNamesOneRecord
    BY <2>1, <2>2 DEF FeedInit, RequiredFilled, AbsentHasNoSource, SourceIdNamesOneRecord, Known
  <2>4. EventsAreSent
    <3> SUFFICES ASSUME NEW r \in RecordId
                 PROVE  \E imported \in BOOLEAN :
                   /\ imported => /\ rows[r].state \in {"active", "retired"}
                                  /\ history[r][1].state = "active"
                                  /\ history[r][1].by \in Publisher
                   /\ RequiresDraft => imported = Imported(r)
                   /\ Follows(events[r], rows[r].state, imported)
      BY DEF EventsAreSent, Follows
    <3>1. /\ rows[r].state = "absent" /\ history[r] = <<>> /\ events[r] = <<>>
          /\ Len(events[r]) = 0
      BY DEF FeedInit, Init, Absent
    <3>2. Imported(r) = FALSE
      BY <3>1 DEF Imported
    <3>3. Follows(events[r], rows[r].state, FALSE)
      BY <3>1 DEF Follows
    <3> WITNESS FALSE \in BOOLEAN
    <3> QED
      BY <3>2, <3>3
  <2> QED
    BY <2>1, <2>3, <2>4, InitIInv DEF FeedInit, FeedInv
<1> QED
  BY <1>1, FeedNextKeepsInv, PTL DEF FeedSpec

-----------------------------------------------------------------------------
(* What holds whatever the API, the imports and the pushes do in turn *)

\* The tables, the logs and the source columns hold only what their columns
\* allow: _filter_columns, the field_map and the stamps of the feeds let nothing
\* else in.
THEOREM FeedTypeCorrect == FeedSpec => []FeedTypeOK
<1>1. FeedInv => FeedTypeOK
  BY DEF FeedInv, IInv, FeedTypeOK
<1> QED
  BY <1>1, FeedInvHolds, PTL

\* import_records and _inbound_upsert write the row and its history snapshot
\* alike, through claims, drafts and updates in place: the newest version says
\* what the record table says.
THEOREM FeedsHistoryAgrees == FeedSpec => []HistoryTellsTheRecord
<1>1. FeedInv => HistoryTellsTheRecord
  BY DEF FeedInv, IInv
<1> QED
  BY <1>1, FeedInvHolds, PTL

\* Every row of a file and both halves of a push are logged once, under the
\* name of who sent them.
THEOREM FeedsAudit == FeedSpec => []AuditFollowsHistory
<1>1. FeedInv => AuditFollowsHistory
  BY DEF FeedInv, IInv
<1> QED
  BY <1>1, FeedInvHolds, PTL

\* Nor do feeds make a draft of a draft: the copy they make is of an active
\* record without drafts.
THEOREM FeedsDraftsHaveMasters == FeedSpec => []DraftsPointAtMasters
<1>1. FeedInv => DraftsPointAtMasters
  BY DEF FeedInv, IInv
<1> QED
  BY <1>1, FeedInvHolds, PTL

\* With requires_draft a record becomes golden by a publisher's publish or a
\* publisher's import as active, never by a push or an editor's file.
THEOREM FeedsGoldenIsApproved == FeedSpec => []GoldenWasPublished
<1>1. FeedInv => GoldenWasPublished
  BY DEF FeedInv, IInv
<1> QED
  BY <1>1, FeedInvHolds, PTL

\* Feeds announce nothing, and what the API announces of the records they left
\* is still in order, with or without requires_draft: one record.created at most,
\* first, nothing after record.retired, and no silent golden record but those a
\* publisher imported as active.
THEOREM FeedsEventsFollow == FeedSpec => []FeedEventsFollow
<1>1. FeedInv => FeedEventsFollow
  BY DEF FeedInv, EventsAreSent, FeedEventsFollow
<1> QED
  BY <1>1, FeedInvHolds, PTL

-----------------------------------------------------------------------------
(* What no request may do, feeds included *)

\* _inbound_upsert changes no record that is or was golden, whichever lookup
\* finds it: the change goes to a draft, and a claim on the way leaves the row.
THEOREM PushesSpareMasters == FeedSpec => PushesLandAsDrafts
<1> DEFINE Spared ==
      Pushes => \A r \in RecordId :
                  rows[r].state \in {"active", "retired"} => rows'[r] = rows[r]
<1>1. FeedInv /\ [FeedNext]_feed => [Spared]_feed
  <2> SUFFICES ASSUME FeedInv, Pushes, NEW x \in RecordId,
                      rows[x].state \in {"active", "retired"}
               PROVE  rows'[x] = rows[x]
    OBVIOUS
  <2>1. PICK p \in Push, body \in PushBody : ReceiveInbound(p[1], p[2], body)
    BY DEF Pushes
  <2>2. FeedStep(p[1], FALSE)
    BY <2>1, PushIsFeedStep
  <2>3. PICK s : Moves(Begun, s, p[1], FALSE) /\ Commit(s)
    BY <2>2 DEF FeedStep
  <2>4. rows' = s.rows /\ Begun.rows = rows
    BY <2>3 DEF Commit, Begun
  <2>5. KeepsRecord(Begun, s, x) \/ MovesRecord(Begun, s, x, p[1], FALSE)
    BY <2>3 DEF Moves
  <2> QED
    BY <2>4, <2>5 DEF KeepsRecord, MovesRecord, MasterState
<1>2. PushesLandAsDrafts <=> [][Spared]_feed
  BY DEF PushesLandAsDrafts
<1> HIDE DEF Spared
<1> QED
  BY <1>1, <1>2, FeedInvHolds, PTL DEF FeedSpec

\* What a feed's request does to each record.
LEMMA FeedStepOnRecord ==
  ASSUME NEW u, NEW trusted, FeedStep(u, trusted), NEW x \in RecordId
  PROVE  \/ rows'[x] = rows[x] /\ source'[x] = source[x]
         \/ /\ Len(history'[x]) > Len(history[x])
            /\ history'[x][Len(history'[x])].by = u
            /\ \/ rows'[x].state = rows[x].state
               \/ rows[x].state = "absent" /\ rows'[x].state \in {"draft", "active"}
            /\ rows[x].state \in {"active", "retired"} /\ ~trusted =>
                 rows'[x] = rows[x] /\ source'[x].system = u
<1>1. PICK s : Moves(Begun, s, u, trusted) /\ Commit(s)
  BY DEF FeedStep
<1>2. /\ rows' = s.rows /\ history' = s.history /\ source' = s.source
      /\ Begun.rows = rows /\ Begun.history = history /\ Begun.source = source
  BY <1>1 DEF Commit, Begun
<1>3. KeepsRecord(Begun, s, x) \/ MovesRecord(Begun, s, x, u, trusted)
  BY <1>1 DEF Moves
<1> QED
  BY <1>2, <1>3 DEF KeepsRecord, MovesRecord, MasterState

\* Imports and pushes take no record back: an upsert keeps the state of the
\* record it finds, and a new one enters as a draft or active.
THEOREM FeedsLifecycle == FeedSpec => LifecycleOrder
<1> DEFINE Forward ==
      \A r \in RecordId :
        <<rows[r].state, rows'[r].state>> \in
          {<<s, s>> : s \in State \cup {"absent"}} \cup
          {<<"absent", "draft">>, <<"absent", "active">>, <<"draft", "active">>,
           <<"active", "retired">>}
<1>1. FeedInv /\ [FeedNext]_feed => [Forward]_store
  <2> SUFFICES ASSUME FeedInv, FeedNext, NEW x \in RecordId
               PROVE  <<rows[x].state, rows'[x].state>> \in
                        {<<s, s>> : s \in State \cup {"absent"}} \cup
                        {<<"absent", "draft">>, <<"absent", "active">>,
                         <<"draft", "active">>, <<"active", "retired">>}
    BY DEF feed, store
  <2>1. rows[x].state \in State \cup {"absent"}
    BY DEF FeedInv, IInv, TypeOK, Row
  <2>2. \/ rows'[x].state = rows[x].state
        \/ rows[x].state = "absent" /\ rows'[x].state \in {"draft", "active"}
        \/ rows[x].state = "draft" /\ rows'[x].state = "active"
        \/ rows[x].state = "active" /\ rows'[x].state = "retired"
    <3>1. CASE LegalStep
      BY <3>1, LegalStepOnRecord DEF Legal, FeedInv
    <3>2. ASSUME NEW u, NEW trusted, FeedStep(u, trusted)
          PROVE  \/ rows'[x].state = rows[x].state
                 \/ rows[x].state = "absent" /\ rows'[x].state \in {"draft", "active"}
      BY <3>2, FeedStepOnRecord
    <3> QED
      BY <3>1, <3>2, FeedNextCases
  <2> QED
    BY <2>1, <2>2
<1>2. LifecycleOrder <=> [][Forward]_store
  BY DEF LifecycleOrder
<1> HIDE DEF Forward
<1> QED
  BY <1>1, <1>2, FeedInvHolds, PTL DEF FeedSpec

\* Data of a record that is or was golden changes in place only by a publisher,
\* whom the history names: update_record and revert_record check can_publish,
\* import_records takes golden records to drafts unless it imports as active,
\* refuses retired ones, and a push never writes a master.
THEOREM FeedsMasterDataIsApproved == FeedSpec => MasterDataIsApproved
<1> DEFINE Approved ==
      \A r \in RecordId :
        Live(r) /\ rows[r].state \in {"active", "retired"} /\ rows'[r].data # rows[r].data =>
          history'[r][Len(history'[r])].by \in Publisher
<1>1. FeedInv /\ [FeedNext]_feed => [Approved]_feed
  <2> SUFFICES ASSUME FeedInv, FeedNext, NEW x \in RecordId,
                      rows[x].state \in {"active", "retired"}, rows'[x].data # rows[x].data
               PROVE  history'[x][Len(history'[x])].by \in Publisher
    OBVIOUS
  <2>1. CASE LegalStep
    BY <2>1, LegalStepOnRecord DEF Legal, FeedInv
  <2>2. ASSUME NEW u, NEW trusted, FeedStep(u, trusted), trusted => u \in Publisher
        PROVE  history'[x][Len(history'[x])].by \in Publisher
    <3>1. history'[x][Len(history'[x])].by = u /\ trusted
      BY <2>2, FeedStepOnRecord
    <3> QED
      BY <2>2, <3>1
  <2>3. CASE \E u \in Writer : FeedStep(u, u \in Publisher)
    BY <2>2, <2>3
  <2>4. CASE \E src \in Source : FeedStep(src, FALSE)
    BY <2>2, <2>4
  <2> QED
    BY <2>1, <2>3, <2>4, FeedNextCases
<1>2. MasterDataIsApproved <=> [][Approved]_feed
  BY DEF MasterDataIsApproved
<1> HIDE DEF Approved
<1> QED
  BY <1>1, <1>2, FeedInvHolds, PTL DEF FeedSpec

\* Of the API's requests only the publish of an edit moves a golden record's
\* source, and it writes a version by the publisher.
LEMMA ApiOnSource ==
  ASSUME FeedInv, Api, NEW x \in RecordId, Golden(x), source'[x] # source[x]
  PROVE  /\ Len(history'[x]) > Len(history[x])
         /\ history'[x][Len(history'[x])].by \in Publisher
<1>1. PICK r \in RecordId, u \in Writer :
        \/ /\ PublishEdit(r, u)
           /\ source' = [source EXCEPT ![rows[r].draftOf] = source[r]]
        \/ \E body \in Body, d \in RecordId :
             /\ StartDraft(r, d, body, u)
             /\ source' = [source EXCEPT ![d] = source[r]]
  BY DEF Api
<1>2. CASE PublishEdit(r, u) /\ source' = [source EXCEPT ![rows[r].draftOf] = source[r]]
  <2>1. x = rows[r].draftOf /\ u \in Publisher
    BY <1>2 DEF FeedInv, PublishEdit
  <2>2. \E i \in FirstOpen(history[x]) :
          history' = [history EXCEPT
            ![x] = WriteHistory(@, i, VersionAt(history[x], i) + 1,
                                MergedInto(rows[x], rows[r].data), "PUBLISH", u)]
    BY <1>2, <2>1 DEF PublishEdit, SaveNext, Save
  <2>3. PICK i \in FirstOpen(history[x]) :
          history' = [history EXCEPT
            ![x] = WriteHistory(@, i, VersionAt(history[x], i) + 1,
                                MergedInto(rows[x], rows[r].data), "PUBLISH", u)]
    BY <2>2
  <2> DEFINE row == MergedInto(rows[x], rows[r].data)
             h == history[x]
             v == VersionAt(h, i) + 1
             g == WriteHistory(h, i, v, row, "PUBLISH", u)
  <2>4. h \in Seq(Version) /\ Len(h) \in Nat /\ history' = [history EXCEPT ![x] = g]
    BY <2>3 DEF FeedInv, IInv, TypeOK
  <2>5. i = Len(h) /\ v = Len(h) + 1
    BY OpenIsNewest DEF FeedInv, Golden
  <2>6. row \in Row
    BY MergedIntoType DEF FeedInv, IInv, TypeOK, Row
  <2>7. "PUBLISH" \in ChangeAction /\ u \in Actor /\ i \in 0..Len(h) /\ v \in Nat
    BY <2>4, <2>5 DEF ChangeAction, Actor
  <2> HIDE DEF row, h, v
  <2>8. Len(g) = Len(h) + 1 /\ g[Len(h) + 1] = Snapshot(row, v, "PUBLISH", u)
    BY <2>4, <2>6, <2>7, WriteHistoryShape
  <2> HIDE DEF g
  <2>9. history'[x] = g
    BY <2>4 DEF FeedInv, IInv, TypeOK
  <2> QED
    BY <2>1, <2>4, <2>8, <2>9 DEF Snapshot, h
<1>3. CASE \E body \in Body, d \in RecordId :
             /\ StartDraft(r, d, body, u)
             /\ source' = [source EXCEPT ![d] = source[r]]
  BY <1>3 DEF FeedInv, StartDraft, Golden, Live
<1> QED
  BY <1>1, <1>2, <1>3

\* _source_system and _source_id of a golden record change only with a version
\* by a publisher or by the source they name from then on, so that history
\* tells how every golden record came to be known under its source.
THEOREM FeedsProvenance == FeedSpec => ProvenanceIsRecorded
<1> DEFINE Recorded ==
      \A r \in RecordId : Golden(r) /\ Golden(r)' /\ source'[r] # source[r] =>
        /\ Len(history'[r]) > Len(history[r])
        /\ LET e == history'[r][Len(history'[r])]
           IN e.by \in Publisher \cup {source'[r].system}
<1>1. FeedInv /\ [FeedNext]_feed => [Recorded]_feed
  <2> SUFFICES ASSUME FeedInv, FeedNext, NEW x \in RecordId, Golden(x), source'[x] # source[x]
               PROVE  /\ Len(history'[x]) > Len(history[x])
                      /\ history'[x][Len(history'[x])].by \in Publisher \cup {source'[x].system}
    OBVIOUS
  <2>1. CASE Api
    BY <2>1, ApiOnSource
  <2>2. ASSUME NEW u, NEW trusted, FeedStep(u, trusted), trusted => u \in Publisher
        PROVE  /\ Len(history'[x]) > Len(history[x])
               /\ history'[x][Len(history'[x])].by \in Publisher \cup {source'[x].system}
    <3>1. /\ Len(history'[x]) > Len(history[x])
          /\ history'[x][Len(history'[x])].by = u
          /\ trusted \/ source'[x].system = u
      BY <2>2, FeedStepOnRecord DEF Golden
    <3> QED
      BY <2>2, <3>1
  <2>3. CASE \E u \in Writer : FeedStep(u, u \in Publisher)
    BY <2>2, <2>3
  <2>4. CASE \E src \in Source : FeedStep(src, FALSE)
    BY <2>2, <2>4
  <2> QED
    BY <2>1, <2>3, <2>4, FeedNextCases
<1>2. ProvenanceIsRecorded <=> [][Recorded]_feed
  BY DEF ProvenanceIsRecorded
<1> HIDE DEF Recorded
<1> QED
  BY <1>1, <1>2, FeedInvHolds, PTL DEF FeedSpec

\* A tracked source has one record per id: the lookup by source and id of a push
\* comes first, a push that finds nothing enters under an id nobody has, and a
\* claim is made only when nobody has it; publishes and new drafts pass a source
\* on within one record; imports never stamp a tracked source, and the API never
\* changes what a live record is known by otherwise.
THEOREM SourceIdsNameOneRecord == FeedSpec => []SourceIdNamesOneRecord
<1>1. FeedInv => SourceIdNamesOneRecord
  BY DEF FeedInv
<1> QED
  BY <1>1, FeedInvHolds, PTL

\* What a hit of the upsert key gets from the golden record r that comes back:
\* r itself its own row, another live record, which is not golden, its data.
LEMMA HitTakesBack ==
  ASSUME NEW s, StoreOK(s), NEW r \in RecordId, Indexed(s.rows[r]),
         NEW key \in UniqueColumn, s.rows[r].data[key] # Null,
         NEW x \in Hits(s, s.rows[r].data, key)
  PROVE  LET row == Edited(s.rows[x], s.rows[x], s.rows[r].data) IN
         /\ x \in RecordId /\ s.rows[x].state # "absent"
         /\ row.state = s.rows[x].state /\ row.data = s.rows[r].data
         /\ Accepts(s.rows, x, row)
         /\ Indexed(s.rows[x]) => x = r
<1> DEFINE row == Edited(s.rows[x], s.rows[x], s.rows[r].data)
<1>1. /\ x \in RecordId /\ s.rows[x].state \in State
      /\ s.rows[x].data[key] = s.rows[r].data[key]
  BY DEF Hits, Found, InState, State
<1>2. /\ s.rows[x] \in Row /\ s.rows[r] \in Row
      /\ Filled(s.rows[r]) /\ key \in Column
  BY <1>1, ColumnAssumption DEF StoreOK, RecordOK, Indexed
<1>3. Merge(s.rows[x].data, s.rows[r].data) = s.rows[r].data
  <2>1. s.rows[r].data \in [Column -> Cell]
    BY <1>2 DEF Row, Data
  <2> DEFINE data == s.rows[r].data
             old == s.rows[x].data
  <2> HIDE DEF data, old
  <2>2. data \in [Column -> Cell]
    BY <2>1 DEF data
  <2>3. Merge(old, data) = data
    BY <2>2 DEF Merge
  <2> QED
    BY <2>3 DEF data, old
<1>4. /\ row.state = s.rows[x].state /\ row.deleted = s.rows[x].deleted
      /\ row.data = s.rows[r].data
  BY <1>2, <1>3 DEF Edited, Row
<1>5. Indexed(s.rows[x]) => x = r
  BY <1>1 DEF StoreOK, KeysApartIn, SameKey
<1>6. Accepts(s.rows, x, row)
  <2> HIDE DEF row
  <2>1. \A c \in RequiredColumn : row.data[c] # Null
    BY <1>2, <1>4 DEF Filled
  <2>2. ASSUME Indexed(row), NEW o \in RecordId \ {x}, Indexed(s.rows[o])
        PROVE  ~SameKey(s.rows[o], row)
    <3>1. Indexed(s.rows[x])
      BY <1>4, <2>2 DEF Indexed
    <3>2. ~SameKey(s.rows[o], s.rows[r])
      BY <1>5, <2>2, <3>1 DEF StoreOK, KeysApartIn
    <3> QED
      BY <1>4, <3>2 DEF SameKey
  <2> QED
    BY <2>1, <2>2 DEF Accepts
<1> HIDE DEF row
<1>7. /\ x \in RecordId /\ s.rows[x].state # "absent"
      /\ row.state = s.rows[x].state /\ row.data = s.rows[r].data
      /\ Accepts(s.rows, x, row)
      /\ Indexed(s.rows[x]) => x = r
  BY <1>1, <1>4, <1>5, <1>6 DEF State
<1> QED
  BY <1>7 DEF row

\* A golden record that is exported and comes back under a unique key is taken by
\* import_records, and no golden record is changed by it: the key finds that
\* record and at most drafts and retired records beside it, its own values fit
\* where it stands, and what is written over the others is in no index.
THEOREM ReimportIsAccepted == FeedSpec => []ReimportKeepsGolden
<1>1. FeedInv => ReimportKeepsGolden
  <2> SUFFICES ASSUME FeedInv,
                      NEW r \in RecordId, NEW u \in Publisher,
                      NEW key \in UpsertKey \cap UniqueColumn,
                      Golden(r), rows[r].data[key] # Null,
                      NEW t \in ImportRow(Begun, rows[r].data, key, "active", Null, u)
               PROVE  /\ t.ok
                      /\ \A x \in RecordId : Golden(x) =>
                           t.rows[x].data = rows[x].data /\ t.rows[x].state = "active"
    BY DEF ReimportKeepsGolden
  <2> DEFINE b == Begun
             back == rows[r].data
  <2>1. StoreOK(b) /\ b.rows = rows
    BY BegunIsSound DEF Begun
  <2> HIDE DEF b
  <2>2. /\ Indexed(b.rows[r]) /\ back = b.rows[r].data
        /\ key \in UniqueColumn /\ key \in Column /\ back[key] # Null
    BY <2>1, ColumnAssumption DEF Golden, Live, Indexed
  <2>3. t \in ImportRow(b, back, key, "active", Null, u)
    BY DEF b
  <2>4. r \in Hits(b, back, key)
    <3>1. DOMAIN back = Column
      BY DEF FeedInv, IInv, TypeOK, Row, Data
    <3> QED
      BY <2>1, <2>2, <3>1 DEF Hits, Found, InState, Indexed
  <2> HIDE DEF back
  <2>5. PICK x \in Hits(b, back, key) : t \in Upsert(b, x, back, "active", Null, u)
    BY <2>3, <2>4 DEF ImportRow
  <2> DEFINE row == Edited(b.rows[x], b.rows[x], back)
             origin == Stamp(b.source[x], Null, Null)
  <2>6. /\ x \in RecordId /\ b.rows[x].state # "absent"
        /\ row.state = b.rows[x].state /\ row.data = back
        /\ Accepts(b.rows, x, row)
        /\ Indexed(b.rows[x]) => x = r
    BY <2>1, <2>2, <2>5, HitTakesBack
  <2>7. t \in Change(b, x, row, origin, "UPDATE", "UPDATE", u)
    BY <2>5 DEF Upsert, UpdateRow
  <2> HIDE DEF row, origin
  <2>8. t.ok /\ t.rows[x] = row /\ \A y \in RecordId \ {x} : t.rows[y] = b.rows[y]
    BY <2>1, <2>6, <2>7, AcceptedChange
  <2>9. ASSUME NEW y \in RecordId, Golden(y)
        PROVE  t.rows[y].data = rows[y].data /\ t.rows[y].state = "active"
    <3>1. CASE y = x
      <4>1. x = r
        BY <2>1, <2>6, <2>9, <3>1 DEF Golden, Live, Indexed
      <4> QED
        BY <2>1, <2>2, <2>6, <2>8, <2>9, <3>1, <4>1 DEF Golden
    <3>2. CASE y # x
      BY <2>1, <2>8, <2>9, <3>2 DEF Golden
    <3> QED
      BY <3>1, <3>2
  <2> QED
    BY <2>8, <2>9
<1> QED
  BY <1>1, FeedInvHolds, PTL

-----------------------------------------------------------------------------
(* The promise to consumers, feeds included *)

\* What a request of a feed does is one Take: its versions are submitted values,
\* and what becomes golden is one of them.
LEMMA FeedStepIsTake ==
  ASSUME FeedInv, NEW u \in Actor, NEW trusted, FeedStep(u, trusted)
  PROVE  Promise!Take
<1>1. PICK s : StoreOK(s) /\ Moves(Begun, s, u, trusted) /\ Commit(s)
  BY DEF FeedStep
<1>2. /\ rows' = s.rows /\ history' = s.history
      /\ Begun.rows = rows /\ Begun.history = history
  BY <1>1 DEF Commit, Begun
<1>3. /\ \A x \in RecordId : RecordOK(rows'[x], history'[x], s.audit[x], events[x])
      /\ \A x \in RecordId : rows'[x].draftOf # NoRecord => rows'[x].state = "draft"
      /\ \A x, y \in RecordId : Indexed(rows'[x]) /\ Indexed(rows'[y]) /\ x # y =>
           ~SameKey(rows'[x], rows'[y])
  BY <1>1, <1>2 DEF StoreOK, DraftsHaveMastersIn, KeysApartIn
<1>4. \A x \in RecordId :
        /\ rows[x] \in Row /\ history[x] \in Seq(Version)
        /\ rows'[x] \in Row /\ history'[x] \in Seq(Version)
        /\ rows[x].state = "absent" => history[x] = <<>>
  BY <1>3 DEF RecordOK, FeedInv, IInv, TypeOK, AbsentIsBlank, Stored
<1>5. ASSUME NEW x \in RecordId
      PROVE  \/ rows'[x] = rows[x] /\ history'[x] = history[x]
             \/ /\ Len(history'[x]) > Len(history[x])
                /\ \A i \in 1..Len(history[x]) : history'[x][i].data = history[x][i].data
                /\ rows'[x].state # "absent" /\ ~rows'[x].deleted
                /\ rows[x].state # "absent" =>
                     /\ ~rows[x].deleted /\ rows'[x].draftOf = rows[x].draftOf
                     /\ rows'[x].state = rows[x].state
  <2>1. KeepsRecord(Begun, s, x) \/ MovesRecord(Begun, s, x, u, trusted)
    BY <1>1 DEF Moves
  <2> QED
    BY <1>2, <2>1 DEF KeepsRecord, MovesRecord
<1>6. \A r \in RecordId : SubmittedFor(r) \subseteq SubmittedFor(r)'
  <2>1. SUFFICES ASSUME NEW r \in RecordId, NEW d \in Data, NEW x \in RecordId, Owner(x) = r,
                        NEW i \in 1..Len(history[x]), history[x][i].data = d
                 PROVE  d \in SubmittedFor(r)'
    BY DEF SubmittedFor
  <2>2. rows[x].state # "absent"
    BY <1>4, <2>1
  <2>3. i \in 1..Len(history'[x]) /\ history'[x][i].data = d
    BY <1>4, <1>5, <2>1
  <2>4. Owner(x)' = r
    BY <1>5, <2>1, <2>2 DEF Owner
  <2> QED
    BY <2>1, <2>3, <2>4 DEF SubmittedFor
<1>7. \A x \in RecordId :
        GoldenValue(x)' # Null => Indexed(rows'[x]) /\ GoldenValue(x)' = rows'[x].data
  BY DEF GoldenValue, Golden, Live, Stored, Indexed
<1>8. ASSUME NEW r \in RecordId, GoldenValue(r)' # GoldenValue(r)
      PROVE  /\ GoldenValue(r)' \in SubmittedFor(r)'
             /\ GoldenValue(r) = Null => SubmittedFor(r) = {}
  <2>1. rows'[r] # rows[r]
    BY <1>8 DEF GoldenValue, Golden, Live, Stored
  <2>2. /\ rows'[r].state # "absent" /\ ~rows'[r].deleted
        /\ rows[r].state # "absent" => ~rows[r].deleted /\ rows'[r].state = rows[r].state
    BY <1>5, <2>1
  <2>3. rows'[r].state = "active"
    BY <1>8, <2>2 DEF GoldenValue, Golden, Live, Stored
  <2>4. GoldenValue(r)' = rows'[r].data
    BY <2>2, <2>3 DEF GoldenValue, Golden, Live, Stored
  <2>5. rows'[r].data \in SubmittedFor(r)'
    <3>1. /\ Len(history'[r]) \in 1..Len(history'[r])
          /\ history'[r][Len(history'[r])].data = rows'[r].data
      BY <1>3, <1>4, <2>2 DEF RecordOK, Tells
    <3>2. rows'[r].data \in Data
      BY <1>4 DEF Row
    <3>3. Owner(r)' = r
      BY <1>3, <2>3 DEF Owner
    <3> QED
      BY <3>1, <3>2, <3>3 DEF SubmittedFor
  <2>6. CASE rows[r].state = "absent"
    <3>1. SubmittedFor(r) = {}
      BY <2>6, NothingSubmitted DEF Stored, FeedInv
    <3> QED
      BY <2>4, <2>5, <3>1
  <2>7. CASE rows[r].state # "absent"
    <3>1. GoldenValue(r) = rows[r].data
      BY <2>2, <2>3, <2>7 DEF GoldenValue, Golden, Live, Stored
    <3>2. rows[r].data # Null
      BY <1>4, NullsAssumption DEF Row
    <3> QED
      BY <2>4, <2>5, <3>1, <3>2
  <2> QED
    BY <2>6, <2>7
<1>9. ASSUME NEW r \in RecordId, NEW o \in RecordId, r # o,
             GoldenValue(r)' # Null, GoldenValue(o)' # Null
      PROVE  ~\E c \in UniqueColumn :
                GoldenValue(r)'[c] # Null /\ GoldenValue(r)'[c] = GoldenValue(o)'[c]
  BY <1>3, <1>7, <1>9 DEF SameKey
<1>10. \A r \in RecordId : GoldenValue(r)' \in Data \cup {Null}
  BY <1>4, <1>7 DEF Row
<1>11. \A r \in RecordId : SubmittedFor(r)' \in SUBSET Data
  BY DEF SubmittedFor
<1> DEFINE golden == [x \in RecordId |-> GoldenValue(x)]
           submitted == [x \in RecordId |-> SubmittedFor(x)]
<1>12. /\ \A x \in RecordId : golden[x] = GoldenValue(x) /\ golden'[x] = GoldenValue(x)'
       /\ \A x \in RecordId : submitted[x] = SubmittedFor(x) /\ submitted'[x] = SubmittedFor(x)'
  OBVIOUS
<1>13. /\ golden' \in [RecordId -> Data \cup {Null}] /\ submitted' \in [RecordId -> SUBSET Data]
  BY <1>10, <1>11
<1>14. Promise!Take <=>
         /\ golden' \in [RecordId -> Data \cup {Null}]
         /\ submitted' \in [RecordId -> SUBSET Data]
         /\ \A r \in RecordId : submitted[r] \subseteq submitted'[r]
         /\ \A r \in RecordId : golden'[r] # golden[r] =>
              /\ golden'[r] \in submitted'[r]
              /\ golden[r] = Null => submitted[r] = {}
         /\ \A r, o \in RecordId : r # o /\ golden'[r] # Null /\ golden'[o] # Null =>
              ~\E c \in UniqueColumn : golden'[r][c] # Null /\ golden'[r][c] = golden'[o][c]
  BY DEF Promise!Take, GoldenValue, SubmittedFor
<1> HIDE DEF golden, submitted
<1> QED
  BY <1>6, <1>8, <1>9, <1>12, <1>13, <1>14

\* Imports and pushes keep the promise beside the record API: golden values are
\* submitted values, no two under one key, and a feed neither withdraws a golden
\* record nor approves a draft that waits.
THEOREM FeedsKeepThePromise == FeedSpec => FeedPromiseKept
<1>1. FeedInit => Promise!Init
  <2> SUFFICES ASSUME FeedInit PROVE Promise!Init
    OBVIOUS
  <2>1. \A r \in RecordId : ~Golden(r) /\ history[r] = <<>>
    BY DEF FeedInit, Init, Golden, Live, Stored, Absent
  <2>2. \A r \in RecordId : SubmittedFor(r) = {}
    BY <2>1 DEF SubmittedFor
  <2> QED
    BY <2>1, <2>2 DEF Promise!Init, SubmittedFor
<1>2. FeedInv /\ [FeedNext]_feed => [Promise!Take \/ Promise!Next]_(Promise!master)
  <2>1. ASSUME FeedInv, FeedNext
        PROVE  Promise!Take \/ Promise!Next
    <3>1. CASE LegalStep
      BY <2>1, <3>1, StepKeepsPromise DEF FeedInv
    <3>2. ASSUME NEW u \in Actor, NEW trusted, FeedStep(u, trusted)
          PROVE  Promise!Take
      BY <2>1, <3>2, FeedStepIsTake
    <3>3. Writer \subseteq Actor /\ Source \subseteq Actor
      BY DEF Actor
    <3> QED
      BY <2>1, <3>1, <3>2, <3>3, FeedNextCases
  <2>2. UNCHANGED feed => UNCHANGED Promise!master
    BY DEF feed, Promise!master, Golden, Live, Stored, Owner
  <2> QED
    BY <2>1, <2>2
<1> QED
  BY <1>1, <1>2, FeedInvHolds, PTL DEF FeedSpec, FeedPromiseKept, Promise!FedSpec

\* A request of the record API is a step of MasterData on whatever records the
\* feeds have left: under requires_draft no record of its own becomes golden but
\* by approval of a submitted value.
THEOREM ApiKeepsThePromiseBesideFeeds == FeedSpec => ApiKeepsThePromise
<1>1. FeedInv /\ Api => Promise!Next
  BY ApiIsNext, NextIsLegal, StepKeepsPromise DEF FeedInv
<1> QED
  BY <1>1, FeedInvHolds, PTL DEF FeedSpec, ApiKeepsThePromise
=============================================================================
