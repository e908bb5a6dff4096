--------------------------- MODULE PromiseProofs ---------------------------
(***************************************************************************)
(* Records implements MasterData, for every set of records, columns,       *)
(* bodies and users, with and without requires_draft: whatever the         *)
(* requests do to drafts, history and states, consumers see the promise    *)
(* kept. Each legal step (RecordsProofs) is a Register, a Submit, an       *)
(* Approve or a Withdraw of the promise.                                   *)
(***************************************************************************)
EXTENDS RecordsProofs

GoldenValue(r) == IF Golden(r) THEN rows[r].data ELSE Null

\* A step changes the golden value of the record it writes, and of no other: the
\* draft it may delete is not golden.
LEMMA GoldenStep ==
  ASSUME IInv, NEW r \in RecordId, NEW row, NEW action, NEW u,
         ChangeStep(r, row, action, u), Legal(r, row, action, u)
  PROVE  /\ \A x \in RecordId \ {r} : GoldenValue(x)' = GoldenValue(x)
         /\ GoldenValue(r)' = IF Indexed(row) THEN row.data ELSE Null
<1>1. RowsEffect(r, row)
  BY ChangeEffect
<1>2. ASSUME NEW x \in RecordId \ {r}
      PROVE  GoldenValue(x)' = GoldenValue(x)
  <2>1. rows[x] \in Row
    BY DEF IInv, TypeOK
  <2>2. CASE rows'[x] = rows[x]
    BY <2>2 DEF GoldenValue, Golden, Live, Stored
  <2>3. CASE x \in EditsOf(r) /\ rows'[x] = Deleted(rows[x])
    <3>1. rows[x].state = "draft" /\ rows'[x].state = "draft"
      BY <2>1, <2>3, DeletedType DEF EditsOf
    <3> QED
      BY <3>1 DEF GoldenValue, Golden
  <2> QED
    BY <1>1, <1>2, <2>2, <2>3 DEF RowsEffect
<1>3. GoldenValue(r)' = IF Indexed(row) THEN row.data ELSE Null
  <2>1. rows'[r] = row /\ row.state # "absent"
    BY <1>1 DEF RowsEffect, Legal
  <2> QED
    BY <2>1 DEF GoldenValue, Golden, Live, Stored, Indexed
<1> QED
  BY <1>2, <1>3

\* A step submits the data it writes, for the owner of the record it writes.
LEMMA SubmittedStep ==
  ASSUME IInv, NEW r \in RecordId, NEW row, NEW action, NEW u,
         ChangeStep(r, row, action, u), Legal(r, row, action, u),
         NEW x \in RecordId
  PROVE  SubmittedFor(x)' = SubmittedFor(x) \cup (IF x = Owner(r)' THEN {row.data} ELSE {})
<1>1. RowsEffect(r, row) /\ HistoryEffect(r, row, action, u)
  BY ChangeEffect
<1>2. row \in Row /\ row.data \in Data
  BY DEF Legal, Row
<1>3. \A y \in RecordId : rows[y] \in Row /\ history[y] \in Seq(Version)
  BY DEF IInv, TypeOK
<1>4. \A y \in RecordId \ {r} : Owner(y)' = Owner(y) /\ history'[y] = history[y]
  <2>1. \A y \in RecordId : Deleted(rows[y]).draftOf = rows[y].draftOf
    BY <1>3, DeletedType
  <2> QED
    BY <1>1, <2>1 DEF RowsEffect, HistoryEffect, Owner
<1>5. Owner(r)' = Owner(r) \/ history[r] = <<>>
  <2>1. rows'[r] = row
    BY <1>1 DEF RowsEffect
  <2>2. CASE row.draftOf = rows[r].draftOf
    BY <2>1, <2>2 DEF Owner
  <2>3. CASE rows[r].state = "absent"
    BY <2>3 DEF IInv, AbsentIsBlank, Stored
  <2> QED
    BY <2>2, <2>3 DEF Legal
<1>6. /\ Len(history'[r]) = Len(history[r]) + 1
      /\ history'[r][Len(history[r]) + 1].data = row.data
      /\ \A j \in 1..Len(history[r]) : history'[r][j].data = history[r][j].data
  BY <1>1 DEF HistoryEffect, Snapshot
<1> DEFINE Holds(y, d) == \E i \in 1..Len(history[y]) : history[y][i].data = d
<1>7. \A d : Holds(r, d)' <=> Holds(r, d) \/ d = row.data
  <2>1. Len(history[r]) \in Nat
    BY <1>3
  <2> QED
    BY <1>6, <2>1
<1>8. \A y \in RecordId \ {r} : \A d : Holds(y, d)' <=> Holds(y, d)
  BY <1>4
<1>9. history[r] = <<>> => \A d : ~Holds(r, d)
  OBVIOUS
<1>10. /\ SubmittedFor(x) = {d \in Data : \E y \in RecordId : Owner(y) = x /\ Holds(y, d)}
       /\ SubmittedFor(x)' = {d \in Data : \E y \in RecordId : Owner(y)' = x /\ Holds(y, d)'}
  BY DEF SubmittedFor
<1> HIDE DEF Holds
<1>11. ASSUME NEW d \in Data
       PROVE  (\E y \in RecordId : Owner(y)' = x /\ Holds(y, d)')
                <=> (\E y \in RecordId : Owner(y) = x /\ Holds(y, d))
                    \/ (x = Owner(r)' /\ d = row.data)
  BY <1>4, <1>5, <1>7, <1>8, <1>9
<1> QED
  BY <1>2, <1>10, <1>11

\* Nothing has been submitted yet for a record that is not stored: its own
\* history is empty, and drafts point at stored records only.
LEMMA NothingSubmitted ==
  ASSUME IInv, NEW r \in RecordId, ~Stored(r)
  PROVE  SubmittedFor(r) = {}
<1>1. history[r] = <<>>
  BY DEF IInv, AbsentIsBlank
<1>2. \A y \in RecordId : Owner(y) = r => y = r
  BY DEF IInv, DraftsPointAtMasters, Owner, Stored
<1> QED
  BY <1>1, <1>2 DEF SubmittedFor

\* The unique index keeps golden values apart.
LEMMA IndexKeepsApart ==
  ASSUME IInv, NEW r \in RecordId, NEW row, NEW action, NEW u,
         ChangeStep(r, row, action, u), Legal(r, row, action, u), Indexed(row)
  PROVE  Promise!Unclaimed(r, row.data)
<1>1. SUFFICES ASSUME NEW o \in RecordId \ {r}, Golden(o)
               PROVE  ~\E c \in UniqueColumn :
                          rows[o].data[c] # Null /\ rows[o].data[c] = row.data[c]
  BY DEF Promise!Unclaimed
<1>2. RowsEffect(r, row)
  BY ChangeEffect
<1>3. rows'[o] = rows[o]
  BY <1>1, <1>2 DEF RowsEffect, EditsOf, Golden
<1>4. Indexed(rows'[o])
  BY <1>1, <1>3 DEF Golden, Live, Indexed
<1>5. ~SameKey(rows[o], row)
  BY <1>2, <1>3, <1>4 DEF RowsEffect
<1> QED
  BY <1>5 DEF SameKey

\* A legal step is one step of the promise.
LEMMA StepKeepsPromise ==
  ASSUME IInv, LegalStep
  PROVE  Promise!Next
<1>r. PICK r \in RecordId :
        \E row, action, u : ChangeStep(r, row, action, u) /\ Legal(r, row, action, u)
  BY DEF LegalStep
<1>0. PICK row, action, u : ChangeStep(r, row, action, u) /\ Legal(r, row, action, u)
  BY <1>r
<1> DEFINE golden == [x \in RecordId |-> GoldenValue(x)]
           submitted == [x \in RecordId |-> SubmittedFor(x)]
           owner == IF row.draftOf = NoRecord THEN r ELSE row.draftOf
<1>1. row \in Row /\ row.data \in Data
  BY <1>0 DEF Legal, Row
<1>2. RowsEffect(r, row)
  BY <1>0, ChangeEffect
<1>3. owner \in RecordId /\ owner = Owner(r)'
  BY <1>1, <1>2 DEF RowsEffect, Row, Owner
<1>4. golden' = [golden EXCEPT ![r] = IF Indexed(row) THEN row.data ELSE Null]
  BY <1>0, GoldenStep
<1>5. submitted' = [submitted EXCEPT ![owner] = @ \cup {row.data}]
  <2>1. \A x \in RecordId :
          SubmittedFor(x)' = IF x = owner THEN SubmittedFor(x) \cup {row.data}
                             ELSE SubmittedFor(x)
    BY <1>0, <1>3, SubmittedStep
  <2> HIDE DEF owner
  <2> QED
    BY <1>3, <2>1
<1>6. CASE golden'[r] = golden[r]
  <2>1. golden' = golden
    BY <1>4, <1>6
  <2>2. Promise!Submit(owner, row.data)
    BY <1>5, <2>1 DEF Promise!Submit, GoldenValue, SubmittedFor
  <2> QED
    BY <1>1, <1>3, <2>2 DEF Promise!Next
<1>7. CASE ~Indexed(row) /\ golden'[r] # golden[r]
  <2>1. golden[r] # Null /\ Golden(r) /\ row.data = rows[r].data
    BY <1>0, <1>4, <1>7 DEF GoldenValue, Legal
  <2>2. rows[r].state = "active" /\ row.draftOf = rows[r].draftOf
    BY <1>0, <2>1 DEF Golden, Legal
  <2>3. owner = r
    BY <1>2, <2>2, OwnsItself DEF RowsEffect, Owner
  <2>4. row.data \in submitted[r]
    BY <2>1, <2>2, OwnsItself, CurrentWasSubmitted DEF Golden, Live
  <2>5. submitted' = submitted
    <3> HIDE DEF owner
    <3>1. submitted[owner] \cup {row.data} = submitted[owner]
      BY <2>3, <2>4
    <3>2. submitted = [submitted EXCEPT ![owner] = submitted[owner]]
      OBVIOUS
    <3> QED
      BY <1>5, <3>1, <3>2
  <2>6. Promise!Withdraw(r)
    BY <1>4, <1>7, <2>1, <2>5 DEF Promise!Withdraw, GoldenValue, SubmittedFor
  <2> QED
    BY <2>6 DEF Promise!Next
<1>8. CASE Indexed(row)
  <2>1. Promise!Unclaimed(r, row.data)
    BY <1>0, <1>8, IndexKeepsApart
  <2>2. row.state = "active" /\ row.draftOf = NoRecord /\ owner = r
    <3>1. row.state = "active"
      BY <1>8 DEF Indexed
    <3>2. rows'[r] = row /\ rows[r] \in Row
      BY <1>2 DEF RowsEffect, IInv, TypeOK
    <3>3. CASE rows[r].state = "absent"
      BY <1>0, <3>1, <3>2, <3>3 DEF Legal, IInv, AbsentIsBlank, Stored, Absent, Owner
    <3>4. CASE rows[r].state # "absent"
      BY <1>0, <3>1, <3>2, <3>4 DEF Legal, IInv, DraftsPointAtMasters, Owner
    <3> QED
      BY <3>3, <3>4
  <2>3. CASE ~Stored(r)
    <3>1. submitted[r] = {}
      BY <2>3, NothingSubmitted
    <3>2. ~RequiresDraft
      BY <1>0, <2>2, <2>3 DEF Legal, Stored
    <3>3. Promise!Register(r, row.data)
      BY <1>4, <1>5, <1>8, <2>1, <2>2, <3>1, <3>2 DEF Promise!Register, GoldenValue, SubmittedFor
    <3> QED
      BY <1>1, <3>3 DEF Promise!Next
  <2>4. CASE Stored(r)
    <3>1. row.data \in submitted[r]
      BY <1>0, <1>8, <2>4 DEF Legal
    <3>2. submitted' = submitted
      BY <1>5, <2>2, <3>1
    <3>3. Promise!Approve(r, row.data)
      BY <1>4, <1>8, <2>1, <3>1, <3>2 DEF Promise!Approve, GoldenValue, SubmittedFor
    <3> QED
      BY <1>1, <3>3 DEF Promise!Next
  <2> QED
    BY <2>3, <2>4
<1> QED
  BY <1>6, <1>7, <1>8

\* The record API keeps the promise to consumers: only values submitted for the
\* record, never two records under one key, no golden record without approval
\* where requires_draft asks for one.
THEOREM RecordsKeepThePromise == Spec => PromiseKept
<1>1. Init => Promise!Init
  <2> SUFFICES ASSUME Init PROVE Promise!Init
    OBVIOUS
  <2>1. \A r \in RecordId : ~Golden(r) /\ history[r] = <<>>
    BY DEF Init, Golden, Live, Stored, Absent
  <2>2. \A r \in RecordId : SubmittedFor(r) = {}
    BY <2>1 DEF SubmittedFor
  <2> QED
    BY <2>1, <2>2 DEF Promise!Init, SubmittedFor
<1>2. IInv /\ [Next]_store => [Promise!Next]_(Promise!master)
  <2>1. IInv /\ Next => Promise!Next
    BY NextIsLegal, StepKeepsPromise
  <2>2. UNCHANGED store => UNCHANGED Promise!master
    BY DEF store, Promise!master, Golden, Live, Stored, Owner
  <2> QED
    BY <2>1, <2>2
<1> QED
  BY <1>1, <1>2, InvariantHolds, PTL DEF Spec, PromiseKept, Promise!Spec
=============================================================================
