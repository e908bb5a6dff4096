--------------------------- MODULE ServerProofs ---------------------------
(***************************************************************************)
(* Proofs about Server, for any number of requests and any size of pool:   *)
(* what is where (TypeOK), that a knot, once tied, is never untied, and    *)
(* that nothing but a knot stops the server.                               *)
(***************************************************************************)
EXTENDS Server, FiniteSetTheorems, TLAPS

\* What a request in state e keeps the loop for.
OnLoop(e) ==
  \/ e.at \in {"auth", "access", "open", "log", "sidebar"}
  \/ e.kind \in LoopKind /\ e.at \in {"queued", "locked", "check"}

\* The places that belong to some kinds of requests; a push whose key is checked
\* keeps the connection for its body; the table is locked from the grant to the
\* commit or the close, by a reload only while it alters the table.
InPlace(e) ==
  /\ e.at \in {"verify", "body", "log"} => e.kind = "push"
  /\ e.at \in {"access", "open"} => e.kind \in {"import", "page"}
  /\ e.at = "file" => e.kind = "import"
  /\ e.at = "sidebar" => e.kind = "page"
  /\ e.at \in {"create", "define", "connect"} => e.kind = "reload"
  /\ e.at = "check" => e.kind \in {"record", "import"}
  /\ e.at = "body" => e.conn = 1
  /\ e.lock # "none" => e.at \in {"locked", "check", "answered"}
  /\ e.lock = "exclusive" => e.kind = "reload" /\ e.at = "locked"

\* The inductive invariant: the loop is with the request that needs it, and the
\* queue holds the waiting requests, each of them once.
Inv ==
  /\ request \in [Worker -> Request]
  /\ \A x \in Worker : InPlace(request[x]) /\ request[x].kind \in Sends[x] \cup {"none"}
  /\ loop \in Worker \cup {Nobody}
  /\ \A x \in Worker : loop = x <=> OnLoop(request[x])
  /\ queue \in Seq(Worker)
  /\ \A i \in DOMAIN queue : At(queue[i], "queued")
  /\ \A x \in Worker : At(x, "queued") => \E i \in DOMAIN queue : queue[i] = x
  /\ \A i, j \in DOMAIN queue : queue[i] = queue[j] => i = j
  /\ IsFiniteSet(Holding) /\ Cardinality(Holding) <= PoolSize
  /\ tables \in {"filled", "emptied", "lost"}

-----------------------------------------------------------------------------
(* What every step has in common: one request w goes to state e *)

LoopStep(w, e) ==
  \/ loop' = loop /\ (loop = w <=> OnLoop(e))
  \/ loop = Nobody /\ loop' = w /\ OnLoop(e)
  \/ loop = w /\ loop' = Nobody /\ ~OnLoop(e)

QueueStep(w, e) ==
  \/ ~At(w, "queued") /\ e.at # "queued" /\ queue' = queue
  \/ ~At(w, "queued") /\ e.at = "queued" /\ queue' = Append(queue, w)
  \/ /\ At(w, "queued") /\ queue # <<>> /\ Head(queue) = w /\ Compatible(w)
     /\ e.at = "locked" /\ e.kind = request[w].kind /\ queue' = Tail(queue)

Step(w, e) ==
  /\ e \in Request /\ InPlace(e) /\ e.kind \in Sends[w] \cup {"none"}
  /\ request' = [request EXCEPT ![w] = e]
  /\ LoopStep(w, e)
  /\ QueueStep(w, e)
  /\ e.conn = 1 => request[w].conn = 1 \/ HasConnection
  /\ tables' \in {"filled", "emptied", "lost"}
  \* Only the loop ends what is answered.
  /\ At(w, "answered") => loop = Nobody

LEMMA NextIsStep ==
  ASSUME Inv, Next
  PROVE  \E w \in Worker : \E e : Step(w, e)
<1>0. PICK w \in Worker : Continue(w) \/ Resume(w) \/ \E kind \in Sends[w] : Arrive(w, kind)
  BY DEF Next
<1> DEFINE old == request[w]
           to(place) == [old EXCEPT !.at = place]
           on(place) == [old EXCEPT !.at = place, !.conn = 1]
           off(place) == [old EXCEPT !.at = place, !.conn = 0, !.lock = "none"]
           granted == [old EXCEPT !.at = "locked", !.lock = Mode(w)]
<1>1. /\ old \in Request /\ InPlace(old) /\ (loop = w <=> OnLoop(old)) /\ w # Nobody
      /\ request \in [Worker -> Request] /\ tables \in {"filled", "emptied", "lost"}
      /\ old.kind \in Sends[w] \cup {"none"}
  BY NobodyAssumption DEF Inv
<1>2. /\ Idle \in Request /\ InPlace(Idle) /\ ~OnLoop(Idle)
      /\ Idle.conn = 0 /\ Idle.at = "idle" /\ Idle.kind \in Sends[w] \cup {"none"}
  BY DEF Idle, Request, Place, InPlace, OnLoop, LoopKind
<1>3. \A p \in Place :
        /\ to(p) \in Request /\ on(p) \in Request /\ off(p) \in Request
        /\ to(p).at = p /\ on(p).at = p /\ off(p).at = p
        /\ to(p).kind = old.kind /\ on(p).kind = old.kind /\ off(p).kind = old.kind
        /\ to(p).conn = old.conn /\ on(p).conn = 1 /\ off(p).conn = 0
        /\ to(p).lock = old.lock /\ on(p).lock = old.lock /\ off(p).lock = "none"
  BY <1>1 DEF Request
<1>4. /\ granted \in Request /\ granted.at = "locked" /\ granted.kind = old.kind
      /\ granted.conn = old.conn
      /\ granted.lock = IF old.kind = "reload" THEN "exclusive" ELSE "share"
  BY <1>1 DEF Request, Place, Mode, Is
<1>5. \A p \in Place :
        /\ Goes(w, p) => request' = [request EXCEPT ![w] = to(p)]
        /\ Connects(w, p) => request' = [request EXCEPT ![w] = on(p)]
        /\ Releases(w, p) => request' = [request EXCEPT ![w] = off(p)]
  BY <1>1 DEF Goes, Connects, Releases
<1>6. Ends(w) => request' = [request EXCEPT ![w] = Idle]
  BY DEF Ends
<1> HIDE DEF to, on, off, granted
<1> USE DEF At, Is, Step, LoopStep, QueueStep, OnLoop, InPlace, Place, LoopKind
<1>7. ASSUME Authenticate(w) PROVE Step(w, to("handler")) \/ Step(w, Idle)
  BY <1>7, <1>1, <1>2, <1>3, <1>4, <1>5, <1>6 DEF Authenticate
<1>8. ASSUME OpenSession(w) PROVE Step(w, on("queued")) \/ Step(w, Idle)
  BY <1>8, <1>1, <1>2, <1>3, <1>4, <1>5, <1>6 DEF OpenSession, Asks
<1>9. ASSUME CheckPublish(w) PROVE Step(w, to("check"))
  BY <1>9, <1>1, <1>2, <1>3, <1>4, <1>5, <1>6 DEF CheckPublish
<1>10. ASSUME Checked(w) PROVE Step(w, off("answered")) \/ Step(w, to("answered"))
  BY <1>10, <1>1, <1>2, <1>3, <1>4, <1>5, <1>6 DEF Checked
<1>11. ASSUME Return(w) PROVE Step(w, to("answered"))
  BY <1>11, <1>1, <1>2, <1>3, <1>4, <1>5, <1>6 DEF Return
<1>12. ASSUME CommitWrite(w) PROVE Step(w, off("answered"))
  BY <1>12, <1>1, <1>2, <1>3, <1>4, <1>5, <1>6 DEF CommitWrite
<1>13. ASSUME GrantLock(w) PROVE Step(w, granted)
  <2>1. request' = [request EXCEPT ![w] = granted]
    BY <1>13, <1>1 DEF GrantLock, granted
  <2>2. /\ old.at = "queued" /\ queue # <<>> /\ Head(queue) = w /\ Compatible(w)
        /\ queue' = Tail(queue) /\ loop' = loop /\ tables' = tables
    BY <1>13 DEF GrantLock
  <2> QED
    BY <2>1, <2>2, <1>1, <1>4
<1>14. ASSUME VerifyKey(w) PROVE Step(w, on("body")) \/ Step(w, Idle)
  BY <1>14, <1>1, <1>2, <1>3, <1>4, <1>5, <1>6 DEF VerifyKey
<1>15. ASSUME CommitPush(w) PROVE Step(w, off("log")) \/ Step(w, off("answered"))
  BY <1>15, <1>1, <1>2, <1>3, <1>4, <1>5, <1>6 DEF CommitPush
<1>16. ASSUME LogCall(w) PROVE Step(w, to("answered"))
  BY <1>16, <1>1, <1>2, <1>3, <1>4, <1>5, <1>6 DEF LogCall
<1>17. ASSUME ClearTables(w) PROVE Step(w, to("create"))
  BY <1>17, <1>1, <1>3, <1>5 DEF ClearTables
<1>18. ASSUME CreateSchemas(w) PROVE Step(w, to("define")) \/ Step(w, Idle)
  BY <1>18, <1>1, <1>2, <1>3, <1>4, <1>5, <1>6 DEF CreateSchemas
<1>19. ASSUME DefineTables(w) PROVE Step(w, to("connect"))
  BY <1>19, <1>1, <1>2, <1>3, <1>4, <1>5, <1>6 DEF DefineTables
<1>20. ASSUME ConnectForDdl(w) PROVE Step(w, on("queued")) \/ Step(w, Idle)
  BY <1>20, <1>1, <1>2, <1>3, <1>4, <1>5, <1>6 DEF ConnectForDdl, Asks
<1>21. ASSUME FinishDdl(w) PROVE Step(w, Idle)
  BY <1>21, <1>1, <1>2, <1>3, <1>4, <1>5, <1>6 DEF FinishDdl
<1>22. ASSUME Close(w) PROVE Step(w, Idle)
  BY <1>22, <1>1, <1>2, <1>3, <1>4, <1>5, <1>6 DEF Close
<1>23. ASSUME StartPush(w) PROVE Step(w, on("queued")) \/ Step(w, to("answered"))
  <2>1. old.at = "body" /\ old.kind = "push" /\ loop = Nobody /\ tables' = tables
    BY <1>23, <1>1 DEF StartPush
  <2>2. CASE Asks(w) /\ loop' = w
    <3>1. /\ request' = [request EXCEPT ![w] = on("queued")]
          /\ queue' = Append(queue, w)
      BY <2>2, <1>5 DEF Asks
    <3> QED
      BY <2>1, <2>2, <3>1, <1>1, <1>3
  <2>3. CASE Goes(w, "answered") /\ loop' = loop /\ queue' = queue
    BY <2>1, <2>3, <1>1, <1>3, <1>5
  <2> QED
    BY <1>23, <2>2, <2>3 DEF StartPush
<1>c. ASSUME CheckAccess(w)
      PROVE  Step(w, to("open")) \/ Step(w, to("sidebar")) \/ Step(w, to("file")) \/ Step(w, Idle)
  BY <1>c, <1>1, <1>2, <1>3, <1>4, <1>5, <1>6 DEF CheckAccess
<1>o. ASSUME OpenOnLoop(w) PROVE Step(w, on("queued")) \/ Step(w, Idle)
  BY <1>o, <1>1, <1>2, <1>3, <1>4, <1>5, <1>6 DEF OpenOnLoop, Asks
<1>i. ASSUME CommitImport(w) PROVE Step(w, off("answered"))
  BY <1>i, <1>1, <1>2, <1>3, <1>4, <1>5, <1>6 DEF CommitImport
<1>d. ASSUME CloseDrafts(w) PROVE Step(w, off("sidebar"))
  BY <1>d, <1>1, <1>2, <1>3, <1>4, <1>5, <1>6 DEF CloseDrafts
<1>a. ASSUME AnswerPage(w) PROVE Step(w, Idle)
  BY <1>a, <1>1, <1>2, <1>3, <1>4, <1>5, <1>6 DEF AnswerPage
<1>h. ASSUME StartHandler(w) PROVE Step(w, to("access"))
  BY <1>h, <1>1, <1>2, <1>3, <1>4, <1>5, <1>6 DEF StartHandler
<1>r. ASSUME StartRows(w) PROVE Step(w, to("open"))
  BY <1>r, <1>1, <1>2, <1>3, <1>4, <1>5, <1>6 DEF StartRows
<1>24. ASSUME NEW kind \in Sends[w], Arrive(w, kind) PROVE \E e : Step(w, e)
  <2> DEFINE place == IF kind = "push" THEN "verify" ELSE "auth"
             e == [old EXCEPT !.kind = kind, !.at = place]
  <2>1. /\ old.at = "idle" /\ loop = Nobody /\ queue' = queue /\ tables' = tables
        /\ loop' = IF kind = "push" THEN Nobody ELSE w
    BY <1>24 DEF Arrive, Busy
  <2>2. request' = [request EXCEPT ![w] = e]
    BY <1>24, <1>1 DEF Arrive
  <2>3. /\ e \in Request /\ e.kind = kind /\ e.at = place /\ e.conn = old.conn
        /\ e.lock = old.lock
    BY <1>1, SendsAssumption DEF Request
  <2> HIDE DEF e
  <2>4. Step(w, e)
    BY <2>1, <2>2, <2>3, <1>1
  <2> QED
    BY <2>4
<1> HIDE DEF At, Is, Step
<1> QED
  BY <1>0, <1>7, <1>8, <1>9, <1>10, <1>11, <1>12, <1>13, <1>14, <1>15, <1>16, <1>17,
     <1>18, <1>19, <1>20, <1>21, <1>22, <1>23, <1>24, <1>c, <1>o, <1>i, <1>d, <1>a, <1>h, <1>r DEF Continue, Resume

-----------------------------------------------------------------------------
(* What such a step does to the queue, the pool and the invariant *)

LEMMA QueueKept ==
  ASSUME Inv, NEW w \in Worker, NEW e, Step(w, e)
  PROVE  /\ queue' \in Seq(Worker)
         /\ \A i \in DOMAIN queue' : At(queue[i], "queued")'
         /\ \A x \in Worker : At(x, "queued")' => \E i \in DOMAIN queue' : queue'[i] = x
         /\ \A i, j \in DOMAIN queue' : queue'[i] = queue'[j] => i = j
<1>1. /\ request \in [Worker -> Request] /\ queue \in Seq(Worker)
      /\ \A i \in DOMAIN queue : request[queue[i]].at = "queued"
      /\ \A x \in Worker : request[x].at = "queued" => \E i \in DOMAIN queue : queue[i] = x
      /\ \A i, j \in DOMAIN queue : queue[i] = queue[j] => i = j
      /\ request' = [request EXCEPT ![w] = e]
  BY DEF Inv, At, Step
<1>2. CASE queue' = queue /\ request[w].at # "queued" /\ e.at # "queued"
  BY <1>1, <1>2 DEF At
<1>3. CASE queue' = Append(queue, w) /\ request[w].at # "queued" /\ e.at = "queued"
  <2>1. /\ queue' \in Seq(Worker) /\ Len(queue') = Len(queue) + 1
        /\ \A i \in 1..Len(queue) : queue'[i] = queue[i]
        /\ queue'[Len(queue) + 1] = w
    BY <1>1, <1>3
  <2>2. \A i \in 1..Len(queue) : queue[i] # w
    BY <1>1, <1>3
  <2>3. ASSUME NEW x \in Worker, request'[x].at = "queued"
        PROVE  \E i \in DOMAIN queue' : queue'[i] = x
    <3>1. CASE x = w
      BY <3>1, <2>1, <1>1
    <3>2. CASE x # w
      BY <3>2, <2>1, <2>3, <1>1
    <3> QED
      BY <3>1, <3>2
  <2> QED
    BY <1>1, <1>3, <2>1, <2>2, <2>3 DEF At
<1>4. CASE queue' = Tail(queue) /\ queue # <<>> /\ Head(queue) = w /\ e.at = "locked"
  <2>1. /\ queue' \in Seq(Worker) /\ Len(queue') = Len(queue) - 1
        /\ \A i \in 1..Len(queue') : queue'[i] = queue[i + 1] /\ i + 1 \in DOMAIN queue
        /\ queue[1] = w /\ 1 \in DOMAIN queue
    BY <1>1, <1>4
  <2>2. ASSUME NEW i \in 1..Len(queue'), queue'[i] = w PROVE FALSE
    <3>1. i + 1 \in DOMAIN queue /\ queue[i + 1] = queue[1] /\ i \in Nat /\ i > 0
      BY <2>1, <2>2
    <3>2. i + 1 = 1
      BY <3>1, <2>1, <1>1
    <3> QED
      BY <3>1, <3>2
  <2>3. ASSUME NEW x \in Worker, x # w, request[x].at = "queued"
        PROVE  \E i \in DOMAIN queue' : queue'[i] = x
    <3>1. PICK i \in DOMAIN queue : queue[i] = x
      BY <1>1, <2>3
    <3>2. i \in 1..Len(queue) /\ Len(queue) \in Nat /\ i # 1
      BY <1>1, <2>1, <2>3, <3>1
    <3>3. i - 1 \in 1..Len(queue') /\ queue'[i - 1] = queue[i]
      BY <1>1, <1>4, <2>1, <3>2
    <3> QED
      BY <2>1, <3>1, <3>3
  <2> QED
    BY <1>1, <1>4, <2>1, <2>2, <2>3 DEF At
<1> QED
  BY <1>2, <1>3, <1>4 DEF Step, QueueStep, At

LEMMA PoolKept ==
  ASSUME Inv, NEW w \in Worker, NEW e, Step(w, e)
  PROVE  IsFiniteSet(Holding') /\ Cardinality(Holding') <= PoolSize
<1>1. /\ request \in [Worker -> Request] /\ request' = [request EXCEPT ![w] = e]
      /\ IsFiniteSet(Holding) /\ Cardinality(Holding) <= PoolSize
      /\ e.conn = 1 => request[w].conn = 1 \/ HasConnection
  BY DEF Inv, Step
<1>2. Cardinality(Holding) \in Nat /\ PoolSize \in Nat
  BY <1>1, FS_CardinalityType, PoolAssumption
<1>3. CASE Holding' \subseteq Holding
  <2>1. IsFiniteSet(Holding') /\ Cardinality(Holding') <= Cardinality(Holding)
    BY <1>1, <1>3, FS_Subset
  <2>2. Cardinality(Holding') \in Nat
    BY <2>1, FS_CardinalityType
  <2> QED
    BY <2>1, <2>2, <1>1, <1>2
<1>4. CASE ~(Holding' \subseteq Holding)
  <2>1. Holding' = Holding \cup {w} /\ w \notin Holding /\ HasConnection
    BY <1>1, <1>4 DEF Holding
  <2>2. IsFiniteSet(Holding') /\ Cardinality(Holding') = Cardinality(Holding) + 1
    BY <2>1, <1>1, FS_AddElement
  <2> QED
    BY <2>1, <2>2, <1>2 DEF HasConnection
<1> QED
  BY <1>3, <1>4

LEMMA InvInductive == Inv /\ [Next]_vars => Inv'
<1>1. ASSUME Inv, Next PROVE Inv'
  <2>1. PICK w \in Worker : \E e : Step(w, e)
    BY <1>1, NextIsStep
  <2>2. PICK e : Step(w, e)
    BY <2>1
  <2>3. /\ request' = [request EXCEPT ![w] = e] /\ e \in Request /\ InPlace(e)
        /\ request \in [Worker -> Request]
        /\ \A x \in Worker : InPlace(request[x]) /\ request[x].kind \in Sends[x] \cup {"none"}
        /\ e.kind \in Sends[w] \cup {"none"}
        /\ \A x \in Worker : loop = x <=> OnLoop(request[x])
        /\ loop \in Worker \cup {Nobody}
        /\ LoopStep(w, e) /\ tables' \in {"filled", "emptied", "lost"}
    BY <1>1, <2>2 DEF Inv, Step
  <2>4. /\ request' \in [Worker -> Request]
        /\ \A x \in Worker : InPlace(request'[x]) /\ request'[x].kind \in Sends[x] \cup {"none"}
    BY <2>3
  <2>5. /\ loop' \in Worker \cup {Nobody}
        /\ \A x \in Worker : loop' = x <=> OnLoop(request'[x])
    BY <2>3, NobodyAssumption DEF LoopStep
  <2> QED
    BY <1>1, <2>2, <2>3, <2>4, <2>5, QueueKept, PoolKept DEF Inv
<1>2. ASSUME Inv, UNCHANGED vars PROVE Inv'
  BY <1>2 DEF Inv, vars, At, Holding
<1> QED
  BY <1>1, <1>2

LEMMA InvInit == Init => Inv
<1> SUFFICES ASSUME Init PROVE Inv
  OBVIOUS
<1>1. /\ Idle \in Request /\ InPlace(Idle) /\ ~OnLoop(Idle) /\ Idle.conn = 0
      /\ Idle.kind = "none" /\ Idle.at = "idle"
  BY DEF Idle, Request, Place, InPlace, OnLoop, LoopKind
<1>2. Holding = {}
  BY <1>1 DEF Init, Holding
<1>3. IsFiniteSet(Holding) /\ Cardinality(Holding) <= PoolSize
  BY <1>2, FS_EmptySet, PoolAssumption
<1> QED
  BY <1>1, <1>3, NobodyAssumption DEF Init, Inv, Idle, At

LEMMA InvAlways == Spec => []Inv
<1> QED
  BY InvInit, InvInductive, PTL DEF Spec

-----------------------------------------------------------------------------
\* Whatever the requests and the pool: a request keeps the loop only while the
\* middleware or an async handler waits for the database, what waits for the
\* lock is waiting, and the pool never hands out more than it has.
THEOREM TypeCorrect == Spec => []TypeOK
<1>1. ASSUME Inv PROVE TypeOK
  <2>1. queue \in Seq({w \in Worker : At(w, "queued")})
    BY <1>1 DEF Inv
  <2>2. loop # Nobody => At(loop, "auth") \/ (request[loop].kind \in LoopKind /\ request[loop].at \in
                           {"access", "open", "queued", "locked", "check", "log", "sidebar"})
    BY <1>1 DEF Inv, InPlace, OnLoop, LoopKind, At
  <2> QED
    BY <1>1, <2>1, <2>2 DEF Inv, TypeOK
<1> QED
  BY <1>1, InvAlways, PTL

\* A knot of a loop owner, a reload and an answered request is never untied.
LEMMA KnotStep == Inv /\ Next /\ Knot => Knot'
<1> SUFFICES ASSUME Inv, Next, Knot PROVE Knot'
  OBVIOUS
<1>1. PICK owner, reload, get \in Worker :
        /\ loop = owner
        /\ Mode(reload) = "exclusive"
        /\ Before(reload, owner)
        /\ At(get, "answered") /\ request[get].lock = "share"
  BY DEF Knot
<1>2. PICK i, j \in DOMAIN queue : i < j /\ queue[i] = reload /\ queue[j] = owner
  BY <1>1 DEF Before
<1>3. PICK w \in Worker : \E e : Step(w, e)
  BY NextIsStep
<1>4. PICK e : Step(w, e)
  BY <1>3
<1>5. /\ request \in [Worker -> Request] /\ queue \in Seq(Worker)
      /\ \A x, y \in DOMAIN queue : queue[x] = queue[y] => x = y
      /\ request[owner].at = "queued" /\ request[reload].at = "queued"
      /\ request[get].at = "answered" /\ owner # Nobody
      /\ request' = [request EXCEPT ![w] = e]
  BY <1>1, <1>2, <1>4, NobodyAssumption DEF Inv, Step, At
<1>6. w # get
  BY <1>1, <1>4, <1>5 DEF Step
<1>7. w # owner
  <2> SUFFICES ASSUME w = owner PROVE FALSE
    OBVIOUS
  <2>1. queue # <<>> /\ Head(queue) = owner
    BY <1>4, <1>5 DEF Step, QueueStep, At
  <2>2. 1 \in DOMAIN queue /\ queue[1] = owner /\ i \in Nat /\ j \in Nat /\ i >= 1
    BY <2>1, <1>2, <1>5
  <2> QED
    BY <2>2, <1>2, <1>5
<1>8. w # reload
  <2> SUFFICES ASSUME w = reload PROVE FALSE
    OBVIOUS
  <2>1. Compatible(reload)
    BY <1>4, <1>5 DEF Step, QueueStep, At
  <2>2. get # reload /\ request[get].lock = "share" /\ Mode(reload) # "share"
    BY <1>1, <1>5
  <2> QED
    BY <2>1, <2>2 DEF Compatible
<1>9. /\ request'[owner] = request[owner] /\ request'[reload] = request[reload]
      /\ request'[get] = request[get]
  BY <1>5, <1>6, <1>7, <1>8
<1>10. loop' = owner
  BY <1>1, <1>4, <1>5, <1>7 DEF Step, LoopStep
<1>11. \E x, y \in DOMAIN queue' : x < y /\ queue'[x] = reload /\ queue'[y] = owner
  <2>1. CASE queue' = queue
    BY <2>1, <1>2
  <2>2. CASE queue' = Append(queue, w)
    <3>1. /\ i \in DOMAIN queue' /\ j \in DOMAIN queue'
          /\ queue'[i] = queue[i] /\ queue'[j] = queue[j]
      BY <2>2, <1>2, <1>5
    <3> QED
      BY <3>1, <1>2
  <2>3. CASE queue' = Tail(queue) /\ queue # <<>> /\ Head(queue) = w
    <3>1. i \in 1..Len(queue) /\ j \in 1..Len(queue) /\ Len(queue) \in Nat /\ queue[1] = w
      BY <2>3, <1>2, <1>5
    <3>2. i > 1 /\ j > 1
      BY <3>1, <1>2, <1>8
    <3>3. /\ i - 1 \in DOMAIN queue' /\ j - 1 \in DOMAIN queue'
          /\ queue'[i - 1] = queue[i] /\ queue'[j - 1] = queue[j]
      BY <2>3, <3>1, <3>2, <1>5
    <3> QED
      BY <3>1, <3>2, <3>3, <1>2
  <2> QED
    BY <1>4, <2>1, <2>2, <2>3 DEF Step, QueueStep
<1>12. /\ Before(reload, owner)' /\ At(get, "answered")' /\ (Mode(reload) = "exclusive")'
       /\ (request[get].lock = "share")'
  BY <1>1, <1>9, <1>11 DEF Before, At, Mode, Is
<1> QED
  BY <1>10, <1>12 DEF Knot

\* Nothing the process or PostgreSQL does, and no request still to come, unties
\* a push, an import or a page that holds the loop behind a reload that waits for an answered
\* request: a theorem for any number of requests and any size of pool.
THEOREM KnotStays == Spec => KnotIsForever
<1>1. Inv /\ [Next]_vars => [Knot => Knot']_vars
  BY KnotStep
<1> QED
  BY <1>1, InvAlways, PTL DEF Spec, KnotIsForever

\* As long as no request is knotted with two others, one of those under way can
\* go on: the pool, the loop and the lock on the table close no other ring, for
\* any number of requests, of each kind, and any size of pool.
LEMMA NoOtherRing ==
  ASSUME Inv, NEW busy \in Worker, Busy(busy), \A w \in Worker : ~CanGo(w)
  PROVE  Knot
<1> DEFINE at(w) == request[w].at
<1>1. /\ request \in [Worker -> Request] /\ queue \in Seq(Worker)
      /\ \A w \in Worker : InPlace(request[w])
  BY DEF Inv
<1>2. \A w \in Worker :
        \/ at(w) = "idle" \/ at(w) = "queued"
        \/ at(w) \in {"answered", "body", "file", "handler"} /\ loop # Nobody
  BY <1>1 DEF CanGo, At, PoolTimeout, Request, Place
\* Who blocks the head of the queue is answered and waits for the loop.
<1>3. ASSUME NEW w \in Worker, at(w) = "queued"
      PROVE  /\ queue # <<>> /\ 1 \in DOMAIN queue /\ at(queue[1]) = "queued"
             /\ Mode(queue[1]) = "exclusive" /\ loop # Nobody
             /\ \E get \in Worker : at(get) = "answered" /\ request[get].lock = "share"
  <2>1. PICK i \in DOMAIN queue : queue[i] = w
    BY <1>3 DEF Inv, At
  <2>2. queue # <<>> /\ 1 \in DOMAIN queue /\ Head(queue) = queue[1] /\ queue[1] \in Worker
    BY <1>1, <2>1
  <2>3. at(queue[1]) = "queued"
    BY <2>2 DEF Inv, At
  <2>4. ~Compatible(queue[1])
    BY <2>2, <2>3 DEF CanGo, At
  <2>5. PICK x \in Worker :
          request[x].lock # "none" /\ ~(request[x].lock = "share" /\ Mode(queue[1]) = "share")
    BY <2>4 DEF Compatible
  <2>6. at(x) = "answered" /\ loop # Nobody /\ request[x].lock = "share"
    BY <1>1, <1>2, <2>5 DEF InPlace, Request
  <2> QED
    BY <2>2, <2>3, <2>5, <2>6 DEF Mode
<1>4. loop \in Worker
  BY <1>2, <1>3 DEF Inv, Busy, At
<1>5. at(loop) = "queued" /\ request[loop].kind \in LoopKind
  BY <1>2, <1>4 DEF Inv, OnLoop
<1>6. PICK j \in DOMAIN queue : queue[j] = loop
  BY <1>4, <1>5 DEF Inv, At
<1>7. /\ 1 \in DOMAIN queue /\ Mode(queue[1]) = "exclusive"
      /\ \E get \in Worker : at(get) = "answered" /\ request[get].lock = "share"
  BY <1>3, <1>4, <1>5
<1>8. queue[1] # loop
  BY <1>5, <1>7 DEF Mode, Is, LoopKind
<1>9. 1 < j /\ queue[1] \in Worker
  BY <1>1, <1>6, <1>7, <1>8
<1>10. Before(queue[1], loop)
  BY <1>6, <1>7, <1>9 DEF Before
<1> QED
  BY <1>4, <1>5, <1>7, <1>9, <1>10 DEF Knot, At

\* The one way to hang is the knot.
THEOREM OnlyAKnotStops == Spec => []StopsOnlyInKnot
<1>1. Inv => StopsOnlyInKnot
  BY NoOtherRing DEF StopsOnlyInKnot
<1> QED
  BY <1>1, InvAlways, PTL

\* It takes a reload and a handler that waits for the table on the loop: a server
\* that restarts instead of reloading, or to which no push, no import and no request
\* for the page of drafts is sent, always has a request that can go on.
THEOREM NeverStopsWithout ==
  ASSUME \/ \A w \in Worker : "reload" \notin Sends[w]
         \/ \A w \in Worker : Sends[w] \cap LoopKind = {}
  PROVE  Spec => []((\E w \in Worker : Busy(w)) => \E w \in Worker : CanGo(w))
<1>1. Inv => ~Knot
  <2> SUFFICES ASSUME Inv, Knot PROVE FALSE
    OBVIOUS
  <2>1. PICK owner, reload \in Worker :
          /\ loop = owner
          /\ Mode(reload) = "exclusive"
          /\ Before(reload, owner)
    BY DEF Knot
  <2>2. request[reload].kind = "reload" /\ request[owner].at = "queued"
    BY <2>1 DEF Mode, Is, Before, Inv, At
  <2>3. request[owner].kind \in LoopKind
    BY <2>1, <2>2 DEF Inv, OnLoop
  <2>4. "reload" \in Sends[reload] /\ request[owner].kind \in Sends[owner]
    BY <2>2, <2>3 DEF Inv, LoopKind
  <2> QED
    BY <2>3, <2>4
<1>2. Inv => ((\E w \in Worker : Busy(w)) => \E w \in Worker : CanGo(w))
  BY <1>1, NoOtherRing
<1> QED
  BY <1>2, InvAlways, PTL
=============================================================================
