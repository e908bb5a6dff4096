------------------------------ MODULE Server ------------------------------
(***************************************************************************)
(* What the requests of the one process share besides their data: the      *)
(* event loop, the connection pool, the lock PostgreSQL puts on the record *)
(* table, and the map of tables that a configuration reload empties and    *)
(* refills.                                                                *)
(*                                                                         *)
(* The middleware and async handlers run on the loop and hold it while     *)
(* they wait for the database (app/main.py, app/api/inbound.py,            *)
(* app/api/import_export.py); sync handlers run in threads                 *)
(* (app/api/objects.py, app/api/schemas_api.py). A session closes when the *)
(* loop gets round to it (get_db).                                         *)
(***************************************************************************)
EXTENDS Integers, Sequences, FiniteSets

CONSTANTS
  Worker,    \* clients; each has one request under way at a time
  Sends,     \* the kinds of requests each of them sends
  Nobody,    \* the loop is free
  PoolSize   \* pool_size + max_overflow

ASSUME NobodyAssumption == Nobody \notin Worker
ASSUME PoolAssumption == PoolSize \in Nat \ {0}
\* Requests whose handlers wait for the record table on the loop: an inbound push,
\* an import, the page of pending drafts. The others, requests of the record API
\* and reloads, have threads.
LoopKind == {"push", "import", "page"}
ASSUME SendsAssumption ==
  Sends \in [Worker -> SUBSET (LoopKind \cup {"record", "reload"})]

VARIABLES
  request,  \* where the request of each worker is, and what it holds
  loop,     \* who has the event loop
  queue,    \* waiters for the lock on the record table, in order of arrival
  tables    \* the table map: filled, emptied by a reload, lost by one that failed

vars == <<request, loop, queue, tables>>

Place ==
  {"idle", "auth", "handler", "verify", "body", "access", "file", "open", "queued",
    "locked", "check", "log", "sidebar", "create", "define", "connect", "answered"}

Request == [kind : LoopKind \cup {"record", "reload", "none"}, at : Place, conn : {0, 1},
            lock : {"none", "share", "exclusive"}]

Idle == [kind |-> "none", at |-> "idle", conn |-> 0, lock |-> "none"]

At(w, place) == request[w].at = place
Busy(w) == ~At(w, "idle")
Is(w, kind) == request[w].kind = kind
Served == tables = "filled"

Holding == {w \in Worker : request[w].conn = 1}

\* Bug: one connection too many.
Bug_OffByOne == Cardinality(Holding) <= PoolSize
HasConnection == Cardinality(Holding) < PoolSize

\* Bug: the pool waits for ever.
Bug_NoTimeout == FALSE
\* The pool gives up after pool_timeout, 30 seconds by default.
PoolTimeout == ~HasConnection

Init ==
  /\ request = [w \in Worker |-> Idle]
  /\ loop = Nobody
  /\ queue = <<>>
  /\ tables = "filled"

Goes(w, place) == request' = [request EXCEPT ![w].at = place]
Connects(w, place) == request' = [request EXCEPT ![w].at = place, ![w].conn = 1]
Releases(w, place) ==
  request' = [request EXCEPT ![w].at = place, ![w].conn = 0, ![w].lock = "none"]
Ends(w) == request' = [request EXCEPT ![w] = Idle]
\* The first statement of a session takes a connection and asks for the lock.
Asks(w) ==
  /\ Connects(w, "queued")
  /\ queue' = Append(queue, w)

-----------------------------------------------------------------------------
(* The middleware, on the loop *)

\* A request arrives. Pushes are on a public path, everything else is
\* authenticated first. Bound of the model: one reload at a time.
Arrive(w, kind) ==
  /\ ~Busy(w)
  /\ loop = Nobody
  /\ kind = "reload" => \A x \in Worker : ~Is(x, "reload")
  /\ request' = [request EXCEPT ![w].kind = kind,
                                ![w].at = IF kind = "push" THEN "verify" ELSE "auth"]
  /\ loop' = IF kind = "push" THEN Nobody ELSE w
  /\ UNCHANGED <<queue, tables>>

\* The token is checked over a connection of its own; nothing else runs
\* meanwhile, nor while the pool makes it wait.
Authenticate(w) ==
  /\ At(w, "auth")
  /\ \/ HasConnection /\ Goes(w, "handler")
     \/ PoolTimeout /\ Ends(w)
  /\ loop' = Nobody
  /\ UNCHANGED <<queue, tables>>

-----------------------------------------------------------------------------
(* Record requests, in threads *)

\* The handler finds its tables in the map, or answers 404.
OpenSession(w) ==
  /\ At(w, "handler") /\ Is(w, "record")
  /\ \/ Served /\ HasConnection /\ Asks(w)
     \/ (~Served \/ PoolTimeout) /\ Ends(w) /\ UNCHANGED queue
  /\ UNCHANGED <<loop, tables>>

\* One that has to ask for a permission does so over a second connection; so
\* does an import whose key leads to a retired record.
CheckPublish(w) ==
  /\ At(w, "locked") /\ (Is(w, "record") \/ Is(w, "import"))
  /\ Goes(w, "check")
  /\ UNCHANGED <<loop, queue, tables>>

Checked(w) ==
  /\ At(w, "check") /\ Is(w, "record")
  /\ \/ HasConnection /\ Releases(w, "answered")
     \/ PoolTimeout /\ Goes(w, "answered")
  /\ UNCHANGED <<loop, queue, tables>>

\* A read, or a change that is refused, leaves its transaction open.
Return(w) ==
  /\ At(w, "locked") /\ Is(w, "record")
  /\ Goes(w, "answered")
  /\ UNCHANGED <<loop, queue, tables>>

CommitWrite(w) ==
  /\ At(w, "locked") /\ Is(w, "record")
  /\ Releases(w, "answered")
  /\ UNCHANGED <<loop, queue, tables>>

\* Bug: the session is closed in a thread, without the loop.
Bug_ClosesInThread(w) ==
  /\ At(w, "answered")
  /\ Ends(w)
  /\ UNCHANGED <<loop, queue, tables>>

\* The loop runs the exit of get_db, which closes the session.
Close(w) ==
  /\ At(w, "answered")
  /\ loop = Nobody
  /\ Ends(w)
  /\ UNCHANGED <<loop, queue, tables>>

-----------------------------------------------------------------------------
(* The lock on the record table: readers and writers share it, ALTER TABLE   *)
(* wants it alone, and PostgreSQL serves waiters in order, with no time limit *)

Mode(w) == IF Is(w, "reload") THEN "exclusive" ELSE "share"

Compatible(w) ==
  \A x \in Worker \ {w} :
    request[x].lock = "none" \/ (request[x].lock = "share" /\ Mode(w) = "share")

GrantLock(w) ==
  /\ At(w, "queued")
  /\ queue # <<>> /\ Head(queue) = w
  /\ Compatible(w)
  /\ request' = [request EXCEPT ![w].at = "locked", ![w].lock = Mode(w)]
  /\ queue' = Tail(queue)
  /\ UNCHANGED <<loop, tables>>

-----------------------------------------------------------------------------
(* A push: its key is checked in a thread, its handler runs on the loop *)

VerifyKey(w) ==
  /\ At(w, "verify")
  /\ \/ Served /\ HasConnection /\ Connects(w, "body")
     \/ (~Served \/ PoolTimeout) /\ Ends(w)
  /\ UNCHANGED <<loop, queue, tables>>

\* The body has come; from here to its answer the push keeps the loop.
StartPush(w) ==
  /\ At(w, "body")
  /\ loop = Nobody
  /\ \/ Served /\ Asks(w) /\ loop' = w
     \/ ~Served /\ Goes(w, "answered") /\ UNCHANGED <<loop, queue>>
  /\ UNCHANGED tables

\* Committed, or refused and rolled back, which is not logged.
CommitPush(w) ==
  /\ At(w, "locked") /\ Is(w, "push")
  /\ \/ Releases(w, "log") /\ UNCHANGED loop
     \/ Releases(w, "answered") /\ loop' = Nobody
  /\ UNCHANGED <<queue, tables>>

\* The call is logged over another connection; a pool that has none only
\* delays the answer.
LogCall(w) ==
  /\ At(w, "log")
  /\ HasConnection \/ PoolTimeout
  /\ Goes(w, "answered")
  /\ loop' = Nobody
  /\ UNCHANGED <<queue, tables>>

-----------------------------------------------------------------------------
(* Imports and the page of pending drafts: async handlers, on the loop *)

StartHandler(w) ==
  /\ At(w, "handler") /\ (Is(w, "import") \/ Is(w, "page"))
  /\ loop = Nobody
  /\ Goes(w, "access")
  /\ loop' = w
  /\ UNCHANGED <<queue, tables>>

\* Permissions are read over a connection of their own, then the tables are looked
\* up. An import awaits its file, or answers 404; the page skips what is not there.
CheckAccess(w) ==
  /\ At(w, "access")
  /\ \/ /\ HasConnection /\ Is(w, "page")
        /\ Goes(w, IF Served THEN "open" ELSE "sidebar")
        /\ UNCHANGED loop
     \/ HasConnection /\ Is(w, "import") /\ Served /\ Goes(w, "file") /\ loop' = Nobody
     \/ (PoolTimeout \/ (Is(w, "import") /\ ~Served)) /\ Ends(w) /\ loop' = Nobody
  /\ UNCHANGED <<queue, tables>>

\* The file has come; from here to its answer the import keeps the loop.
StartRows(w) ==
  /\ At(w, "file")
  /\ loop = Nobody
  /\ Goes(w, "open")
  /\ loop' = w
  /\ UNCHANGED <<queue, tables>>

OpenOnLoop(w) ==
  /\ At(w, "open")
  /\ \/ HasConnection /\ Asks(w) /\ UNCHANGED loop
     \/ PoolTimeout /\ Ends(w) /\ UNCHANGED queue /\ loop' = Nobody
  /\ UNCHANGED tables

\* Committed, or rolled back as a whole, after the permission check for a row
\* if there was one.
CommitImport(w) ==
  /\ Is(w, "import")
  /\ At(w, "locked") \/ (At(w, "check") /\ (HasConnection \/ PoolTimeout))
  /\ Releases(w, "answered")
  /\ loop' = Nobody
  /\ UNCHANGED <<queue, tables>>

\* The page closes its session, and reads permissions once more for the sidebar.
CloseDrafts(w) ==
  /\ At(w, "locked") /\ Is(w, "page")
  /\ Releases(w, "sidebar")
  /\ UNCHANGED <<loop, queue, tables>>

AnswerPage(w) ==
  /\ At(w, "sidebar")
  /\ HasConnection \/ PoolTimeout
  /\ Ends(w)
  /\ loop' = Nobody
  /\ UNCHANGED <<queue, tables>>

-----------------------------------------------------------------------------
(* Reload: sync_schema, in a thread *)

ClearTables(w) ==
  /\ At(w, "handler") /\ Is(w, "reload")
  /\ tables' = "emptied"
  /\ Goes(w, "create")
  /\ UNCHANGED <<loop, queue>>

\* CREATE SCHEMA, which needs a connection and a database that allows it. A
\* failure ends the reload and leaves the map as it is.
CreateSchemas(w) ==
  /\ At(w, "create")
  /\ \/ HasConnection /\ Goes(w, "define") /\ UNCHANGED tables
     \/ /\ HasConnection \/ PoolTimeout
        /\ Ends(w)
        /\ tables' = IF tables = "emptied" THEN "lost" ELSE tables
  /\ UNCHANGED <<loop, queue>>

\* Bug: the tables are defined and not entered in the map.
Bug_DefinesNothing(w) ==
  /\ At(w, "define")
  /\ Goes(w, "connect")
  /\ UNCHANGED <<loop, queue, tables>>

DefineTables(w) ==
  /\ At(w, "define")
  /\ tables' = "filled"
  /\ Goes(w, "connect")
  /\ UNCHANGED <<loop, queue>>

\* _ensure_constraints: its ALTER TABLE waits for the table.
ConnectForDdl(w) ==
  /\ At(w, "connect")
  /\ \/ HasConnection /\ Asks(w)
     \/ PoolTimeout /\ Ends(w) /\ UNCHANGED queue
  /\ UNCHANGED <<loop, tables>>

\* The constraints are there, or one of them could not be made.
FinishDdl(w) ==
  /\ At(w, "locked") /\ Is(w, "reload")
  /\ Ends(w)
  /\ UNCHANGED <<loop, queue, tables>>

-----------------------------------------------------------------------------
\* Steps of a thread, or of the request that has the loop.
Continue(w) ==
  \/ Authenticate(w)
  \/ OpenSession(w) \/ CheckPublish(w) \/ Checked(w) \/ Return(w) \/ CommitWrite(w)
  \/ GrantLock(w)
  \/ VerifyKey(w) \/ CommitPush(w) \/ LogCall(w)
  \/ CheckAccess(w) \/ OpenOnLoop(w) \/ CommitImport(w) \/ CloseDrafts(w) \/ AnswerPage(w)
  \/ ClearTables(w) \/ CreateSchemas(w) \/ DefineTables(w) \/ ConnectForDdl(w) \/ FinishDdl(w)

\* Steps that wait for their turn on the loop.
Resume(w) == Close(w) \/ StartPush(w) \/ StartHandler(w) \/ StartRows(w)

Next ==
  \E w \in Worker : Continue(w) \/ Resume(w) \/ \E kind \in Sends[w] : Arrive(w, kind)

Spec == Init /\ [][Next]_vars

\* Threads go on, the pool hands out or gives up, PostgreSQL grants what is
\* free, and the loop runs what is ready in order of arrival, so that nothing
\* ready is passed over for ever. No client has to send anything.
FairSpec ==
  Spec /\ \A w \in Worker : WF_vars(Continue(w)) /\ SF_vars(Resume(w))

-----------------------------------------------------------------------------
(* Properties *)

\* Everything is where it can be: a request has the loop only inside the
\* middleware or an async handler, the queue is of requests that wait, and the
\* pool never hands out more than it has.
TypeOK ==
  /\ request \in [Worker -> Request]
  /\ loop \in Worker \cup {Nobody}
  /\ loop # Nobody => At(loop, "auth") \/ (request[loop].kind \in LoopKind /\ request[loop].at \in
                        {"access", "open", "queued", "locked", "check", "log", "sidebar"})
  /\ queue \in Seq({w \in Worker : At(w, "queued")})
  /\ Cardinality(Holding) <= PoolSize
  /\ tables \in {"filled", "emptied", "lost"}

Before(x, y) ==
  \E i, j \in DOMAIN queue : i < j /\ queue[i] = x /\ queue[j] = y

\* The one way to hang: a push, an import or the page of drafts waits on the loop
\* for the table, behind a reload that waits for a request which is done with it,
\* but whose session only the loop can close.
Knot ==
  \E owner, reload, get \in Worker :
    /\ loop = owner
    /\ Mode(reload) = "exclusive"
    /\ Before(reload, owner)
    /\ At(get, "answered") /\ request[get].lock = "share"

\* Every request ends, however short the pool and whoever holds the loop,
\* unless there is such a knot.
EndsUnlessKnotted == \A w \in Worker : Busy(w) ~> (~Busy(w) \/ Knot)

\* Someone has a step to make before any new request: whoever waits for a
\* connection, as there is one or the pool gives up, whoever has the table, the head
\* of the lock's queue when the table is free for it, or what is ready for a free loop.
CanGo(w) ==
  \/ request[w].at \in {"auth", "verify", "access", "open", "check", "log", "sidebar",
                        "create", "connect"}
     /\ (HasConnection \/ PoolTimeout)
  \/ At(w, "handler") /\ request[w].kind \notin LoopKind /\ (HasConnection \/ PoolTimeout)
  \/ request[w].at \in {"locked", "define"}
  \/ At(w, "queued") /\ queue # <<>> /\ Head(queue) = w /\ Compatible(w)
  \/ request[w].at \in {"answered", "body", "file"} /\ loop = Nobody
  \/ At(w, "handler") /\ request[w].kind \in LoopKind /\ loop = Nobody

\* The threads, the loop, the pool and the lock never wait for each other in any
\* other ring: as long as there is no knot, some request under way can go on.
StopsOnlyInKnot == (\E w \in Worker : Busy(w)) => Knot \/ \E w \in Worker : CanGo(w)

\* Nothing in the process or the database unties it.
KnotIsForever == [][Knot => Knot']_vars

\* A reload that has emptied the table map fills it again, unless it fails before
\* it defines the tables: even if it then hangs.
OutageEnds == tables = "emptied" ~> tables # "emptied"

\* "call POST /api/config/reload if you want zero downtime"
\* (docs/quickstart.md:52): every request ends.
RequestsEnd == \A w \in Worker : Busy(w) ~> ~Busy(w)
=============================================================================
