# miniMDM in TLA+

A specification of the parts of miniMDM that are hard to test: the life of a
record from draft to golden to retired, the same when files and other systems
feed the table and when requests overlap in PostgreSQL, the life of users,
sessions and roles, and what requests share besides data: connections, the event
loop, the table lock and the table map. TLC checks the models on
small instances; TLAPS proves the main safety properties for all sizes.

Paths below are relative to `src/`.

## 1. Inventory

miniMDM is one FastAPI process in front of one PostgreSQL database. The process
has an event loop (the middleware and `async` handlers: imports, pushes, login, most of
the admin API) and a pool of threads (the sync handlers: all of `app/api/objects.py`,
the reload). All lasting state is in the database.

| Component | State | Operations | Talks to | Hard behaviours | Correct when |
|---|---|---|---|---|---|
| Record API, `app/api/objects.py` | record and history table per object | create, edit, delete, revert, publish, retire; list, counts, get, history | audit writers, validation, permissions, webhooks | requests overlap at READ COMMITTED; a state read first and used later; two lock orders; reverts of deleted records | history agrees with the record; golden data is approved; keys are unique; requests end |
| History and audit, `app/core/audit.py` | `<object>_history`, `_system.audit_log` | `write_history`, `log_change` | called inside each transaction | several INSERTs that must stay together | one entry per change, by the right user |
| Permissions, `app/core/permissions.py` | `_system.schema_permissions` | set, delete, check | admin API, record API | PUT and DELETE overlap | publish implies write implies read |
| Sessions, `app/core/auth.py`, `app/api/auth_api.py`, `AuthMiddleware` in `app/main.py` | users, blocklist, reset tokens; JWTs at the client | login, check, logout, reset, clean-up at start | every request | expiry, restart, two uses of a link, state read by the middleware and used later | an ended session stays out; a link works once |
| User administration, `app/api/admin_api.py` | users, permissions, inbound keys | add, patch, reset link, permissions, keys | sessions, audit | two admins at once | an admin remains |
| Table manager, `app/core/table_manager.py` | table map, DDL | `sync_schema`, constraints; called by `POST /config/reload` | all handlers | hot reload under load, DDL that waits for open transactions or fails half way | the map is there again soon; requests go on |
| Validation, `app/core/validation.py` | none | `record_violations` | record API, import, inbound | one verdict on every path | status is the verdict on the data |
| Webhooks, `app/core/webhooks.py` | events queued in memory | `fire_webhooks` | record API | lost with the process | order; at most once |
| Import, `app/api/import_export.py` | record tables | import strict or not, upsert, export | history, audit, validation | savepoints, an aborted transaction, a key that several records have | all or nothing when strict; golden data is approved; an export can be read back |
| Inbound, `app/api/inbound.py` and `_inbound_upsert` | record tables, inbound keys | check key, match, claim, upsert | import code | sources competing for a record, drafts that hide their master, locks waited for on the event loop, as in imports | one record per source id; pushes end as drafts |
| Sessions of the database, `app/database.py` | connection pool | `get_db` | every request | a request that needs two connections, a session that only the loop can close | every request ends, unless a reload meets a handler on the loop |
| Schema loader, migrations, logging, limits, pages | configuration, DDL, none | | | hot reload; legacy databases | |

`PROJECT.json` lists every component with its status, and every hazard with its line.

## 2. Modules

    RecordStore        the tables, and the operators handlers apply to them
      RecordProperties   what should be true of them; MasterData, what readers see
        Records            one request of the record API at a time
          Feeds              imports and pushes beside it
          RecordTxns         the record API, statement by statement, overlapping

    Accounts           users, sessions, reset links, roles
    Server             connections, event loop, table lock, table map

Each of Records, Feeds, RecordTxns, Accounts and Server has an instance for TLC
(`MC...`). Proofs are in modules of their own:

    RecordStoreProofs  lemmas about the operators of RecordStore, used by
      RecordsProofs      Records: one request at a time
        PromiseProofs      Records implements MasterData
          FeedsProofs        Feeds: imports and pushes
          RecordTxnsProofs   RecordTxns: overlapping requests
    AccountsProofs, ServerProofs

Three refinements tie the modules together:
`PromiseKept` (Records implements MasterData), `SerialUnlessStale` (a request of
RecordTxns that has read nothing stale is a step of Records; as long as requests under
way are about different records RecordTxns implements Records), and `FeedPromiseKept` (Feeds, whose `Api` is Records' requests with
the source columns added, implements MasterData with a step for feeds).

**RecordStore** holds the state of one configured object and the pure operators.

| Specification | Code |
|---|---|
| `rows` | the record table: `_state`, `_deleted_at`, `_draft_of_id`, user columns, `_validation_status` |
| `history[r]` | the history rows of `r` in insertion order; `open` is `_valid_to IS NULL` |
| `audit[r]` | `_system.audit_log` rows of `r` |
| `events[r]` | events given to `BackgroundTasks` for `r` |
| `Status`, `Broken` | `record_violations`: the set of data some rule rejects is a constant |
| `Accepts` | NOT NULL and the partial unique index on active, live rows |
| `Merge` | `_filter_columns` and the merge of a body into a record |
| `Created`, `DraftCopy`, `Edited`, `Deleted`, `Reverted`, `Promoted`, `MergedInto`, `Retired` | the columns each handler sets. `cur` is the row the UPDATE finds, `snap` the row the handler read |
| `CloseRow`, `Snapshot`, `WriteHistory`, `LogChange` | the history and audit INSERTs |

**Records** is the API when requests do not overlap. One action is one request:
`CreateRecord`, `StartDraft` / `AmendDraft` / `EditInPlace` (the three cases of PUT),
`DeleteRecord`, `RevertRecord`, `PublishNewRecord` / `PublishEdit`, `RetireRecord`.
Guards are the 403s and 404s; 422s of a constraint are `Accepts`. A rejected
request is no step. `require_change_reason` and an unconfirmed override only
reject requests that can be sent again with the missing part, so they restrict nothing.

**RecordTxns** is the same API cut into statements. `txn[w]` holds the local
variables of the handler worker `w` runs: what it read (`read`, `arg`), the
history rows it waits for (`wanted`) and holds (`held`), the row it closes, the
version it writes, the records it has updated. Writes appear at the commit
(`Finish`, `InsertDraft`, `PostRecord`). PostgreSQL is modelled from how the
code uses it: a lock waits for its holder; a `SELECT ... FOR UPDATE` that waited
looks at the row again and drops it if it no longer matches; an UPDATE that
waited sets its columns on the newest version of the row. `Abort` is a lost
connection or a deadlock's victim, `Restart` a stop of the process. The locks,
the detector, `Abort` and `Restart` are marked external in the map.

Two waits are left out. An UPDATE or INSERT whose key another open transaction
has just put into the unique index waits for it; in the model the constraint is
tested at the commit, where the one of the two that commits second is refused, so the
outcomes are the same. Foreign key locks on a parent record conflict with no UPDATE
these handlers make.

`SerialUnlessStale` says what overlap can change at all. `Fresh(w)` holds when what
request `w` read is still so at its commit. The commit of a fresh request is a step of
Records, whatever runs beside it; every misbehaviour the runs below show therefore
needs a stale read. As long as no two requests under way are about one record and its
drafts (`Apart`), every request is fresh and the module implements Records
(`ApartIsRecords`): every misbehaviour takes two requests about one record. RecordTxns extends Records
rather than instantiating it, because the prover cannot cite the theorems of an instance.

**MasterData** is what consumers are promised: per record a golden value or none,
which was submitted for that record, unique by key, and, under `requires_draft`,
never registered without approval. `PromiseKept` is the refinement. `Take` is what a
request of a feed may do to it: submit values and make some of them golden, for several
records at once, but approve no candidate that waited and withdraw nothing.
`FeedPromiseKept` is the refinement of MasterData with that step (`FedSpec`). `Take` may
register golden records, as a direct import does, so `ApiKeepsThePromise` says beside it that
every request of the API is a step of MasterData proper, approval included, on whatever
records the feeds have left.

**Feeds** adds `source` (`_source_system`, `_source_id`) and the two feeds. A
request of a feed is one action, as in Records, but inside it the rows of a file,
or the claim and the change of a push, follow one another: they are operators from
the tables a step finds to the set of tables it can leave (`first()` without an
ORDER BY is a choice).

| Specification | Code |
|---|---|
| `ImportRecords`, `Import`, `NextRow` | `import_records`: the role and `allow_direct_active_import` checks, the loop over the rows, the savepoint of a row (`strict=false`) or the rollback of all |
| `ImportRow`, `Enter`, `Hits`, `Upsert` | `_import_row`, `_upsert_row`: the lookup by key, the publisher check for retired records, draft-copy-on-edit |
| `ChangeByDraft`, `UpdateRow`, `Change` | the draft of an active record, or the row itself; history and audit entry |
| `ReceiveInbound`, `Pushed` | `receive_inbound`, `_inbound_upsert` |
| `Stamp`, `Emptied` | a field not sent keeps the source columns; an id sent as null or `""` is written as NULL, but not by a claim |
| `Identified`, `Claimable`, `Claim`, `Absorb` | lookup by source id (drafts first); by `match_key` (one active record with its own drafts, or one draft); `_claim_record`; the change that follows |
| `Api` | the record API, which copies the source to a new draft and back at a publish |

**Server** is about requests and what they hold. `request[w]` is the kind of a
request, the place it has reached, whether it has one of the pool's connections, and
its lock on the record table; `loop` is who has the event loop; `queue` the waiters
for the table lock; `tables` whether the table map is filled, emptied by a reload that is to
refill it, or lost by one that failed before. `Sends[w]` are the kinds of requests a client
sends: of the record API, pushes, imports, the page of pending drafts, reloads. The handlers
of the three `LoopKind`s are `async` and wait for the record table on the event loop; a search
of `app/` finds no other that does.

| Specification | Code |
|---|---|
| `Arrive`, `Authenticate` | `AuthMiddleware`: synchronous queries on the event loop, over a connection of their own; pushes are on a public path |
| `OpenSession`, `CheckPublish`, `Checked`, `Return`, `CommitWrite` | a sync handler in a thread: `get_table`, the first statement, `require_publish_access` over a second connection, return with the transaction open (a read, a refusal) or committed |
| `Close` | the exit of `get_db`, which FastAPI schedules on the loop |
| `VerifyKey`, `StartPush`, `CommitPush`, `LogCall` | `_verify_inbound_key` in a thread; `receive_inbound` from its body to its answer, all on the loop; a refused push is not logged |
| `StartHandler`, `CheckAccess`, `StartRows`, `OpenOnLoop`, `CommitImport` | `import_records`: permissions and `get_table` on the loop, the await of the file, then everything to the commit on the loop, with `require_publish_access` for a retired record (`CheckPublish`) |
| `StartHandler`, `CheckAccess`, `OpenOnLoop`, `CloseDrafts`, `AnswerPage` | `pending_drafts`: permissions, a session of its own on the record table, `_sidebar_schemas` |
| `ClearTables`, `CreateSchemas`, `DefineTables`, `ConnectForDdl`, `FinishDdl` | `sync_schema` in the thread of `reload_config` |
| `GrantLock`, `PoolTimeout` | PostgreSQL's table lock, first come first served and without a time limit; the pool's 30 seconds |

**Accounts** models users, tokens, blocklist, reset tokens, the permissions of one
schema, and the API requests between the middleware and their handler.

| Specification | Code |
|---|---|
| `Admit` | `AuthMiddleware`: the token is checked, `is_admin` is read and stays with the request |
| `Login`, `Logout`, `ExpireSession` | `auth_api.py`, the JWT's `exp` |
| `AddUser`, `PatchUser`, `CreateResetLink`, `SetPermission`, `DeletePermission` | `admin_api.py` |
| `FindReset`, `MarkUsed`, `SetPassword` | the three statements of `reset_password`: SELECT and UPDATE of the link in one transaction (two steps in the model, as the SELECT takes no lock), the password in another |
| `loop` | the request inside an `async` handler, between two awaits: nothing else runs on the loop |
| `Restart`, `StillBlocked` | the process stops and `lifespan` runs `cleanup_expired_tokens` |
| `ended`, `spent` | history variables: why a session should be over (a PATCH counts if it takes away rights or an account the user has: `Loses`); passwords set by a link |

Handlers whose only shared state is one row, and which run on the event loop without
an await after reading the body, are one action. `CreateResetLink` and
`DeletePermission` run in threads and so take no notice of `loop`.
A DELETE of a permission that falls between the SELECT and the UPDATE of a PUT has
the outcome of the DELETE after the PUT, so the PUT is one action as well.

## 3. Runs

CHECK_DEADLOCK is off for the record runs, because the bound `MaxChanges` ends
their behaviours, and for `Server`, which really can stop (`Knot`); whether requests
get stuck is asked by `RequestsEnd`, `StopsOnlyInKnot` and `EndsUnlessKnotted`. In `Accounts` deadlock is
checked (it cannot be expected: a restart is always possible).

| Run | Instance | Distinct states | Shows |
|---|---|---|---|
| `Records_governed` | `requires_draft`; 3 records, 2 attributes, NULL keys, partial bodies, 6 changes | 399,585 | `TypeOK`, `StatusFresh`, `HistoryWellFormed`, `HistoryTellsTheRecord`, `OneGoldenPerKey`, `SecondDraftWasReverted`, `GoldenDataIsApproved`, `PromiseKept` |
| `Feeds_governed` | `requires_draft`; 3 records, 2 unique attributes, 2 sources, files of up to 2 rows, 5 changes | 204,006 | `FeedTypeOK`, `HistoryTellsTheRecord`, `AuditFollowsHistory`, `DraftsPointAtMasters`, `GoldenWasPublished`, `FeedEventsFollow`, `SourceIdNamesOneRecord`, `ReimportKeepsGolden`, `PushesLandAsDrafts`, `LifecycleOrder`, `MasterDataIsApproved`, `ProvenanceIsRecorded`, `FeedPromiseKept`, `ApiKeepsThePromise` (approval included) |
| `RecordTxns_overlap` | 2 workers, 2 records, 5 changes | 1,311,843 | what survives overlap: `TxnTypeOK`, `LiveHasOpenVersion`, `OneGoldenPerKey`, `AuditFollowsHistory`, `DraftsPointAtMasters`, `SerialUnlessStale` |
| `RecordTxns_live` | 2 workers, 2 records, 4 changes, fairness | 34,977 | `RequestsEnd` |
| `Accounts_sessions` | 2 users, 2 sessions, 2 requests at a time, 1 link, 2 passwords | 898,865 | `TypeOK`, `EndedSessionsStayOut`, `ResetAtMostOnce`, `RolesNest`, `OnlyStaleRequestsTakeTheLastAdmin` |
| `Server` | 4 clients, 5 kinds of requests, 3 connections, fairness | 44,763 | `TypeOK`, `StopsOnlyInKnot`, `EndsUnlessKnotted`, `KnotIsForever`, `OutageEnds` |

Each property has a mutant (a `Bug_...` operator beside the definition it
replaces) that TLC refutes under the run's own configuration.

### Where code and documentation disagree

Six runs end in a counterexample.

| Run | Property | The documentation or a comment | What happens |
|---|---|---|---|
| `RecordTxns_versions` | `VersionsUnique` | `Changelog.md:362`: FOR UPDATE on the open row prevents duplicate versions | the waiter finds no open row and writes version 1 again |
| `RecordTxns_golden` | `GoldenDataIsApproved` | `docs/reference.md:7`, `objects.py:732`: a golden record is never overwritten in place, least of all by an editor | an edit of a draft that waited for its publication is written to the golden record |
| `Records_events` | `EventsAsDocumented` | `docs/reference.md:268-272`: `record.published` when a draft goes through review and approval, `record.created` when a record is created directly as active | publishing a new record sends `record.created` (`objects.py:917`) |
| `Server_reload` | `RequestsEnd` | `docs/quickstart.md:52`: `POST /api/config/reload` "if you want zero downtime" | the server hangs for good: see below |
| `Accounts_last_admin` | `AdminRemains` | `admin_api.py:98`: the last admin cannot lose the rights | two admins demote each other at the same time |
| `Accounts_open_sessions` | `ChangesEndSessions` | `docs/reference.md:434`: deactivation and demotion invalidate open sessions | a demoted user's session goes on; likewise one opened before a deactivation works again after the reactivation |

Under overlap `LifecycleOrder`, `StatusFresh` and `HistoryTellsTheRecord` fail for the
reason of `RecordTxns_golden`: adding them to `RecordTxns_overlap.cfg` shows how.

The knot of `Server_reload` takes three ordinary requests. A GET (or a refused
change) has read the record table and is answered; its transaction stays open, with a
share lock on the table, until the event loop closes its session. A reload then runs
`ALTER TABLE ... DROP CONSTRAINT IF EXISTS`, as it does for every attribute that is
not unique (`table_manager.py:425`), and waits for the GET. A push starts its first
statement on the event loop and queues behind the reload. Now the push waits for the
reload, the reload for the GET, the GET for the loop, and the loop for the push. Each is
a legitimate wait to PostgreSQL, which sees no cycle, and there is neither a
`lock_timeout` nor an `idle_in_transaction_session_timeout`. An import, or the page of
pending drafts, can take the part of the push. `StopsOnlyInKnot` and `KnotIsForever`, both proved for any number of requests and
any pool, say that this is the only state in which nobody can go on and that no step unties
it; `EndsUnlessKnotted` adds, under fairness, that otherwise every request ends. It takes a
reload and a request whose handler waits for the record table on the loop: a server without the
one or without all of the others never stops (`NeverStopsWithout`).

"Zero downtime" fails in two lesser ways. From `ClearTables` to `DefineTables` every request
is answered 404, and a reload that fails at `CREATE SCHEMA` leaves the map empty until another
succeeds. `OutageEnds` shows that nothing else prolongs the first.

`Records_events` has a second half. A record imported as active, the other way to be "created
directly as active", sends nothing: `EventsAsDocumented` fails of Feeds by a single import, too.
What the docs and the code agree on is `FeedEventsFollow`; `EventsFollowLifecycle` is what the code
sends.

Met while reading, without a run of their own:

- retire and delete leave the live drafts of the record behind (`objects.py:1081`), for
  which publish then finds no master; pushes with the draft's id go on into it
  (`import_export.py:550`);
- a published draft's deletion has neither history nor audit entry (`objects.py:993`);
- an upsert is documented to update existing records in place
  (`docs/reference.md:696`); it takes whichever live record with the key comes first, a draft
  or a retired one included (`import_export.py:857`);
- an upsert with a `source_system` gives the record it finds that system and leaves it
  the id another source knew it by (`import_export.py:851`): a push of the new
  source with that id then reaches this record;
- a publish copies every column of the draft (`objects.py:945`), and so takes back what
  a direct import changed in the master since;
- two sources that share a `match_key` claim the record from each other with every push;
- two reloads at a time share `self._tables` and `self.metadata` (`table_manager.py:72`): one
  can define a table the other has defined already, which raises and leaves the map half filled;
- reset tokens are never cleaned up (`main.py:74` and `Changelog.md:324` say that they
  are; `auth.py:94` deletes from the blocklist only);
- a PATCH with `is_active: null` changes nothing and is logged as USER_DEACTIVATED
  (`admin_api.py:112`).

`SourceIdNamesOneRecord` has exceptions in its statement. A revert can bring back a
deleted record whose id has a new one meanwhile (`BroughtBack`). The id must be of a
source that always sends one: a claim without an id relabels a record and leaves it the id
another source gave it. For the same reason no import file may be attributed to the
source: `source_system` of an import relabels the records its upsert finds and keeps
their ids (`import_export.py:851`). `ReimportKeepsGolden` is about unique keys; an
upsert by an attribute that is not unique may find another golden record and overwrite it.

### Bounds

- `MaxChanges` limits the history rows written in all. Six changes reach create,
  publish, edit, delete of the draft, a second draft, revert of the first, or two records
  that compete for a key across a delete and a revert. New records that need no approval
  are in the two runs of RecordTxns and in the theorems. Overlaps need two changes to prepare a state and two
  requests under way in it. Requests that have begun count against the bound, so none is cut off.
- In Feeds `HasRoom` is asked once per request and `Commit` refuses a file that would
  exceed the bound as a whole, so no file is cut in two. One source always sends an id, the other
  sends none or an empty one: the two lookups. Files of two rows let the second
  row hit what the first wrote or failed to write (`MCCollision` breaks the second unique key); `Body` has one
  value, as what users send is the other runs' business.
- Two record ids are a record and its draft, or two records with one key; a third
  adds a second draft, or another record under the key.
- One unique, required attribute with two values, one of which a rule rejects,
  decides every constraint and status; the second attribute in `Records_governed`
  makes partial bodies, NULL keys and merges matter.
- One editor and one publisher: only the role matters. `RecordTxns_live` has the
  publisher only, who may do everything, since who asks does not matter to ending.
- Two workers: a lock conflict or a stale read takes two. `Enabled` names the
  endpoints in use; the runs that refute a property enable only those the counterexample is about.
- Server: a knot takes three requests; the fourth competes with them for the last of three
  connections. One client sends record requests only, one also reloads, two send what runs on the
  loop, and one of these reloads: two that want the loop, a reload and a GET can be under way. One
  reload is under way at a time (a guard of `Arrive`). One table is modelled.
- `MaxHash` limits the passwords of a user, and a session, token or id is used once.
- Symmetry is used with invariants, action properties and the (safety) refinement only,
  all of which treat ids alike; never with a property that needs fairness.

### Fairness

`FairSpec` of RecordTxns assumes: a thread goes on with its request (weak
fairness of `Statement`); a statement that waits for a lock gets it if it becomes
free again and again (strong fairness of `LockingStatement`: PostgreSQL queues
waiters in order of arrival); and the deadlock detector, which is always on, ends
some transaction of a deadlock (weak fairness of `Deadlocked(w) /\ Abort(w)`).
No client has to send a request and no other failure has to occur. The detector is
needed: a PUT through an existing draft updates the draft and then locks its
history, everything else locks the history first.

`FairSpec` of Server assumes that threads, the pool, PostgreSQL's lock manager and
the request that has the loop go on (weak fairness of `Continue`), and that what waits for its
turn on the loop (the close of a session, a handler, a body or a file that has come) is not passed
over for ever (strong fairness of `Resume`: asyncio
runs ready callbacks in the order they became ready). The pool's timeout is part of
`Continue`, and needed: without it `EndsUnlessKnotted` fails, as requests that hold a connection
wait for a second one. There is no fairness for `Arrive`.

## 4. Proofs

**RecordsProofs**, about `Records`, for all values of the constants under the
assumptions of RecordStore (NULLs outside the types, bodies as partial rows,
publishers among the writers).
The invariant `IInv` consists of the type invariant and of statements that make
each other inductive:

- `AbsentIsBlank`: a record that is not stored has no data and no history;
- `HistoryWellFormed` and `HistoryTellsTheRecord`: the number of the next version is
  right because a live record's newest version is open, and the second needs the
  first to know which version is the newest; so `FirstOpen` and `LatestRow` are known
  and every handler, revert after delete included, appends version `Len + 1`;
- `DraftsPointAtMasters`: `PublishEdit` deletes a second row in the step that
  changes the master, and has to know which;
- `StatusFresh`, which a version copied from the record inherits;
- `OneGoldenPerKey`: only `Save` writes rows and tests the new row against all
  indexed ones; deleting the draft in the same step can only free keys;
- `GoldenWasPublished`: states only move forward and a history only grows.

- `AuditFollowsHistory` (`Repeats`): the last entries of a log are the change just made
  and perhaps an override, so the n-th change still is the n-th version's;
- `ImportedIsMaster`: a history that starts golden is a master's, which the events of
  imported records need;
- `RivalDraftWasReverted`: of two live drafts of one master one was reverted, `StartDraft`
  having found none. `SecondDraftWasReverted` follows; by itself it is not inductive: of
  three drafts, one of them reverted, deleting that one would leave two.

`NextIsLegal` shows, action by action, that every request is one of a few kinds of
legal change of one record (`Legal...` in the module); `LegalStepPreserves` shows,
conjunct by conjunct, that these preserve `IInv`. `InvariantHolds` combines them, and
the named theorems follow; `EventsFollow` adds the events, which only `Legal` and `IInv`
are needed for. `LifecycleOrder` and `GoldenDataIsApproved` are action
properties, proved from the invariant and the same description of a step.

**RecordTxnsProofs**, about `RecordTxns` for any number of workers. Overlap breaks much
of `IInv`, so the invariant `TInv` keeps of the tables only what stale reads cannot spoil
(versions at most their position, an open version for what is live, drafts at masters,
unique keys, approval, audit), and adds what a request knows at each of its statements,
whatever the others have done since:

- `Remembers`: the version it read is one the record has had; its master is the
  same, and what was golden then is a master now;
- `Checked`: the permissions and states the handler tested hold of what it read;
- `AtStep` and `InHistory`: where it can stand, and that the rows it wants, holds and
  closes are rows of a history that only grows, the version to write following the one to close;
- `RoomKept`: there is room for every request under way, by counting finite sets.

`WriteKeepsTables` shows that any write in the terms of `Lawful` keeps the tables, and
`OthersKeep` that it leaves every other request what it knows; then one lemma per
statement and commit. `LiveHasOpenVersion` rests on the commit appending an open version
unless it deletes. `OverlapIsSerialUnlessStale` finds for each fresh commit the action
of Records it is.

`ApartIsRecords`, `TxnSpec /\ []Apart => Spec`, needs a second invariant, `Steady`: a
request's reads stay true to its commit, so every commit is fresh. `Outside(f)` is what a commit about
record `f` does not touch: other records and their drafts, and it creates no draft but of
`f` (`FinishOutside`, `InsertOutside`). `SteadyOutside` shows that this leaves a
request about another record what it has read, that there is no draft yet included; and
its lock on the history has nobody to wait for. `Apart` leaves overlap in
plenty: on three records with four changes TLC finds 18,651 distinct states within it. `OneAtATimeIsRecords` is the case of
one worker. What is proved of Records then holds of the handlers' statements:
`ApartKeepsTheTables` and `ApartKeepsThePromise` state it for the properties that fail when
requests about one record overlap, `VersionsUnique` and `GoldenDataIsApproved` among them.

**AccountsProofs**, about `Accounts` with any number of users, sessions, links and
concurrent requests. The invariant `SInv` has, beside the types: a session that
logged out is in the blocklist or expired, and a session ended by a password carries an
older hash than its user's (so a reason to refuse it that lasts through clean-ups); a
request in `markUsed` or `setPassword` is the one that holds the loop, and its token
is unused until `MarkUsed` and used after, with `spent` still 0 (so a link can
be spent once only); stored roles nest. `LastAdminFallsToStaleRequests` adds that
whoever was admitted as an admin is a stored user, and shows by `RightsStep` that
only PATCH takes rights away: if its sender still were an active admin, `Permitted`
would keep that admin. `OneAtATimeAdminRemains` assumes that all slots are one: the
requester of a PATCH is then still the admin the middleware saw. The run
`Accounts_last_admin` shows that the assumption is needed.

**PromiseProofs** shows `RecordsKeepThePromise`, Spec => PromiseKept, on top of
RecordsProofs: `GoldenStep` and `SubmittedStep` say what a legal change of a record does to
the golden value and to the set of submitted values (the history only grows, and the new
version belongs to the record or to its master), `IndexKeepsApart` turns the unique
index into the abstract `Unclaimed`, and `StepKeepsPromise` finds for every legal change
the abstract step, or the stutter, it is.

**FeedsProofs** is about all of `FeedSpec`: every request of the API, every push, and
files of any length. A request of a feed passes through tables that are not a state of
the system, so `StoreOK` restates the invariant of the tables `s` inside a transaction:
`RecordOK` record by record (`IInv`, the events as the code sends them, `EventsAreSent`, and that required columns are filled),
and four parts about pairs of records, keys, drafts, rivals and sources (`SourcesIn`).
`Moves(s, t, u, trusted)` says what user `u` may have done between two such
tables: every record that has changed is live, has a new last version by `u`, and keeps
its state, its owner and the data of its earlier versions if it was there before; without
a publisher's consent the row of a master has not changed, at most its source, to `u`.
`ChangeKeepsStore` shows both for the one operator that writes; `Enter`, `UpdateRow`, `ChangeByDraft`, `Claim`, `Absorb`, `Upsert`
keep them by composition (`MovesCompose`). `BegunIsSound` and `CommitKeepsInv` lead from the
state into the transaction and back, and `FeedInv` is inductive.

`Import` runs over the rows of a file by a recursive function. The library's induction
theorems are of no use here (they take an operator), so `ImportIsFromRow` and
`ImportKeepsStore` argue by a least counterexample: `Least` picks the first row
after which the function would not exist, or would hold unsound tables, and the row before
it gives the contradiction.

Sources are the one part the API's steps had to be looked at again for: a publish passes the draft's
source to its master and a new draft takes its master's, so `SourceIdNamesOneRecord`
needs `LegalStepOnLife` (who can come to be live again, and that only a revert does
that) and `AbsentHasNoSource` (a new record starts without one). `ReimportKeepsGolden`
follows from the invariant without a step: `HitTakesBack` shows that the key finds the
record itself or something that is in no index.

`FeedsKeepThePromise`, FeedSpec => FeedPromiseKept, takes the API's steps from PromiseProofs.
`FeedStepIsTake` reads the others off `Moves` and `StoreOK`: what was golden stays live
and active, what becomes golden was not stored before, so that nothing had been
submitted for it, and the last version of a golden record holds its value. It needs that
NULL is no record value (`NullsAssumption`), or a record could be golden and seem not to be.
`ApiKeepsThePromiseBesideFeeds` needs no more than `FeedInv`, which has in it what PromiseProofs
asks of a state.

**ServerProofs** is about any number of requests and any pool. `NextIsStep` reduces
the actions to one form (a request goes to a new state, the loop is kept, taken or
given back, the queue kept, extended or shortened by its head). `Inv` says that the loop is
with the one request that needs it, that the queue holds each waiting request once,
and that the pool is not overdrawn; `TypeCorrect` follows. `KnotStays`: in a knot the loop's
owner is neither at the head of the queue nor anywhere it could move; the reload cannot
be granted the lock while the answered request has it; and that one cannot close
without the loop. `OnlyAKnotStops` is the converse. If nobody can go on (`CanGo`), the
pool's timeout leaves only requests that wait for the lock or for the loop. `NoOtherRing`
follows them: only an answered request can hold the lock then, and only in share mode, so
the head of the queue is the reload; the answered request waits for the loop, whose owner can only be
in the queue behind the reload, and the three are a knot. `NeverStopsWithout` adds that the
owner is of a `LoopKind`, so that without such requests, or without reloads, there is no knot. A `CanGo`
that promised a step no action takes would show as a failure of `EndsUnlessKnotted`, which rests on
the actions themselves.

Every other invariant, every action property and each refinement that a passing run checks is
proved, of the module that the run instantiates. Model-checked only: `RequestsEnd`,
`EndsUnlessKnotted` and `OutageEnds`, since liveness under fairness is
beyond the prover. Not claimed: `StatusFresh`, `HistoryTellsTheRecord` and `LifecycleOrder`
of RecordTxns without `Apart`, where overlap breaks them (section 3), and `PromiseKept` of Feeds, which
needs `FedSpec`: a file may register several records in one step.

The bound `MaxChanges` is any natural number in the proofs. Only RecordTxnsProofs uses it,
for the version numbers in `Txn` and to find, at a commit, the room that Records asks for.

## 5. Plan

| Step | Module | Content |
|---|---|---|
| done | RecordStore, RecordProperties, Records, MasterData, RecordsProofs | record API, one request at a time |
| done | RecordTxns | overlapping requests |
| done | Accounts, AccountsProofs | users, sessions, roles |
| done | Feeds, FeedsProofs | imports and pushes beside the record API |
| done | Server, ServerProofs | connections, event loop, table lock, reload |
| done | PromiseProofs | Records implements MasterData |
| done | RecordStoreProofs, RecordTxnsProofs | overlapping requests, and that they are Records when they are about different records |
| done | FeedsProofs | Feeds implements MasterData with several registrations in one step; events beside feeds |
| done | ServerProofs | a knot is the only deadlock |
| 1 | FeedTxns | the statements of a push against those of a POST or PUT: two records with one business key |
| 2 | Reload | a reload that changes `requires_draft`, unique keys or rules between requests of Records: stale statuses, a missing index |
| 3 | Webhooks | queue, attempt, crash |
| 4 | Validation, Views | required_if and forbidden_if as pure operators; lists and counts against the record table |

Runs of a new module replace or join existing ones where one instance answers both
questions, so that the whole suite stays quick to run.

## 6. Not modelled

Read-only endpoints, pages, logging, limits and migrations (no lasting state of
their own, or run once before requests). Webhook delivery: one attempt, no order, nothing
kept. The Cerberus rules and conditional rules: the verdict on a record is a constant set.

Feeds: parsing of CSV, TSV and JSON, coercion of values, `_source_system` and
`_source_id` columns inside a file or a body of the record API (a system can be
given to a whole import), the admin endpoints for inbound keys, failed calls. Feeds
runs one request at a time; how a push's row locks meet those of a threaded request is
not modelled, and pushes and imports cannot overlap one another, as each keeps the
event loop from its first statement to its commit.

Server: several tables locked by one reload, and deadlocks across them, which PostgreSQL
resolves; the second connection schema inspection takes; the row of the inbound key that
a push updates; the limit of 40 threads; two reloads at a time; row locks, which a push on the
loop may also wait for (every path of the handlers that raises with such a lock in hand rolls back
first, or fails in a statement, for which PostgreSQL has released it); login, health and the other
pages, which hold the loop as `Authenticate` does, for system tables that no reload locks; the
create_all and ADD COLUMN steps of a reload, whose locks are of the same kind as the
ALTER TABLE's.

Tokens without a password fingerprint from older releases. Clock skew between the
database, which cleans the blocklist, and the process, which checks expiry: the model
has one clock. JSON values of the wrong type for a flag of PATCH. Permissions withdrawn
while a record request is under way. Reference columns and cascades between objects: one
object is modelled.
