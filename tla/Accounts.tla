------------------------------ MODULE Accounts ------------------------------
(***************************************************************************)
(* Users, sessions, password resets and schema permissions                 *)
(* (app/core/auth.py, app/core/permissions.py, app/api/auth_api.py,        *)
(* app/api/admin_api.py, AuthMiddleware in app/main.py).                   *)
(*                                                                         *)
(* The application is one process. Its middleware and its async handlers   *)
(* run on the event loop and, from one await to the next, nothing else     *)
(* does; their database calls block the loop. Between the middleware and   *)
(* the handler of a request, though, other requests run, and the sync      *)
(* handlers (reset links, DELETE of a permission) run in threads whenever   *)
(* they like. The database outlives a restart, requests do not.            *)
(***************************************************************************)
EXTENDS Integers

CONSTANTS
  User,
  Root,        \* the admin made at the first start
  Nobody,
  Session,     \* the tokens login can issue (jti)
  ResetToken,  \* the tokens create_reset_token can issue
  Slot,        \* API requests served at a time
  Absent,      \* no key, or a JSON null, for a flag of PATCH
  Flag,        \* what clients send for such a flag
  RoleBody,    \* the roles they ask for in PUT .../permissions
  MaxHash      \* bound of the model: passwords a user has in turn

ASSUME RootAssumption == Root \in User
ASSUME NobodyAssumption == Nobody \notin User \cup Session \cup ResetToken \cup Slot
ASSUME FlagAssumption == Flag \subseteq BOOLEAN \cup {Absent} /\ Absent \notin BOOLEAN
ASSUME RoleAssumption ==
  RoleBody \subseteq [read : BOOLEAN, write : BOOLEAN, publish : BOOLEAN]
ASSUME HashAssumption == MaxHash \in Nat

VARIABLES
  users,      \* _system.users
  jwt,        \* the tokens handed out, which the server does not store
  blocklist,  \* _system.token_blocklist
  resets,     \* _system.password_reset_tokens
  grants,     \* _system.schema_permissions, for one schema
  requests,   \* what the middleware let through and the handlers still hold
  loop,       \* the request whose handler the event loop is in
  ended,      \* history: what has happened to a session since login
  spent       \* history: passwords set with a reset token

vars == <<users, jwt, blocklist, resets, grants, requests, loop, ended, spent>>

Ending == {"logout", "password", "account"}
Grant == [stored : BOOLEAN, read : BOOLEAN, write : BOOLEAN, publish : BOOLEAN]

\* A password is its hash; bcrypt salts it, so each change makes a new one.
UserRow == [stored : BOOLEAN, admin : BOOLEAN, active : BOOLEAN, hash : 0..MaxHash]
Token == [user : User \cup {Nobody}, hash : 0..MaxHash, expired : BOOLEAN]
ResetRow == [user : User \cup {Nobody}, used : BOOLEAN, expired : BOOLEAN]
Request == [pc : {"idle", "handler", "markUsed", "setPassword"},
            user : User \cup {Nobody}, admin : BOOLEAN,
            session : Session \cup {Nobody}, token : ResetToken \cup {Nobody}]

Idle == [pc |-> "idle", user |-> Nobody, admin |-> FALSE, session |-> Nobody, token |-> Nobody]
NoGrant == [stored |-> FALSE, read |-> FALSE, write |-> FALSE, publish |-> FALSE]

Init ==
  /\ users = [u \in User |-> [stored |-> u = Root, admin |-> u = Root,
                              active |-> u = Root, hash |-> 0]]
  /\ jwt = [s \in Session |-> [user |-> Nobody, hash |-> 0, expired |-> FALSE]]
  /\ blocklist = {}
  /\ resets = [t \in ResetToken |-> [user |-> Nobody, used |-> FALSE, expired |-> FALSE]]
  /\ grants = [u \in User |-> NoGrant]
  /\ requests = [w \in Slot |-> Idle]
  /\ loop = Nobody
  /\ ended = [s \in Session |-> {}]
  /\ spent = [t \in ResetToken |-> 0]

-----------------------------------------------------------------------------
(* Sessions *)

\* The middleware accepts the token of session s.
Valid(s) ==
  LET t == jwt[s] IN
  /\ t.user # Nobody
  /\ ~t.expired
  /\ users[t.user].active
  /\ s \notin blocklist
  /\ t.hash = users[t.user].hash

\* Bug: the reset handler runs in a thread, as sync handlers do.
Bug_NoLoop == TRUE

LoopFree == loop = Nobody

\* What happened to the sessions of user u.
Mark(u, what) ==
  [s \in Session |-> IF jwt[s].user = u THEN ended[s] \cup what ELSE ended[s]]

\* POST /auth/login, with the right password.
Login(s, u) ==
  /\ LoopFree
  /\ users[u].stored /\ users[u].active
  /\ jwt[s].user = Nobody
  /\ jwt' = [jwt EXCEPT ![s] = [user |-> u, hash |-> users[u].hash, expired |-> FALSE]]
  /\ UNCHANGED <<users, blocklist, resets, grants, requests, loop, ended, spent>>

\* AuthMiddleware: is_admin is the user's now, and stays with the request.
Admit(w, s) ==
  /\ LoopFree
  /\ requests[w].pc = "idle"
  /\ Valid(s)
  /\ requests' = [requests EXCEPT ![w] =
       [Idle EXCEPT !.pc = "handler", !.user = jwt[s].user, !.session = s,
                    !.admin = users[jwt[s].user].admin]]
  /\ UNCHANGED <<users, jwt, blocklist, resets, grants, loop, ended, spent>>

\* The handler of request w, run by an admin or by anybody.
Serving(w) == requests[w].pc = "handler"
AsAdmin(w) == Serving(w) /\ requests[w].admin
Answer(w) == requests' = [requests EXCEPT ![w] = Idle]

\* POST /auth/logout
Logout(w) ==
  LET s == requests[w].session IN
  /\ Serving(w) /\ LoopFree
  /\ blocklist' = blocklist \cup {s}
  /\ ended' = [ended EXCEPT ![s] = @ \cup {"logout"}]
  /\ Answer(w)
  /\ UNCHANGED <<users, jwt, resets, grants, loop, spent>>

\* A JWT, or a reset link, reaches the end of its time.
ExpireSession(s) ==
  /\ jwt[s].user # Nobody
  /\ jwt' = [jwt EXCEPT ![s].expired = TRUE]
  /\ UNCHANGED <<users, blocklist, resets, grants, requests, loop, ended, spent>>

ExpireReset(t) ==
  /\ resets[t].user # Nobody
  /\ resets' = [resets EXCEPT ![t].expired = TRUE]
  /\ UNCHANGED <<users, jwt, blocklist, grants, requests, loop, ended, spent>>

-----------------------------------------------------------------------------
(* User administration *)

\* POST /admin/users
AddUser(w, u, admin) ==
  /\ AsAdmin(w) /\ LoopFree
  /\ ~users[u].stored
  /\ users' = [users EXCEPT ![u] = [stored |-> TRUE, admin |-> admin, active |-> TRUE, hash |-> 0]]
  /\ Answer(w)
  /\ UNCHANGED <<jwt, blocklist, resets, grants, loop, ended, spent>>

\* Bug: admins may demote and deactivate themselves.
Bug_NoSelfGuard(w, u, admin, active) == TRUE

\* Nobody takes admin rights or the account from themselves.
Permitted(w, u, admin, active) ==
  u = requests[w].user => admin # FALSE /\ active # FALSE

\* Bug: a null reaches the column.
Bug_PutsNull(old, flag) == flag

\* update_user writes the flags that are neither absent nor null.
Put(old, flag) == IF flag \in BOOLEAN THEN flag ELSE old

\* It takes from u the admin rights or the account u has.
Loses(u, admin, active) ==
  (users[u].admin /\ admin = FALSE) \/ (users[u].active /\ active = FALSE)

\* PATCH /admin/users/{user_id}
PatchUser(w, u, admin, active, password) ==
  /\ AsAdmin(w) /\ LoopFree
  /\ users[u].stored
  /\ Permitted(w, u, admin, active)
  /\ password => users[u].hash < MaxHash
  /\ users' = [users EXCEPT ![u].admin = Put(@, admin), ![u].active = Put(@, active),
                            ![u].hash = IF password THEN @ + 1 ELSE @]
  /\ ended' = Mark(u, (IF password THEN {"password"} ELSE {})
                      \cup (IF Loses(u, admin, active) THEN {"account"} ELSE {}))
  /\ Answer(w)
  /\ UNCHANGED <<jwt, blocklist, resets, grants, loop, spent>>

\* POST /admin/users/{user_id}/reset-link, in a thread.
CreateResetLink(w, u, t) ==
  /\ AsAdmin(w)
  /\ users[u].stored
  /\ resets[t].user = Nobody
  /\ resets' = [resets EXCEPT ![t].user = u]
  /\ Answer(w)
  /\ UNCHANGED <<users, jwt, blocklist, grants, loop, ended, spent>>

\* Bug: publish is stored as it came, without what it implies.
Bug_NothingImplied(body) ==
  [stored |-> TRUE, read |-> body.read, write |-> body.write, publish |-> body.publish]

\* set_permission: publish implies write, write implies read.
Normalised(body) ==
  LET write == body.write \/ body.publish IN
  [stored |-> TRUE, read |-> body.read \/ write, write |-> write, publish |-> body.publish]

\* PUT /admin/users/{user_id}/permissions/{schema_name}. A DELETE of the row can
\* come between its SELECT and its UPDATE, which then finds nothing: the outcome
\* is that of the DELETE after the PUT.
SetPermission(w, u, body) ==
  /\ AsAdmin(w) /\ LoopFree
  /\ users[u].stored
  /\ grants' = [grants EXCEPT ![u] = Normalised(body)]
  /\ Answer(w)
  /\ UNCHANGED <<users, jwt, blocklist, resets, loop, ended, spent>>

\* DELETE of it, in a thread.
DeletePermission(w, u) ==
  /\ AsAdmin(w)
  /\ users[u].stored
  /\ grants' = [grants EXCEPT ![u] = NoGrant]
  /\ Answer(w)
  /\ UNCHANGED <<users, jwt, blocklist, resets, loop, ended, spent>>

\* Any other handler, which leaves all this alone.
OtherRequest(w) ==
  /\ Serving(w)
  /\ Answer(w)
  /\ UNCHANGED <<users, jwt, blocklist, resets, grants, loop, ended, spent>>

-----------------------------------------------------------------------------
(* POST /auth/reset-password: no await comes between its statements. The first *)
(* two are one transaction, which changes nothing before its UPDATE commits;   *)
(* the third is one of its own.                                                *)

\* consume_reset_token looks for an unused token ...
FindReset(w, t) ==
  /\ LoopFree
  /\ requests[w].pc = "idle"
  /\ resets[t].user # Nobody /\ ~resets[t].used /\ ~resets[t].expired
  /\ users[resets[t].user].hash < MaxHash
  /\ requests' = [requests EXCEPT ![w] = [Idle EXCEPT !.pc = "markUsed", !.token = t]]
  /\ loop' = w
  /\ UNCHANGED <<users, jwt, blocklist, resets, grants, ended, spent>>

\* ... marks it used, and commits ...
MarkUsed(w) ==
  /\ requests[w].pc = "markUsed"
  /\ resets' = [resets EXCEPT ![requests[w].token].used = TRUE]
  /\ requests' = [requests EXCEPT ![w].pc = "setPassword"]
  /\ UNCHANGED <<users, jwt, blocklist, grants, loop, ended, spent>>

\* ... and update_user sets the password.
SetPassword(w) ==
  LET t == requests[w].token  u == resets[t].user IN
  /\ requests[w].pc = "setPassword"
  /\ users' = [users EXCEPT ![u].hash = IF @ < MaxHash THEN @ + 1 ELSE @]
  /\ ended' = Mark(u, {"password"})
  /\ spent' = [spent EXCEPT ![t] = IF @ < 2 THEN @ + 1 ELSE @]
  /\ Answer(w)
  /\ loop' = Nobody
  /\ UNCHANGED <<jwt, blocklist, resets, grants>>

-----------------------------------------------------------------------------

\* Bug: the whole blocklist is emptied.
Bug_ForgetsLogouts == {}

\* cleanup_expired_tokens
StillBlocked == {s \in blocklist : ~jwt[s].expired}

\* The process stops at any point and starts again.
Restart ==
  /\ requests' = [w \in Slot |-> Idle]
  /\ loop' = Nobody
  /\ blocklist' = StillBlocked
  /\ UNCHANGED <<users, jwt, resets, grants, ended, spent>>

Serve(w) ==
  \/ Logout(w) \/ OtherRequest(w) \/ MarkUsed(w) \/ SetPassword(w)
  \/ \E u \in User :
       \/ \E admin \in BOOLEAN : AddUser(w, u, admin)
       \/ \E admin, active \in Flag, password \in BOOLEAN :
            PatchUser(w, u, admin, active, password)
       \/ \E t \in ResetToken : CreateResetLink(w, u, t)
       \/ \E body \in RoleBody : SetPermission(w, u, body)
       \/ DeletePermission(w, u)

Next ==
  \/ \E s \in Session, u \in User : Login(s, u)
  \/ \E w \in Slot, s \in Session : Admit(w, s)
  \/ \E w \in Slot : Serve(w) \/ \E t \in ResetToken : FindReset(w, t)
  \/ \E s \in Session : ExpireSession(s)
  \/ \E t \in ResetToken : ExpireReset(t)
  \/ Restart

Spec == Init /\ [][Next]_vars

-----------------------------------------------------------------------------
(* Properties *)

\* Every table holds what its columns allow.
TypeOK ==
  /\ users \in [User -> UserRow]
  /\ jwt \in [Session -> Token]
  /\ blocklist \subseteq Session
  /\ resets \in [ResetToken -> ResetRow]
  /\ grants \in [User -> Grant]
  /\ requests \in [Slot -> Request]
  /\ loop \in Slot \cup {Nobody}
  /\ ended \in [Session -> SUBSET Ending]
  /\ spent \in [ResetToken -> 0..2]

\* A session that logged out, or that is older than the user's last password, is
\* never let in again, whatever restarts and clean-ups of the blocklist follow.
EndedSessionsStayOut ==
  \A s \in Session : ended[s] \cap {"logout", "password"} # {} => ~Valid(s)

\* A reset link changes a password once at most, however often it is used and
\* wherever the application stops ("single-use", Changelog.md).
ResetAtMostOnce == \A t \in ResetToken : spent[t] <= 1

\* What the record API builds on: a publisher is a writer, a writer a reader.
RolesNest ==
  \A u \in User : (grants[u].publish => grants[u].write) /\ (grants[u].write => grants[u].read)

\* Somebody can administer the application ("Prevent the last admin from losing
\* admin rights or being deactivated", app/api/admin_api.py).
AdminRemains == \E u \in User : users[u].stored /\ users[u].admin /\ users[u].active

\* The last admin is lost only to a request of somebody who was an admin when
\* the middleware let it in and no longer is when its handler runs: of two
\* requests, therefore, that overlap. Whoever is still an admin then cannot be
\* the one who is demoted or deactivated (patch_user).
OnlyStaleRequestsTakeTheLastAdmin ==
  [][AdminRemains /\ ~AdminRemains' =>
       \E w \in Slot : LET u == requests[w].user IN
         AsAdmin(w) /\ ~(users[u].admin /\ users[u].active) /\ requests'[w] = Idle]_vars

-----------------------------------------------------------------------------
(* What the documentation says and the code does not do; a run refutes it. *)

\* "deactivating a user, removing their admin flag, or changing their password
\* ... all invalidate the sessions they already have open. They simply have to
\* log in again" (docs/reference.md). A demoted user's session goes on without
\* the admin rights, and a reactivated user's old session works again.
ChangesEndSessions == \A s \in Session : ended[s] # {} => ~Valid(s)
=============================================================================
