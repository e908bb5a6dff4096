--------------------------- MODULE AccountsProofs ---------------------------
(***************************************************************************)
(* Theorems about Accounts: for any number of users, sessions, reset links *)
(* and requests at a time.                                                 *)
(***************************************************************************)
EXTENDS Accounts, TLAPS

-----------------------------------------------------------------------------
(* The inductive invariant. A session is shut out for one of three reasons   *)
(* that last: its token has expired, or is blocked until then, or carries an  *)
(* older hash than the user's. A reset link is safe because the request that  *)
(* uses it holds the event loop.                                              *)

SessionsKnown ==
  \A s \in Session :
    /\ jwt[s].user = Nobody => ended[s] = {}
    /\ jwt[s].user # Nobody =>
         users[jwt[s].user].stored /\ jwt[s].hash <= users[jwt[s].user].hash
    /\ "logout" \in ended[s] => s \in blocklist \/ jwt[s].expired
    /\ "password" \in ended[s] => jwt[s].hash < users[jwt[s].user].hash

RequestsWhole ==
  \A w \in Slot :
    /\ requests[w].pc = "handler" =>
         requests[w].session \in Session /\ jwt[requests[w].session].user # Nobody
    /\ requests[w].pc \in {"markUsed", "setPassword"} =>
         /\ loop = w
         /\ requests[w].token \in ResetToken
         /\ resets[requests[w].token].user \in User
         /\ users[resets[requests[w].token].user].hash < MaxHash
         /\ spent[requests[w].token] = 0
    /\ requests[w].pc = "setPassword" => resets[requests[w].token].used

ResetsCounted ==
  \A t \in ResetToken : spent[t] <= 1 /\ (~resets[t].used => spent[t] = 0)

SInv == TypeOK /\ SessionsKnown /\ RequestsWhole /\ ResetsCounted /\ RolesNest

-----------------------------------------------------------------------------
(* One lemma for each conjunct: what a step does to it *)

USE RootAssumption, NobodyAssumption, FlagAssumption, RoleAssumption, HashAssumption

\* Types.
LEMMA TypeStep ==
  ASSUME SInv, Next
  PROVE  TypeOK'
<1>1. CASE \E s \in Session, u \in User : Login(s, u)
  <2>1. PICK s \in Session, u \in User : Login(s, u)
    BY <1>1
  <2> QED
    BY <2>1 DEF Login, SInv, RequestsWhole, TypeOK, UserRow, Token, ResetRow, Request, Grant, Ending
<1>2. CASE \E w \in Slot, s \in Session : Admit(w, s)
  <2>1. PICK w \in Slot, s \in Session : Admit(w, s)
    BY <1>2
  <2> QED
    <3>1. [Idle EXCEPT !.pc = "handler", !.user = jwt[s].user, !.session = s,
                       !.admin = users[jwt[s].user].admin] \in Request
      <4>1. jwt[s].user \in User
        BY <2>1 DEF SInv, TypeOK, Token, Admit, Valid
      <4>2. users[jwt[s].user].admin \in BOOLEAN
        BY <4>1 DEF SInv, TypeOK, UserRow
      <4> QED
        BY <4>1, <4>2 DEF Idle, Request
    <3> QED
      BY <2>1, <3>1 DEF Admit, SInv, TypeOK
<1>3. CASE \E w \in Slot : Logout(w)
  <2>1. PICK w \in Slot : Logout(w)
    BY <1>3
  <2> QED
    BY <2>1 DEF Logout, Serving, Answer, Idle, SInv, RequestsWhole, TypeOK, UserRow, Token,
         ResetRow, Request, Grant, Ending
<1>4. CASE \E w \in Slot : OtherRequest(w)
  <2>1. PICK w \in Slot : OtherRequest(w)
    BY <1>4
  <2> QED
    BY <2>1 DEF OtherRequest, Serving, Answer, Idle, SInv, RequestsWhole, TypeOK, UserRow,
         Token, ResetRow, Request, Grant, Ending
<1>5. CASE \E w \in Slot, t \in ResetToken : FindReset(w, t)
  <2>1. PICK w \in Slot, t \in ResetToken : FindReset(w, t)
    BY <1>5
  <2> QED
    BY <2>1 DEF FindReset, LoopFree, Idle, SInv, RequestsWhole, TypeOK, UserRow, Token,
         ResetRow, Request, Grant, Ending
<1>6. CASE \E w \in Slot : MarkUsed(w)
  <2>1. PICK w \in Slot : MarkUsed(w)
    BY <1>6
  <2> QED
    <3>1. requests[w].token \in ResetToken
      BY <2>1 DEF MarkUsed, SInv, RequestsWhole
    <3>2. [resets[requests[w].token] EXCEPT !.used = TRUE] \in ResetRow
      <4>1. resets[requests[w].token] \in ResetRow
        BY <3>1 DEF SInv, TypeOK
      <4> QED
        BY <4>1, TRUE \in BOOLEAN DEF ResetRow
    <3>3. [requests[w] EXCEPT !.pc = "setPassword"] \in Request
      BY DEF SInv, TypeOK, Request
    <3> QED
      BY <2>1, <3>1, <3>2, <3>3 DEF MarkUsed, SInv, TypeOK
<1>7. CASE \E w \in Slot : SetPassword(w)
  <2>1. PICK w \in Slot : SetPassword(w)
    BY <1>7
  <2> QED
    <3> DEFINE t == requests[w].token
               u == resets[t].user
    <3>1. t \in ResetToken /\ u \in User /\ users[u].hash < MaxHash
      BY <2>1 DEF SetPassword, SInv, RequestsWhole
    <3>2. [users[u] EXCEPT !.hash = users[u].hash + 1] \in UserRow
      BY <3>1 DEF SInv, TypeOK, UserRow
    <3>3. users' \in [User -> UserRow]
      BY <2>1, <3>1, <3>2 DEF SetPassword, SInv, TypeOK
    <3>4. ended' \in [Session -> SUBSET Ending]
      BY <2>1 DEF SetPassword, Mark, SInv, TypeOK, Ending
    <3>5. spent' \in [ResetToken -> 0..2]
      BY <2>1, <3>1 DEF SetPassword, SInv, TypeOK
    <3>6. Idle \in Request
      BY DEF Idle, Request
    <3> QED
      BY <2>1, <3>3, <3>4, <3>5, <3>6 DEF SetPassword, Answer, SInv, TypeOK
<1>8. CASE \E w \in Slot, u \in User, admin \in BOOLEAN : AddUser(w, u, admin)
  <2>1. PICK w \in Slot, u \in User, admin \in BOOLEAN : AddUser(w, u, admin)
    BY <1>8
  <2> QED
    BY <2>1 DEF AddUser, AsAdmin, Serving, Answer, Idle, SInv, RequestsWhole, TypeOK, UserRow,
         Token, ResetRow, Request, Grant, Ending
<1>9. CASE \E w \in Slot, u \in User, admin, active \in Flag, password \in BOOLEAN :
            PatchUser(w, u, admin, active, password)
  <2>1. PICK w \in Slot, u \in User, admin \in Flag, active \in Flag, password \in BOOLEAN :
          PatchUser(w, u, admin, active, password)
    BY <1>9
  <2> QED
    <3> DEFINE hash == IF password THEN users[u].hash + 1 ELSE users[u].hash
               row == [users[u] EXCEPT !.admin = Put(users[u].admin, admin),
                                       !.active = Put(users[u].active, active), !.hash = hash]
    <3>1. users[u] \in UserRow
      BY DEF SInv, TypeOK
    <3>2. Put(users[u].admin, admin) \in BOOLEAN /\ Put(users[u].active, active) \in BOOLEAN
      BY <3>1 DEF Put, UserRow
    <3>3. hash \in 0..MaxHash
      BY <2>1, <3>1 DEF PatchUser, UserRow
    <3>4. row \in UserRow
      BY <3>1, <3>2, <3>3 DEF UserRow
    <3>5. users' = [users EXCEPT ![u] = row]
      BY <2>1 DEF PatchUser, SInv, TypeOK
    <3> HIDE DEF row
    <3>6. users' \in [User -> UserRow]
      BY <3>4, <3>5 DEF SInv, TypeOK
    <3>7. ended' \in [Session -> SUBSET Ending]
      BY <2>1 DEF PatchUser, Mark, SInv, TypeOK, Ending
    <3>8. Idle \in Request
      BY DEF Idle, Request
    <3> QED
      BY <2>1, <3>6, <3>7, <3>8 DEF PatchUser, Answer, SInv, TypeOK
<1>10. CASE \E w \in Slot, u \in User, t \in ResetToken : CreateResetLink(w, u, t)
  <2>1. PICK w \in Slot, u \in User, t \in ResetToken : CreateResetLink(w, u, t)
    BY <1>10
  <2> QED
    <3>1. [resets[t] EXCEPT !.user = u] \in ResetRow
      BY DEF SInv, TypeOK, ResetRow
    <3>2. Idle \in Request
      BY DEF Idle, Request
    <3> QED
      BY <2>1, <3>1, <3>2 DEF CreateResetLink, Answer, SInv, TypeOK
<1>11. CASE \E w \in Slot, u \in User, body \in RoleBody : SetPermission(w, u, body)
  <2>1. PICK w \in Slot, u \in User, body \in RoleBody : SetPermission(w, u, body)
    BY <1>11
  <2> QED
    BY <2>1 DEF SetPermission, Normalised, AsAdmin, Serving, Answer, Idle, SInv, RequestsWhole,
         TypeOK, UserRow, Token, ResetRow, Request, Grant, Ending
<1>12. CASE \E w \in Slot, u \in User : DeletePermission(w, u)
  <2>1. PICK w \in Slot, u \in User : DeletePermission(w, u)
    BY <1>12
  <2> QED
    BY <2>1 DEF DeletePermission, NoGrant, AsAdmin, Serving, Answer, Idle, SInv, RequestsWhole,
         TypeOK, UserRow, Token, ResetRow, Request, Grant, Ending
<1>13. CASE \E s \in Session : ExpireSession(s)
  <2>1. PICK s \in Session : ExpireSession(s)
    BY <1>13
  <2> QED
    <3>1. [jwt[s] EXCEPT !.expired = TRUE] \in Token
      <4>1. jwt[s] \in Token
        BY DEF SInv, TypeOK
      <4> QED
        BY <4>1, TRUE \in BOOLEAN DEF Token
    <3> QED
      BY <2>1, <3>1 DEF ExpireSession, SInv, TypeOK
<1>14. CASE \E t \in ResetToken : ExpireReset(t)
  <2>1. PICK t \in ResetToken : ExpireReset(t)
    BY <1>14
  <2> QED
    <3>1. [resets[t] EXCEPT !.expired = TRUE] \in ResetRow
      <4>1. resets[t] \in ResetRow
        BY DEF SInv, TypeOK
      <4> QED
        BY <4>1, TRUE \in BOOLEAN DEF ResetRow
    <3> QED
      BY <2>1, <3>1 DEF ExpireReset, SInv, TypeOK
<1>15. CASE Restart
  BY <1>15 DEF Restart, StillBlocked, Idle, SInv, RequestsWhole, TypeOK, UserRow, Token,
       ResetRow, Request, Grant, Ending
<1> QED
  BY <1>1, <1>2, <1>3, <1>4, <1>5, <1>6, <1>7, <1>8, <1>9, <1>10, <1>11, <1>12, <1>13, <1>14,
       <1>15 DEF Next, Serve

\* What shuts a session out goes on doing so.
LEMMA SessionStep ==
  ASSUME SInv, Next
  PROVE  SessionsKnown'
<1>1. CASE \E s \in Session, u \in User : Login(s, u)
  <2>1. PICK s \in Session, u \in User : Login(s, u)
    BY <1>1
  <2> QED
    BY <2>1 DEF Login, SInv, TypeOK, SessionsKnown, RequestsWhole, UserRow, Token, Request, Ending
<1>2. CASE \E w \in Slot, s \in Session : Admit(w, s)
  <2>1. PICK w \in Slot, s \in Session : Admit(w, s)
    BY <1>2
  <2> QED
    BY <2>1 DEF Admit, Idle, SInv, TypeOK, SessionsKnown, RequestsWhole, UserRow, Token,
         Request, Ending
<1>3. CASE \E w \in Slot : Logout(w)
  <2>1. PICK w \in Slot : Logout(w)
    BY <1>3
  <2> QED
    BY <2>1 DEF Logout, Serving, Answer, Idle, SInv, TypeOK, SessionsKnown, RequestsWhole,
         UserRow, Token, Request, Ending
<1>4. CASE \E w \in Slot : OtherRequest(w)
  <2>1. PICK w \in Slot : OtherRequest(w)
    BY <1>4
  <2> QED
    BY <2>1 DEF OtherRequest, Serving, Answer, Idle, SInv, TypeOK, SessionsKnown, RequestsWhole,
         UserRow, Token, Request, Ending
<1>5. CASE \E w \in Slot, t \in ResetToken : FindReset(w, t)
  <2>1. PICK w \in Slot, t \in ResetToken : FindReset(w, t)
    BY <1>5
  <2> QED
    BY <2>1 DEF FindReset, LoopFree, Idle, SInv, TypeOK, SessionsKnown, RequestsWhole, UserRow,
         Token, Request, Ending
<1>6. CASE \E w \in Slot : MarkUsed(w)
  <2>1. PICK w \in Slot : MarkUsed(w)
    BY <1>6
  <2> QED
    BY <2>1 DEF MarkUsed, SInv, TypeOK, SessionsKnown, RequestsWhole, UserRow, Token, Request,
         Ending
<1>7. CASE \E w \in Slot : SetPassword(w)
  <2>1. PICK w \in Slot : SetPassword(w)
    BY <1>7
  <2> QED
    BY <2>1 DEF SetPassword, Mark, Answer, Idle, SInv, TypeOK, SessionsKnown, RequestsWhole,
         UserRow, Token, Request, Ending
<1>8. CASE \E w \in Slot, u \in User, admin \in BOOLEAN : AddUser(w, u, admin)
  <2>1. PICK w \in Slot, u \in User, admin \in BOOLEAN : AddUser(w, u, admin)
    BY <1>8
  <2> QED
    BY <2>1 DEF AddUser, AsAdmin, Serving, Answer, Idle, SInv, TypeOK, SessionsKnown,
         RequestsWhole, UserRow, Token, Request, Ending
<1>9. CASE \E w \in Slot, u \in User, admin, active \in Flag, password \in BOOLEAN :
            PatchUser(w, u, admin, active, password)
  <2>1. PICK w \in Slot, u \in User, admin \in Flag, active \in Flag, password \in BOOLEAN :
          PatchUser(w, u, admin, active, password)
    BY <1>9
  <2> QED
    BY <2>1 DEF PatchUser, Put, Mark, AsAdmin, Serving, Answer, Idle, SInv, TypeOK,
         SessionsKnown, RequestsWhole, UserRow, Token, Request, Ending
<1>10. CASE \E w \in Slot, u \in User, t \in ResetToken : CreateResetLink(w, u, t)
  <2>1. PICK w \in Slot, u \in User, t \in ResetToken : CreateResetLink(w, u, t)
    BY <1>10
  <2> QED
    BY <2>1 DEF CreateResetLink, AsAdmin, Serving, Answer, Idle, SInv, TypeOK, SessionsKnown,
         RequestsWhole, UserRow, Token, Request, Ending
<1>11. CASE \E w \in Slot, u \in User, body \in RoleBody : SetPermission(w, u, body)
  <2>1. PICK w \in Slot, u \in User, body \in RoleBody : SetPermission(w, u, body)
    BY <1>11
  <2> QED
    BY <2>1 DEF SetPermission, Normalised, AsAdmin, Serving, Answer, Idle, SInv, TypeOK,
         SessionsKnown, RequestsWhole, UserRow, Token, Request, Ending
<1>12. CASE \E w \in Slot, u \in User : DeletePermission(w, u)
  <2>1. PICK w \in Slot, u \in User : DeletePermission(w, u)
    BY <1>12
  <2> QED
    BY <2>1 DEF DeletePermission, NoGrant, AsAdmin, Serving, Answer, Idle, SInv, TypeOK,
         SessionsKnown, RequestsWhole, UserRow, Token, Request, Ending
<1>13. CASE \E s \in Session : ExpireSession(s)
  <2>1. PICK s \in Session : ExpireSession(s)
    BY <1>13
  <2> QED
    BY <2>1 DEF ExpireSession, SInv, TypeOK, SessionsKnown, RequestsWhole, UserRow, Token,
         Request, Ending
<1>14. CASE \E t \in ResetToken : ExpireReset(t)
  <2>1. PICK t \in ResetToken : ExpireReset(t)
    BY <1>14
  <2> QED
    BY <2>1 DEF ExpireReset, SInv, TypeOK, SessionsKnown, RequestsWhole, UserRow, Token,
         Request, Ending
<1>15. CASE Restart
  BY <1>15 DEF Restart, StillBlocked, Idle, SInv, TypeOK, SessionsKnown, RequestsWhole, UserRow,
       Token, Request, Ending
<1> QED
  BY <1>1, <1>2, <1>3, <1>4, <1>5, <1>6, <1>7, <1>8, <1>9, <1>10, <1>11, <1>12, <1>13, <1>14,
       <1>15 DEF Next, Serve

\* A password reset keeps the event loop, and its token, to itself.
LEMMA RequestStep ==
  ASSUME SInv, Next
  PROVE  RequestsWhole'
<1>1. CASE \E s \in Session, u \in User : Login(s, u)
  <2>1. PICK s \in Session, u \in User : Login(s, u)
    BY <1>1
  <2> QED
    BY <2>1 DEF Login, SInv, TypeOK, RequestsWhole, ResetsCounted, UserRow, Token, ResetRow, Request
<1>2. CASE \E w \in Slot, s \in Session : Admit(w, s)
  <2>1. PICK w \in Slot, s \in Session : Admit(w, s)
    BY <1>2
  <2> QED
    <3>1. /\ requests'[w].pc = "handler" /\ requests'[w].session = s
          /\ \A v \in Slot \ {w} : requests'[v] = requests[v]
      BY <2>1 DEF Admit, Idle, SInv, TypeOK
    <3>2. jwt[s].user # Nobody
      BY <2>1 DEF Admit, Valid
    <3>3. /\ jwt' = jwt /\ loop' = loop /\ resets' = resets /\ users' = users /\ spent' = spent
      BY <2>1 DEF Admit
    <3> QED
      BY <3>1, <3>2, <3>3 DEF SInv, RequestsWhole
<1>3. CASE \E w \in Slot : Logout(w)
  <2>1. PICK w \in Slot : Logout(w)
    BY <1>3
  <2> QED
    BY <2>1 DEF Logout, Serving, Answer, Idle, SInv, TypeOK, RequestsWhole, ResetsCounted,
         UserRow, Token, ResetRow, Request
<1>4. CASE \E w \in Slot : OtherRequest(w)
  <2>1. PICK w \in Slot : OtherRequest(w)
    BY <1>4
  <2> QED
    BY <2>1 DEF OtherRequest, Serving, Answer, Idle, SInv, TypeOK, RequestsWhole, ResetsCounted,
         UserRow, Token, ResetRow, Request
<1>5. CASE \E w \in Slot, t \in ResetToken : FindReset(w, t)
  <2>1. PICK w \in Slot, t \in ResetToken : FindReset(w, t)
    BY <1>5
  <2> QED
    BY <2>1 DEF FindReset, LoopFree, Idle, SInv, TypeOK, RequestsWhole, ResetsCounted, UserRow,
         Token, ResetRow, Request
<1>6. CASE \E w \in Slot : MarkUsed(w)
  <2>1. PICK w \in Slot : MarkUsed(w)
    BY <1>6
  <2> QED
    BY <2>1 DEF MarkUsed, SInv, TypeOK, RequestsWhole, ResetsCounted, UserRow, Token, ResetRow,
         Request
<1>7. CASE \E w \in Slot : SetPassword(w)
  <2>1. PICK w \in Slot : SetPassword(w)
    BY <1>7
  <2> QED
    BY <2>1 DEF SetPassword, Mark, Answer, Idle, SInv, TypeOK, RequestsWhole, ResetsCounted,
         UserRow, Token, ResetRow, Request
<1>8. CASE \E w \in Slot, u \in User, admin \in BOOLEAN : AddUser(w, u, admin)
  <2>1. PICK w \in Slot, u \in User, admin \in BOOLEAN : AddUser(w, u, admin)
    BY <1>8
  <2> QED
    BY <2>1 DEF AddUser, AsAdmin, Serving, Answer, Idle, SInv, TypeOK, RequestsWhole,
         ResetsCounted, UserRow, Token, ResetRow, Request
<1>9. CASE \E w \in Slot, u \in User, admin, active \in Flag, password \in BOOLEAN :
            PatchUser(w, u, admin, active, password)
  <2>1. PICK w \in Slot, u \in User, admin \in Flag, active \in Flag, password \in BOOLEAN :
          PatchUser(w, u, admin, active, password)
    BY <1>9
  <2> QED
    BY <2>1 DEF PatchUser, Put, Mark, AsAdmin, Serving, Answer, Idle, SInv, TypeOK,
         RequestsWhole, ResetsCounted, UserRow, Token, ResetRow, Request
<1>10. CASE \E w \in Slot, u \in User, t \in ResetToken : CreateResetLink(w, u, t)
  <2>1. PICK w \in Slot, u \in User, t \in ResetToken : CreateResetLink(w, u, t)
    BY <1>10
  <2> QED
    BY <2>1 DEF CreateResetLink, AsAdmin, Serving, Answer, Idle, SInv, TypeOK, RequestsWhole,
         ResetsCounted, UserRow, Token, ResetRow, Request
<1>11. CASE \E w \in Slot, u \in User, body \in RoleBody : SetPermission(w, u, body)
  <2>1. PICK w \in Slot, u \in User, body \in RoleBody : SetPermission(w, u, body)
    BY <1>11
  <2> QED
    BY <2>1 DEF SetPermission, Normalised, AsAdmin, Serving, Answer, Idle, SInv, TypeOK,
         RequestsWhole, ResetsCounted, UserRow, Token, ResetRow, Request
<1>12. CASE \E w \in Slot, u \in User : DeletePermission(w, u)
  <2>1. PICK w \in Slot, u \in User : DeletePermission(w, u)
    BY <1>12
  <2> QED
    BY <2>1 DEF DeletePermission, NoGrant, AsAdmin, Serving, Answer, Idle, SInv, TypeOK,
         RequestsWhole, ResetsCounted, UserRow, Token, ResetRow, Request
<1>13. CASE \E s \in Session : ExpireSession(s)
  <2>1. PICK s \in Session : ExpireSession(s)
    BY <1>13
  <2> QED
    BY <2>1 DEF ExpireSession, SInv, TypeOK, RequestsWhole, ResetsCounted, UserRow, Token,
         ResetRow, Request
<1>14. CASE \E t \in ResetToken : ExpireReset(t)
  <2>1. PICK t \in ResetToken : ExpireReset(t)
    BY <1>14
  <2> QED
    BY <2>1 DEF ExpireReset, SInv, TypeOK, RequestsWhole, ResetsCounted, UserRow, Token,
         ResetRow, Request
<1>15. CASE Restart
  BY <1>15 DEF Restart, StillBlocked, Idle, SInv, TypeOK, RequestsWhole, ResetsCounted, UserRow,
       Token, ResetRow, Request
<1> QED
  BY <1>1, <1>2, <1>3, <1>4, <1>5, <1>6, <1>7, <1>8, <1>9, <1>10, <1>11, <1>12, <1>13, <1>14,
       <1>15 DEF Next, Serve

\* A token that is not marked used has set no password.
LEMMA ResetStep ==
  ASSUME SInv, Next
  PROVE  ResetsCounted'
<1>1. CASE \E s \in Session, u \in User : Login(s, u)
  <2>1. PICK s \in Session, u \in User : Login(s, u)
    BY <1>1
  <2> QED
    BY <2>1 DEF Login, SInv, TypeOK, RequestsWhole, ResetsCounted, ResetRow, Request
<1>2. CASE \E w \in Slot, s \in Session : Admit(w, s)
  <2>1. PICK w \in Slot, s \in Session : Admit(w, s)
    BY <1>2
  <2> QED
    BY <2>1 DEF Admit, Idle, SInv, TypeOK, RequestsWhole, ResetsCounted, ResetRow, Request
<1>3. CASE \E w \in Slot : Logout(w)
  <2>1. PICK w \in Slot : Logout(w)
    BY <1>3
  <2> QED
    BY <2>1 DEF Logout, Serving, Answer, Idle, SInv, TypeOK, RequestsWhole, ResetsCounted,
         ResetRow, Request
<1>4. CASE \E w \in Slot : OtherRequest(w)
  <2>1. PICK w \in Slot : OtherRequest(w)
    BY <1>4
  <2> QED
    BY <2>1 DEF OtherRequest, Serving, Answer, Idle, SInv, TypeOK, RequestsWhole, ResetsCounted,
         ResetRow, Request
<1>5. CASE \E w \in Slot, t \in ResetToken : FindReset(w, t)
  <2>1. PICK w \in Slot, t \in ResetToken : FindReset(w, t)
    BY <1>5
  <2> QED
    BY <2>1 DEF FindReset, LoopFree, Idle, SInv, TypeOK, RequestsWhole, ResetsCounted, ResetRow,
         Request
<1>6. CASE \E w \in Slot : MarkUsed(w)
  <2>1. PICK w \in Slot : MarkUsed(w)
    BY <1>6
  <2> QED
    BY <2>1 DEF MarkUsed, SInv, TypeOK, RequestsWhole, ResetsCounted, ResetRow, Request
<1>7. CASE \E w \in Slot : SetPassword(w)
  <2>1. PICK w \in Slot : SetPassword(w)
    BY <1>7
  <2> QED
    BY <2>1 DEF SetPassword, Mark, Answer, Idle, SInv, TypeOK, RequestsWhole, ResetsCounted,
         ResetRow, Request
<1>8. CASE \E w \in Slot, u \in User, admin \in BOOLEAN : AddUser(w, u, admin)
  <2>1. PICK w \in Slot, u \in User, admin \in BOOLEAN : AddUser(w, u, admin)
    BY <1>8
  <2> QED
    BY <2>1 DEF AddUser, AsAdmin, Serving, Answer, Idle, SInv, TypeOK, RequestsWhole,
         ResetsCounted, ResetRow, Request
<1>9. CASE \E w \in Slot, u \in User, admin, active \in Flag, password \in BOOLEAN :
            PatchUser(w, u, admin, active, password)
  <2>1. PICK w \in Slot, u \in User, admin \in Flag, active \in Flag, password \in BOOLEAN :
          PatchUser(w, u, admin, active, password)
    BY <1>9
  <2> QED
    BY <2>1 DEF PatchUser, Put, Mark, AsAdmin, Serving, Answer, Idle, SInv, TypeOK,
         RequestsWhole, ResetsCounted, ResetRow, Request
<1>10. CASE \E w \in Slot, u \in User, t \in ResetToken : CreateResetLink(w, u, t)
  <2>1. PICK w \in Slot, u \in User, t \in ResetToken : CreateResetLink(w, u, t)
    BY <1>10
  <2> QED
    BY <2>1 DEF CreateResetLink, AsAdmin, Serving, Answer, Idle, SInv, TypeOK, RequestsWhole,
         ResetsCounted, ResetRow, Request
<1>11. CASE \E w \in Slot, u \in User, body \in RoleBody : SetPermission(w, u, body)
  <2>1. PICK w \in Slot, u \in User, body \in RoleBody : SetPermission(w, u, body)
    BY <1>11
  <2> QED
    BY <2>1 DEF SetPermission, Normalised, AsAdmin, Serving, Answer, Idle, SInv, TypeOK,
         RequestsWhole, ResetsCounted, ResetRow, Request
<1>12. CASE \E w \in Slot, u \in User : DeletePermission(w, u)
  <2>1. PICK w \in Slot, u \in User : DeletePermission(w, u)
    BY <1>12
  <2> QED
    BY <2>1 DEF DeletePermission, NoGrant, AsAdmin, Serving, Answer, Idle, SInv, TypeOK,
         RequestsWhole, ResetsCounted, ResetRow, Request
<1>13. CASE \E s \in Session : ExpireSession(s)
  <2>1. PICK s \in Session : ExpireSession(s)
    BY <1>13
  <2> QED
    BY <2>1 DEF ExpireSession, SInv, TypeOK, RequestsWhole, ResetsCounted, ResetRow, Request
<1>14. CASE \E t \in ResetToken : ExpireReset(t)
  <2>1. PICK t \in ResetToken : ExpireReset(t)
    BY <1>14
  <2> QED
    BY <2>1 DEF ExpireReset, SInv, TypeOK, RequestsWhole, ResetsCounted, ResetRow, Request
<1>15. CASE Restart
  BY <1>15 DEF Restart, StillBlocked, Idle, SInv, TypeOK, RequestsWhole, ResetsCounted,
       ResetRow, Request
<1> QED
  BY <1>1, <1>2, <1>3, <1>4, <1>5, <1>6, <1>7, <1>8, <1>9, <1>10, <1>11, <1>12, <1>13, <1>14,
       <1>15 DEF Next, Serve

\* set_permission is the only way to a role.
LEMMA RoleStep ==
  ASSUME SInv, Next
  PROVE  RolesNest'
<1>1. CASE \E s \in Session, u \in User : Login(s, u)
  <2>1. PICK s \in Session, u \in User : Login(s, u)
    BY <1>1
  <2> QED
    BY <2>1 DEF Login, SInv, TypeOK, RolesNest, Grant
<1>2. CASE \E w \in Slot, s \in Session : Admit(w, s)
  <2>1. PICK w \in Slot, s \in Session : Admit(w, s)
    BY <1>2
  <2> QED
    BY <2>1 DEF Admit, Idle, SInv, TypeOK, RolesNest, Grant
<1>3. CASE \E w \in Slot : Logout(w)
  <2>1. PICK w \in Slot : Logout(w)
    BY <1>3
  <2> QED
    BY <2>1 DEF Logout, Serving, Answer, Idle, SInv, TypeOK, RolesNest, Grant
<1>4. CASE \E w \in Slot : OtherRequest(w)
  <2>1. PICK w \in Slot : OtherRequest(w)
    BY <1>4
  <2> QED
    BY <2>1 DEF OtherRequest, Serving, Answer, Idle, SInv, TypeOK, RolesNest, Grant
<1>5. CASE \E w \in Slot, t \in ResetToken : FindReset(w, t)
  <2>1. PICK w \in Slot, t \in ResetToken : FindReset(w, t)
    BY <1>5
  <2> QED
    BY <2>1 DEF FindReset, LoopFree, Idle, SInv, TypeOK, RolesNest, Grant
<1>6. CASE \E w \in Slot : MarkUsed(w)
  <2>1. PICK w \in Slot : MarkUsed(w)
    BY <1>6
  <2> QED
    BY <2>1 DEF MarkUsed, SInv, TypeOK, RolesNest, Grant
<1>7. CASE \E w \in Slot : SetPassword(w)
  <2>1. PICK w \in Slot : SetPassword(w)
    BY <1>7
  <2> QED
    BY <2>1 DEF SetPassword, Mark, Answer, Idle, SInv, TypeOK, RolesNest, Grant
<1>8. CASE \E w \in Slot, u \in User, admin \in BOOLEAN : AddUser(w, u, admin)
  <2>1. PICK w \in Slot, u \in User, admin \in BOOLEAN : AddUser(w, u, admin)
    BY <1>8
  <2> QED
    BY <2>1 DEF AddUser, AsAdmin, Serving, Answer, Idle, SInv, TypeOK, RolesNest, Grant
<1>9. CASE \E w \in Slot, u \in User, admin, active \in Flag, password \in BOOLEAN :
            PatchUser(w, u, admin, active, password)
  <2>1. PICK w \in Slot, u \in User, admin \in Flag, active \in Flag, password \in BOOLEAN :
          PatchUser(w, u, admin, active, password)
    BY <1>9
  <2> QED
    BY <2>1 DEF PatchUser, Put, Mark, AsAdmin, Serving, Answer, Idle, SInv, TypeOK, RolesNest, Grant
<1>10. CASE \E w \in Slot, u \in User, t \in ResetToken : CreateResetLink(w, u, t)
  <2>1. PICK w \in Slot, u \in User, t \in ResetToken : CreateResetLink(w, u, t)
    BY <1>10
  <2> QED
    BY <2>1 DEF CreateResetLink, AsAdmin, Serving, Answer, Idle, SInv, TypeOK, RolesNest, Grant
<1>11. CASE \E w \in Slot, u \in User, body \in RoleBody : SetPermission(w, u, body)
  <2>1. PICK w \in Slot, u \in User, body \in RoleBody : SetPermission(w, u, body)
    BY <1>11
  <2> QED
    BY <2>1 DEF SetPermission, Normalised, AsAdmin, Serving, Answer, Idle, SInv, TypeOK,
         RolesNest, Grant
<1>12. CASE \E w \in Slot, u \in User : DeletePermission(w, u)
  <2>1. PICK w \in Slot, u \in User : DeletePermission(w, u)
    BY <1>12
  <2> QED
    BY <2>1 DEF DeletePermission, NoGrant, AsAdmin, Serving, Answer, Idle, SInv, TypeOK,
         RolesNest, Grant
<1>13. CASE \E s \in Session : ExpireSession(s)
  <2>1. PICK s \in Session : ExpireSession(s)
    BY <1>13
  <2> QED
    BY <2>1 DEF ExpireSession, SInv, TypeOK, RolesNest, Grant
<1>14. CASE \E t \in ResetToken : ExpireReset(t)
  <2>1. PICK t \in ResetToken : ExpireReset(t)
    BY <1>14
  <2> QED
    BY <2>1 DEF ExpireReset, SInv, TypeOK, RolesNest, Grant
<1>15. CASE Restart
  BY <1>15 DEF Restart, StillBlocked, Idle, SInv, TypeOK, RolesNest, Grant
<1> QED
  BY <1>1, <1>2, <1>3, <1>4, <1>5, <1>6, <1>7, <1>8, <1>9, <1>10, <1>11, <1>12, <1>13, <1>14,
       <1>15 DEF Next, Serve

-----------------------------------------------------------------------------
(* The theorems *)

\* The first start leaves everything in order.
LEMMA InitSInv == Init => SInv
<1> SUFFICES ASSUME Init PROVE SInv
  OBVIOUS
<1>1. users \in [User -> UserRow]
  <2>1. ASSUME NEW u \in User PROVE users[u] \in UserRow
    <3>1. ASSUME NEW b \in BOOLEAN
          PROVE  [stored |-> b, admin |-> b, active |-> b, hash |-> 0] \in UserRow
      BY DEF UserRow
    <3>2. users[u] = [stored |-> u = Root, admin |-> u = Root, active |-> u = Root, hash |-> 0]
      BY DEF Init
    <3>3. (u = Root) \in BOOLEAN
      OBVIOUS
    <3> QED
      BY <3>1, <3>2, <3>3
  <2> QED
    BY <2>1 DEF Init
<1>2. jwt \in [Session -> Token]
  BY DEF Init, Token
<1>3. resets \in [ResetToken -> ResetRow]
  BY DEF Init, ResetRow
<1>4. grants \in [User -> Grant]
  BY DEF Init, Grant, NoGrant
<1>5. requests \in [Slot -> Request]
  BY DEF Init, Request, Idle
<1>6. ended \in [Session -> SUBSET Ending]
  BY DEF Init
<1>7. blocklist \subseteq Session /\ loop = Nobody /\ spent \in [ResetToken -> 0..2]
  BY DEF Init
<1>8. TypeOK
  BY <1>1, <1>2, <1>3, <1>4, <1>5, <1>6, <1>7 DEF TypeOK
<1>9. SessionsKnown
  BY DEF Init, SessionsKnown
<1>10. RequestsWhole
  BY DEF Init, RequestsWhole, Idle
<1>11. ResetsCounted
  BY DEF Init, ResetsCounted
<1>12. RolesNest
  BY DEF Init, RolesNest, NoGrant
<1> QED
  BY <1>8, <1>9, <1>10, <1>11, <1>12 DEF SInv

\* So does a step that changes nothing.
LEMMA StutterSInv == SInv /\ UNCHANGED vars => SInv'
<1> SUFFICES ASSUME SInv, UNCHANGED vars PROVE SInv'
  OBVIOUS
<1>1. TypeOK'
  BY DEF vars, SInv, TypeOK
<1>2. SessionsKnown' /\ RequestsWhole'
  BY DEF vars, SInv, SessionsKnown, RequestsWhole
<1>3. ResetsCounted' /\ RolesNest'
  BY DEF vars, SInv, ResetsCounted, RolesNest
<1> QED
  BY <1>1, <1>2, <1>3 DEF SInv

\* The invariant holds of every behaviour.
LEMMA SInvHolds == Spec => []SInv
<1>1. Init => SInv
  BY InitSInv
<1>2. SInv /\ Next => SInv'
  BY TypeStep, SessionStep, RequestStep, ResetStep, RoleStep DEF SInv
<1>3. SInv /\ [Next]_vars => SInv'
  BY <1>2, StutterSInv
<1> QED
  BY <1>1, <1>3, PTL DEF Spec

\* The tables of _system, the tokens and the requests hold what they should.
THEOREM AccountsTypeCorrect == Spec => []TypeOK
<1>1. SInv => TypeOK
  BY DEF SInv
<1> QED
  BY <1>1, SInvHolds, PTL

\* After a logout or a change of the password the middleware rejects the session
\* for ever: cleanup_expired_tokens removes only what decode_token rejects, and
\* the fingerprint of an old hash never matches again.
THEOREM SessionsStayEnded == Spec => []EndedSessionsStayOut
<1>1. SInv => EndedSessionsStayOut
  <2> SUFFICES ASSUME SInv, NEW s \in Session, ended[s] \cap {"logout", "password"} # {}, Valid(s)
               PROVE  FALSE
    BY DEF EndedSessionsStayOut
  <2>1. jwt[s].user \in User
    BY DEF Valid, SInv, TypeOK, Token
  <2>2. users[jwt[s].user].hash \in Nat
    BY <2>1 DEF SInv, TypeOK, UserRow
  <2>3. CASE "logout" \in ended[s]
    BY <2>3 DEF Valid, SInv, SessionsKnown
  <2>4. CASE "password" \in ended[s]
    BY <2>2, <2>4 DEF Valid, SInv, SessionsKnown
  <2> QED
    BY <2>3, <2>4
<1> QED
  BY <1>1, SInvHolds, PTL

\* consume_reset_token and update_user are not one transaction, and yet no
\* restart and no second use of a link makes it set two passwords.
THEOREM ResetLinksAreSingleUse == Spec => []ResetAtMostOnce
<1>1. SInv => ResetAtMostOnce
  BY DEF SInv, ResetsCounted, ResetAtMostOnce
<1> QED
  BY <1>1, SInvHolds, PTL

\* Every row set_permission leaves has publish imply write and write imply read:
\* the assumption the record modules make of their users.
THEOREM RolesAreNested == Spec => []RolesNest
<1>1. SInv => RolesNest
  BY DEF SInv
<1> QED
  BY <1>1, SInvHolds, PTL

-----------------------------------------------------------------------------
(* One request at a time *)

\* An admin's request is still an active admin's when its handler runs.
AdminServed ==
  \A w \in Slot : requests[w].admin =>
    /\ requests[w].user \in User
    /\ users[requests[w].user].stored
    /\ users[requests[w].user].admin /\ users[requests[w].user].active

\* The self-protection guard of PATCH keeps an admin when requests do not overlap:
\* the one who acts.
THEOREM OneAtATimeAdminRemains ==
  (\A v, w \in Slot : v = w) => (Spec => []AdminRemains)
<1> SUFFICES ASSUME \A v, w \in Slot : v = w PROVE Spec => []AdminRemains
  OBVIOUS
<1>1. Init => AdminRemains /\ AdminServed
  <2> SUFFICES ASSUME Init PROVE AdminRemains /\ AdminServed
    OBVIOUS
  <2>1. users[Root].stored /\ users[Root].admin /\ users[Root].active
    BY DEF Init
  <2>2. \A w \in Slot : requests[w].admin = FALSE
    BY DEF Init, Idle
  <2> QED
    BY <2>1, <2>2 DEF AdminRemains, AdminServed
<1>2. ASSUME SInv, AdminRemains, AdminServed, Next PROVE AdminRemains' /\ AdminServed'
  <2>t. users \in [User -> UserRow] /\ requests \in [Slot -> Request]
    BY <1>2 DEF SInv, TypeOK
  <2>1. CASE \E s \in Session, u \in User : Login(s, u)
    BY <1>2, <2>t, <2>1 DEF Login, AdminRemains, AdminServed, UserRow, Request
  <2>2. CASE \E w \in Slot, s \in Session : Admit(w, s)
    <3>1. PICK w \in Slot, s \in Session : Admit(w, s)
      BY <2>2
    <3>2. jwt[s].user \in User /\ users[jwt[s].user].stored /\ users[jwt[s].user].active
      BY <1>2, <3>1 DEF Admit, Valid, SInv, TypeOK, Token, SessionsKnown
    <3> QED
      BY <1>2, <2>t, <3>1, <3>2 DEF Admit, Idle, AdminRemains, AdminServed, UserRow, Request
  <2>3. CASE \E w \in Slot : Logout(w)
    <3>1. PICK w \in Slot : Logout(w)
      BY <2>3
    <3> QED
      BY <1>2, <2>t, <3>1 DEF Logout, Answer, Idle, AdminRemains, AdminServed, UserRow, Request
  <2>4. CASE \E w \in Slot : OtherRequest(w)
    <3>1. PICK w \in Slot : OtherRequest(w)
      BY <2>4
    <3> QED
      BY <1>2, <2>t, <3>1 DEF OtherRequest, Answer, Idle, AdminRemains, AdminServed, UserRow,
           Request
  <2>5. CASE \E w \in Slot, t \in ResetToken : FindReset(w, t)
    <3>1. PICK w \in Slot, t \in ResetToken : FindReset(w, t)
      BY <2>5
    <3> QED
      BY <1>2, <2>t, <3>1 DEF FindReset, Idle, AdminRemains, AdminServed, UserRow, Request
  <2>6. CASE \E w \in Slot : MarkUsed(w)
    <3>1. PICK w \in Slot : MarkUsed(w)
      BY <2>6
    <3> QED
      BY <1>2, <2>t, <3>1 DEF MarkUsed, AdminRemains, AdminServed, UserRow, Request
  <2>7. CASE \E w \in Slot : SetPassword(w)
    <3>1. PICK w \in Slot : SetPassword(w)
      BY <2>7
    <3> QED
      BY <1>2, <2>t, <3>1 DEF SetPassword, Answer, Idle, AdminRemains, AdminServed, UserRow, Request
  <2>8. CASE \E w \in Slot, u \in User, admin \in BOOLEAN : AddUser(w, u, admin)
    <3>1. PICK w \in Slot, u \in User, admin \in BOOLEAN : AddUser(w, u, admin)
      BY <2>8
    <3> QED
      BY <1>2, <2>t, <3>1 DEF AddUser, AsAdmin, Serving, Answer, Idle, AdminRemains,
           AdminServed, UserRow, Request
  <2>9. CASE \E w \in Slot, u \in User, admin, active \in Flag, password \in BOOLEAN :
              PatchUser(w, u, admin, active, password)
    <3>1. PICK w \in Slot, u \in User, admin \in Flag, active \in Flag, password \in BOOLEAN :
            PatchUser(w, u, admin, active, password)
      BY <2>9
    <3> DEFINE a == requests[w].user
    <3>2. a \in User /\ users[a].stored /\ users[a].admin = TRUE /\ users[a].active = TRUE
      <4>1. users[a] \in UserRow /\ requests[w].admin
        BY <1>2, <2>t, <3>1 DEF PatchUser, AsAdmin, AdminServed
      <4>2. users[a].admin \in BOOLEAN /\ users[a].active \in BOOLEAN
        BY <4>1 DEF UserRow
      <4>3. a \in User /\ users[a].stored /\ users[a].admin /\ users[a].active
        BY <1>2, <4>1 DEF AdminServed
      <4> QED
        BY <4>2, <4>3
    <3>3. users'[a].stored /\ users'[a].admin /\ users'[a].active
      <4>1. CASE u = a
        <5>1. admin # FALSE /\ active # FALSE
          BY <3>1, <4>1 DEF PatchUser, Permitted
        <5>2. Put(users[a].admin, admin) = TRUE /\ Put(users[a].active, active) = TRUE
          BY <3>2, <5>1 DEF Put
        <5>3. /\ users'[a].stored = users[a].stored
              /\ users'[a].admin = Put(users[a].admin, admin)
              /\ users'[a].active = Put(users[a].active, active)
          <6>1. users' = [users EXCEPT ![u].admin = Put(@, admin), ![u].active = Put(@, active),
                                       ![u].hash = IF password THEN @ + 1 ELSE @]
            BY <3>1 DEF PatchUser
          <6>2. u \in User /\ users[u] \in UserRow
            BY <2>t
          <6> HIDE DEF a
          <6> QED
            BY <2>t, <4>1, <6>1, <6>2 DEF UserRow
        <5> QED
          BY <3>2, <5>2, <5>3
      <4>2. CASE u # a
        BY <2>t, <3>1, <3>2, <4>2 DEF PatchUser
      <4> QED
        BY <4>1, <4>2
    <3>4. \A v \in Slot : requests'[v].admin = FALSE
      BY <2>t, <3>1 DEF PatchUser, Answer, Idle
    <3> QED
      BY <3>2, <3>3, <3>4 DEF AdminRemains, AdminServed
  <2>10. CASE \E w \in Slot, u \in User, t \in ResetToken : CreateResetLink(w, u, t)
    <3>1. PICK w \in Slot, u \in User, t \in ResetToken : CreateResetLink(w, u, t)
      BY <2>10
    <3> QED
      BY <1>2, <2>t, <3>1 DEF CreateResetLink, Answer, Idle, AdminRemains, AdminServed, UserRow,
           Request
  <2>11. CASE \E w \in Slot, u \in User, body \in RoleBody : SetPermission(w, u, body)
    <3>1. PICK w \in Slot, u \in User, body \in RoleBody : SetPermission(w, u, body)
      BY <2>11
    <3> QED
      BY <1>2, <2>t, <3>1 DEF SetPermission, Answer, Idle, AdminRemains, AdminServed, UserRow,
           Request
  <2>12. CASE \E w \in Slot, u \in User : DeletePermission(w, u)
    <3>1. PICK w \in Slot, u \in User : DeletePermission(w, u)
      BY <2>12
    <3> QED
      BY <1>2, <2>t, <3>1 DEF DeletePermission, Answer, Idle, AdminRemains, AdminServed,
           UserRow, Request
  <2>13. CASE \E s \in Session : ExpireSession(s)
    BY <1>2, <2>t, <2>13 DEF ExpireSession, AdminRemains, AdminServed, UserRow, Request
  <2>14. CASE \E t \in ResetToken : ExpireReset(t)
    BY <1>2, <2>t, <2>14 DEF ExpireReset, AdminRemains, AdminServed, UserRow, Request
  <2>15. CASE Restart
    BY <1>2, <2>t, <2>15 DEF Restart, Idle, AdminRemains, AdminServed, UserRow, Request
  <2> QED
    BY <1>2, <2>1, <2>2, <2>3, <2>4, <2>5, <2>6, <2>7, <2>8, <2>9, <2>10, <2>11, <2>12, <2>13,
         <2>14, <2>15 DEF Next, Serve
<1>3. SInv /\ AdminRemains /\ AdminServed /\ UNCHANGED vars => AdminRemains' /\ AdminServed'
  BY DEF vars, AdminRemains, AdminServed
<1>4. SInv /\ AdminRemains /\ AdminServed /\ [Next]_vars => AdminRemains' /\ AdminServed'
  BY <1>2, <1>3
<1> QED
  BY <1>1, <1>4, SInvHolds, PTL DEF Spec

-----------------------------------------------------------------------------
(* Requests that overlap *)

\* Whoever was admitted as an admin is a user the table knows.
AdminKnown ==
  \A w \in Slot : requests[w].admin => requests[w].user \in User /\ users[requests[w].user].stored

KeepsUsers == \A u \in User : users[u].stored => users'[u].stored
KeepsAdmins ==
  \A u \in User : users[u].stored /\ users[u].admin /\ users[u].active =>
    users'[u].stored /\ users'[u].admin /\ users'[u].active
KeepsRequests ==
  \A v \in Slot : requests'[v].admin =>
    requests[v].admin /\ requests'[v].user = requests[v].user

Patched(w) ==
  \E u \in User, admin, active \in Flag, password \in BOOLEAN :
    PatchUser(w, u, admin, active, password)

\* Only PATCH takes rights away, and only the middleware hands them to a request.
LEMMA RightsStep ==
  ASSUME SInv, Next
  PROVE  /\ KeepsUsers
         /\ KeepsAdmins \/ \E w \in Slot : Patched(w)
         /\ KeepsRequests \/ \E w \in Slot, s \in Session : Admit(w, s)
<1>t. /\ users \in [User -> UserRow] /\ requests \in [Slot -> Request]
      /\ \A u \in User : users[u] \in UserRow
      /\ Idle.admin = FALSE
  BY DEF SInv, TypeOK, Idle
<1>q. users' = users => KeepsUsers /\ KeepsAdmins
  BY DEF KeepsUsers, KeepsAdmins
<1>a. ASSUME NEW w \in Slot, Answer(w) PROVE KeepsRequests
  BY <1>t, <1>a DEF Answer, KeepsRequests
<1>1. CASE \E s \in Session, u \in User : Login(s, u)
  BY <1>1, <1>q DEF Login, KeepsRequests
<1>2. CASE \E w \in Slot, s \in Session : Admit(w, s)
  BY <1>2, <1>q DEF Admit
<1>3. CASE \E w \in Slot : Logout(w) \/ OtherRequest(w)
  BY <1>3, <1>q, <1>a DEF Logout, OtherRequest
<1>4. CASE \E w \in Slot : MarkUsed(w)
  <2>1. PICK w \in Slot : MarkUsed(w)
    BY <1>4
  <2>2. requests' = [requests EXCEPT ![w].pc = "setPassword"] /\ users' = users
    BY <2>1 DEF MarkUsed
  <2>3. KeepsRequests
    BY <1>t, <2>2 DEF KeepsRequests, Request
  <2> QED
    BY <2>2, <2>3, <1>q
<1>5. CASE \E w \in Slot : SetPassword(w)
  <2>1. PICK w \in Slot : SetPassword(w)
    BY <1>5
  <2> DEFINE u == resets[requests[w].token].user
  <2>2. users' = [users EXCEPT ![u].hash = IF @ < MaxHash THEN @ + 1 ELSE @] /\ Answer(w)
    BY <2>1 DEF SetPassword
  <2> HIDE DEF u
  <2>3. \A x \in User : /\ users'[x].stored = users[x].stored
                        /\ users'[x].admin = users[x].admin
                        /\ users'[x].active = users[x].active
    BY <1>t, <2>2 DEF UserRow
  <2> QED
    BY <2>2, <2>3, <1>a DEF KeepsUsers, KeepsAdmins
<1>6. CASE \E w \in Slot, u \in User, admin \in BOOLEAN : AddUser(w, u, admin)
  <2>1. PICK w \in Slot, u \in User, admin \in BOOLEAN : AddUser(w, u, admin)
    BY <1>6
  <2>2. /\ ~users[u].stored /\ Answer(w)
        /\ \A x \in User \ {u} : users'[x] = users[x]
    BY <1>t, <2>1 DEF AddUser
  <2>3. KeepsUsers /\ KeepsAdmins
    BY <2>2 DEF KeepsUsers, KeepsAdmins
  <2> QED
    BY <2>2, <2>3, <1>a
<1>7. CASE \E w \in Slot : Patched(w)
  <2>1. PICK w \in Slot, u \in User, admin \in Flag, active \in Flag, password \in BOOLEAN :
          PatchUser(w, u, admin, active, password)
    BY <1>7 DEF Patched
  <2>2. /\ users' = [users EXCEPT ![u].admin = Put(@, admin), ![u].active = Put(@, active),
                                  ![u].hash = IF password THEN @ + 1 ELSE @]
        /\ Answer(w)
    BY <2>1 DEF PatchUser
  <2>3. KeepsUsers
    BY <1>t, <2>2 DEF KeepsUsers, UserRow
  <2> QED
    BY <2>2, <2>3, <1>7, <1>a
<1>8. CASE \E w \in Slot, u \in User :
             \/ \E t \in ResetToken : CreateResetLink(w, u, t)
             \/ \E body \in RoleBody : SetPermission(w, u, body)
             \/ DeletePermission(w, u)
  BY <1>8, <1>q, <1>a DEF CreateResetLink, SetPermission, DeletePermission
<1>9. CASE \E w \in Slot, t \in ResetToken : FindReset(w, t)
  <2>1. PICK w \in Slot, t \in ResetToken : FindReset(w, t)
    BY <1>9
  <2>2. /\ users' = users
        /\ requests' = [requests EXCEPT ![w] = [Idle EXCEPT !.pc = "markUsed", !.token = t]]
    BY <2>1 DEF FindReset
  <2>3. [Idle EXCEPT !.pc = "markUsed", !.token = t].admin = FALSE
    BY DEF Idle
  <2>4. KeepsRequests
    BY <1>t, <2>2, <2>3 DEF KeepsRequests
  <2> QED
    BY <2>2, <2>4, <1>q
<1>10. CASE (\E s \in Session : ExpireSession(s)) \/ (\E t \in ResetToken : ExpireReset(t))
  BY <1>10, <1>q DEF ExpireSession, ExpireReset, KeepsRequests
<1>11. CASE Restart
  BY <1>11, <1>q, <1>t DEF Restart, KeepsRequests
<1> QED
  BY <1>1, <1>2, <1>3, <1>4, <1>5, <1>6, <1>7, <1>8, <1>9, <1>10, <1>11
  DEF Next, Serve, Patched

LEMMA AdminKnownHolds == Spec => []AdminKnown
<1>1. Init => AdminKnown
  BY DEF Init, Idle, AdminKnown
<1>2. ASSUME SInv, AdminKnown, Next PROVE AdminKnown'
  <2>1. CASE KeepsRequests
    BY <1>2, <2>1, RightsStep DEF AdminKnown, KeepsRequests, KeepsUsers
  <2>2. CASE \E w \in Slot, s \in Session : Admit(w, s)
    <3>1. PICK w \in Slot, s \in Session : Admit(w, s)
      BY <2>2
    <3> DEFINE e == [Idle EXCEPT !.pc = "handler", !.user = jwt[s].user, !.session = s,
                                 !.admin = users[jwt[s].user].admin]
    <3>2. /\ users' = users /\ requests' = [requests EXCEPT ![w] = e]
          /\ requests \in [Slot -> Request]
      BY <1>2, <3>1 DEF Admit, SInv, TypeOK
    <3>3. e.user = jwt[s].user
      BY DEF Idle
    <3>4. jwt[s].user \in User /\ users[jwt[s].user].stored
      BY <1>2, <3>1 DEF Admit, Valid, SInv, TypeOK, Token, SessionsKnown
    <3> HIDE DEF e
    <3> QED
      BY <1>2, <3>2, <3>3, <3>4 DEF AdminKnown
  <2> QED
    BY <1>2, <2>1, <2>2, RightsStep
<1>3. AdminKnown /\ UNCHANGED vars => AdminKnown'
  BY DEF AdminKnown, vars
<1>4. SInv /\ AdminKnown /\ [Next]_vars => AdminKnown'
  BY <1>2, <1>3
<1> QED
  BY <1>1, <1>4, SInvHolds, PTL DEF Spec

\* However many users act at a time, the last admin is lost only to a request of
\* somebody who was an admin when the middleware let it in and no longer is one
\* when PATCH runs: the self-protection guard is broken by staleness alone.
THEOREM LastAdminFallsToStaleRequests == Spec => OnlyStaleRequestsTakeTheLastAdmin
<1> DEFINE Act ==
      AdminRemains /\ ~AdminRemains' =>
        \E w \in Slot : LET u == requests[w].user IN
          AsAdmin(w) /\ ~(users[u].admin /\ users[u].active) /\ requests'[w] = Idle
<1>1. ASSUME SInv, AdminKnown, Next PROVE Act
  <2> SUFFICES ASSUME AdminRemains, ~AdminRemains'
               PROVE  \E w \in Slot :
                        /\ AsAdmin(w)
                        /\ ~(users[requests[w].user].admin /\ users[requests[w].user].active)
                        /\ requests'[w] = Idle
    OBVIOUS
  <2>t. users \in [User -> UserRow] /\ requests \in [Slot -> Request]
    BY <1>1 DEF SInv, TypeOK
  <2>1. PICK w \in Slot : Patched(w)
    BY <1>1, RightsStep DEF KeepsAdmins, AdminRemains
  <2>2. PICK u \in User, admin \in Flag, active \in Flag, password \in BOOLEAN :
          PatchUser(w, u, admin, active, password)
    BY <2>1 DEF Patched
  <2> DEFINE a == requests[w].user
  <2>3. /\ AsAdmin(w) /\ requests'[w] = Idle /\ a \in User /\ users[a].stored
    BY <1>1, <2>t, <2>2 DEF PatchUser, AsAdmin, Answer, AdminKnown
  <2>4. ASSUME users[a].admin, users[a].active PROVE FALSE
    <3>0. users[a].admin = TRUE /\ users[a].active = TRUE
      BY <2>t, <2>3, <2>4 DEF UserRow
    <3>1. CASE u = a
      <4>1. admin # FALSE /\ active # FALSE
        BY <2>2, <3>1 DEF PatchUser, Permitted
      <4>2. Put(users[a].admin, admin) = TRUE /\ Put(users[a].active, active) = TRUE
        BY <3>0, <4>1 DEF Put
      <4>3. /\ users'[a].stored = users[a].stored
            /\ users'[a].admin = Put(users[a].admin, admin)
            /\ users'[a].active = Put(users[a].active, active)
        <5>1. users' = [users EXCEPT ![u].admin = Put(@, admin), ![u].active = Put(@, active),
                                     ![u].hash = IF password THEN @ + 1 ELSE @]
          BY <2>2 DEF PatchUser
        <5>2. u \in User /\ users[u] \in UserRow
          BY <2>t
        <5> HIDE DEF a
        <5> QED
          BY <2>t, <3>1, <5>1, <5>2 DEF UserRow
      <4> QED
        BY <2>3, <4>2, <4>3 DEF AdminRemains
    <3>2. CASE u # a
      <4>1. users'[a] = users[a]
        BY <2>t, <2>2, <2>3, <3>2 DEF PatchUser
      <4> QED
        BY <2>3, <2>4, <4>1 DEF AdminRemains
    <3> QED
      BY <3>1, <3>2
  <2> QED
    BY <2>3, <2>4
<1>2. SInv /\ AdminKnown /\ [Next]_vars => [Act]_vars
  BY <1>1
<1> QED
  BY <1>2, SInvHolds, AdminKnownHolds, PTL DEF Spec, OnlyStaleRequestsTakeTheLastAdmin
=============================================================================
