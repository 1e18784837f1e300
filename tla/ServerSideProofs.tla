----------------------------- MODULE ServerSideProofs -----------------------------
(***************************************************************************)
(* ClientSession implements ServerSideSession as long as the browser has no *)
(* two requests in flight at a time, for any number of tabs, requests and   *)
(* logins: what differs from the session of the documentation comes from    *)
(* responses that overlap, and from nothing else.                           *)
(***************************************************************************)
EXTENDS ClientSessionProofs

OneAtATime ==
  \A r, x \in Req : req[r].phase # "idle" /\ req[x].phase # "idle" => r = x

\* The abstract state of the session: the login of s, and the requests begun.
LoginOf(s) == IF s.token_data = None THEN None ELSE s.token_data.id
Begun == {i \in Login : auth[i].at \notin {"new", "redirect"}}

StartRoute == {"start_auth_code", "pkce_flow"}
CallbackRoute == {"auth_callback", "auth_error"}

\* Keycloak has issued tokens for the login.
Obtained == {"live", "ended"}

\* A login that the session has held was obtained; one that has no client is
\* new, and one whose user is still to sign in has not been obtained.
History ==
  /\ TokenIds(cookie) \subseteq held
  /\ \A i \in held : kc[i] \in Obtained
  /\ \A i \in Login : auth[i].client = None => auth[i].at = "new" /\ kc[i] = "none"
  /\ \A i \in Login : auth[i].at \in {"redirect", "login"} => kc[i] = "none"

(***************************************************************************)
(* What an answer on its way holds is one operation of the abstract session *)
(* away from the cookie: a start route begins a request, any other answer   *)
(* leaves, drops, aborts, completes or grants a login.                      *)
(***************************************************************************)
Begins(q) ==
  /\ q.save /\ q.arg \in Login /\ auth[q.arg].at = "redirect"
  /\ q.session.oauth_state = q.arg
  /\ LoginOf(q.session) = LoginOf(cookie)

Stays(s) == s.oauth_state = cookie.oauth_state /\ LoginOf(s) \in {LoginOf(cookie), None}
Aborts(s) == s.oauth_state = None /\ LoginOf(s) = LoginOf(cookie)
Obtains(s) == LoginOf(s) \in Login \ held /\ kc[LoginOf(s)] \in Obtained
Completes(s) == Obtains(s) /\ cookie.oauth_state = LoginOf(s) /\ s.oauth_state = None
GrantsLogin(s) == Obtains(s) /\ s.oauth_state = cookie.oauth_state /\ auth[LoginOf(s)].at = "new"

Operation(s) == Stays(s) \/ Aborts(s) \/ Completes(s) \/ GrantsLogin(s)

InFlight(q) ==
  /\ q.route \in CallbackRoute => q.arg \in Login /\ auth[q.arg].at = "spent"
  /\ q.phase = "sent" => q.session = cookie
  /\ q.phase = "answered" /\ q.route \in StartRoute => Begins(q)
  /\ q.phase = "answered" /\ q.route \notin StartRoute /\ q.save => Operation(q.session)

SerialInv == History /\ \A r \in Req : req[r].phase # "idle" => InFlight(req[r])

-----------------------------------------------------------------------------
(* What the handlers make of the two parts of a session that the abstract   *)
(* one has.                                                                 *)

LEMMA LoginOfType ==
  ASSUME NEW s \in Session
  PROVE  /\ LoginOf(s) \in Login \cup {None}
         /\ TokenIds(s) = IF LoginOf(s) = None THEN {} ELSE {LoginOf(s)}
<1>1. s.token_data # None => s.token_data.id \in Login
  BY DEF Session, Token
<1>2. None \notin Login
  BY NoneAssumption
<1> QED BY <1>1, <1>2 DEF LoginOf, TokenIds

LEMMA FlashKeeps ==
  ASSUME NEW s \in Session
  PROVE  Flash(s).oauth_state = s.oauth_state /\ Flash(s).token_data = s.token_data
BY DEF Flash, Session

LEMMA PopKeeps ==
  ASSUME NEW s \in Session
  PROVE  /\ PopPkce(s) \in Session
         /\ PopPkce(s).oauth_state = None /\ PopPkce(s).token_data = s.token_data
BY DEF PopPkce, Session

LEMMA StoreMakes ==
  ASSUME NEW s \in Session, NEW i \in Login, NEW client \in Client, NEW flow \in Flow,
         NEW refreshed \in BOOLEAN
  PROVE  /\ StoreTokens(s, i, client, flow, refreshed) \in Session
         /\ StoreTokens(s, i, client, flow, refreshed).oauth_state = s.oauth_state
         /\ LoginOf(StoreTokens(s, i, client, flow, refreshed)) = i
<1> DEFINE td == [id |-> i, azp |-> client, flow |-> flow, refreshed |-> refreshed]
           t == StoreTokens(s, i, client, flow, refreshed)
<1>1. td \in Token /\ td.id = i
  BY DEF Token
<1>2. t = [s EXCEPT !.token_data = td]
  BY DEF StoreTokens
<1> HIDE DEF td
<1>3. t \in Session /\ t.oauth_state = s.oauth_state /\ t.token_data = td
  BY <1>1, <1>2 DEF Session
<1> QED BY <1>1, <1>3, TokenAssumption DEF LoginOf

\* A refresh stores new tokens of the same login.
LEMMA RefreshMakes ==
  ASSUME NEW s \in Session, NEW td, td = s.token_data, td # None
  PROVE  LET t == StoreTokens(s, td.id, td.azp, td.flow, TRUE)
         IN  t \in Session /\ t.oauth_state = s.oauth_state /\ LoginOf(t) = td.id
<1>1. td.id \in Login /\ td.azp \in Client /\ td.flow \in Flow
  BY DEF Session, Token
<1> DEFINE new == [id |-> td.id, azp |-> td.azp, flow |-> td.flow, refreshed |-> TRUE]
<1>2. new \in Token /\ new.id = td.id
  BY <1>1 DEF Token
<1>3. StoreTokens(s, td.id, td.azp, td.flow, TRUE) = [s EXCEPT !.token_data = new]
  BY DEF StoreTokens
<1> HIDE DEF new
<1> QED BY <1>2, <1>3, TokenAssumption DEF Session, LoginOf

\* The callback's tokens.
LEMMA CallbackMakes ==
  ASSUME NEW s \in Session, NEW i \in Login
  PROVE  CallbackTokens(s, i).oauth_state = None /\ LoginOf(CallbackTokens(s, i)) = i
<1> DEFINE flow == IF s.pkce_flow THEN "pkce" ELSE "authorization_code"
           t == StoreTokens(PopPkce(s), i, RedeemAs(s), flow, FALSE)
<1>1. RedeemAs(s) \in Client /\ flow \in Flow
  BY DEF RedeemAs, Client, Flow
<1>2. PopPkce(s) \in Session /\ PopPkce(s).oauth_state = None
  BY PopKeeps
<1>3. t \in Session /\ t.oauth_state = None /\ LoginOf(t) = i
  BY <1>1, <1>2, StoreMakes
<1>4. CallbackTokens(s, i) = IF s.pkce_flow THEN [t EXCEPT !.pkce_result = s.pkce_verifier]
                             ELSE Flash(t)
  BY DEF CallbackTokens
<1> HIDE DEF t
<1>5. /\ [t EXCEPT !.pkce_result = s.pkce_verifier].oauth_state = t.oauth_state
      /\ [t EXCEPT !.pkce_result = s.pkce_verifier].token_data = t.token_data
  BY <1>3 DEF Session
<1>6. Flash(t).oauth_state = t.oauth_state /\ Flash(t).token_data = t.token_data
  BY <1>3, FlashKeeps
<1> QED BY <1>3, <1>4, <1>5, <1>6 DEF LoginOf

-----------------------------------------------------------------------------
(* One request at a time.                                                  *)

\* An answer, field by field.
LEMMA AnswerFields ==
  ASSUME NEW p \in Request, NEW s \in Session, NEW save \in BOOLEAN
  PROVE  LET q == Answered(p, s, save)
         IN  /\ q.phase = "answered" /\ q.session = s /\ q.save = save
             /\ q.route = p.route /\ q.arg = p.arg
BY DEF Answered, Request

\* The record of the one request in flight is replaced; the others stay idle.
LEMMA OneRequest ==
  ASSUME TypeOK, OneAtATime, NEW r \in Req, req[r].phase # "idle", NEW q,
         req' = [req EXCEPT ![r] = q], q.phase # "idle" => InFlight(q)', History'
  PROVE  SerialInv'
<1> SUFFICES ASSUME NEW x \in Req, req'[x].phase # "idle" PROVE InFlight(req[x])'
  BY DEF SerialInv
<1>1. x = r /\ req'[x] = q
  BY DEF TypeOK, OneAtATime
<1> QED BY <1>1 DEF InFlight

\* A handler other than a start route answers, with an operation if it saves.
LEMMA AnswerInFlight ==
  ASSUME IInv, OneAtATime, SerialInv, NEW r \in Req, req[r].phase = "sent",
         req[r].route \notin StartRoute,
         NEW s \in Session, NEW save \in BOOLEAN, req' = [req EXCEPT ![r] = Answered(@, s, save)],
         save => Operation(s)', UNCHANGED <<cookie, held>>, History',
         req[r].route \in CallbackRoute => auth' = auth
  PROVE  SerialInv'
<1>1. req[r] \in Request /\ InFlight(req[r])
  BY DEF IInv, TypeOK, SerialInv
<1> PICK q : q = Answered(req[r], s, save)
  OBVIOUS
<1>2. /\ q.phase = "answered" /\ q.session = s /\ q.save = save
      /\ q.route = req[r].route /\ q.arg = req[r].arg
  BY <1>1, AnswerFields
<1>3. req' = [req EXCEPT ![r] = q]
  BY DEF IInv, TypeOK
<1>4. InFlight(q)'
  <2>1. q.route \in CallbackRoute => q.arg \in Login /\ auth'[q.arg].at = "spent"
    BY <1>1, <1>2 DEF InFlight
  <2> QED BY <1>2, <2>1 DEF InFlight
<1> QED BY <1>3, <1>4, OneRequest DEF IInv

\* A handler that leaves Keycloak alone.
LEMMA PlainAnswer ==
  ASSUME IInv, OneAtATime, SerialInv, NEW r \in Req, req[r].phase = "sent",
         req[r].route \notin StartRoute, UNCHANGED <<cookie, auth, kc, held>>,
         \/ NoSave(r)
         \/ \E s \in Session : Save(r, s) /\ (Stays(s) \/ Aborts(s))
  PROVE  SerialInv'
<1>1. History'
  BY DEF SerialInv, History
<1>2. CASE NoSave(r)
  BY <1>1, <1>2, AnswerInFlight, NoSessionOK DEF NoSave
<1>3. CASE \E s \in Session : Save(r, s) /\ (Stays(s) \/ Aborts(s))
  <2>1. PICK s \in Session : Save(r, s) /\ (Stays(s) \/ Aborts(s))
    BY <1>3
  <2>2. Operation(s)'
    BY <2>1 DEF Operation, Stays, Aborts
  <2> QED BY <1>1, <2>1, <2>2, AnswerInFlight DEF Save
<1> QED BY <1>2, <1>3

\* A request carries the browser's cookie, and its handler starts from that.
LEMMA Carries ==
  ASSUME IInv, SerialInv, NEW r \in Req, req[r].phase = "sent"
  PROVE  /\ req[r].session = cookie /\ cookie \in Session /\ req[r] \in Request
         /\ req[r].route \in CallbackRoute => req[r].arg \in Login /\ auth[req[r].arg].at = "spent"
BY DEF SerialInv, InFlight, IInv, TypeOK

\* The handlers that leave login and state alone, or drop the login.
LEMMA PlainHandlers ==
  ASSUME IInv, OneAtATime, SerialInv, NEW r \in Req,
         \/ AuthError(r) \/ PkceResult(r) \/ Logout(r) \/ RefreshToken(r)
         \/ DeviceFlow(r) \/ DevicePoll(r) \/ Gated(r) \/ Page(r)
  PROVE  SerialInv'
<1>1. /\ req[r].phase = "sent" /\ req[r].route \notin StartRoute
      /\ UNCHANGED <<cookie, auth, kc, held>>
  BY DEF AuthError, PkceResult, Logout, RefreshToken, DeviceFlow, DevicePoll, Gated, Page,
         Serving, StartRoute
<1>2. req[r].session = cookie /\ cookie \in Session
  BY <1>1, Carries
<1>3. ASSUME NEW s \in Session, s.oauth_state = cookie.oauth_state,
             s.token_data \in {cookie.token_data, None}
      PROVE  Stays(s)
  BY <1>3 DEF Stays, LoginOf
<1>4. Flash(cookie) \in Session /\ Stays(Flash(cookie))
  <2>1. Flash(cookie) \in Session
    BY <1>2 DEF Flash, Session
  <2> QED BY <1>2, <1>3, <2>1, FlashKeeps
<1>5. ASSUME NEW b \in BOOLEAN
      PROVE  [cookie EXCEPT !.flashes = b] \in Session /\ Stays([cookie EXCEPT !.flashes = b])
  <2> PICK t : t = [cookie EXCEPT !.flashes = b]
    OBVIOUS
  <2>1. t \in Session /\ t.oauth_state = cookie.oauth_state /\ t.token_data = cookie.token_data
    <3>1. CASE b = TRUE
      BY <1>2, <3>1 DEF Session
    <3>2. CASE b = FALSE
      BY <1>2, <3>2 DEF Session
    <3> QED BY <3>1, <3>2
  <2> QED BY <1>3, <2>1
<1>6. CASE AuthError(r)
  BY <1>1, <1>2, <1>4, <1>6, PlainAnswer DEF AuthError
<1>7. CASE PkceResult(r)
  <2> PICK own \in BOOLEAN :
        own = (/\ cookie.pkce_result # None /\ cookie.token_data # None
               /\ cookie.token_data.flow = "pkce" /\ ~ cookie.token_data.refreshed)
    OBVIOUS
  <2> PICK t : t = [cookie EXCEPT !.pkce_result = None]
    OBVIOUS
  <2>1. Save(r, [t EXCEPT !.flashes = ~ own])
    BY <1>2, <1>7 DEF PkceResult
  <2>2. t \in Session /\ t.oauth_state = cookie.oauth_state /\ t.token_data = cookie.token_data
    BY <1>2 DEF Session
  <2> PICK u : u = [t EXCEPT !.flashes = ~ own]
    OBVIOUS
  <2>3. u \in Session /\ u.oauth_state = t.oauth_state /\ u.token_data = t.token_data
    <3>1. CASE own = TRUE
      BY <2>2, <3>1 DEF Session
    <3>2. CASE own = FALSE
      BY <2>2, <3>2 DEF Session
    <3> QED BY <3>1, <3>2
  <2>4. Stays(u)
    BY <1>3, <2>2, <2>3
  <2> QED BY <1>1, <2>1, <2>3, <2>4, PlainAnswer
<1>8. ASSUME NEW t, t = [cookie EXCEPT !.token_data = None]
      PROVE  t \in Session /\ Stays(t) /\ Flash(t) \in Session /\ Stays(Flash(t))
  <2>1. t \in Session /\ t.oauth_state = cookie.oauth_state /\ t.token_data = None
    BY <1>2, <1>8 DEF Session
  <2>2. /\ Flash(t) \in Session /\ Flash(t).oauth_state = t.oauth_state
        /\ Flash(t).token_data = t.token_data
    BY <2>1, FlashKeeps DEF Flash, Session
  <2> QED BY <1>3, <2>1, <2>2
<1>9. CASE Logout(r)
  <2> PICK t : t = [cookie EXCEPT !.token_data = None]
    OBVIOUS
  <2>1. Save(r, t) \/ Save(r, Flash(t))
    BY <1>2, <1>9 DEF Logout
  <2> QED BY <1>1, <1>8, <2>1, PlainAnswer
<1>10. CASE RefreshToken(r)
  <2> PICK td : td = cookie.token_data
    OBVIOUS
  <2>1. CASE Save(r, Flash(cookie)) \/ NoSave(r)
    BY <1>1, <1>4, <2>1, PlainAnswer
  <2>2. CASE Save(r, Flash([cookie EXCEPT !.token_data = None]))
    <3> PICK t : t = [cookie EXCEPT !.token_data = None]
      OBVIOUS
    <3> QED BY <1>1, <1>8, <2>2, PlainAnswer
  <2>3. CASE td # None /\ Save(r, Flash(StoreTokens(cookie, td.id, td.azp, td.flow, TRUE)))
    <3>1. td.id \in Login /\ td.azp \in Client /\ td.flow \in Flow /\ LoginOf(cookie) = td.id
      BY <1>2, <2>3 DEF Session, Token, LoginOf
    <3> PICK t : t = StoreTokens(cookie, td.id, td.azp, td.flow, TRUE)
      OBVIOUS
    <3>2. t \in Session /\ t.oauth_state = cookie.oauth_state /\ LoginOf(t) = td.id
      BY <1>2, <2>3, RefreshMakes
    <3>3. /\ Flash(t) \in Session /\ Flash(t).oauth_state = t.oauth_state
          /\ Flash(t).token_data = t.token_data
      BY <3>2, FlashKeeps DEF Flash, Session
    <3>4. Stays(Flash(t))
      BY <3>1, <3>2, <3>3 DEF Stays, LoginOf
    <3> QED BY <1>1, <2>3, <3>3, <3>4, PlainAnswer
  <2> QED BY <1>2, <1>10, <2>1, <2>2, <2>3 DEF RefreshToken
<1>11. CASE DeviceFlow(r)
  <2> PICK t : t = [cookie EXCEPT !.device_code = TRUE, !.flashes = FALSE]
    OBVIOUS
  <2>1. t \in Session /\ t.oauth_state = cookie.oauth_state /\ t.token_data = cookie.token_data
    BY <1>2 DEF Session
  <2>2. Save(r, t) \/ Save(r, [cookie EXCEPT !.flashes = FALSE]) \/ NoSave(r)
    BY <1>2, <1>11 DEF DeviceFlow, Render
  <2> QED BY <1>1, <1>3, <1>5, <2>1, <2>2, PlainAnswer
<1>12. CASE DevicePoll(r)
  <2> PICK t : t = [cookie EXCEPT !.device_code = FALSE]
    OBVIOUS
  <2>1. t \in Session /\ t.oauth_state = cookie.oauth_state /\ t.token_data = cookie.token_data
    BY <1>2 DEF Session
  <2>2. Save(r, t) \/ NoSave(r)
    BY <1>2, <1>12 DEF DevicePoll
  <2> QED BY <1>1, <1>3, <2>1, <2>2, PlainAnswer
<1>13. CASE Gated(r) \/ Page(r)
  <2>1. Save(r, Flash(cookie)) \/ Save(r, [cookie EXCEPT !.flashes = FALSE]) \/ NoSave(r)
    BY <1>2, <1>13 DEF Gated, Page, Render
  <2> QED BY <1>1, <1>4, <1>5, <2>1, PlainAnswer
<1> QED BY <1>6, <1>7, <1>9, <1>10, <1>11, <1>12, <1>13

-----------------------------------------------------------------------------
(* The handlers that obtain tokens or begin a request.                     *)

\* A fresh login has never been held, and Keycloak knows nothing of it.
LEMMA FreshIsNew ==
  ASSUME IInv, SerialInv, NEW i \in Fresh
  PROVE  i \in Login \ held /\ auth[i].at = "new" /\ kc[i] = "none"
BY DEF Fresh, SerialInv, History, Obtained

\* What a direct grant's handler makes of the cookie.
LEMMA GrantMakes ==
  ASSUME NEW s \in Session, NEW i \in Login, NEW client \in Client, NEW flow \in Flow
  PROVE  LET t == Flash(StoreTokens(s, i, client, flow, FALSE))
         IN  t \in Session /\ t.oauth_state = s.oauth_state /\ LoginOf(t) = i
<1> DEFINE td == [id |-> i, azp |-> client, flow |-> flow, refreshed |-> FALSE]
           t == [s EXCEPT !.token_data = td]
<1>1. td \in Token /\ td.id = i
  BY DEF Token
<1>2. StoreTokens(s, i, client, flow, FALSE) = t
  BY DEF StoreTokens
<1> HIDE DEF td
<1>3. t \in Session /\ t.oauth_state = s.oauth_state /\ t.token_data = td
  BY <1>1 DEF Session
<1> HIDE DEF t
<1>4. /\ Flash(t) \in Session /\ Flash(t).oauth_state = s.oauth_state
      /\ Flash(t).token_data = td
  BY <1>3 DEF Flash, Session
<1> QED BY <1>1, <1>2, <1>4, TokenAssumption DEF LoginOf

\* A direct grant brings a login that was never held into the answer.
LEMMA GrantInFlight ==
  ASSUME IInv, OneAtATime, SerialInv, NEW r \in Req, req[r].phase = "sent",
         req[r].route \notin StartRoute \cup CallbackRoute,
         NEW i \in Fresh, NEW client \in Client, NEW flow \in Flow, DirectGrant(i, client),
         Save(r, Flash(StoreTokens(cookie, i, client, flow, FALSE))),
         UNCHANGED <<cookie, held>>
  PROVE  SerialInv'
<1>1. i \in Login \ held /\ auth[i].at = "new" /\ kc[i] = "none"
  BY FreshIsNew
<1>2. /\ client # None
      /\ \A j \in Login : /\ auth'[j].at = auth[j].at
                          /\ auth'[j].client = IF j = i THEN client ELSE auth[j].client
                          /\ kc'[j] = IF j = i THEN "live" ELSE kc[j]
  <2>1. client # None
    BY NoneAssumption
  <2>2. \A j \in Login : kc'[j] = IF j = i THEN "live" ELSE kc[j]
    BY <1>1 DEF DirectGrant, IInv, TypeOK
  <2>3. auth \in AuthType
    BY DEF IInv, TypeOK, AuthType
  <2>4. auth' = [auth EXCEPT ![i].client = client]
    BY DEF DirectGrant
  <2>5. \A j \in Login : /\ auth'[j].at = auth[j].at
                         /\ auth'[j].client = IF j = i THEN client ELSE auth[j].client
    BY <2>3, <2>4 DEF AuthType
  <2> QED BY <2>1, <2>2, <2>5
<1>3. History'
  <2>1. TokenIds(cookie)' \subseteq held' /\ (\A j \in held' : kc'[j] \in Obtained)
    BY <1>1, <1>2 DEF SerialInv, History, TokenIds, IInv, TypeOK
  <2>2. ASSUME NEW j \in Login
        PROVE  /\ auth'[j].client = None => auth'[j].at = "new" /\ kc'[j] = "none"
               /\ auth'[j].at \in {"redirect", "login"} => kc'[j] = "none"
    BY <1>1, <1>2 DEF SerialInv, History
  <2> QED BY <2>1, <2>2 DEF History
<1> PICK t : t = Flash(StoreTokens(cookie, i, client, flow, FALSE))
  OBVIOUS
<1>4. t \in Session /\ t.oauth_state = cookie.oauth_state /\ LoginOf(t) = i
  <2>1. cookie \in Session /\ i \in Login
    BY <1>1 DEF IInv, TypeOK
  <2> QED BY <2>1, GrantMakes
<1>5. LoginOf(t)' = i
  BY <1>4 DEF LoginOf
<1>6. GrantsLogin(t)'
  BY <1>1, <1>2, <1>4, <1>5 DEF GrantsLogin, Obtains, Obtained
<1>7. Operation(t)'
  BY <1>6 DEF Operation
<1> QED BY <1>3, <1>4, <1>7, AnswerInFlight DEF Save

\* PasswordGrant and ClientCredentials.
LEMMA GrantHandlers ==
  ASSUME IInv, OneAtATime, SerialInv, NEW r \in Req, PasswordGrant(r) \/ ClientCredentials(r)
  PROVE  SerialInv'
<1>1. /\ req[r].phase = "sent" /\ req[r].route \notin StartRoute \cup CallbackRoute
      /\ UNCHANGED <<cookie, held>>
  BY DEF PasswordGrant, ClientCredentials, Serving, StartRoute, CallbackRoute
<1>2. req[r].session = cookie /\ cookie \in Session
  BY <1>1, Carries
<1>3. CASE \E i \in Fresh :
             /\ DirectGrant(i, "demo-client")
             /\ Save(r, Flash(StoreTokens(cookie, i, "demo-client", "password", FALSE)))
  BY <1>1, <1>3, GrantInFlight DEF Client, Flow
<1>4. CASE \E i \in Fresh :
             /\ DirectGrant(i, "service-client")
             /\ Save(r, Flash(StoreTokens(cookie, i, "service-client",
                                          "client_credentials", FALSE)))
  BY <1>1, <1>4, GrantInFlight DEF Client, Flow
<1>5. CASE /\ UNCHANGED <<auth, kc>>
           /\ \/ Save(r, [cookie EXCEPT !.flashes = FALSE])
              \/ Save(r, Flash(cookie)) \/ NoSave(r)
  <2> PICK t, u : t = [cookie EXCEPT !.flashes = FALSE] /\ u = Flash(cookie)
    OBVIOUS
  <2>1. /\ t \in Session /\ t.oauth_state = cookie.oauth_state
        /\ t.token_data = cookie.token_data
    BY <1>2 DEF Session
  <2>2. /\ u \in Session /\ u.oauth_state = cookie.oauth_state
        /\ u.token_data = cookie.token_data
    BY <1>2, FlashKeeps DEF Flash, Session
  <2>3. Stays(t) /\ Stays(u)
    BY <2>1, <2>2 DEF Stays, LoginOf
  <2> QED BY <1>1, <1>5, <2>1, <2>2, <2>3, PlainAnswer
<1> QED BY <1>1, <1>2, <1>3, <1>4, <1>5 DEF PasswordGrant, ClientCredentials

\* However Keycloak answers for a code, it has then issued its tokens.
LEMMA RedeemHistory ==
  ASSUME IInv, SerialInv, NEW i \in Login, auth[i].at = "spent", NEW s,
         kc' \in {kc, Redeem(i, s)}, UNCHANGED <<cookie, auth, held>>
  PROVE  History'
<1>1. \A j \in Login : kc'[j] = kc[j] \/ (j = i /\ kc'[j] \in Obtained)
  BY DEF Redeem, Obtained, IInv, TypeOK
<1>2. TokenIds(cookie)' \subseteq held' /\ (\A j \in held' : kc'[j] \in Obtained)
  BY <1>1 DEF SerialInv, History, TokenIds, IInv, TypeOK
<1>3. ASSUME NEW j \in Login
      PROVE  /\ auth'[j].client = None => auth'[j].at = "new" /\ kc'[j] = "none"
             /\ auth'[j].at \in {"redirect", "login"} => kc'[j] = "none"
  BY <1>1 DEF SerialInv, History
<1> QED BY <1>2, <1>3 DEF History

\* AuthCallback completes the login that the session waits for, or aborts it.
LEMMA CallbackHandler ==
  ASSUME IInv, OneAtATime, SerialInv, NEW r \in Req, AuthCallback(r)
  PROVE  SerialInv'
<1>1. /\ req[r].phase = "sent" /\ req[r].route = "auth_callback"
      /\ req[r].route \notin StartRoute /\ req[r].route \in CallbackRoute
      /\ UNCHANGED <<cookie, auth, held>>
  BY DEF AuthCallback, Serving, StartRoute, CallbackRoute
<1>2. /\ req[r].session = cookie /\ cookie \in Session
      /\ req[r].arg \in Login /\ auth[req[r].arg].at = "spent"
  BY <1>1, Carries
<1> PICK i \in Login : i = req[r].arg
  BY <1>2
<1>3. ASSUME kc' \in {kc, Redeem(i, cookie)} PROVE History'
  BY <1>1, <1>2, <1>3, RedeemHistory
<1>4. ASSUME NEW t \in Session, t.oauth_state = None, t.token_data = cookie.token_data
      PROVE  /\ Flash(t) \in Session /\ Aborts(Flash(t)) /\ Aborts(Flash(t))'
  <2> PICK u : u = Flash(t)
    OBVIOUS
  <2>1. u \in Session /\ u.oauth_state = None /\ u.token_data = cookie.token_data
    BY <1>4, FlashKeeps DEF Flash, Session
  <2> QED BY <1>1, <2>1 DEF Aborts, LoginOf
<1>5. CASE Save(r, Flash([cookie EXCEPT !.oauth_state = None])) /\ UNCHANGED kc
  <2> PICK t : t = [cookie EXCEPT !.oauth_state = None]
    OBVIOUS
  <2>1. t \in Session /\ t.oauth_state = None /\ t.token_data = cookie.token_data
    BY <1>2 DEF Session
  <2> QED BY <1>1, <1>4, <1>5, <2>1, PlainAnswer
<1>6. CASE Save(r, Flash(PopPkce(cookie))) /\ kc' \in {kc, Redeem(i, cookie)}
  <2> PICK t : t = PopPkce(cookie)
    OBVIOUS
  <2>1. t \in Session /\ t.oauth_state = None /\ t.token_data = cookie.token_data
    BY <1>2, PopKeeps
  <2> PICK u : u = Flash(t)
    OBVIOUS
  <2>2. u \in Session /\ Operation(u)'
    BY <1>4, <2>1 DEF Operation
  <2> QED BY <1>1, <1>3, <1>6, <2>2, AnswerInFlight DEF Save
<1>7. CASE NoSave(r) /\ kc' \in {kc, Redeem(i, cookie)}
  BY <1>1, <1>3, <1>7, NoSessionOK, AnswerInFlight DEF NoSave
<1>8. CASE /\ cookie.oauth_state = i /\ CodeAccepted(i, cookie)
           /\ Save(r, CallbackTokens(cookie, i)) /\ kc' = Redeem(i, cookie)
  <2> PICK u : u = CallbackTokens(cookie, i)
    OBVIOUS
  <2>1. Consistent(cookie, auth)
    BY DEF IInv, Sessions
  <2>2. u \in Session /\ u.oauth_state = None /\ LoginOf(u) = i
    BY <1>2, <1>8, <2>1, CallbackTokensOK, CallbackMakes
  <2>3. kc[i] = "code" /\ kc'[i] = "live"
    BY <1>8 DEF CodeAccepted, Redeem, IInv, TypeOK
  <2>4. i \notin held
    BY <2>3 DEF SerialInv, History, Obtained
  <2>5. LoginOf(u)' = i
    BY <2>2 DEF LoginOf
  <2>6. Completes(u)'
    BY <1>1, <1>8, <2>2, <2>3, <2>4, <2>5 DEF Completes, Obtains, Obtained
  <2>7. Operation(u)'
    BY <2>6 DEF Operation
  <2> QED BY <1>1, <1>3, <1>8, <2>2, <2>7, AnswerInFlight DEF Save
<1> QED BY <1>2, <1>5, <1>6, <1>7, <1>8 DEF AuthCallback

\* A start route begins the authorization request i.
LEMMA StartInFlight ==
  ASSUME IInv, OneAtATime, SerialInv, NEW r \in Req, req[r].phase = "sent",
         req[r].route \in StartRoute, NEW i \in Fresh, NEW client \in Client,
         auth' = [auth EXCEPT ![i] = [client |-> client, at |-> "redirect"]],
         NEW t \in Session, t.oauth_state = i, t.token_data = cookie.token_data,
         SaveAndRedirect(r, t, i), UNCHANGED <<cookie, kc, held>>
  PROVE  SerialInv'
<1>1. i \in Login \ held /\ auth[i].at = "new" /\ kc[i] = "none" /\ client # None
  BY FreshIsNew, NoneAssumption
<1>2. \A j \in Login : auth'[j] = IF j = i THEN [client |-> client, at |-> "redirect"]
                                          ELSE auth[j]
  BY DEF IInv, TypeOK
<1>3. History'
  <2>1. TokenIds(cookie)' \subseteq held' /\ (\A j \in held' : kc'[j] \in Obtained)
    BY DEF SerialInv, History, TokenIds, IInv, TypeOK
  <2>2. ASSUME NEW j \in Login
        PROVE  /\ auth'[j].client = None => auth'[j].at = "new" /\ kc'[j] = "none"
               /\ auth'[j].at \in {"redirect", "login"} => kc'[j] = "none"
    BY <1>1, <1>2 DEF SerialInv, History
  <2> QED BY <2>1, <2>2 DEF History
<1> PICK p : p = [req[r] EXCEPT !.arg = i]
  OBVIOUS
<1>4. p \in Request /\ p.route = req[r].route /\ p.arg = i
  BY <1>1 DEF IInv, TypeOK, Request
<1> PICK q : q = Answered(p, t, TRUE)
  OBVIOUS
<1>5. /\ q.phase = "answered" /\ q.session = t /\ q.save = TRUE
      /\ q.route = req[r].route /\ q.arg = i
  BY <1>4, AnswerFields
<1>6. req' = [req EXCEPT ![r] = q]
  BY DEF SaveAndRedirect, IInv, TypeOK
<1>7. Begins(q)'
  <2>1. auth'[i].at = "redirect"
    BY <1>1, <1>2
  <2>2. LoginOf(t)' = LoginOf(cookie)'
    BY DEF LoginOf
  <2>3. LoginOf(q.session)' = LoginOf(cookie)'
    BY <1>5, <2>2
  <2> QED BY <1>1, <1>5, <2>1, <2>3 DEF Begins
<1>8. InFlight(q)'
  BY <1>5, <1>7 DEF InFlight, StartRoute, CallbackRoute
<1> QED BY <1>3, <1>6, <1>8, OneRequest DEF IInv

\* StartAuthCode and PkceFlow.
LEMMA StartHandlers ==
  ASSUME IInv, OneAtATime, SerialInv, NEW r \in Req, StartAuthCode(r) \/ PkceFlow(r)
  PROVE  SerialInv'
<1>1. /\ req[r].phase = "sent" /\ req[r].route \in StartRoute
      /\ UNCHANGED <<cookie, kc, held>>
  BY DEF StartAuthCode, PkceFlow, Serving, StartRoute
<1>2. req[r].session = cookie /\ cookie \in Session
  BY <1>1, Carries
<1>3. CASE StartAuthCode(r)
  <2> PICK i \in Fresh :
        /\ auth' = [auth EXCEPT ![i] = [client |-> "demo-client", at |-> "redirect"]]
        /\ SaveAndRedirect(r, [cookie EXCEPT !.oauth_state = i], i)
    BY <1>2, <1>3 DEF StartAuthCode
  <2> PICK t : t = [cookie EXCEPT !.oauth_state = i]
    OBVIOUS
  <2>1. t \in Session /\ t.oauth_state = i /\ t.token_data = cookie.token_data
    BY <1>2, FreshIsNew DEF Session
  <2> QED BY <1>1, <2>1, StartInFlight DEF Client
<1>4. CASE PkceFlow(r)
  <2> PICK i \in Fresh :
        /\ auth' = [auth EXCEPT ![i] = [client |-> "pkce-client", at |-> "redirect"]]
        /\ SaveAndRedirect(r, [cookie EXCEPT !.oauth_state = i, !.pkce_flow = TRUE,
                                             !.pkce_verifier = i], i)
    BY <1>2, <1>4 DEF PkceFlow
  <2> PICK t : t = [cookie EXCEPT !.oauth_state = i, !.pkce_flow = TRUE,
                                  !.pkce_verifier = i]
    OBVIOUS
  <2>1. t \in Session /\ t.oauth_state = i /\ t.token_data = cookie.token_data
    BY <1>2, FreshIsNew DEF Session
  <2> QED BY <1>1, <2>1, StartInFlight DEF Client
<1> QED BY <1>3, <1>4

-----------------------------------------------------------------------------
(* The browser and Keycloak.                                               *)

\* A request is sent while none is in flight: it is the one that then is.
LEMMA SendInFlight ==
  ASSUME IInv, SerialInv, OneAtATime', NEW r \in Req, NEW route, NEW arg,
         Start(r, route, arg), route \in CallbackRoute => arg \in Login /\ auth'[arg].at = "spent",
         UNCHANGED cookie, History'
  PROVE  SerialInv'
<1> SUFFICES ASSUME NEW x \in Req, req'[x].phase # "idle" PROVE InFlight(req[x])'
  BY DEF SerialInv
<1> PICK q : q = [phase |-> "sent", route |-> route, arg |-> arg,
                  session |-> cookie, save |-> FALSE]
  OBVIOUS
<1>1. q.phase = "sent" /\ q.route = route /\ q.arg = arg /\ q.session = cookie
  OBVIOUS
<1>2. req'[r] = q
  BY DEF Start, IInv, TypeOK
<1>3. x = r
  BY <1>1, <1>2 DEF OneAtATime
<1>4. InFlight(q)'
  BY <1>1 DEF InFlight
<1> QED BY <1>2, <1>3, <1>4 DEF InFlight

\* The browser moves on with login i, which has its client and is past Keycloak.
LEMMA MovesOn ==
  ASSUME IInv, SerialInv, NEW i \in Login, NEW at \in {"return", "cancelled", "spent"},
         auth[i].at \notin {"new", "redirect"},
         auth' = [auth EXCEPT ![i].at = at], UNCHANGED <<cookie, held>>,
         \A j \in Login \ {i} : kc'[j] = kc[j],
         kc'[i] = kc[i] \/ auth[i].at = "login"
  PROVE  History'
<1>1. auth \in AuthType
  BY DEF IInv, TypeOK, AuthType
<1>2. /\ auth'[i].at = at /\ auth'[i].client = auth[i].client
      /\ \A j \in Login \ {i} : auth'[j] = auth[j]
  BY <1>1 DEF AuthType
<1>3. auth[i].client # None
  BY DEF SerialInv, History
<1>4. auth[i].at = "login" => i \notin held
  BY DEF SerialInv, History, Obtained
<1>5. TokenIds(cookie)' \subseteq held' /\ (\A j \in held' : kc'[j] \in Obtained)
  BY <1>4 DEF SerialInv, History, TokenIds, IInv, TypeOK
<1>6. ASSUME NEW j \in Login
      PROVE  /\ auth'[j].client = None => auth'[j].at = "new" /\ kc'[j] = "none"
             /\ auth'[j].at \in {"redirect", "login"} => kc'[j] = "none"
  BY <1>2, <1>3 DEF SerialInv, History
<1> QED BY <1>5, <1>6 DEF History

\* Send and SendCallback.
LEMMA SendsInFlight ==
  ASSUME IInv, SerialInv, OneAtATime', NEW r \in Req,
         Send(r) \/ (\E i \in Login : SendCallback(r, i))
  PROVE  SerialInv'
<1>1. CASE Send(r)
  <2> PICK route \in Route \ {"auth_callback", "auth_error"} : Start(r, route, None)
    BY <1>1 DEF Send
  <2>1. UNCHANGED <<cookie, auth, kc, held>>
    BY <1>1 DEF Send
  <2>2. History'
    BY <2>1 DEF SerialInv, History
  <2> QED BY <2>1, <2>2, SendInFlight DEF CallbackRoute
<1>2. ASSUME NEW i \in Login, SendCallback(r, i) PROVE SerialInv'
  <2>1. /\ auth[i].at \in {"return", "cancelled"} /\ UNCHANGED <<cookie, kc, held>>
        /\ auth' = [auth EXCEPT ![i].at = "spent"]
        /\ Start(r, "auth_callback", i) \/ Start(r, "auth_error", i)
    BY <1>2 DEF SendCallback
  <2>2. History'
    BY <2>1, MovesOn
  <2>3. auth'[i].at = "spent"
    BY <2>1 DEF IInv, TypeOK
  <2> QED BY <2>1, <2>2, <2>3, SendInFlight
<1> QED BY <1>1, <1>2

\* Lose: the callback's URL can be reloaded.
LEMMA LoseInFlight ==
  ASSUME IInv, OneAtATime, SerialInv, NEW r \in Req, Lose(r)
  PROVE  SerialInv'
<1>1. /\ req[r].phase # "idle" /\ UNCHANGED <<cookie, kc, held>>
      /\ req' = [req EXCEPT ![r] = Idle] /\ Idle.phase = "idle"
  BY DEF Lose, Idle
<1>2. InFlight(req[r])
  BY <1>1 DEF SerialInv
<1>3. History'
  <2>1. CASE req[r].route \in CallbackRoute
    <3>1. req[r].arg \in Login /\ auth[req[r].arg].at = "spent"
      BY <1>2, <2>1 DEF InFlight
    <3> PICK i \in Login : i = req[r].arg
      BY <3>1
    <3>2. \E at \in {"return", "cancelled"} : auth' = [auth EXCEPT ![i].at = at]
      BY <2>1 DEF Lose, CallbackRoute
    <3> QED BY <1>1, <3>1, <3>2, MovesOn
  <2>2. CASE req[r].route \notin CallbackRoute
    <3>1. auth' = auth
      BY <2>2 DEF Lose, CallbackRoute
    <3> QED BY <1>1, <3>1 DEF SerialInv, History
  <2> QED BY <2>1, <2>2
<1> QED BY <1>1, <1>3, OneRequest DEF IInv

\* Receive: the cookie becomes the session of the answer.
LEMMA ReceiveInFlight ==
  ASSUME IInv, OneAtATime, SerialInv, NEW r \in Req, Receive(r)
  PROVE  SerialInv'
<1>1. /\ req[r].phase = "answered" /\ req' = [req EXCEPT ![r] = Idle] /\ Idle.phase = "idle"
      /\ held' = held \cup TokenIds(cookie') /\ kc' = kc
  BY DEF Receive, Idle
<1>2. InFlight(req[r]) /\ req[r].session \in Session
  BY <1>1, CopyOK DEF SerialInv
<1>3. \A j \in TokenIds(cookie') : kc[j] \in Obtained
  <2>1. CASE ~ req[r].save
    BY <2>1 DEF Receive, SerialInv, History
  <2>2. CASE req[r].save
    <3> PICK s \in Session : s = req[r].session
      BY <1>2
    <3>1. cookie' = s /\ cookie \in Session
      BY <2>2 DEF Receive, IInv, TypeOK
    <3>2. \/ LoginOf(s) \in {LoginOf(cookie), None}
          \/ kc[LoginOf(s)] \in Obtained
      BY <1>1, <1>2, <2>2
      DEF InFlight, Begins, Operation, Stays, Aborts, Completes, GrantsLogin, Obtains
    <3>3. TokenIds(s) \subseteq {LoginOf(s)} \ {None}
      BY LoginOfType, NoneAssumption
    <3>4. LoginOf(cookie) # None => LoginOf(cookie) \in TokenIds(cookie)
      BY <3>1, LoginOfType
    <3> QED BY <3>1, <3>2, <3>3, <3>4 DEF SerialInv, History
  <2> QED BY <2>1, <2>2
<1>4. TokenIds(cookie)' \subseteq held' /\ (\A j \in held' : kc'[j] \in Obtained)
  BY <1>1, <1>3 DEF SerialInv, History, TokenIds
<1>5. ASSUME NEW j \in Login
      PROVE  /\ auth'[j].client = None => auth'[j].at = "new" /\ kc'[j] = "none"
             /\ auth'[j].at \in {"redirect", "login"} => kc'[j] = "none"
  <2>1. CASE req[r].route \in StartRoute
    <3>1. req[r].arg \in Login /\ auth[req[r].arg].at = "redirect"
      BY <1>1, <1>2, <2>1 DEF InFlight, Begins
    <3> PICK i \in Login : i = req[r].arg
      BY <3>1
    <3>2. auth \in AuthType /\ auth' = [auth EXCEPT ![i].at = "login"]
      BY <2>1 DEF Receive, StartRoute, IInv, TypeOK, AuthType
    <3>3. /\ auth'[i].client = auth[i].client /\ (j # i => auth'[j] = auth[j])
      BY <3>2 DEF AuthType
    <3>4. auth[i].client # None /\ kc[i] = "none"
      BY <3>1 DEF SerialInv, History
    <3> QED BY <1>1, <3>3, <3>4 DEF SerialInv, History
  <2>2. CASE req[r].route \notin StartRoute
    <3>1. auth' = auth
      BY <2>2 DEF Receive, StartRoute
    <3> QED BY <1>1, <3>1 DEF SerialInv, History
  <2> QED BY <2>1, <2>2
<1>6. History'
  BY <1>4, <1>5 DEF History
<1> QED BY <1>1, <1>6, OneRequest DEF IInv

\* What an answer holds stays an operation while Keycloak moves on: it takes
\* no login back, and a login that the browser comes back with is not at "new".
LEMMA AnswersKept ==
  ASSUME UNCHANGED <<cookie, req, held>>, SerialInv, History',
         \A j \in Login : kc[j] \in Obtained => kc'[j] \in Obtained,
         \A j \in Login : auth[j].at \in {"new", "redirect", "spent"} => auth'[j] = auth[j]
  PROVE  SerialInv'
<1> SUFFICES ASSUME NEW x \in Req, req[x].phase # "idle" PROVE InFlight(req[x])'
  BY DEF SerialInv
<1> PICK q : q = req[x]
  OBVIOUS
<1>1. InFlight(q) /\ req'[x] = q
  BY DEF SerialInv
<1>2. ASSUME Begins(q) PROVE Begins(q)'
  BY <1>2 DEF Begins, LoginOf
<1>3. ASSUME Operation(q.session) PROVE Operation(q.session)'
  <2> PICK s : s = q.session
    OBVIOUS
  <2>1. LoginOf(s)' = LoginOf(s) /\ LoginOf(cookie)' = LoginOf(cookie)
    BY DEF LoginOf
  <2>2. Obtains(s) => Obtains(s)'
    BY <2>1 DEF Obtains
  <2>3. CASE Stays(s) \/ Aborts(s)
    BY <2>1, <2>3 DEF Operation, Stays, Aborts
  <2>4. CASE Completes(s)
    BY <2>1, <2>2, <2>4 DEF Operation, Completes
  <2>5. CASE GrantsLogin(s)
    BY <2>1, <2>2, <2>5 DEF Operation, GrantsLogin, Obtains
  <2> QED BY <1>3, <2>3, <2>4, <2>5 DEF Operation
<1>4. InFlight(q)'
  BY <1>1, <1>2, <1>3 DEF InFlight
<1> QED BY <1>1, <1>4 DEF InFlight

\* Authenticate and EndSession.
LEMMA KeycloakInFlight ==
  ASSUME IInv, SerialInv, NEW i \in Login, Authenticate(i) \/ EndSession(i)
  PROVE  SerialInv'
<1>1. UNCHANGED <<cookie, req, held>>
  BY DEF Authenticate, EndSession
<1>2. CASE Authenticate(i)
  <2>1. \E at \in {"return", "cancelled"} : auth' = [auth EXCEPT ![i].at = at]
    BY <1>2 DEF Authenticate
  <2>2. auth[i].at = "login" /\ (\A j \in Login \ {i} : kc'[j] = kc[j])
    BY <1>2 DEF Authenticate, IInv, TypeOK
  <2>3. History'
    BY <1>1, <2>1, <2>2, MovesOn
  <2>4. kc[i] = "none"
    BY <2>2 DEF SerialInv, History
  <2>5. \A j \in Login : auth[j].at \in {"new", "redirect", "spent"} => auth'[j] = auth[j]
    BY <2>1, <2>2 DEF IInv, TypeOK
  <2> QED BY <1>1, <2>2, <2>3, <2>4, <2>5, AnswersKept DEF Obtained
<1>3. CASE EndSession(i)
  <2>1. /\ auth' = auth /\ kc[i] = "live" /\ kc'[i] = "ended"
        /\ \A j \in Login \ {i} : kc'[j] = kc[j]
    BY <1>3 DEF EndSession, IInv, TypeOK
  <2>2. \A j \in Login : kc[j] \in Obtained => kc'[j] \in Obtained
    BY <2>1 DEF Obtained
  <2>3. \A j \in Login : kc[j] = "none" => kc'[j] = "none"
    BY <2>1
  <2>4. TokenIds(cookie)' \subseteq held' /\ (\A j \in held' : kc'[j] \in Obtained)
    BY <1>1, <2>2 DEF SerialInv, History, TokenIds, IInv, TypeOK
  <2>5. History'
    BY <2>1, <2>3, <2>4 DEF SerialInv, History
  <2> QED BY <1>1, <2>1, <2>2, <2>5, AnswersKept
<1> QED BY <1>2, <1>3

-----------------------------------------------------------------------------
(* The invariant holds initially, and with one request at a time every step *)
(* keeps it.                                                               *)

LEMMA SerialInit == Init => SerialInv
<1> SUFFICES ASSUME Init PROVE SerialInv
  OBVIOUS
<1>1. TokenIds(cookie) = {}
  BY DEF Init, NoSession, TokenIds
<1>2. \A r \in Req : req[r].phase = "idle"
  BY DEF Init, Idle
<1>3. History
  BY <1>1 DEF Init, History
<1> QED BY <1>2, <1>3 DEF SerialInv

LEMMA SerialNext == IInv /\ OneAtATime /\ OneAtATime' /\ SerialInv /\ [Next]_vars => SerialInv'
<1> SUFFICES ASSUME IInv, OneAtATime, OneAtATime', SerialInv, [Next]_vars PROVE SerialInv'
  OBVIOUS
<1>1. CASE UNCHANGED vars
  <2>1. UNCHANGED <<cookie, req, auth, kc, held>>
    BY <1>1 DEF vars
  <2>2. History'
    BY <2>1 DEF SerialInv, History
  <2> QED BY <2>1, <2>2, AnswersKept
<1>2. ASSUME NEW r \in Req, Handle(r) PROVE SerialInv'
  BY <1>2, StartHandlers, CallbackHandler, GrantHandlers, PlainHandlers DEF Handle
<1>3. CASE Next
  BY <1>2, <1>3, SendsInFlight, ReceiveInFlight, LoseInFlight, KeycloakInFlight DEF Next
<1> QED BY <1>1, <1>3

-----------------------------------------------------------------------------
(* Every step is a step of the server-side session, or a stutter.          *)

\* The abstract state, in the words of the instance.
LEMMA Abstractly ==
  /\ ServerSide!vars = <<LoginOf(cookie), cookie.oauth_state, Begun, held>>
  /\ ServerSide!vars' = <<LoginOf(cookie)', cookie'.oauth_state, Begun', held'>>
BY DEF ServerSide!vars, LoginOf, Begun

\* Until a response comes the abstract session stands still.
LEMMA Stutters ==
  ASSUME UNCHANGED <<cookie, held>>,
         \A i \in Login : auth'[i].at \in {"new", "redirect"} <=> auth[i].at \in {"new", "redirect"}
  PROVE  UNCHANGED ServerSide!vars
<1>1. Begun' = Begun
  BY DEF Begun
<1>2. LoginOf(cookie)' = LoginOf(cookie)
  BY DEF LoginOf
<1> QED BY <1>1, <1>2, Abstractly

\* A handler answers: at most a fresh login is given to a client.
LEMMA HandlersStutter ==
  ASSUME IInv, SerialInv, NEW r \in Req, Handle(r)
  PROVE  UNCHANGED ServerSide!vars
<1>1. auth \in AuthType
  BY DEF IInv, TypeOK, AuthType
<1>2. UNCHANGED <<cookie, held>>
  BY DEF Handle, StartAuthCode, PkceFlow, AuthCallback, AuthError, PkceResult, PasswordGrant,
         ClientCredentials, RefreshToken, Logout, DeviceFlow, DevicePoll, Gated, Page
<1>3. \/ auth' = auth
      \/ \E i \in Fresh, client \in Client :
           \/ auth' = [auth EXCEPT ![i] = [client |-> client, at |-> "redirect"]]
           \/ auth' = [auth EXCEPT ![i].client = client]
  BY DEF Handle, StartAuthCode, PkceFlow, AuthCallback, AuthError, PkceResult, PasswordGrant,
         ClientCredentials, RefreshToken, Logout, DeviceFlow, DevicePoll, Gated, Page,
         DirectGrant, Client
<1>4. ASSUME NEW i \in Fresh, NEW client \in Client,
             \/ auth' = [auth EXCEPT ![i] = [client |-> client, at |-> "redirect"]]
             \/ auth' = [auth EXCEPT ![i].client = client]
      PROVE  UNCHANGED ServerSide!vars
  <2>1. i \in Login /\ auth[i].at = "new"
    BY FreshIsNew
  <2>2. auth'[i].at \in {"new", "redirect"} /\ (\A j \in Login \ {i} : auth'[j] = auth[j])
    BY <1>1, <1>4, <2>1 DEF AuthType
  <2>3. \A j \in Login : auth'[j].at \in {"new", "redirect"} <=> auth[j].at \in {"new", "redirect"}
    BY <2>1, <2>2
  <2> QED BY <1>2, <2>3, Stutters
<1>5. CASE auth' = auth
  BY <1>2, <1>5, Stutters
<1> QED BY <1>3, <1>4, <1>5

\* The browser sends or loses a request, and Keycloak moves on: the logins
\* whose place changes have begun, and still have.
LEMMA OthersStutter ==
  ASSUME IInv, SerialInv,
         \/ \E r \in Req : Send(r) \/ Lose(r)
         \/ \E r \in Req, i \in Login : SendCallback(r, i)
         \/ \E i \in Login : Authenticate(i) \/ EndSession(i)
  PROVE  UNCHANGED ServerSide!vars
<1>1. auth \in AuthType
  BY DEF IInv, TypeOK, AuthType
<1>2. UNCHANGED <<cookie, held>>
  BY DEF Send, Lose, SendCallback, Authenticate, EndSession
<1>3. \/ auth' = auth
      \/ \E i \in Login, at \in {"return", "cancelled", "spent"} :
           auth[i].at \notin {"new", "redirect"} /\ auth' = [auth EXCEPT ![i].at = at]
  <2>1. CASE \E r \in Req : Lose(r)
    <3> PICK r \in Req : Lose(r)
      BY <2>1
    <3>1. CASE req[r].route \in CallbackRoute
      <4>1. req[r].arg \in Login /\ auth[req[r].arg].at = "spent"
        BY <3>1 DEF Lose, SerialInv, InFlight
      <4> QED BY <3>1, <4>1 DEF Lose, CallbackRoute
    <3>2. CASE req[r].route \notin CallbackRoute
      BY <3>2 DEF Lose, CallbackRoute
    <3> QED BY <3>1, <3>2
  <2>2. CASE \E r \in Req, i \in Login : SendCallback(r, i)
    BY <2>2 DEF SendCallback
  <2>3. CASE \E i \in Login : Authenticate(i) \/ EndSession(i)
    BY <2>3 DEF Authenticate, EndSession
  <2>4. CASE \E r \in Req : Send(r)
    BY <2>4 DEF Send
  <2> QED BY <2>1, <2>2, <2>3, <2>4
<1>4. ASSUME NEW i \in Login, NEW at \in {"return", "cancelled", "spent"},
             auth[i].at \notin {"new", "redirect"}, auth' = [auth EXCEPT ![i].at = at]
      PROVE  UNCHANGED ServerSide!vars
  <2>1. auth'[i].at = at /\ (\A j \in Login \ {i} : auth'[j] = auth[j])
    BY <1>1, <1>4 DEF AuthType
  <2>2. \A j \in Login : auth'[j].at \in {"new", "redirect"} <=> auth[j].at \in {"new", "redirect"}
    BY <1>4, <2>1
  <2> QED BY <1>2, <2>2, Stutters
<1>5. CASE auth' = auth
  BY <1>2, <1>5, Stutters
<1> QED BY <1>3, <1>4, <1>5

\* The answer of a start route sends the browser off: the request has begun.
LEMMA StartReceived ==
  ASSUME IInv, SerialInv, NEW r \in Req, Receive(r), req[r].route \in StartRoute
  PROVE  \E i \in Login : ServerSide!Begin(i)
<1>1. req[r].phase = "answered" /\ Begins(req[r])
  BY DEF Receive, SerialInv, InFlight
<1> PICK q : q = req[r]
  OBVIOUS
<1> PICK i \in Login : i = q.arg
  BY <1>1 DEF Begins
<1>2. /\ auth[i].at = "redirect" /\ auth' = [auth EXCEPT ![i].at = "login"]
      /\ cookie' = q.session /\ held' = held \cup TokenIds(cookie')
  BY <1>1 DEF Begins, Receive, StartRoute
<1>3. auth'[i].at = "login" /\ (\A j \in Login \ {i} : auth'[j] = auth[j])
  BY <1>2 DEF IInv, TypeOK
<1>4. i \notin Begun /\ Begun' = Begun \cup {i}
  BY <1>2, <1>3 DEF Begun
<1>5. cookie'.oauth_state = i /\ LoginOf(cookie)' = LoginOf(cookie)
  BY <1>1, <1>2 DEF Begins, LoginOf
<1>6. held' = held
  <2>1. cookie \in Session /\ q.session \in Session
    BY CopyOK DEF IInv, TypeOK
  <2>2. TokenIds(q.session) = TokenIds(cookie)
    BY <1>1, <2>1, LoginOfType DEF Begins
  <2> QED BY <1>2, <2>2 DEF SerialInv, History
<1> QED BY <1>4, <1>5, <1>6 DEF ServerSide!Begin, LoginOf, Begun

\* Any other answer is the operation it was found to be.
LEMMA AnswerReceived ==
  ASSUME IInv, SerialInv, NEW r \in Req, Receive(r), req[r].route \notin StartRoute
  PROVE  [ServerSide!Next]_(ServerSide!vars)
<1>1. req[r].phase = "answered" /\ (req[r].save => Operation(req[r].session))
  BY DEF Receive, SerialInv, InFlight
<1>2. auth' = auth /\ Begun' = Begun
  BY DEF Receive, StartRoute, Begun
<1>3. held' = held \cup TokenIds(cookie') /\ cookie \in Session
  BY DEF Receive, IInv, TypeOK
<1>4. CASE ~ req[r].save
  <2>1. cookie' = cookie /\ held' = held
    BY <1>4 DEF Receive, SerialInv, History
  <2> QED BY <1>2, <2>1, Stutters
<1>5. CASE req[r].save
  <2> PICK s \in Session : s = req[r].session
    BY CopyOK
  <2>1. cookie' = s /\ Operation(s)
    BY <1>1, <1>5 DEF Receive
  <2>2. LoginOf(cookie)' = LoginOf(s)
    BY <2>1 DEF LoginOf
  <2>3. held' = held \cup (IF LoginOf(s) = None THEN {} ELSE {LoginOf(s)})
    BY <1>3, <2>1, LoginOfType
  <2>4. LoginOf(cookie) # None => LoginOf(cookie) \in held
    BY <1>3, LoginOfType DEF SerialInv, History
  <2>5. CASE Stays(s)
    <3>1. cookie'.oauth_state = cookie.oauth_state /\ held' = held
      BY <2>1, <2>3, <2>4, <2>5 DEF Stays
    <3>2. CASE LoginOf(s) = LoginOf(cookie)
      BY <1>2, <2>2, <3>1, <3>2, Abstractly
    <3>3. CASE LoginOf(s) = None
      <4>1. ServerSide!Drop
        BY <1>2, <2>2, <3>1, <3>3 DEF ServerSide!Drop, LoginOf, Begun
      <4> QED BY <4>1 DEF ServerSide!Next
    <3> QED BY <2>5, <3>2, <3>3 DEF Stays
  <2>6. CASE Aborts(s)
    <3>1. cookie'.oauth_state = None /\ held' = held
      BY <2>1, <2>3, <2>4, <2>6 DEF Aborts
    <3>2. ServerSide!Abort
      BY <1>2, <2>2, <2>6, <3>1 DEF ServerSide!Abort, Aborts, LoginOf, Begun
    <3> QED BY <3>2 DEF ServerSide!Next
  <2>7. ASSUME Obtains(s) PROVE LoginOf(s) \in Login \ held /\ held' = held \cup {LoginOf(s)}
    BY <2>3, <2>7, NoneAssumption DEF Obtains
  <2> PICK i : i = LoginOf(s)
    OBVIOUS
  <2>8. CASE Completes(s)
    <3>1. i \in Login /\ ServerSide!Complete(i)
      BY <1>2, <2>1, <2>2, <2>7, <2>8 DEF ServerSide!Complete, Completes, LoginOf, Begun
    <3> QED BY <3>1 DEF ServerSide!Next
  <2>9. CASE GrantsLogin(s)
    <3>1. i \notin Begun
      BY <2>9 DEF GrantsLogin, Begun
    <3>2. i \in Login /\ ServerSide!DirectLogin(i)
      BY <1>2, <2>1, <2>2, <2>7, <2>9, <3>1
      DEF ServerSide!DirectLogin, GrantsLogin, LoginOf, Begun
    <3> QED BY <3>2 DEF ServerSide!Next
  <2> QED BY <2>1, <2>5, <2>6, <2>8, <2>9 DEF Operation
<1> QED BY <1>4, <1>5

\* Every step.
LEMMA StepSimulation ==
  IInv /\ SerialInv /\ [Next]_vars => [ServerSide!Next]_(ServerSide!vars)
<1> SUFFICES ASSUME IInv, SerialInv, [Next]_vars PROVE [ServerSide!Next]_(ServerSide!vars)
  OBVIOUS
<1>1. CASE UNCHANGED vars
  BY <1>1, Stutters DEF vars
<1>2. ASSUME NEW r \in Req, Receive(r) PROVE [ServerSide!Next]_(ServerSide!vars)
  <2>1. CASE req[r].route \in StartRoute
    BY <1>2, <2>1, StartReceived DEF ServerSide!Next
  <2> QED BY <1>2, <2>1, AnswerReceived
<1>3. CASE Next
  BY <1>2, <1>3, HandlersStutter, OthersStutter DEF Next
<1> QED BY <1>1, <1>3

\* The session starts as the abstract one does.
LEMMA InitSimulation == Init => ServerSide!Init
BY DEF Init, NoSession, ServerSide!Init

-----------------------------------------------------------------------------
(* Theorems.                                                               *)

(***************************************************************************)
(* The session cookie is as good as the server-side session that           *)
(* docs/architecture.md describes in every behaviour in which the browser  *)
(* has at most one request in flight: each response the browser takes over *)
(* is one operation of that session, and nothing else changes it.          *)
(***************************************************************************)
THEOREM SerialIsServerSide == Spec /\ []OneAtATime => ServerSideSpec
<1>1. Init => ServerSide!Init /\ SerialInv
  BY InitSimulation, SerialInit
<1> QED
  BY <1>1, SerialNext, StepSimulation, Invariance, PTL
  DEF Spec, ServerSideSpec, ServerSide!Spec

(***************************************************************************)
(* A client that makes one request after the other (one tab, no AJAX) has  *)
(* the server-side session: the instance with a single request slot.       *)
(***************************************************************************)
THEOREM OneSlotIsServerSide ==
  ASSUME \A r, x \in Req : r = x
  PROVE  Spec => ServerSideSpec
<1>1. OneAtATime
  BY DEF OneAtATime
<1>2. []OneAtATime
  BY <1>1, PTL
<1> QED BY <1>2, SerialIsServerSide, PTL

(***************************************************************************)
(* So it takes overlapping responses to bring a login back that has left    *)
(* the session (logout, a refused refresh): the server-side session only    *)
(* gains logins it has never held.                                         *)
(***************************************************************************)
THEOREM SerialNoResurrection == Spec /\ []OneAtATime => NoResurrection
<1> DEFINE A == TokenIds(cookie') \ TokenIds(cookie) \subseteq Login \ held
<1>1. IInv /\ IInv' /\ SerialInv /\ [Next]_vars => [A]_vars
  <2> SUFFICES ASSUME IInv, IInv', SerialInv, [Next]_vars PROVE A
    OBVIOUS
  <2>1. [ServerSide!Next]_(ServerSide!vars)
    BY StepSimulation
  <2>2. \/ LoginOf(cookie)' \in {LoginOf(cookie), None}
        \/ LoginOf(cookie)' \in Login \ held
    BY <2>1, Abstractly
    DEF ServerSide!Next, ServerSide!Begin, ServerSide!Complete, ServerSide!DirectLogin,
        ServerSide!Abort, ServerSide!Drop, LoginOf
  <2> PICK s, t : s = cookie /\ t = cookie'
    OBVIOUS
  <2>3. s \in Session /\ t \in Session /\ LoginOf(cookie)' = LoginOf(t)
    BY DEF IInv, TypeOK, LoginOf
  <2>4. TokenIds(t) \ TokenIds(s) \subseteq Login \ held
    BY <2>2, <2>3, LoginOfType
  <2> QED BY <2>4
<1>2. Init => SerialInv
  BY SerialInit
<1> QED
  BY <1>1, <1>2, SerialNext, Invariance, PTL DEF Spec, NoResurrection

=============================================================================
