------------------------ MODULE ClientSessionProofs ------------------------
(***************************************************************************)
(* Proofs about ClientSession, for any number of overlapping requests and  *)
(* any number of logins: type correctness, the three invariants on every   *)
(* copy of the session, and that the callback never voids a PKCE code.     *)
(***************************************************************************)
EXTENDS ClientSession, TLAPS

(***************************************************************************)
(* The inductive invariant says of each copy s of the session, with a the  *)
(* clients of the logins: its two PKCE keys come and go together, a state  *)
(* it expects belongs to a request that was made, a PKCE state comes with  *)
(* its own verifier, and a token's labels are true.                        *)
(***************************************************************************)
TokenLabelled(td, a) ==
  /\ td.azp = a[td.id].client
  /\ td.flow = "pkce" <=> td.azp = "pkce-client"
  /\ td.flow = "client_credentials" <=> td.azp = "service-client"

Consistent(s, a) ==
  /\ s.pkce_flow = TRUE <=> s.pkce_verifier # None
  /\ s.oauth_state # None => a[s.oauth_state].client # None
  /\ s.oauth_state # None /\ a[s.oauth_state].client = "pkce-client"
       => s.pkce_verifier = s.oauth_state
  /\ s.token_data # None => TokenLabelled(s.token_data, a)
  /\ s.pkce_result # None /\ s.token_data # None
       => (s.token_data.flow = "pkce" /\ ~ s.token_data.refreshed
            => s.pkce_result = s.token_data.id)

\* A callback request carries the state of an authorization request.
ArgOK(q) == q.route = "auth_callback" => q.arg \in Login

IInv == /\ TypeOK
        /\ \A r \in Req : ArgOK(req[r])
        /\ \A s \in Sessions : Consistent(s, auth)

\* The actions that leave auth's clients alone, or name a fresh login's client.
ClientsKept == \A i \in Login : auth[i].client # None => auth'[i].client = auth[i].client

AuthType == [Login -> [client : Client \cup {None},
                       at : {"new", "redirect", "login", "return",
                             "cancelled", "spent"}]]

-----------------------------------------------------------------------------
(* A copy of the session stays consistent while clients are only added.    *)
LEMMA ConsistentKept ==
  ASSUME NEW s \in Session, Consistent(s, auth), ClientsKept,
         auth \in AuthType, auth' \in AuthType
  PROVE  Consistent(s, auth')
<1>1. s.oauth_state # None => s.oauth_state \in Login
  BY DEF Session
<1>2. s.token_data # None => s.token_data \in Token /\ s.token_data.id \in Login
                             /\ s.token_data.azp \in Client
  BY DEF Session, Token
<1> QED BY <1>1, <1>2, NoneAssumption
        DEF Consistent, TokenLabelled, ClientsKept, AuthType

\* Keycloak's table is well typed.
KcType == [Login -> {"none", "code", "live", "ended"}]

(***************************************************************************)
(* A step that replaces the record of one request by a well-typed one with *)
(* a consistent session, and only adds clients, preserves the invariant.   *)
(***************************************************************************)
LEMMA RequestStep ==
  ASSUME IInv, NEW r \in Req, NEW q \in Request,
         req' = [req EXCEPT ![r] = q], Consistent(q.session, auth'), ArgOK(q),
         ClientsKept, auth' \in AuthType, kc' \in KcType,
         cookie' = cookie, held' = held
  PROVE  IInv'
<1>1. TypeOK'
  BY DEF IInv, TypeOK, AuthType, KcType
<1>2. ASSUME NEW s \in Sessions' PROVE Consistent(s, auth')
  <2>1. CASE s = q.session
    BY <2>1
  <2>2. CASE s # q.session
    <3>1. s \in Sessions
      BY <1>2, <2>2 DEF Sessions, IInv, TypeOK
    <3>2. s \in Session /\ auth \in AuthType
      BY <3>1 DEF Sessions, IInv, TypeOK, AuthType, Request
    <3> QED BY <3>1, <3>2, ConsistentKept DEF IInv
  <2> QED BY <2>1, <2>2
<1>3. \A x \in Req : ArgOK(req'[x])
  BY DEF IInv, TypeOK
<1> QED BY <1>1, <1>2, <1>3 DEF IInv

\* A handler's answer is a well-typed request that keeps route and argument.
LEMMA AnswerOK ==
  ASSUME NEW p \in Request, NEW s \in Session, NEW save \in BOOLEAN
  PROVE  LET q == Answered(p, s, save)
         IN  q \in Request /\ q.session = s /\ q.route = p.route /\ q.arg = p.arg
<1> DEFINE q == Answered(p, s, save)
<1>1. q.session = s /\ q.route = p.route /\ q.arg = p.arg
  BY DEF Answered, Request
<1>2. CASE save = TRUE
  BY <1>2 DEF Answered, Request
<1>3. CASE save = FALSE
  BY <1>3 DEF Answered, Request
<1> QED BY <1>1, <1>2, <1>3

\* A handler that saves a consistent session keeps the invariant.
LEMMA SaveStep ==
  ASSUME IInv, NEW r \in Req, NEW s \in Session, Save(r, s),
         Consistent(s, auth'), ClientsKept, auth' \in AuthType, kc' \in KcType,
         cookie' = cookie, held' = held
  PROVE  IInv'
<1> DEFINE q == Answered(req[r], s, TRUE)
<1>0. req[r] \in Request /\ ArgOK(req[r])
  BY DEF IInv, TypeOK
<1>1. q \in Request /\ q.session = s /\ ArgOK(q)
  BY <1>0, AnswerOK DEF ArgOK
<1>2. req' = [req EXCEPT ![r] = q]
  BY DEF Save, IInv, TypeOK, Request
<1> HIDE DEF q
<1> QED BY <1>1, <1>2, RequestStep

\* The empty session is well typed and consistent.
LEMMA NoSessionOK == NoSession \in Session /\ \A a : Consistent(NoSession, a)
BY NoneAssumption DEF NoSession, Session, Consistent

\* Leaving the authorization requests alone keeps every client.
LEMMA Unchanged ==
  ASSUME TypeOK, auth' = auth
  PROVE  ClientsKept /\ auth' \in AuthType
BY DEF ClientsKept, TypeOK, AuthType

\* A handler that leaves the session alone keeps the invariant.
LEMMA NoSaveStep ==
  ASSUME IInv, NEW r \in Req, NoSave(r), auth' = auth, kc' \in KcType,
         cookie' = cookie, held' = held
  PROVE  IInv'
<1> DEFINE q == Answered(req[r], NoSession, FALSE)
<1>0. req[r] \in Request /\ ArgOK(req[r])
  BY DEF IInv, TypeOK
<1>1. q \in Request /\ q.session = NoSession /\ ArgOK(q)
  BY <1>0, NoSessionOK, AnswerOK DEF ArgOK
<1>2. req' = [req EXCEPT ![r] = q]
  BY DEF NoSave, IInv, TypeOK, Request
<1>3. ClientsKept /\ auth' \in AuthType
  BY Unchanged DEF IInv
<1> HIDE DEF q
<1> QED BY <1>1, <1>2, <1>3, RequestStep, NoSessionOK

(***************************************************************************)
(* What a handler starts from: a well-typed, consistent copy.              *)
(***************************************************************************)
LEMMA CopyOK ==
  ASSUME IInv, NEW r \in Req
  PROVE  req[r].session \in Session /\ Consistent(req[r].session, auth)
BY DEF IInv, TypeOK, Sessions, Request

-----------------------------------------------------------------------------
(* What the handlers make of a copy of the session.                        *)

\* flash() keeps a session consistent.
LEMMA FlashOK ==
  ASSUME NEW s \in Session, NEW a, Consistent(s, a)
  PROVE  Flash(s) \in Session /\ Consistent(Flash(s), a)
BY DEF Flash, Session, Consistent

\* The callback's pops keep a session consistent.
LEMMA PopPkceOK ==
  ASSUME NEW s \in Session, NEW a, Consistent(s, a)
  PROVE  PopPkce(s) \in Session /\ Consistent(PopPkce(s), a)
BY DEF PopPkce, Session, Consistent

\* Dropping the tokens keeps a session consistent.
LEMMA DropTokenOK ==
  ASSUME NEW s \in Session, NEW a, Consistent(s, a)
  PROVE  /\ [s EXCEPT !.token_data = None] \in Session
         /\ Consistent([s EXCEPT !.token_data = None], a)
BY DEF Session, Consistent

\* Storing tokens with true labels keeps a session consistent.
LEMMA StoreTokensOK ==
  ASSUME NEW s \in Session, NEW a, Consistent(s, a),
         NEW i \in Login, NEW client \in Client, NEW flow \in Flow,
         NEW refreshed \in BOOLEAN,
         a[i].client = client,
         flow = "pkce" <=> client = "pkce-client",
         flow = "client_credentials" <=> client = "service-client",
         flow = "pkce" => refreshed
  PROVE  /\ StoreTokens(s, i, client, flow, refreshed) \in Session
         /\ Consistent(StoreTokens(s, i, client, flow, refreshed), a)
<1> DEFINE td == [id |-> i, azp |-> client, flow |-> flow, refreshed |-> refreshed]
           t  == StoreTokens(s, i, client, flow, refreshed)
<1>1. td \in Token /\ TokenLabelled(td, a)
  BY DEF Token, TokenLabelled
<1>2. t = [s EXCEPT !.token_data = td]
  BY DEF StoreTokens
<1>3. td.flow = "pkce" => td.refreshed
  OBVIOUS
<1> HIDE DEF td
<1>4. /\ t \in Session /\ t.token_data = td
      /\ t.pkce_flow = s.pkce_flow /\ t.pkce_verifier = s.pkce_verifier
      /\ t.oauth_state = s.oauth_state
  BY <1>1, <1>2 DEF Session
<1> QED BY <1>1, <1>3, <1>4 DEF Consistent

(***************************************************************************)
(* The callback's own tokens: accepted as login i's, hence labelled with   *)
(* the client of i; and PKCE details are stored with the tokens they       *)
(* belong to.                                                              *)
(***************************************************************************)
LEMMA CallbackTokensOK ==
  ASSUME NEW s \in Session, NEW i \in Login, Consistent(s, auth),
         CodeAccepted(i, s)
  PROVE  CallbackTokens(s, i) \in Session /\ Consistent(CallbackTokens(s, i), auth)
<1> DEFINE p    == PopPkce(s)
           flow == IF s.pkce_flow THEN "pkce" ELSE "authorization_code"
           td   == [id |-> i, azp |-> RedeemAs(s), flow |-> flow, refreshed |-> FALSE]
           t    == StoreTokens(p, i, RedeemAs(s), flow, FALSE)
<1>1. p \in Session /\ Consistent(p, auth) /\ p.oauth_state = None
      /\ p.pkce_flow = FALSE /\ p.pkce_verifier = None
  BY PopPkceOK DEF PopPkce, Session
<1>2. s.pkce_flow \in BOOLEAN /\ (s.pkce_flow <=> s.pkce_verifier # None)
  BY DEF Session, Consistent
<1>3. RedeemAs(s) = IF s.pkce_flow THEN "pkce-client" ELSE "demo-client"
  BY <1>2 DEF RedeemAs
<1>4. td \in Token /\ TokenLabelled(td, auth)
  BY <1>2, <1>3 DEF Token, TokenLabelled, CodeAccepted, Client, Flow
<1>5. t = [p EXCEPT !.token_data = td]
  BY DEF StoreTokens
<1>6. td.id = i /\ ~ td.refreshed /\ (td.flow = "pkce" <=> s.pkce_flow)
  BY <1>2
<1>7. CallbackTokens(s, i) = IF s.pkce_flow
                             THEN [t EXCEPT !.pkce_result = s.pkce_verifier]
                             ELSE Flash(t)
  BY DEF CallbackTokens
<1>8. s.pkce_flow => s.pkce_verifier = i
  BY <1>3 DEF CodeAccepted
<1> HIDE DEF p, td, t
<1>9. t \in Session /\ t.token_data = td /\ t.oauth_state = None
      /\ t.pkce_flow = FALSE /\ t.pkce_verifier = None
  BY <1>1, <1>4, <1>5 DEF Session
<1>10. CASE s.pkce_flow
  <2> DEFINE u == [t EXCEPT !.pkce_result = i]
  <2>1. CallbackTokens(s, i) = u
    BY <1>7, <1>8, <1>10
  <2>2. u \in Session /\ u.token_data = td /\ u.oauth_state = None
        /\ u.pkce_flow = FALSE /\ u.pkce_verifier = None /\ u.pkce_result = i
    BY <1>9 DEF Session
  <2> HIDE DEF u
  <2> QED BY <2>1, <2>2, <1>4, <1>6 DEF Consistent
<1>11. CASE ~ s.pkce_flow
  <2>1. Consistent(t, auth)
    BY <1>4, <1>6, <1>9, <1>11 DEF Consistent
  <2> QED BY <2>1, <1>7, <1>9, <1>11, FlashOK
<1> QED BY <1>10, <1>11

-----------------------------------------------------------------------------
(* The invariant is inductive: one lemma per group of actions.             *)

\* Keycloak untouched stays well typed.
LEMMA KcUnchanged == ASSUME TypeOK, kc' = kc PROVE kc' \in KcType
BY DEF TypeOK, KcType

(***************************************************************************)
(* Both start routes: a fresh login i gets its client, and the session s   *)
(* becomes t, which expects i.                                             *)
(***************************************************************************)
LEMMA StartStep ==
  ASSUME IInv, NEW r \in Req, NEW i \in Fresh, NEW client \in Client,
         NEW t \in Session, Consistent(t, auth'), req[r].route # "auth_callback",
         auth' = [auth EXCEPT ![i] = [client |-> client, at |-> "redirect"]],
         SaveAndRedirect(r, t, i), UNCHANGED <<cookie, kc, held>>
  PROVE  IInv'
<1> DEFINE p == [req[r] EXCEPT !.arg = i]
           q == Answered(p, t, TRUE)
<1>1. i \in Login /\ auth[i].client = None
  BY DEF Fresh
<1>2. ClientsKept /\ auth' \in AuthType
  BY <1>1 DEF ClientsKept, IInv, TypeOK, AuthType
<1>3. p \in Request /\ p.route = req[r].route
  BY <1>1 DEF IInv, TypeOK, Request
<1>4. q \in Request /\ q.session = t /\ q.route = req[r].route
  BY <1>3, AnswerOK
<1>5. req' = [req EXCEPT ![r] = q]
  BY DEF SaveAndRedirect, IInv, TypeOK, Request
<1>6. kc' \in KcType
  BY KcUnchanged DEF IInv
<1> HIDE DEF q
<1> QED BY <1>2, <1>3, <1>4, <1>5, <1>6, RequestStep DEF ArgOK

\* Giving a fresh login its client keeps the sessions consistent.
LEMMA FreshClient ==
  ASSUME IInv, NEW i \in Fresh, NEW client \in Client, NEW at,
         auth' = [auth EXCEPT ![i] = [client |-> client, at |-> at]],
         NEW s \in Session, Consistent(s, auth),
         at \in {"new", "redirect", "login", "return", "cancelled", "spent"}
  PROVE  Consistent(s, auth') /\ auth'[i].client = client
<1>1. i \in Login /\ auth[i].client = None
  BY DEF Fresh
<1>2. ClientsKept /\ auth' \in AuthType /\ auth'[i].client = client
  BY <1>1 DEF ClientsKept, IInv, TypeOK, AuthType
<1>3. auth \in AuthType
  BY DEF IInv, TypeOK, AuthType
<1> QED BY <1>2, <1>3, ConsistentKept

\* StartAuthCode and PkceFlow.
LEMMA FlowStart ==
  ASSUME IInv, NEW r \in Req, StartAuthCode(r) \/ PkceFlow(r)
  PROVE  IInv'
<1> DEFINE s == req[r].session
<1>1. s \in Session /\ Consistent(s, auth)
  BY CopyOK
<1>2. Fresh \subseteq Login
  BY DEF Fresh
<1>3. CASE StartAuthCode(r)
  <2>1. PICK i \in Fresh :
          /\ auth' = [auth EXCEPT ![i] = [client |-> "demo-client", at |-> "redirect"]]
          /\ SaveAndRedirect(r, [s EXCEPT !.oauth_state = i], i)
    BY <1>3 DEF StartAuthCode
  <2> DEFINE t == [s EXCEPT !.oauth_state = i]
  <2>2. Consistent(s, auth') /\ auth'[i].client = "demo-client"
    BY <1>1, <2>1, FreshClient DEF Client
  <2>3. t \in Session
    BY <1>1, <1>2 DEF Session
  <2>4. Consistent(t, auth')
    BY <1>1, <1>2, <2>2, NoneAssumption DEF Consistent, Session, Client
  <2> HIDE DEF t
  <2> QED BY <2>1, <2>3, <2>4, <1>3, StartStep DEF StartAuthCode, Serving, Client, t
<1>4. CASE PkceFlow(r)
  <2>1. PICK i \in Fresh :
          /\ auth' = [auth EXCEPT ![i] = [client |-> "pkce-client", at |-> "redirect"]]
          /\ SaveAndRedirect(r, [s EXCEPT !.oauth_state = i, !.pkce_flow = TRUE,
                                          !.pkce_verifier = i], i)
    BY <1>4 DEF PkceFlow
  <2> DEFINE t == [s EXCEPT !.oauth_state = i, !.pkce_flow = TRUE, !.pkce_verifier = i]
  <2>2. Consistent(s, auth') /\ auth'[i].client = "pkce-client"
    BY <1>1, <2>1, FreshClient DEF Client
  <2>3. t \in Session
    BY <1>1, <1>2 DEF Session
  <2>4. Consistent(t, auth')
    BY <1>1, <1>2, <2>2, NoneAssumption DEF Consistent, Session, Client
  <2> HIDE DEF t
  <2> QED BY <2>1, <2>3, <2>4, <1>4, StartStep DEF PkceFlow, Serving, Client, t
<1> QED BY <1>3, <1>4

\* AuthCallback, in each of its five outcomes.
LEMMA Callback ==
  ASSUME IInv, NEW r \in Req, AuthCallback(r)
  PROVE  IInv'
<1> DEFINE s == req[r].session
           i == req[r].arg
<1>1. s \in Session /\ Consistent(s, auth)
  BY CopyOK
<1>2. ClientsKept /\ auth' \in AuthType /\ auth' = auth
  BY Unchanged DEF AuthCallback, IInv
<1>3. cookie' = cookie /\ held' = held
  BY DEF AuthCallback
<1>4. kc' \in KcType
  BY DEF AuthCallback, Redeem, KcType, IInv, TypeOK
<1>5. CASE s.oauth_state # i /\ Save(r, Flash([s EXCEPT !.oauth_state = None]))
  <2>1. /\ [s EXCEPT !.oauth_state = None] \in Session
        /\ Consistent([s EXCEPT !.oauth_state = None], auth)
    BY <1>1 DEF Session, Consistent
  <2> QED BY <2>1, <1>2, <1>3, <1>4, <1>5, FlashOK, SaveStep
<1>6. CASE s.oauth_state = i /\ CodeAccepted(i, s) /\ Save(r, CallbackTokens(s, i))
  <2>1. i \in Login
    BY DEF AuthCallback, Serving, IInv, ArgOK
  <2> QED BY <2>1, <1>1, <1>2, <1>3, <1>4, <1>6, CallbackTokensOK, SaveStep
<1>7. CASE Save(r, Flash(PopPkce(s)))
  BY <1>1, <1>2, <1>3, <1>4, <1>7, FlashOK, PopPkceOK, SaveStep
<1>8. CASE NoSave(r)
  BY <1>2, <1>3, <1>4, <1>8, NoSaveStep
<1> QED BY <1>5, <1>6, <1>7, <1>8 DEF AuthCallback

(***************************************************************************)
(* Handlers that only rewrite the request's copy of the session.           *)
(***************************************************************************)
LEMMA PlainSave ==
  ASSUME IInv, NEW r \in Req, NEW s \in Session, Consistent(s, auth), Save(r, s),
         UNCHANGED <<cookie, auth, kc, held>>
  PROVE  IInv'
<1>1. ClientsKept /\ auth' \in AuthType /\ kc' \in KcType
  BY Unchanged, KcUnchanged DEF IInv
<1> QED BY <1>1, SaveStep

\* A handler that neither saves nor calls Keycloak.
LEMMA PlainNoSave ==
  ASSUME IInv, NEW r \in Req, NoSave(r), UNCHANGED <<cookie, auth, kc, held>>
  PROVE  IInv'
BY KcUnchanged, NoSaveStep DEF IInv

\* The flash messages matter to no part of the invariant.
LEMMA FlashesOK ==
  ASSUME NEW s \in Session, NEW a, Consistent(s, a), NEW b \in BOOLEAN
  PROVE  /\ [s EXCEPT !.flashes = b] \in Session
         /\ Consistent([s EXCEPT !.flashes = b], a)
<1>1. CASE b = TRUE
  BY <1>1 DEF Session, Consistent
<1>2. CASE b = FALSE
  BY <1>2 DEF Session, Consistent
<1> QED BY <1>1, <1>2

\* Nor does the device code.
LEMMA DeviceCodeOK ==
  ASSUME NEW s \in Session, NEW a, Consistent(s, a), NEW b \in BOOLEAN
  PROVE  /\ [s EXCEPT !.device_code = b] \in Session
         /\ Consistent([s EXCEPT !.device_code = b], a)
<1>1. CASE b = TRUE
  BY <1>1 DEF Session, Consistent
<1>2. CASE b = FALSE
  BY <1>2 DEF Session, Consistent
<1> QED BY <1>1, <1>2

\* Rendering a page shows and pops the messages, no more.
LEMMA RenderStep ==
  ASSUME IInv, NEW r \in Req, Render(r, req[r].session),
         UNCHANGED <<cookie, auth, kc, held>>
  PROVE  IInv'
<1> DEFINE s == req[r].session
<1>1. s \in Session /\ Consistent(s, auth)
  BY CopyOK
<1>2. CASE Save(r, [s EXCEPT !.flashes = FALSE])
  BY <1>1, <1>2, FlashesOK, PlainSave
<1>3. CASE NoSave(r)
  BY <1>3, PlainNoSave
<1> QED BY <1>2, <1>3 DEF Render

\* AuthError, DeviceFlow, DevicePoll, Gated and Page.
LEMMA Pages ==
  ASSUME IInv, NEW r \in Req,
         AuthError(r) \/ DeviceFlow(r) \/ DevicePoll(r) \/ Gated(r) \/ Page(r)
  PROVE  IInv'
<1> DEFINE s == req[r].session
<1>1. s \in Session /\ Consistent(s, auth)
  BY CopyOK
<1>2. CASE AuthError(r)
  BY <1>1, <1>2, FlashOK, PlainSave DEF AuthError
<1>3. CASE DeviceFlow(r)
  <2> DEFINE t == [s EXCEPT !.device_code = TRUE]
  <2>1. t \in Session /\ Consistent(t, auth)
    BY <1>1, DeviceCodeOK
  <2>2. [s EXCEPT !.device_code = TRUE, !.flashes = FALSE] = [t EXCEPT !.flashes = FALSE]
    BY <1>1 DEF Session
  <2>3. CASE Save(r, [s EXCEPT !.device_code = TRUE, !.flashes = FALSE])
    <3> HIDE DEF t
    <3>1. /\ [t EXCEPT !.flashes = FALSE] \in Session
          /\ Consistent([t EXCEPT !.flashes = FALSE], auth)
      BY <2>1, FlashesOK
    <3> QED BY <3>1, <2>2, <2>3, <1>3, PlainSave DEF DeviceFlow
  <2> QED BY <2>3, <1>3, RenderStep, PlainNoSave DEF DeviceFlow
<1>4. CASE DevicePoll(r)
  BY <1>1, <1>4, DeviceCodeOK, PlainSave, PlainNoSave DEF DevicePoll
<1>5. CASE Gated(r)
  BY <1>1, <1>5, FlashOK, PlainSave, PlainNoSave, RenderStep DEF Gated
<1>6. CASE Page(r)
  BY <1>6, RenderStep, PlainNoSave DEF Page
<1> QED BY <1>2, <1>3, <1>4, <1>5, <1>6

\* PkceResult.
LEMMA ResultPage ==
  ASSUME IInv, NEW r \in Req, PkceResult(r)
  PROVE  IInv'
<1> DEFINE s   == req[r].session
           t   == [s EXCEPT !.pkce_result = None]
           td  == s.token_data
           own == s.pkce_result # None /\ td # None /\ td.flow = "pkce" /\ ~ td.refreshed
<1>1. s \in Session /\ Consistent(s, auth)
  BY CopyOK
<1>2. t \in Session /\ Consistent(t, auth)
  BY <1>1 DEF Session, Consistent
<1>3. Save(r, [t EXCEPT !.flashes = ~ own]) /\ UNCHANGED <<cookie, auth, kc, held>>
  BY DEF PkceResult
<1>4. (~ own) \in BOOLEAN
  OBVIOUS
<1> HIDE DEF own, t
<1>5. /\ [t EXCEPT !.flashes = ~ own] \in Session
      /\ Consistent([t EXCEPT !.flashes = ~ own], auth)
  BY <1>2, <1>4, FlashesOK
<1> QED BY <1>3, <1>5, PlainSave

\* Logout.
LEMMA LogoutStep ==
  ASSUME IInv, NEW r \in Req, Logout(r)
  PROVE  IInv'
<1> DEFINE s == req[r].session
           t == [s EXCEPT !.token_data = None]
<1>1. t \in Session /\ Consistent(t, auth)
  BY CopyOK, DropTokenOK
<1>2. UNCHANGED <<cookie, auth, kc, held>> /\ (Save(r, t) \/ Save(r, Flash(t)))
  BY DEF Logout
<1> HIDE DEF t
<1> QED BY <1>1, <1>2, FlashOK, PlainSave

\* RefreshToken keeps the labels of the login it refreshes.
LEMMA RefreshStep ==
  ASSUME IInv, NEW r \in Req, RefreshToken(r)
  PROVE  IInv'
<1> DEFINE s  == req[r].session
           td == s.token_data
<1>1. s \in Session /\ Consistent(s, auth)
  BY CopyOK
<1>2. UNCHANGED <<cookie, auth, kc, held>>
  BY DEF RefreshToken
<1>3. CASE Save(r, Flash(s))
  BY <1>1, <1>2, <1>3, FlashOK, PlainSave
<1>4. CASE /\ td # None
           /\ Save(r, Flash(StoreTokens(s, td.id, td.azp, td.flow, TRUE)))
  <2>1. /\ td.id \in Login /\ td.azp \in Client /\ td.flow \in Flow
        /\ TokenLabelled(td, auth)
    BY <1>1, <1>4 DEF Session, Token, Consistent
  <2> DEFINE t == StoreTokens(s, td.id, td.azp, td.flow, TRUE)
  <2>2. t \in Session /\ Consistent(t, auth)
    BY <1>1, <2>1, StoreTokensOK DEF TokenLabelled
  <2> HIDE DEF t
  <2> QED BY <1>2, <1>4, <2>2, FlashOK, PlainSave DEF t
<1>5. CASE Save(r, Flash([s EXCEPT !.token_data = None]))
  BY <1>1, <1>2, <1>5, DropTokenOK, FlashOK, PlainSave
<1>6. CASE NoSave(r)
  BY <1>2, <1>6, PlainNoSave
<1> QED BY <1>3, <1>4, <1>5, <1>6 DEF RefreshToken

(***************************************************************************)
(* Direct grants: a fresh login becomes the session's, with its labels.    *)
(***************************************************************************)
LEMMA GrantStep ==
  ASSUME IInv, NEW r \in Req, NEW i \in Fresh, NEW client \in Client,
         NEW flow \in Flow, flow # "pkce", client # "pkce-client",
         flow = "client_credentials" <=> client = "service-client",
         DirectGrant(i, client),
         Save(r, Flash(StoreTokens(req[r].session, i, client, flow, FALSE))),
         UNCHANGED <<cookie, held>>
  PROVE  IInv'
<1> DEFINE s == req[r].session
           t == StoreTokens(s, i, client, flow, FALSE)
<1>1. i \in Login /\ auth[i].client = None
  BY DEF Fresh
<1>2. /\ ClientsKept /\ auth' \in AuthType /\ auth'[i].client = client
      /\ auth \in AuthType
  BY <1>1 DEF DirectGrant, ClientsKept, IInv, TypeOK, AuthType
<1>3. kc' \in KcType
  BY <1>1 DEF DirectGrant, IInv, TypeOK, KcType
<1>4. s \in Session /\ Consistent(s, auth')
  BY <1>2, CopyOK, ConsistentKept
<1>5. t \in Session /\ Consistent(t, auth')
  BY <1>1, <1>2, <1>4, StoreTokensOK
<1> HIDE DEF t
<1>6. Flash(t) \in Session /\ Consistent(Flash(t), auth')
  BY <1>5, FlashOK
<1> QED BY <1>2, <1>3, <1>6, SaveStep DEF t

\* PasswordGrant and ClientCredentials.
LEMMA Grants ==
  ASSUME IInv, NEW r \in Req, PasswordGrant(r) \/ ClientCredentials(r)
  PROVE  IInv'
<1> DEFINE s == req[r].session
<1>1. s \in Session /\ Consistent(s, auth)
  BY CopyOK
<1>2. CASE PasswordGrant(r)
  <2>1. CASE \E i \in Fresh :
               /\ DirectGrant(i, "demo-client")
               /\ Save(r, Flash(StoreTokens(s, i, "demo-client", "password", FALSE)))
    BY <1>2, <2>1, GrantStep DEF PasswordGrant, Client, Flow
  <2> QED BY <1>1, <1>2, <2>1, FlashesOK, PlainSave, PlainNoSave DEF PasswordGrant
<1>3. CASE ClientCredentials(r)
  <2>1. CASE \E i \in Fresh :
               /\ DirectGrant(i, "service-client")
               /\ Save(r, Flash(StoreTokens(s, i, "service-client",
                                            "client_credentials", FALSE)))
    BY <1>3, <2>1, GrantStep DEF ClientCredentials, Client, Flow
  <2> QED BY <1>1, <1>3, <2>1, FlashOK, PlainSave, PlainNoSave DEF ClientCredentials
<1> QED BY <1>2, <1>3

\* Every handler keeps the invariant.
LEMMA Handlers ==
  ASSUME IInv, NEW r \in Req, Handle(r)
  PROVE  IInv'
BY FlowStart, Callback, Pages, ResultPage, Grants, RefreshStep, LogoutStep DEF Handle

-----------------------------------------------------------------------------
(* The browser and Keycloak.                                               *)

\* The browser moves on with an authorization request: no client changes.
LEMMA AtStep ==
  ASSUME TypeOK, NEW i,
         NEW at \in {"new", "redirect", "login", "return", "cancelled", "spent"},
         auth' = [auth EXCEPT ![i].at = at]
  PROVE  ClientsKept /\ auth' \in AuthType
BY DEF ClientsKept, TypeOK, AuthType

\* A request slot that is free is well typed.
LEMMA IdleOK == Idle \in Request /\ Idle.session = NoSession /\ ArgOK(Idle)
BY NoSessionOK, NoneAssumption DEF Idle, Request, ArgOK, Route

\* A request starts with the browser's own, consistent cookie.
LEMMA StartOK ==
  ASSUME IInv, NEW r \in Req, NEW route \in Route, NEW arg \in Login \cup {None},
         route = "auth_callback" => arg \in Login,
         Start(r, route, arg), ClientsKept, auth' \in AuthType,
         UNCHANGED <<cookie, kc, held>>
  PROVE  IInv'
<1> DEFINE q == [phase |-> "sent", route |-> route, arg |-> arg,
                 session |-> cookie, save |-> FALSE]
<1>1. cookie \in Session /\ Consistent(cookie, auth) /\ auth \in AuthType
  BY DEF IInv, TypeOK, Sessions, AuthType
<1>2. q \in Request /\ q.session = cookie /\ ArgOK(q)
  BY <1>1 DEF Request, ArgOK
<1>3. req' = [req EXCEPT ![r] = q]
  BY DEF Start
<1>4. kc' \in KcType
  BY KcUnchanged DEF IInv
<1>5. Consistent(cookie, auth')
  BY <1>1, ConsistentKept
<1> HIDE DEF q
<1> QED BY <1>2, <1>3, <1>4, <1>5, RequestStep

\* Send and SendCallback.
LEMMA Sending ==
  ASSUME IInv, NEW r \in Req, Send(r) \/ (\E i \in Login : SendCallback(r, i))
  PROVE  IInv'
<1>1. CASE Send(r)
  <2>1. PICK route \in Route \ {"auth_callback", "auth_error"} : Start(r, route, None)
    BY <1>1 DEF Send
  <2>2. ClientsKept /\ auth' \in AuthType
    BY <1>1, Unchanged DEF Send, IInv
  <2> QED BY <1>1, <2>1, <2>2, StartOK DEF Send
<1>2. ASSUME NEW i \in Login, SendCallback(r, i) PROVE IInv'
  <2>1. ClientsKept /\ auth' \in AuthType
    BY <1>2, AtStep DEF SendCallback, IInv
  <2>2. CASE Start(r, "auth_callback", i)
    BY <1>2, <2>1, <2>2, StartOK DEF SendCallback, Route
  <2>3. CASE Start(r, "auth_error", i)
    BY <1>2, <2>1, <2>3, StartOK DEF SendCallback, Route
  <2> QED BY <1>2, <2>2, <2>3 DEF SendCallback
<1> QED BY <1>1, <1>2

\* Lose.
LEMMA Losing ==
  ASSUME IInv, NEW r \in Req, Lose(r)
  PROVE  IInv'
<1>1. ClientsKept /\ auth' \in AuthType
  <2>1. CASE req[r].route = "auth_callback"
    BY <2>1, AtStep DEF Lose, IInv
  <2>2. CASE req[r].route = "auth_error"
    BY <2>2, AtStep DEF Lose, IInv
  <2>3. CASE req[r].route \notin {"auth_callback", "auth_error"}
    BY <2>3, Unchanged DEF Lose, IInv
  <2> QED BY <2>1, <2>2, <2>3
<1>2. req' = [req EXCEPT ![r] = Idle] /\ UNCHANGED <<cookie, kc, held>>
  BY DEF Lose
<1> QED BY <1>1, <1>2, IdleOK, NoSessionOK, KcUnchanged, RequestStep DEF IInv

(***************************************************************************)
(* The one action that changes the cookie: it becomes the session of the   *)
(* answered request, or stays.                                             *)
(***************************************************************************)
LEMMA Receiving ==
  ASSUME IInv, NEW r \in Req, Receive(r)
  PROVE  IInv'
<1>1. ClientsKept /\ auth' \in AuthType
  <2>1. CASE req[r].route \in {"start_auth_code", "pkce_flow"}
    BY <2>1, AtStep DEF Receive, IInv
  <2>2. CASE req[r].route \notin {"start_auth_code", "pkce_flow"}
    BY <2>2, Unchanged DEF Receive, IInv
  <2> QED BY <2>1, <2>2
<1>2. auth \in AuthType
  BY DEF IInv, TypeOK, AuthType
<1>3. /\ cookie' \in {cookie, req[r].session}
      /\ req' = [req EXCEPT ![r] = Idle] /\ kc' = kc
      /\ held' = held \cup TokenIds(cookie')
  BY DEF Receive
<1>4. cookie \in Session /\ cookie \in Sessions
  BY DEF IInv, TypeOK, Sessions
<1>5. cookie' \in Session /\ Consistent(cookie', auth)
  BY <1>3, <1>4, CopyOK DEF IInv
<1>6. TypeOK'
  <2>1. TokenIds(cookie') \subseteq Login
    BY <1>5 DEF TokenIds, Session, Token
  <2> QED BY <1>1, <1>3, <1>5, <2>1, IdleOK DEF IInv, TypeOK, AuthType
<1>7. \A x \in Req : ArgOK(req'[x])
  BY <1>3, IdleOK DEF IInv, TypeOK
<1>8. ASSUME NEW s \in Sessions' PROVE Consistent(s, auth')
  <2>1. s = NoSession \/ s = cookie' \/ s \in {req[x].session : x \in Req}
    BY <1>3, IdleOK DEF Sessions, IInv, TypeOK
  <2>2. s = NoSession \/ (s \in Session /\ Consistent(s, auth))
    BY <1>5, <2>1, CopyOK
  <2> QED BY <1>1, <1>2, <2>2, NoSessionOK, ConsistentKept
<1> QED BY <1>6, <1>7, <1>8 DEF IInv

\* Authenticate and EndSession.
LEMMA Keycloak ==
  ASSUME IInv, NEW i \in Login, Authenticate(i) \/ EndSession(i)
  PROVE  IInv'
<1>1. ClientsKept /\ auth' \in AuthType /\ auth \in AuthType
  BY AtStep, Unchanged DEF Authenticate, EndSession, IInv, TypeOK, AuthType
<1>2. kc' \in KcType
  BY DEF Authenticate, EndSession, IInv, TypeOK, KcType
<1>3. UNCHANGED <<cookie, req, held>>
  BY DEF Authenticate, EndSession
<1>4. TypeOK'
  BY <1>1, <1>2, <1>3 DEF IInv, TypeOK, AuthType, KcType
<1>5. ASSUME NEW s \in Sessions' PROVE Consistent(s, auth')
  <2>1. s \in Sessions /\ s \in Session
    BY <1>3 DEF Sessions, IInv, TypeOK, Request
  <2> QED BY <1>1, <2>1, ConsistentKept DEF IInv
<1> QED BY <1>3, <1>4, <1>5 DEF IInv

-----------------------------------------------------------------------------
(* Theorems.                                                               *)

\* The initial state satisfies the invariant.
LEMMA InitOK == Init => IInv
<1> SUFFICES ASSUME Init PROVE IInv
  OBVIOUS
<1>1. TypeOK
  BY NoSessionOK, IdleOK DEF Init, TypeOK, Request
<1>2. \A s \in Sessions : s = NoSession
  BY IdleOK DEF Init, Sessions
<1>3. \A r \in Req : ArgOK(req[r])
  BY IdleOK DEF Init
<1> QED BY <1>1, <1>2, <1>3, NoSessionOK DEF IInv

\* Every step preserves the invariant.
LEMMA NextOK == IInv /\ [Next]_vars => IInv'
<1> SUFFICES ASSUME IInv, [Next]_vars PROVE IInv'
  OBVIOUS
<1>1. CASE UNCHANGED vars
  BY <1>1 DEF vars, IInv, TypeOK, Sessions
<1>2. CASE Next
  BY <1>2, Sending, Handlers, Receiving, Losing, Keycloak DEF Next
<1> QED BY <1>1, <1>2

(***************************************************************************)
(* The inductive invariant holds in every behaviour of the session.        *)
(***************************************************************************)
THEOREM Invariance == Spec => []IInv
BY InitOK, NextOK, PTL DEF Spec

(***************************************************************************)
(* Every copy of the session is a session that the handlers can read: the  *)
(* keys they pop, set and test keep the types they expect.                 *)
(***************************************************************************)
THEOREM TypeCorrect == Spec => []TypeOK
<1>1. IInv => TypeOK
  BY DEF IInv
<1> QED BY <1>1, Invariance, PTL

(***************************************************************************)
(* However many tabs overlap, a session that expects a PKCE callback has   *)
(* that request's verifier (pkce_flow and auth_callback).                  *)
(***************************************************************************)
THEOREM VerifierKept == Spec => []PkceStateHasVerifier
<1>1. IInv => PkceStateHasVerifier
  <2> SUFFICES ASSUME IInv, NEW s \in Sessions, s.oauth_state # None,
                      auth[s.oauth_state].client = "pkce-client"
               PROVE  s.pkce_flow /\ s.pkce_verifier = s.oauth_state
    BY DEF PkceStateHasVerifier
  <2> QED BY DEF IInv, Consistent
<1> QED BY <1>1, Invariance, PTL

(***************************************************************************)
(* The PKCE result page never mixes two logins (auth_callback, pkce_result, *)
(* refresh_token).                                                         *)
(***************************************************************************)
THEOREM ResultBelongs == Spec => []PkceResultBelongsToToken
<1>1. IInv => PkceResultBelongsToToken
  BY DEF IInv, Consistent, PkceResultBelongsToToken
<1> QED BY <1>1, Invariance, PTL

(***************************************************************************)
(* The flow name beside a token tells which client it was issued to, in    *)
(* every copy of the session.                                              *)
(***************************************************************************)
THEOREM LabelsTrue == Spec => []FlowMatchesIssuer
<1>1. IInv => FlowMatchesIssuer
  BY DEF IInv, Consistent, TokenLabelled, FlowMatchesIssuer
<1> QED BY <1>1, Invariance, PTL

(***************************************************************************)
(* No callback voids a code of pkce-client: where the state matches, the   *)
(* session's own flag and verifier make Keycloak accept the code.          *)
(***************************************************************************)
LEMMA CallbackKeepsPkceCode ==
  ASSUME IInv, NEW r \in Req, AuthCallback(r), NEW i \in Login,
         auth[i].client = "pkce-client", kc[i] = "code"
  PROVE  kc'[i] # "ended"
<1> DEFINE s == req[r].session
           j == req[r].arg
<1>1. CASE kc' = kc
  BY <1>1
<1>2. CASE kc' = Redeem(j, s) /\ s.oauth_state = j
  <2>1. CASE i # j
    BY <1>2, <2>1 DEF Redeem, IInv, TypeOK
  <2>2. CASE i = j
    <3>1. s.oauth_state # None /\ s.pkce_flow = TRUE /\ s.pkce_verifier = i
      BY <1>2, <2>2, CopyOK, NoneAssumption DEF Consistent
    <3>2. CodeAccepted(i, s)
      BY <3>1, NoneAssumption DEF CodeAccepted, RedeemAs
    <3> QED BY <1>2, <2>2, <3>2 DEF Redeem, IInv, TypeOK
  <2> QED BY <2>1, <2>2
<1> QED BY <1>1, <1>2 DEF AuthCallback

(***************************************************************************)
(* A code of pkce-client is never voided by client-app (auth_callback).    *)
(***************************************************************************)
THEOREM PkceCodesSafe == Spec => PkceCodeNeverVoided
<1> DEFINE A == \A i \in Login : auth[i].client = "pkce-client" /\ kc[i] = "code"
                                   => kc'[i] # "ended"
<1>1. IInv /\ [Next]_vars => [A]_vars
  <2> SUFFICES ASSUME IInv, Next, NEW i \in Login,
                      auth[i].client = "pkce-client", kc[i] = "code"
               PROVE  kc'[i] # "ended"
    OBVIOUS
  <2>1. CASE \E r \in Req : AuthCallback(r)
    BY <2>1, CallbackKeepsPkceCode
  <2>2. CASE \E j \in Login : Authenticate(j) \/ EndSession(j)
    BY <2>2 DEF Authenticate, EndSession, IInv, TypeOK
  <2>3. CASE \E r \in Req : PasswordGrant(r) \/ ClientCredentials(r)
    BY <2>3 DEF PasswordGrant, ClientCredentials, DirectGrant, IInv, TypeOK
  <2>4. CASE kc' = kc
    BY <2>4
  <2> QED
    BY <2>1, <2>2, <2>3, <2>4
    DEF Next, Handle, Send, SendCallback, Receive, Lose, StartAuthCode, PkceFlow,
        AuthError, PkceResult, RefreshToken, Logout, DeviceFlow, DevicePoll, Gated, Page
<1> QED BY <1>1, Invariance, PTL DEF Spec, PkceCodeNeverVoided

-----------------------------------------------------------------------------
(* How a code of the plain flow is voided.                                 *)

\* Login i is for a client whose users sign in at Keycloak's page.
SignsIn(i) == auth[i].client \in {"demo-client", "pkce-client"}

\* Every login that the browser was ever sent off with, or has a code for, and
\* every callback under way, is for such a client.
Issued ==
  /\ \A i \in Login : auth[i].at # "new" \/ kc[i] = "code" => SignsIn(i)
  /\ \A r \in Req : req[r].arg # None => SignsIn(req[r].arg)

\* Clients are only given to logins that have none.
LEMMA IssuedStep ==
  ASSUME TypeOK, TypeOK', Issued,
         \A i \in Login : auth'[i].client = auth[i].client \/ auth[i].client = None,
         \A i \in Login : auth'[i].at # "new" \/ kc'[i] = "code"
                          => auth[i].at # "new" \/ kc[i] = "code" \/ SignsIn(i)',
         \A r \in Req : req'[r].arg # None => req'[r].arg = req[r].arg \/ SignsIn(req[r].arg)'
  PROVE  Issued'
<1>1. ASSUME NEW i \in Login, SignsIn(i) PROVE SignsIn(i)'
  BY <1>1, NoneAssumption DEF SignsIn, Client
<1>2. ASSUME NEW i \in Login, auth'[i].at # "new" \/ kc'[i] = "code" PROVE SignsIn(i)'
  BY <1>1, <1>2 DEF Issued
<1>3. ASSUME NEW r \in Req, req'[r].arg # None PROVE SignsIn(req[r].arg)'
  <2> PICK i : i = req'[r].arg
    OBVIOUS
  <2>1. i \in Login
    BY <1>3 DEF TypeOK, Request
  <2>2. CASE i = req[r].arg
    BY <1>1, <1>3, <2>1, <2>2 DEF Issued, SignsIn
  <2>3. CASE SignsIn(req[r].arg)'
    BY <2>3
  <2> QED BY <1>3, <2>2, <2>3
<1> QED BY <1>2, <1>3 DEF Issued, SignsIn

\* An answer keeps the argument of its request.
LEMMA ArgsKept ==
  ASSUME TypeOK, NEW r \in Req, (\E s : Save(r, s)) \/ NoSave(r)
  PROVE  \A x \in Req : req'[x].arg = req[x].arg
<1>1. PICK s, save : req' = [req EXCEPT ![r] = Answered(@, s, save)]
  BY DEF Save, NoSave
<1>2. \A q \in Request : Answered(q, s, save).arg = q.arg
  BY DEF Answered, Request
<1> QED BY <1>1, <1>2 DEF TypeOK

\* The handlers.
LEMMA IssuedHandlers ==
  ASSUME IInv, IInv', Issued, NEW r \in Req, Handle(r)
  PROVE  Issued'
<1>1. auth \in AuthType /\ kc \in KcType
  BY DEF IInv, TypeOK, AuthType, KcType
<1>2. CASE StartAuthCode(r) \/ PkceFlow(r)
  <2> PICK i \in Fresh, client \in {"demo-client", "pkce-client"} :
        /\ auth' = [auth EXCEPT ![i] = [client |-> client, at |-> "redirect"]]
        /\ kc' = kc /\ \E s : SaveAndRedirect(r, s, i)
    BY <1>2 DEF StartAuthCode, PkceFlow
  <2> PICK s : SaveAndRedirect(r, s, i)
    OBVIOUS
  <2>1. i \in Login /\ auth[i].client = None
    BY DEF Fresh
  <2>2. auth'[i].client = client /\ \A j \in Login \ {i} : auth'[j] = auth[j]
    BY <1>1, <2>1 DEF AuthType
  <2>3. \A x \in Req : req'[x].arg = IF x = r THEN i ELSE req[x].arg
    <3> PICK p : p = [req[r] EXCEPT !.arg = i]
      OBVIOUS
    <3>0. req[r] \in Request
      BY DEF IInv, TypeOK
    <3>1. p \in Request /\ p.arg = i
      BY <2>1, <3>0 DEF Request
    <3> PICK q : q = Answered(p, s, TRUE)
      OBVIOUS
    <3>2. q.arg = i
      BY <3>1 DEF Answered, Request
    <3>3. req' = [req EXCEPT ![r] = q]
      BY DEF SaveAndRedirect, IInv, TypeOK
    <3> QED BY <3>2, <3>3 DEF IInv, TypeOK
  <2>4. \A j \in Login : auth'[j].client = auth[j].client \/ auth[j].client = None
    BY <2>1, <2>2
  <2>5. \A j \in Login : auth'[j].at # "new" \/ kc'[j] = "code"
                         => auth[j].at # "new" \/ kc[j] = "code" \/ SignsIn(j)'
    BY <2>1, <2>2 DEF SignsIn
  <2>6. \A x \in Req : req'[x].arg # None => req'[x].arg = req[x].arg \/ SignsIn(req[x].arg)'
    BY <2>2, <2>3 DEF SignsIn
  <2> QED BY <2>4, <2>5, <2>6, IssuedStep DEF IInv
<1>3. CASE \E i \in Fresh, client \in Client : DirectGrant(i, client) /\ \E s : Save(r, s)
  <2> PICK i \in Fresh, client \in Client : DirectGrant(i, client) /\ \E s : Save(r, s)
    BY <1>3
  <2>1. i \in Login /\ auth[i].client = None
    BY DEF Fresh
  <2>2. auth' = [auth EXCEPT ![i].client = client] /\ kc' = [kc EXCEPT ![i] = "live"]
    BY DEF DirectGrant
  <2>3. /\ \A j \in Login : auth'[j].at = auth[j].at
        /\ \A j \in Login : auth'[j].client = auth[j].client \/ auth[j].client = None
        /\ \A j \in Login : kc'[j] = "code" => kc[j] = "code"
    BY <1>1, <2>1, <2>2 DEF AuthType, KcType
  <2>4. \A x \in Req : req'[x].arg = req[x].arg
    BY ArgsKept DEF IInv
  <2> QED BY <2>3, <2>4, IssuedStep DEF IInv
<1>4. CASE /\ auth' = auth
           /\ (\E s : Save(r, s)) \/ NoSave(r)
           /\ kc' = kc \/ kc' = Redeem(req[r].arg, req[r].session)
  <2>1. \A j \in Login : kc'[j] = "code" => kc[j] = "code"
    BY <1>1, <1>4 DEF Redeem, KcType
  <2>2. \A x \in Req : req'[x].arg = req[x].arg
    BY <1>4, ArgsKept DEF IInv
  <2>3. \A j \in Login : auth'[j].client = auth[j].client /\ auth'[j].at = auth[j].at
    BY <1>4
  <2> QED BY <2>1, <2>2, <2>3, IssuedStep DEF IInv
<1>5. CASE PasswordGrant(r) \/ ClientCredentials(r)
  BY <1>3, <1>4, <1>5 DEF PasswordGrant, ClientCredentials, Client
<1>6. CASE AuthCallback(r)
  BY <1>4, <1>6 DEF AuthCallback
<1>7. CASE \/ AuthError(r) \/ PkceResult(r) \/ RefreshToken(r) \/ Logout(r)
           \/ DeviceFlow(r) \/ DevicePoll(r) \/ Gated(r) \/ Page(r)
  <2>1. auth' = auth /\ kc' = kc
    BY <1>7 DEF AuthError, PkceResult, RefreshToken, Logout, DeviceFlow, DevicePoll, Gated, Page
  <2>2. (\E s : Save(r, s)) \/ NoSave(r)
    BY <1>7 DEF AuthError, PkceResult, RefreshToken, Logout, DeviceFlow, DevicePoll, Gated,
                Page, Render
  <2> QED BY <1>4, <2>1, <2>2
<1> QED BY <1>2, <1>5, <1>6, <1>7 DEF Handle

\* The browser and Keycloak move logins on that have their client.
LEMMA IssuedMoves ==
  ASSUME IInv, IInv', Issued,
         \/ \E r \in Req : Send(r) \/ Receive(r) \/ Lose(r)
         \/ \E r \in Req, i \in Login : SendCallback(r, i)
         \/ \E i \in Login : Authenticate(i) \/ EndSession(i)
  PROVE  Issued'
<1>1. auth \in AuthType /\ kc \in KcType /\ \A r \in Req : req[r] \in Request
  BY DEF IInv, TypeOK, AuthType, KcType
<1>2. Idle.arg = None
  BY DEF Idle
<1>3. \/ auth' = auth
      \/ \E i \in Login, at \in {"login", "return", "cancelled", "spent"} :
           SignsIn(i) /\ auth' = [auth EXCEPT ![i].at = at]
  <2>1. CASE \E r \in Req : Receive(r) \/ Lose(r)
    <3> PICK r \in Req : Receive(r) \/ Lose(r)
      BY <2>1
    <3>1. \/ auth' = auth
          \/ \E at \in {"login", "return", "cancelled"} : auth' = [auth EXCEPT ![req[r].arg].at = at]
      BY DEF Receive, Lose
    <3>2. CASE req[r].arg \in Login
      <4>1. SignsIn(req[r].arg)
        BY <3>2, NoneAssumption DEF Issued
      <4> QED BY <3>1, <3>2, <4>1
    <3>3. CASE req[r].arg \notin Login
      BY <1>1, <3>1, <3>3 DEF AuthType
    <3> QED BY <3>2, <3>3
  <2>2. CASE \E r \in Req, i \in Login : SendCallback(r, i)
    BY <2>2 DEF SendCallback, Issued
  <2>3. CASE \E i \in Login : Authenticate(i) \/ EndSession(i)
    BY <2>3 DEF Authenticate, EndSession, Issued
  <2>4. CASE \E r \in Req : Send(r)
    BY <2>4 DEF Send
  <2> QED BY <2>1, <2>2, <2>3, <2>4
<1>4. \A i \in Login : auth'[i].client = auth[i].client
  BY <1>1, <1>3 DEF AuthType
<1>5. \A i \in Login : auth'[i].at # "new" => auth[i].at # "new" \/ SignsIn(i)
  BY <1>1, <1>3 DEF AuthType
<1>6. \A i \in Login : kc'[i] = "code" => kc[i] = "code" \/ auth[i].at # "new"
  BY <1>1 DEF Send, Receive, Lose, SendCallback, Authenticate, EndSession, KcType
<1>7. \A i \in Login : SignsIn(i) => SignsIn(i)'
  BY <1>4 DEF SignsIn
<1>8. \A x \in Req : req'[x].arg # None => req'[x].arg = req[x].arg \/ SignsIn(req[x].arg)'
  <2>1. ASSUME NEW r \in Req, NEW i \in Login, SendCallback(r, i)
        PROVE  \A x \in Req : req'[x].arg = req[x].arg \/ (req'[x].arg = i /\ SignsIn(i))
    <3>1. SignsIn(i)
      BY <2>1 DEF SendCallback, Issued
    <3>2. \A x \in Req : req'[x].arg = req[x].arg \/ req'[x].arg = i
      BY <2>1 DEF SendCallback, Start, IInv, TypeOK
    <3> QED BY <3>1, <3>2
  <2>2. \/ \A x \in Req : req'[x].arg \in {None, req[x].arg}
        \/ \E i \in Login : SignsIn(i) /\ \A x \in Req : req'[x].arg \in {i, req[x].arg}
    <3>1. CASE \E r \in Req, i \in Login : SendCallback(r, i)
      <4> PICK r \in Req, i \in Login : SendCallback(r, i)
        BY <3>1
      <4>1. SignsIn(i)
        BY DEF SendCallback, Issued
      <4> QED BY <2>1, <4>1
    <3>2. CASE \E r \in Req : Send(r)
      BY <3>2 DEF Send, Start, IInv, TypeOK
    <3>3. CASE \E r \in Req : Receive(r) \/ Lose(r)
      BY <1>2, <3>3 DEF Receive, Lose, IInv, TypeOK
    <3>4. CASE req' = req
      BY <3>4
    <3> QED BY <3>1, <3>2, <3>3, <3>4 DEF Authenticate, EndSession
  <2>3. CASE \E i \in Login : SignsIn(i) /\ \A x \in Req : req'[x].arg \in {i, req[x].arg}
    <3> PICK i \in Login : SignsIn(i) /\ \A x \in Req : req'[x].arg \in {i, req[x].arg}
      BY <2>3
    <3>1. auth'[i].client \in {"demo-client", "pkce-client"}
      BY <1>4 DEF SignsIn
    <3> QED BY <3>1 DEF SignsIn
  <2> QED BY <2>2, <2>3
<1> QED BY <1>4, <1>5, <1>6, <1>7, <1>8, IssuedStep DEF IInv

LEMMA IssuedInit == Init => Issued
BY DEF Init, Issued, Idle

LEMMA IssuedNext == IInv /\ IInv' /\ Issued /\ [Next]_vars => Issued'
<1>1. IInv /\ Issued /\ UNCHANGED vars => Issued'
  BY DEF vars, Issued, SignsIn
<1>2. IInv /\ IInv' /\ Issued /\ Next => Issued'
  BY IssuedHandlers, IssuedMoves DEF Next
<1> QED BY <1>1, <1>2

\* A code that a step voids was redeemed by a callback as the wrong client.
LEMMA VoidedByCallback ==
  ASSUME IInv, Issued, Next, NEW i \in Login, kc[i] = "code", kc'[i] = "ended"
  PROVE  /\ auth[i].client = "demo-client"
         /\ \E r \in Req : AuthCallback(r) /\ req[r].arg = i /\ req[r].session.pkce_flow
<1>1. kc \in KcType
  BY DEF IInv, TypeOK, KcType
<1>2. \E r \in Req : AuthCallback(r)
  <2>1. kc' # kc
    OBVIOUS
  <2>2. ~ \E j \in Login : Authenticate(j) \/ EndSession(j)
    BY <1>1 DEF Authenticate, EndSession, KcType
  <2>3. ~ \E r \in Req : PasswordGrant(r) \/ ClientCredentials(r)
    BY <1>1 DEF PasswordGrant, ClientCredentials, DirectGrant, KcType
  <2> QED
    BY <2>1, <2>2, <2>3
    DEF Next, Handle, Send, SendCallback, Receive, Lose, StartAuthCode, PkceFlow,
        AuthError, PkceResult, RefreshToken, Logout, DeviceFlow, DevicePoll, Gated, Page
<1> PICK r \in Req : AuthCallback(r)
  BY <1>2
<1> PICK s, j : s = req[r].session /\ j = req[r].arg
  OBVIOUS
<1>3. kc' = Redeem(j, s)
  BY DEF AuthCallback
<1>4. j = i /\ ~ CodeAccepted(i, s)
  BY <1>1, <1>3 DEF Redeem, KcType
<1>5. auth[i].client # "pkce-client"
  BY CallbackKeepsPkceCode
<1>6. auth[i].client = "demo-client"
  BY <1>5 DEF Issued, SignsIn
<1>7. RedeemAs(s) = "pkce-client"
  BY <1>4, <1>6 DEF CodeAccepted, RedeemAs
<1>8. s.pkce_flow
  BY <1>7 DEF RedeemAs
<1> QED BY <1>4, <1>6, <1>8

(***************************************************************************)
(* client-app voids a code in one way only, however many tabs overlap:      *)
(* auth_callback redeems a code of demo-client as pkce-client, because an    *)
(* unfinished PKCE flow has left pkce_flow in the session.                  *)
(***************************************************************************)
THEOREM VoidedByLeftover == Spec => VoidedOnlyByLeftover
<1> DEFINE A == \A i \in Login : kc[i] = "code" /\ kc'[i] = "ended"
             => /\ auth[i].client = "demo-client"
                /\ \E r \in Req : /\ AuthCallback(r) /\ req[r].arg = i
                                  /\ req[r].session.pkce_flow
<1>1. IInv /\ Issued /\ [Next]_vars => [A]_vars
  BY VoidedByCallback
<1> QED
  BY <1>1, IssuedInit, IssuedNext, Invariance, PTL DEF Spec, VoidedOnlyByLeftover

=============================================================================
