--------------------------- MODULE ClientSession ---------------------------
(***************************************************************************)
(* The browser session of client-app (src/client-app/app.py).              *)
(*                                                                         *)
(* Flask keeps the session in a signed cookie: a request carries the       *)
(* cookie the browser held when it was sent, the handler works on that     *)
(* copy, and the response replaces the whole cookie when, and only when,   *)
(* the handler changed the session.  Requests of several tabs and of the   *)
(* device page's AJAX poller overlap, so a response can carry a session    *)
(* that is older than the cookie it replaces.                              *)
(*                                                                         *)
(* Each route is one action, taken on the request's copy of the session    *)
(* together with the call it makes to Keycloak's token endpoint.           *)
(***************************************************************************)
EXTENDS Naturals, FiniteSets

CONSTANTS
  Req,       \* requests that may be in flight together (tabs, AJAX polls)
  Login,     \* bound: authorization requests and direct grants of a behaviour
  Routes,    \* bound: the routes the browser of this instance requests
  None,      \* an absent session key
  KcFaults   \* may Keycloak answer 5xx or be unreachable?

ASSUME FaultsAssumption == KcFaults \in BOOLEAN

Client == {"demo-client", "pkce-client", "service-client"}
Flow   == {"authorization_code", "pkce", "password", "client_credentials"}
Route  == {"start_auth_code", "pkce_flow", "auth_callback", "auth_error",
           "password_grant", "client_credentials", "refresh_token", "logout",
           "pkce_result", "device_flow", "device_poll", "gated", "page"}

ASSUME NoneAssumption == None \notin Login \cup Client \cup Route
ASSUME RoutesAssumption == Routes \subseteq Route

(***************************************************************************)
(* A token response as the session stores it.  id and azp are Keycloak's:  *)
(* the login the tokens belong to and the client they were issued to.      *)
(* refreshed is the " (refreshed)" suffix of the flow name.                *)
(***************************************************************************)
Token == [id : Login, azp : Client, flow : Flow, refreshed : BOOLEAN]

ASSUME TokenAssumption == None \notin Token

(***************************************************************************)
(* The session keys the code reads again.  pkce_challenge and              *)
(* pkce_auth_url are set and popped with pkce_verifier; oauth_nonce is     *)
(* written and never read; device_expires and device_interval go with      *)
(* device_code; flashes says whether messages wait to be shown.            *)
(***************************************************************************)
Session == [oauth_state   : Login \cup {None},
            pkce_flow     : BOOLEAN,
            pkce_verifier : Login \cup {None},
            pkce_result   : Login \cup {None},
            token_data    : Token \cup {None},
            device_code   : BOOLEAN,
            flashes       : BOOLEAN]

NoSession == [oauth_state |-> None, pkce_flow |-> FALSE, pkce_verifier |-> None,
              pkce_result |-> None, token_data |-> None,
              device_code |-> FALSE, flashes |-> FALSE]

VARIABLES
  cookie,  \* the session the browser holds
  req,     \* requests in flight, each with its copy of the session
  auth,    \* per login: the client it is for, where the browser is with it
  kc,      \* Keycloak, per login: its code, then its user session
  held     \* history: the logins the cookie has ever held

vars == <<cookie, req, auth, kc, held>>

Request == [phase   : {"idle", "sent", "answered"},
            route   : Route \cup {None},
            arg     : Login \cup {None},
            session : Session,
            save    : BOOLEAN]     \* does the response carry Set-Cookie?

Idle == [phase |-> "idle", route |-> None, arg |-> None,
         session |-> NoSession, save |-> FALSE]

TypeOK ==
  /\ cookie \in Session
  /\ req \in [Req -> Request]
  /\ auth \in [Login -> [client : Client \cup {None},
                         at : {"new", "redirect", "login", "return",
                               "cancelled", "spent"}]]
  /\ kc \in [Login -> {"none", "code", "live", "ended"}]
  /\ held \subseteq Login

Init ==
  /\ cookie = NoSession
  /\ req = [r \in Req |-> Idle]
  /\ auth = [i \in Login |-> [client |-> None, at |-> "new"]]
  /\ kc = [i \in Login |-> "none"]
  /\ held = {}

-----------------------------------------------------------------------------
(* Handlers: the request's copy of the session, and how they answer.       *)

Serving(r, route) == req[r].phase = "sent" /\ req[r].route = route

Answered(q, s, save) == [q EXCEPT !.phase = "answered", !.session = s, !.save = save]

\* The handler changed the session: the response carries the whole of it.
Save(r, s) == req' = [req EXCEPT ![r] = Answered(@, s, TRUE)]

\* A start route: also a redirect to Keycloak with the state of request i.
SaveAndRedirect(r, s, i) ==
  req' = [req EXCEPT ![r] = Answered([@ EXCEPT !.arg = i], s, TRUE)]

\* The handler left the session alone, or died with an exception (HTTP 500).
NoSave(r) == req' = [req EXCEPT ![r] = Answered(@, NoSession, FALSE)]

\* flash() followed by a redirect: the message waits in the session.
Flash(s) == [s EXCEPT !.flashes = TRUE]

\* render_template: base.html shows, and thereby pops, the waiting messages.
Render(r, s) == IF s.flashes THEN Save(r, [s EXCEPT !.flashes = FALSE])
                             ELSE NoSave(r)

Fresh == {i \in Login : auth[i].client = None}

\* Tokens that Keycloak returns with a refresh token and an SSO session.
HasRefreshToken(td) == td.azp # "service-client"

StoreTokens(s, i, client, flow, refreshed) ==
  [s EXCEPT !.token_data = [id |-> i, azp |-> client, flow |-> flow,
                            refreshed |-> refreshed]]

-----------------------------------------------------------------------------
(* Authorization Code and PKCE: the two start routes and the callback.     *)

StartAuthCode(r) ==
  /\ Serving(r, "start_auth_code")
  /\ \E i \in Fresh :
       /\ auth' = [auth EXCEPT ![i] = [client |-> "demo-client", at |-> "redirect"]]
       /\ SaveAndRedirect(r, [req[r].session EXCEPT !.oauth_state = i], i)
  /\ UNCHANGED <<cookie, kc, held>>

\* Mistake: the verifier of an earlier attempt is kept.
PkceFlowKeepsVerifier(r) ==
  /\ Serving(r, "pkce_flow")
  /\ \E i \in Fresh :
       /\ auth' = [auth EXCEPT ![i] = [client |-> "pkce-client", at |-> "redirect"]]
       /\ SaveAndRedirect(r, [req[r].session EXCEPT !.oauth_state = i,
                                !.pkce_flow = TRUE,
                                !.pkce_verifier = IF @ = None THEN i ELSE @], i)
  /\ UNCHANGED <<cookie, kc, held>>

PkceFlow(r) ==
  /\ Serving(r, "pkce_flow")
  /\ \E i \in Fresh :
       /\ auth' = [auth EXCEPT ![i] = [client |-> "pkce-client", at |-> "redirect"]]
       /\ SaveAndRedirect(r, [req[r].session EXCEPT !.oauth_state = i,
                                !.pkce_flow = TRUE, !.pkce_verifier = i], i)
  /\ UNCHANGED <<cookie, kc, held>>

\* Mistake: every code is redeemed as the confidential client.
RedeemAsDemo(s) == "demo-client"

\* Mistake: the details of an earlier PKCE login stand for the flag.
RedeemAsByResult(s) == IF s.pkce_verifier # None \/ s.pkce_result # None
                       THEN "pkce-client" ELSE "demo-client"

\* The client that the callback redeems a code as.
RedeemAs(s) == IF s.pkce_flow /\ s.pkce_verifier # None
               THEN "pkce-client" ELSE "demo-client"

\* Mistake: a missing flag defaults to None, as the other keys do.
PopPkceToNone(s) == [s EXCEPT !.oauth_state = None, !.pkce_flow = None,
                              !.pkce_verifier = None]

\* Mistake: the state stays behind.
PopPkceKeepsState(s) == [s EXCEPT !.pkce_flow = FALSE, !.pkce_verifier = None]

PopPkce(s) == [s EXCEPT !.oauth_state = None, !.pkce_flow = FALSE,
                        !.pkce_verifier = None]

\* Keycloak accepts a code once, from the client it was issued to, and for
\* pkce-client only with the verifier of its own authorization request.
CodeAccepted(i, s) ==
  /\ kc[i] = "code"
  /\ auth[i].client = RedeemAs(s)
  /\ RedeemAs(s) = "pkce-client" => s.pkce_verifier = i

\* A code presented wrongly or again is void, and so is what it was good for.
Redeem(i, s) == [kc EXCEPT ![i] = IF CodeAccepted(i, s) THEN "live" ELSE "ended"]

\* Mistake: the details of an earlier PKCE login are not replaced.
CallbackTokensKeepResult(s, i) ==
  LET t == StoreTokens(PopPkce(s), i, RedeemAs(s),
                       IF s.pkce_flow THEN "pkce" ELSE "authorization_code", FALSE)
  IN  IF s.pkce_flow /\ s.pkce_result = None
      THEN [t EXCEPT !.pkce_result = s.pkce_verifier] ELSE Flash(t)

\* Mistake: one flow name for both flows of the callback.
CallbackTokensOneName(s, i) ==
  LET t == StoreTokens(PopPkce(s), i, RedeemAs(s), "authorization_code", FALSE)
  IN  IF s.pkce_flow THEN [t EXCEPT !.pkce_result = s.pkce_verifier] ELSE Flash(t)

\* What the callback stores for the tokens of login i.
CallbackTokens(s, i) ==
  LET t == StoreTokens(PopPkce(s), i, RedeemAs(s),
                       IF s.pkce_flow THEN "pkce" ELSE "authorization_code", FALSE)
  IN  IF s.pkce_flow THEN [t EXCEPT !.pkce_result = s.pkce_verifier] ELSE Flash(t)

AuthCallback(r) ==
  LET i == req[r].arg
      s == req[r].session
  IN  /\ Serving(r, "auth_callback")
      /\ \/ /\ s.oauth_state # i                            \* "Invalid state"
            /\ Save(r, Flash([s EXCEPT !.oauth_state = None]))
            /\ UNCHANGED kc
         \/ /\ s.oauth_state = i
            /\ CodeAccepted(i, s)
            /\ Save(r, CallbackTokens(s, i))
            /\ kc' = Redeem(i, s)
         \/ /\ s.oauth_state = i                            \* invalid_grant
            /\ ~ CodeAccepted(i, s)
            /\ Save(r, Flash(PopPkce(s)))
            /\ kc' = Redeem(i, s)
         \/ /\ s.oauth_state = i                            \* 5xx
            /\ KcFaults
            /\ Save(r, Flash(PopPkce(s)))
            /\ UNCHANGED kc
         \/ /\ s.oauth_state = i                            \* no answer: HTTP 500
            /\ KcFaults
            /\ NoSave(r)
            /\ kc' \in {kc, Redeem(i, s)}
      /\ UNCHANGED <<cookie, auth, held>>

\* Keycloak redirected back with error=...: nothing is popped.  A callback that
\* carries no code ends alike, before its state is looked at.
AuthError(r) ==
  /\ Serving(r, "auth_error")
  /\ Save(r, Flash(req[r].session))
  /\ UNCHANGED <<cookie, auth, kc, held>>

PkceResult(r) ==
  LET s   == req[r].session
      t   == [s EXCEPT !.pkce_result = None]
      td  == s.token_data
      own == s.pkce_result # None /\ td # None /\ td.flow = "pkce" /\ ~ td.refreshed
  IN  /\ Serving(r, "pkce_result")
      /\ Save(r, [t EXCEPT !.flashes = ~ own])
      /\ UNCHANGED <<cookie, auth, kc, held>>

-----------------------------------------------------------------------------
(* Direct grants, refresh and logout.                                      *)

\* Keycloak grants login i to a client without a browser round trip.
DirectGrant(i, client) ==
  /\ auth' = [auth EXCEPT ![i].client = client]
  /\ kc' = [kc EXCEPT ![i] = "live"]

\* A refused password re-renders the form, which shows the flash at once.
PasswordGrant(r) ==
  LET s == req[r].session
  IN  /\ Serving(r, "password_grant")
      /\ \/ \E i \in Fresh :
              /\ DirectGrant(i, "demo-client")
              /\ Save(r, Flash(StoreTokens(s, i, "demo-client", "password", FALSE)))
         \/ Save(r, [s EXCEPT !.flashes = FALSE]) /\ UNCHANGED <<auth, kc>>
         \/ KcFaults /\ NoSave(r) /\ UNCHANGED <<auth, kc>>
      /\ UNCHANGED <<cookie, held>>

ClientCredentials(r) ==
  LET s == req[r].session
  IN  /\ Serving(r, "client_credentials")
      /\ \/ \E i \in Fresh :
              /\ DirectGrant(i, "service-client")
              /\ Save(r, Flash(StoreTokens(s, i, "service-client",
                                           "client_credentials", FALSE)))
         \/ KcFaults /\ Save(r, Flash(s)) /\ UNCHANGED <<auth, kc>>
         \/ KcFaults /\ NoSave(r) /\ UNCHANGED <<auth, kc>>
      /\ UNCHANGED <<cookie, held>>

\* refresh_token always authenticates as demo-client (CLIENT_ID).
RefreshAccepted(td) == kc[td.id] = "live" /\ td.azp = "demo-client"

RefreshToken(r) ==
  LET s  == req[r].session
      td == s.token_data
      canRefresh == td # None /\ HasRefreshToken(td)
  IN  /\ Serving(r, "refresh_token")
      /\ \/ /\ ~ canRefresh
            /\ Save(r, Flash(s))
         \/ /\ canRefresh
            /\ RefreshAccepted(td)
            /\ Save(r, Flash(StoreTokens(s, td.id, td.azp, td.flow, TRUE)))
         \/ /\ canRefresh
            /\ KcFaults \/ ~ RefreshAccepted(td)
            /\ Save(r, Flash([s EXCEPT !.token_data = None]))
         \/ /\ canRefresh
            /\ KcFaults
            /\ NoSave(r)
      /\ UNCHANGED <<cookie, auth, kc, held>>

\* A login with an SSO session is redirected to Keycloak's end_session page.
SsoLogout(td) == td # None /\ td.flow # "client_credentials"

Logout(r) ==
  LET s == req[r].session
      t == [s EXCEPT !.token_data = None]
  IN  /\ Serving(r, "logout")
      /\ Save(r, IF SsoLogout(s.token_data) THEN t ELSE Flash(t))
      /\ UNCHANGED <<cookie, auth, kc, held>>

-----------------------------------------------------------------------------
(* Device flow (as far as it touches the session) and the other pages.     *)

DeviceFlow(r) ==
  LET s == req[r].session
  IN  /\ Serving(r, "device_flow")
      /\ \/ Save(r, [s EXCEPT !.device_code = TRUE, !.flashes = FALSE])
         \/ KcFaults /\ Render(r, s)
         \/ KcFaults /\ NoSave(r)
      /\ UNCHANGED <<cookie, auth, kc, held>>

\* Answers JSON and renders no page.  The code is popped when it has expired,
\* was approved or was refused, and kept while the user has yet to act.
DevicePoll(r) ==
  LET s == req[r].session
  IN  /\ Serving(r, "device_poll")
      /\ \/ NoSave(r)
         \/ s.device_code /\ Save(r, [s EXCEPT !.device_code = FALSE])
      /\ UNCHANGED <<cookie, auth, kc, held>>

\* Routes that need a token: without one, or with one that token_expired
\* finds past expires_at, they flash and redirect.  Time is abstracted: a
\* stored token may be found expired or not.
Gated(r) ==
  LET s == req[r].session
  IN  /\ Serving(r, "gated")
      /\ \/ Save(r, Flash(s))
         \/ s.token_data # None /\ Render(r, s)
         \/ s.token_data # None /\ KcFaults /\ NoSave(r)
      /\ UNCHANGED <<cookie, auth, kc, held>>

Page(r) ==
  /\ Serving(r, "page")
  /\ \/ Render(r, req[r].session)
     \/ KcFaults /\ NoSave(r)
  /\ UNCHANGED <<cookie, auth, kc, held>>

-----------------------------------------------------------------------------
(* The browser: it attaches its cookie to a request, and takes over the    *)
(* cookie of the response.  A response can be lost (tab closed, connection *)
(* dropped, client-app restarted); a callback URL can then be reloaded.    *)

Start(r, route, arg) ==
  /\ req[r].phase = "idle" /\ route \in Routes
  /\ req' = [req EXCEPT ![r] = [phase |-> "sent", route |-> route, arg |-> arg,
                                session |-> cookie, save |-> FALSE]]

Send(r) ==
  /\ \E route \in Route \ {"auth_callback", "auth_error"} : Start(r, route, None)
  /\ UNCHANGED <<cookie, auth, kc, held>>

\* Keycloak's redirects, which echo the state that every start route sends.
SendCallback(r, i) ==
  /\ \/ auth[i].at = "return" /\ Start(r, "auth_callback", i)
     \/ auth[i].at = "cancelled" /\ Start(r, "auth_error", i)
  /\ auth' = [auth EXCEPT ![i].at = "spent"]
  /\ UNCHANGED <<cookie, kc, held>>

TokenIds(s) == IF s.token_data = None THEN {} ELSE {s.token_data.id}

Receive(r) ==
  LET i == req[r].arg
  IN  /\ req[r].phase = "answered"
      /\ cookie' = IF req[r].save THEN req[r].session ELSE cookie
      /\ held' = held \cup TokenIds(cookie')
      /\ auth' = IF req[r].route \in {"start_auth_code", "pkce_flow"}
                 THEN [auth EXCEPT ![i].at = "login"] ELSE auth
      /\ req' = [req EXCEPT ![r] = Idle]
      /\ UNCHANGED kc

Lose(r) ==
  LET i == req[r].arg
  IN  /\ req[r].phase # "idle"
      /\ auth' = CASE req[r].route = "auth_callback" -> [auth EXCEPT ![i].at = "return"]
                   [] req[r].route = "auth_error" -> [auth EXCEPT ![i].at = "cancelled"]
                   [] OTHER -> auth
      /\ req' = [req EXCEPT ![r] = Idle]
      /\ UNCHANGED <<cookie, kc, held>>

-----------------------------------------------------------------------------
(* Keycloak, as the code uses it.                                          *)

\* The user signs in at Keycloak's page, or cancels there.
Authenticate(i) ==
  /\ auth[i].at = "login"
  /\ \/ /\ kc' = [kc EXCEPT ![i] = "code"]
        /\ auth' = [auth EXCEPT ![i].at = "return"]
     \/ /\ UNCHANGED kc
        /\ auth' = [auth EXCEPT ![i].at = "cancelled"]
  /\ UNCHANGED <<cookie, req, held>>

\* The user session ends: end_session redirect, idle timeout, administrator.
EndSession(i) ==
  /\ kc[i] = "live"
  /\ kc' = [kc EXCEPT ![i] = "ended"]
  /\ UNCHANGED <<cookie, req, auth, held>>

Handle(r) ==
  \/ StartAuthCode(r) \/ PkceFlow(r) \/ AuthCallback(r) \/ AuthError(r)
  \/ PkceResult(r) \/ PasswordGrant(r) \/ ClientCredentials(r)
  \/ RefreshToken(r) \/ Logout(r) \/ DeviceFlow(r) \/ DevicePoll(r)
  \/ Gated(r) \/ Page(r)

Next ==
  \/ \E r \in Req : Send(r) \/ Handle(r) \/ Receive(r) \/ Lose(r)
  \/ \E r \in Req, i \in Login : SendCallback(r, i)
  \/ \E i \in Login : Authenticate(i) \/ EndSession(i)

Spec == Init /\ [][Next]_vars

-----------------------------------------------------------------------------
(* Properties.                                                             *)

\* Every copy of the session: the browser's and those of requests in flight.
Sessions == {cookie} \cup {req[r].session : r \in Req}

(***************************************************************************)
(* A session that expects the callback of a PKCE authorization request     *)
(* holds that request's own verifier, in every copy of the session, however *)
(* the tabs' requests overlap (app.py pkce_flow, auth_callback).           *)
(***************************************************************************)
PkceStateHasVerifier ==
  \A s \in Sessions :
    s.oauth_state # None /\ auth[s.oauth_state].client = "pkce-client"
      => s.pkce_flow /\ s.pkce_verifier = s.oauth_state

(***************************************************************************)
(* The page /auth/pkce/result never shows one login's verifier beside      *)
(* another login's token: where its guard passes, the two belong together. *)
(***************************************************************************)
PkceResultBelongsToToken ==
  \A s \in Sessions :
    LET td == s.token_data
    IN  s.pkce_result # None /\ td # None /\ td.flow = "pkce" /\ ~ td.refreshed
          => s.pkce_result = td.id

(***************************************************************************)
(* The flow name that the pages, refresh and logout go by tells the truth  *)
(* about the tokens beside it: which client Keycloak issued them to.       *)
(***************************************************************************)
FlowMatchesIssuer ==
  \A s \in Sessions :
    LET td == s.token_data
    IN  td # None => /\ td.azp = auth[td.id].client
                     /\ td.flow = "pkce" <=> td.azp = "pkce-client"
                     /\ td.flow = "client_credentials" <=> td.azp = "service-client"

(***************************************************************************)
(* The callback never spoils a PKCE login: a code of pkce-client is never   *)
(* voided by redeeming it as the wrong client or with a wrong verifier.    *)
(***************************************************************************)
PkceCodeNeverVoided ==
  [][\A i \in Login : auth[i].client = "pkce-client" /\ kc[i] = "code"
                        => kc'[i] # "ended"]_vars

(***************************************************************************)
(* What the callback's docstring says of both its flows: a code that comes *)
(* back with the state it left with is redeemed as the client it was       *)
(* issued to.                                                              *)
(***************************************************************************)
CodeNeverVoided == [][\A i \in Login : kc[i] = "code" => kc'[i] # "ended"]_vars

(***************************************************************************)
(* The only way in which client-app voids a code: the callback redeems a   *)
(* code of the plain flow from a session in which an unfinished PKCE flow   *)
(* has left its flag (start_auth_code keeps it, auth_callback goes by it).  *)
(***************************************************************************)
VoidedOnlyByLeftover ==
  [][\A i \in Login : kc[i] = "code" /\ kc'[i] = "ended"
        => /\ auth[i].client = "demo-client"
           /\ \E r \in Req : /\ AuthCallback(r) /\ req[r].arg = i
                             /\ req[r].session.pkce_flow]_vars

(***************************************************************************)
(* A login that has left the session does not come back: only a new login  *)
(* brings tokens into a session that does not hold them.                   *)
(***************************************************************************)
NoResurrection == [][TokenIds(cookie') \ TokenIds(cookie) \subseteq Login \ held]_vars

(***************************************************************************)
(* Refreshing a login that is alive at Keycloak does not lose it.          *)
(***************************************************************************)
RefreshKeepsLiveLogin ==
  [][\A r \in Req : LET td == req[r].session.token_data
                    IN  /\ RefreshToken(r)
                        /\ td # None /\ HasRefreshToken(td) /\ kc[td.id] = "live"
                        => req'[r].session.token_data # None]_vars

(***************************************************************************)
(* With one request at a time the cookie is as good as the server-side     *)
(* session the documentation describes.                                    *)
(***************************************************************************)
ServerSide == INSTANCE ServerSideSession WITH
  login   <- IF cookie.token_data = None THEN None ELSE cookie.token_data.id,
  pending <- cookie.oauth_state,
  begun   <- {i \in Login : auth[i].at \notin {"new", "redirect"}}

ServerSideSpec == ServerSide!Spec

=============================================================================
