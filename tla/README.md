# A TLA+ verification of oauth2tests

This directory holds TLA+ models of the OAuth2 demo in this repository, the
TLC configurations that check them on small instances, and TLAPS proofs of
their central properties for instances of any size.

    tlc -workers 2 -config ClientSessionConcurrent.cfg MCClientSession
    tlapm ClientSessionProofs.tla

## The system

The demo is a set of containers around a Keycloak server.

| Component | State it keeps | Operations | Talks to |
|---|---|---|---|
| `client-app/app.py` | nothing but the browser's session cookie | one route per OAuth2 flow, refresh, logout, API calls | browser (redirects, cookies, AJAX), Keycloak, resource server, agents |
| `client-app/templates/device_demo.html` | timer, interval, what it shows | `poll` | `/auth/device/poll` |
| `client-app/dpop.py` | none (a key pair per demo run) | key pair, thumbprint, proofs | - |
| `resource-server/main.py` | the cache of Keycloak's signing keys | wait for Keycloak, validate token, validate DPoP proof, roles | Keycloak's key set |
| `keycloak-init/setup.py` | the realm, in Keycloak's database | one `ensure_...` function per client, role, scope, mapper | Keycloak's Admin API |
| `mcp-service/main.py` | key cache | bearer check, audit line, two tools | Keycloak's key set, agents |
| `ai-agents/*/agent.py` (five) | one run: token, MCP session, tool calls; SVID files | credential, token, discovery, tool loop | SPIRE, Keycloak, mcp-service |
| `spiffe-service/main.py` | its EC P-256 key | SVID, client assertion, one call | SPIRE, Keycloak, resource server |
| `cert-init/setup.sh` | a volume with CA and agent certificate | generate unless present | agent-cert, Keycloak |
| `spire/setup.sh`, `agent-start.sh` | join token, workload entries | generate, register | SPIRE server |
| `keycloak-mtls-proxy` | the SVID it fetched at start | fetch, serve mTLS | SPIRE, Keycloak |
| `docker-compose.yml` | containers, volumes | start in the order of conditions, `up`, `down` | all of the above |
| `client-app/docs_renderer.py`, templates | none | render | - |

What makes each of them correct:

* **The session.** A login ends with the tokens of that login; the PKCE
  verifier, the state and the flow flag that a callback uses belong to one
  authorization request; what the pages say about a token is true of it; a
  logout is final. Hard because Flask keeps the session *in the cookie*: each
  request works on the copy that the browser sent, and a response that changed
  the session replaces all of it, however old that copy has become. Tabs and the
  device page's poller overlap.
* **The device page.** It polls until the flow is decided, then stops; it gives up
  no code that is still good; it shows the tokens of the code it displayed. Hard
  because tabs share one `device_code`, and calls fail half way.
* **Resource calls.** A token that client-app took for valid is accepted; a
  published key is found; the DPoP demo works. Hard because three clocks,
  three timeouts and a key cache without a TTL take part.
* **Provisioning.** When the script says that the realm is ready it is, whatever
  earlier runs left behind. Hard because every step is a read followed by a
  write, the run can die between any two, and steps whose objects are missing are
  skipped silently.
* **Agents and mcp-service.** A run always ends, says truthfully why, leaves the key it
  used nowhere, and calls tools only with a token that carries audience and scope
  `mcp`; the log says on whose behalf. Hard because one exception handler covers the
  whole session, the service's event loop is held up by key lookups, and a call
  that one side has given up on is still made by the other.
* **Identity bootstrap.** Key material and certificate on the volume belong together,
  whatever died while they were made; `docker compose up` ends; repeating it
  brings every workload back to a token. Hard because each service keeps for its
  life what it fetched at start, the SPIRE agent keeps a trust bundle beyond it, the join
  token is good for one use, and three files stand for a script of six commands.

## The modules

| Module | What it models |
|---|---|
| `ClientSession` | the session and every route that writes it |
| `ServerSideSession` | abstract: the server-side session the documentation promises |
| `DeviceFlow` | `/auth/device`, `/auth/device/poll`, the page's script, tabs |
| `Provisioning` | `keycloak-init/setup.py` on a realm as a set of facts |
| `ResourceCall` | `/api/call`, `/auth/dpop` against the resource server, key cache, clocks |
| `McpService` | `mcp-service`: the middleware, its key lookup, audit line, tools |
| `AgentRun` | the page, `run_agent` of the five agents, composed with `McpService` |
| `ReportedRun` | abstract: what an agent promises of `POST /run` |
| `Compose` | `docker-compose.yml`: dependencies, `up`, `down`, containers that die |
| `CertInit` | `cert-init/setup.sh` and the volume it fills |
| `SpireBootstrap` | `spire/setup.sh`, `agent-start.sh`, server and agent |
| `Startup` | the three above with the services that log in by an identity of their own |
| `MC...` | the constants of TLC's instances |
| `...Proofs` | theorems about the module of that name |
| `ServerSideProofs` | that `ClientSession` implements `ServerSideSession`, and when |
| `StartupOrderProofs` | the theorems about `Startup` that depend on the order of starts |

Definitions whose comment begins with "Mistake" are plausible errors in the code
(a pop that is forgotten, a missing leeway). They are not part of any
specification; each was put in the place of the correct definition once to see
that a property notices.

### ClientSession

`cookie` is what the browser holds; `req[r]` is a request in flight with its own
copy of the session, the route, and after the handler ran whether the response
carries `Set-Cookie`. `auth[i]` and `kc[i]` follow login `i` through the browser
and Keycloak. Each route of `app.py` is one action on the request's copy; in
between, the browser (`Send`, `SendCallback`, `Receive`, `Lose`) and Keycloak
(`Authenticate`, `EndSession`) move. A handler and its one call to the token
endpoint are one action: nothing else can observe the copy, and what Keycloak
decides it decides at one moment of that call. A call that fails without an
answer may or may not have been carried out.

Flask writes the cookie when, and only when, the session was changed;
`flash()` changes it, and so does rendering a page that shows a flash
(`Render`). That is why nearly every page can bring an old session back.
The session records keep the keys that the code reads again: `pkce_challenge`
and `pkce_auth_url` go with the verifier, `oauth_nonce` is written and never
read. Expiry is abstracted to "a token may be found expired" (`Gated`);
`ResourceCall` has the clocks. Callbacks are Keycloak's redirects: they carry the
state that every start route sends, and a code or an error. A callback with neither
leaves the session as `AuthError` does; one with a code and no state, which a session
without a state would not refuse (app.py:370 compares `None` with `None`), no redirect of
Keycloak's produces, and it is left out.

* `cs_concurrent`: two requests at once, two logins, the routes that move tokens,
  Keycloak failing. `PkceStateHasVerifier`, `PkceResultBelongsToToken`,
  `FlowMatchesIssuer` and `PkceCodeNeverVoided` hold: overwriting the cookie as a
  whole loses updates but never mixes two of them. `VoidedOnlyByLeftover` says that
  the way of `cs_voided_code` below is the only one in which a code is voided.
* `cs_serial`: one request at a time, all routes. The session implements
  `ServerSideSession` (login, pending state, logins begun, logins held).
* `cs_resurrection` (violation of `NoResurrection`): with two requests it does
  not. A page or refresh sent before logout and answered after it restores the
  login that logout removed; docs/architecture.md:98 and :304 speak of a
  server-side session, which would not.
* `cs_voided_code` (violation of `CodeNeverVoided`): start PKCE, return to the
  home page, start the plain flow and log in. `start_auth_code` leaves
  `pkce_flow` and `pkce_verifier` behind, the callback redeems demo-client's code as
  pkce-client, and Keycloak refuses. The PKCE login itself is never spoiled.
* `cs_pkce_refresh` (violation of `RefreshKeepsLiveLogin`): `refresh_token`
  authenticates as demo-client always; a PKCE login is dropped from the session by a
  refresh, although the docstring counts PKCE among the flows that refresh.

Bounds: two requests are the least that overlap, and each property relates one
copy of the session to one other; two logins are an old and a new one. The theorems
below remove both bounds for everything `cs_concurrent` checks.

### DeviceFlow

`cookie` is `session["device_code"]`; `page[t]` is what tab `t` shows, with the code
it was rendered with; `req[t]` its request. `Popped` answers terminate the code,
`PendingErrors` keep it. `OtherSend` and `OtherReceive` stand for any other page of
client-app whose response replaces the cookie. `faults` counts failed calls and lost
responses.

* `device`: two tabs, two codes, a bounded number of faults. `KeepsUsableCode` (a poll
  gives up only a code that is of no use), `PollingStops` (every page stops),
  `ApprovedDelivered` (once faults are over and nobody else writes the session,
  the approved code's tokens are shown unless the page is closed or the code
  expires).
* `device_own` (violation of `ShownIsOwn`): the script sends its own code,
  `device_poll` reads the session's, which another tab has replaced. The first tab
  shows the tokens of a code that it never displayed.

Fairness (`FairSpec`): weak fairness of the timer (`Poll`, `setTimeout` re-arms it
after each pending answer), of the handler (`DevicePoll`, its one HTTP call has a
timeout of 10 s), of the arrival of the answer (`Polled`; a lost one is a
fault) and of expiry (`Expire`, time passes). Nothing is assumed of the user:
whether the code is approved, refused or ignored, polling ends.

Two tabs share one session; a third adds one more writer of the same key. Each
fault breaks one call, and `ApprovedDelivered` speaks of the time after the last.

### Provisioning

The realm is a set of facts (client configured, exchange enabled, role, role of a
service account, scope, optional scope, mapper). `Steps` is the order of `main`, read
off each `ensure_` function; `Needs` are the objects without which a step is
skipped with a warning; `Check` is the read, `Write` the write, `Fail` an HTTP error, a
timeout or the end of the container, after which Keycloak may or may not have
carried out the write. `OnlyCreates` are the steps that POST only, and so end with 409
if another run came first. `setup_token_exchange` reads a client and PUTs it back as a whole
(`copy`, `Store`): mappers that were made in between may be gone, and each run notes in `lost` what went
since its launch. Whether Keycloak takes mappers away by such a PUT is left open.

* `provisioning`: two runs, any interleaving, failing anywhere, launched again;
  a fresh realm (imported late, after Keycloak reported ready) and four older
  ones. `DoneMeansConfigured`: a run that prints its last message left the realm
  with everything the five agents and the flows need, except a mapper that a PUT took away
  while it was at work; a run launched afterwards puts it back. TLC finds the exception needed: on a
  realm from before token exchange, one run reads demo-client, another one does all its work,
  the first one PUTs. `OboReady`: so does "OBO is
  ready!". Waiting is bounded by `Attempts` = 1 poll (60 in the code): the loop's
  only effects are to go on or to exit.

What old realms may look like is a bound: each contains `Base`, and objects
that exist are of the current form unless their step migrates them. The script
itself looks only whether dpop-client, device-client and pkce-client exist, so
an older form of these would stay as it is, and the migration of ai-agent-spiffe
does not look at `use.jwks.url` (setup.py:515).

### ResourceCall

`now` is Keycloak's clock; the other two are `now` plus a skew. `call[c]` is a browser
request: token and `expires_at` of its session, the Authorization header and the
proof it sends, when the timeout in force began. `rs` is the resource server: waiting
for Keycloak or serving, and the keys PyJWKClient has cached. A call passes through
`ApiCall` (first test of `token_expired`), `CallResource` (second test), `Connect`,
`Lookup`, `FetchJwks`, `DecodeToken`, `Deliver`; time, an outage, a key rotation or a
withdrawal can come between any two. `requests` bounds connecting and reading
separately, so a call can take two timeouts, and the answer that brought the token a
third before `expires_at` is computed.

* `resource_call`: time unit 10 s; one timeout, the leeway of 30 s, the proof window of
  60/10 s and a skew of 10 s between client-app and Keycloak; a cache of one key and two keys, so that
  eviction happens; one poll at startup; one fault. `CheckedIsNotExpired`: the
  comment above `leeway=30` in `_decode_token` is right, and tightly so
  (`ClockAssumption`: three timeouts plus the skew must fit). The run uses the leeway up:
  three timeouts of 10 s and no skew between Keycloak and the resource server. That is also
  the limit of what the code can promise: fractions of a second, which Keycloak cuts
  off a token's dates, and any lag of the resource server's clock to the wrong side are
  not in it.
  `KeyFoundWhenPublished`: the comment above `PyJWKClient(...)` is right; no bad fetch
  can poison the cache. `DpopDemoSucceeds`: the second proof is fresh, bound and
  fits its token.
* `resource_call_no_token` (violation of `CarriesToken`): between api_call's two tests
  of `token_expired` the token expires; a call that requires a token is sent without.

One caller is enough for TLC because callers share only the key cache; the
theorems hold for any number. Tokens are genuine: signatures, issuer and malformed
headers are not modelled. htm and htu are one mismatch. A late answer ends the call
at `Deliver`, when client-app has given up. PyJWKClient's eviction order is left
open. The resource server is not restarted.

docs/PROJECT-ARCHITECTURE.md:600 explains "Token has expired" right after login by
clock skew between containers and refers to the leeway. That message of client-app
compares its own clock with itself (`token_expired`, `ExpiresAt`): no skew between
containers and no leeway enters it.

### McpService and AgentRun

`run[r]` is one execution of `run_agent`: the step it is at and the fields of its
report (`svid`, `auth`, `mcp`, `error`, `answer`, the calls its turns list).
`page[r]` is the page of client-app that started it, `request[r]` and `reply[r]` what
is between the run and the MCP service, `token[r]` its access token, `disk[r]` the
temporary files of its SVIDs. `executed` and `audit` are what the service did and
logged. The five agents are five ways through attestation (`FetchJwtSvid`,
`FetchX509Svid`) and the token request (`SecretToken`, `SpiffeToken`, `CertToken`,
`MtlsToken`, `ExchangeToken`), and one way through the rest, as in the code, where that
part is the same text five times. `Raised` is the handler that takes
every exception between the opening of the session and its end. A tool that
reports an error is a call that was executed: agents list it as any other.

The service has one event loop. A token whose key is cached is judged at once
(`ServeCached`); otherwise `BeginLookup` and `EndLookup` enclose a time in which nothing
else moves. `Other` is any other client, also one whose token names a key that
Keycloak does not have. The answer to a request that its client has given up on
finds nobody, but the request is carried out.

* `agent_run`: `EndsWithReason`, `TraceTellsItsGaps`, `SilentOnlyAboutTheLoop` (what the
  page cannot explain), `UsedKeyIsRemoved`, `AuditNamesBoth`, `ToolsRunOnGoodTokens`,
  `RequestsAreAnswered`, and `ReportedRunSpec`: an agent's run implements
  `ReportedRun`. `live` lets the model be Anthropic's or the built-in mock.

Bounds: one run at a time, for each of the five agents (runs share only the
service and its key cache, and `Other` stands for everybody else there; the theorems
hold for any number of runs); two attempts at the SVID (3 in the code), two
iterations (6) and two tool calls in an answer, which is what it takes to have a
first, a middle and a last one; one fault. The theorems lift all of them. The mock stops
by itself after two calls, whatever the limit on iterations.

Fairness (`FairSpec`): weak fairness of `RunStep`, because each call an agent makes has
a timeout; weak fairness of `OtherEnds`, because the key lookup has a timeout of 30 s;
strong fairness of `Mcp(r)`: a request is ready whenever no lookup holds the loop up,
and the loop serves requests in the order they came. A page need not time out,
a process need not die, Keycloak need not return.

`AuditLine` of the service and `CustodyChain` of agent-delegated are written
separately in the code; `AuditNamesBoth` says they agree on every token Keycloak issues
here. agent-delegated's answer for a token that is no JWT cannot be reached
from client-app, whose session holds JWTs only.

### Compose, CertInit, SpireBootstrap and Startup

`at[s]` is the step each container is at: not created, starting, a step of its
script, up, done or failed. `target` is what the operator asked for, `wanted`
what `up` has still to look at. `pki` names, for each file on the volume of cert-init, the
run that made its key; `token`, `entries`, `ca` and `agentCa` are the SPIRE side; `signer`,
`cert` and `bundle` are what a process read or made when it started and keeps; `jwk`
is the key Keycloak has cached for a client; `login[w]` is how the last
token request of workload `w` ended.

Each command of `cert-init/setup.sh` that writes a file is an action
(`Guard` to `Chmod`); a run that dies leaves the file of that command, or an empty one
(`Truncated`). `spire/setup.sh` is `InitWaits`, `MakesToken` and one `CreatesEntry` for
each workload, whose failure the script swallows. `DependsOn` is the `depends_on` of
the compose file. `Disturbance` is what goes wrong: a container dies (with the SPIRE agent
all that live in its process namespace), the server changes its CA, the join token
expires, containers or volumes are removed, an exited container is started by hand.

* `startup`: `CertMatchesKey`, `KeyIsKept`, `KeyTakenIsCurrent` (a service that restarts
  signs with a new key, and Keycloak never checks it with the old one that it has
  cached, because the kid is new as well), `OrderlyStart` (without faults the conditions
  in the compose file are sufficient), `UpEnds`, and `LoginsHeal`: in the end, every workload that is
  wanted gets its tokens, or is `Stuck`. `Stuck` names the five cases which no further
  `up` repairs, each of them necessary for the property to hold: an audience that was
  not discovered at start; a key that its agent may not read; a SPIRE agent that runs
  and does not know its server; a SPIRE agent that has ended and has an old bundle in its
  container; a proxy with a trust bundle older than the CA.

The fourth of them comes about like this. The agent keeps the server's trust bundle in
`data_dir`, which is in its container and on no volume (agent.conf:2,
docker-compose.yml:196-200). `up` starts an exited container again as it is, and
`insecure_bootstrap` is for an agent without a bundle. If the server was started again
in the meantime, its CA is another one, and the agent cannot join with however fresh a token
(`TrustsServer`, `AgentFails`). Only the removal of the containers helps
(`ContainersRemoved`), and after it `LoginsHeal` demands that the logins work again.

Bounds: the operator asks for one workload and gets all it depends on (four instances in
one run; workloads that are wanted together share the SPIRE agent and Keycloak, on
which they only depend, and the `up` that starts them: one that gives up on a workload that is
stuck, `GivesUp`, may leave another one not yet started, which `LoginsHeal` says
nothing about); two faults, so that one can hit the repair of another. The
theorems hold for any targets and any number of faults.

Fairness (`FairSpec`): each start-up script and each server's start ends, because its
waits are counted (30 health checks, 60 looks for a socket, five attempts) and its calls
have timeouts; compose goes on; the workloads are asked to log in again and again, by
the visitors of their pages; and the operator runs `up` until it is
satisfied. The last is an assumption about a person: `LoginsHeal` says what such a person
can hope for. `AgentEnds` and the disturbances have no fairness.

External and taken from their documentation: Docker (exited containers keep their files
and are run again by `up`, no restart policy, processes die with their namespace; `up` waits for the
conditions of services that run already, too), the SPIRE server and agent
(CA and keys in memory, join tokens single-use, a cached trust bundle goes before
`insecure_bootstrap`, an agent that cannot join ends), Keycloak's key cache by kid.
The server is assumed to use a new CA at once when it rotates (`RotatesCa`): an agent that is down at that
moment has not learned of it.
The JWT-SVIDs that a SPIRE agent caches are left out: a workload whose agent has lost its server is
"unattested" at once instead of when the cached one expires.

## What is proved

All proofs are checked by TLAPS for every value of the constants that satisfies the
ASSUMEs of the module (durations are natural numbers, clocks and timeouts fit the
leeway, old realms contain `Base`, `None` is none of the others).

* **`ServerSideProofs`**: the refinement of `ServerSideSession`. `ClientSession` does
  not implement it in general (`cs_resurrection` is the counterexample), so the theorem
  `SerialIsServerSide` says exactly when it does: `Spec /\ []OneAtATime =>
  ServerSideSpec`, for any number of request slots, tabs and logins, if the browser
  never has two requests in flight. `OneSlotIsServerSide` is the instance that
  `cs_serial` checks, and `SerialNoResurrection` draws the conclusion: it takes
  overlapping responses to bring a login back. The abstract session changes only
  when a response is received, so the invariant (`SerialInv`) says what an answer
  on its way to the browser will do to the cookie: begin a request, leave it,
  abort, complete, grant a login or drop it (`Begins`, `Operation`), and what
  Keycloak has done for the logins the session has held (`History`), without
  which "never held" could not be told from the state of a code. With two
  requests in flight `Operation` is not kept: an answer stays the same while the
  cookie it was computed from is replaced.

* **`ClientSessionProofs`**: `TypeOK`, `PkceStateHasVerifier`,
  `PkceResultBelongsToToken`, `FlowMatchesIssuer`, `PkceCodeNeverVoided`,
  `VoidedOnlyByLeftover`. None of the
  invariants is inductive: a session may be received that some request carried.
  The inductive invariant says of *every copy* of the session that it is consistent:
  its state's verifier is there, its PKCE details belong to its token, its label is
  true, and each login it mentions has been begun for the right client. Handlers
  keep one copy consistent; the browser only moves copies. For `VoidedOnlyByLeftover`
  a second invariant (`Issued`) says that a code, and a callback that carries a
  state, is for a client whose users sign in at Keycloak.
* **`ProvisioningProofs`**: `TypeOK`, `DoneMeansConfigured`, `OboReady`. The inductive
  invariant says that no fact but a mapper is ever lost, and that noted, that the realm has been imported once a
  run is past waiting, and that of each step behind `pc` the fact holds. The step that carries it: a skipped step's
  needs were established by an earlier step of the list, so it was not skipped
  for want of its objects. That is where the order of `main` enters.
* **`ResourceCallProofs`**: `TypeOK`, `CheckedIsNotExpired`, `KeyFoundWhenPublished`,
  `DpopDemoSucceeds`. The invariant bounds, phase by phase, how far `now` may be
  past the token's dates: one timeout at issue, `expires_at` within a timeout of
  `exp`, one more for connecting, and one until an answer still counts. An
  "expired" answer is therefore late, and becomes a timeout at `Deliver`. For keys it
  says that a call that stayed calm still has its key published.

* **`DeviceFlowProofs`**: `TypeOK`, `KeepsUsableCode`, and `OnePageShowsItsOwn`:
  `Spec /\ []OnePage => []ShownIsOwn`, the promise that `device_own` violates, under
  the condition that it needs: one live device page at a time, and no request of another
  page that overlaps one of its own. Its invariant (`OwnInv`) ties the session, the page
  and the poll under way to one code. `KeepsUsableCode` is an action property:
  only `DevicePoll` changes the session on its own account, and each of its answers
  that pops the code is one Keycloak gives for a code that is redeemed or void.
* **`AgentRunProofs`**: `TypeOK`, `EndsWithReason`, `TraceTellsItsGaps`,
  `SilentOnlyAboutTheLoop`, `UsedKeyIsRemoved`, `AuditNamesBoth`, `ToolsRunOnGoodTokens`, and
  `RunsAreReported`, the step simulation of `ReportedRun` by every action. The
  inductive invariant speaks of one run at a time: how many calls the report lags
  behind the service at each step (`Counted`), for whom a request may be under way
  (`Sent`), which steps have succeeded (`Judged`), whose token it is (`Named`), and of
  which attempts files remain (`Written`). That the trace of an answered run is complete
  rests on `Sent`: a request that was given up on is under way only in a run that
  has failed.
* **`StartupProofs`**: `TypeOK`, `CertMatchesKey`, `KeyIsKept`. The invariant (`OfOneRun`) says that
  while a run of cert-init works there is no certificate, and all its files so far
  are its own; that is what the order of the commands, certificate last, is good
  for, and why a run that dies anywhere cannot leave a certificate beside the key of
  another run.
* **`StartupOrderProofs`**: `KeyTakenIsCurrent` and `OrderlyStart`. The first rests on
  `KeysByKid`, which survives every fault: under the kid in use Keycloak has cached
  the key in use, and a kid never comes back with another key. The second rests on
  `Ordered`, which holds while nothing has failed. It names, for each arrow of the compose
  file, what the one that waits relies on when it runs: `PkiFirst` (the files, complete
  and readable), `KeycloakFirst` (its discovery document), `ServerFirst` (a token that
  nobody has used, and the entries that spire-init has made so far, step by step), and `AgentFirst`
  (the agent serves, with the CA the server still has, and has no bundle before). The conditions are
  about the moment of a start, and the proof has to carry them past it: `up` repeated at
  any moment runs the one-shots again beside services that are up. `OrderlyStart` is
  only about behaviours without a fault, so the invariant is guarded by `faults = 0`, not
  weakened: with one fault each of its parts can be broken.

Only model-checked: liveness (`PollingStops`, `ApprovedDelivered`, `RequestsAreAnswered`,
`UpEnds`, `LoginsHeal` and the part of `ReportedRunSpec` that says a run ends), which is out
of the prover's reach; and the violations. Every invariant and every action property
of a passing run is a theorem.

## Divergences seen while modelling, without a run

* `device_poll` answers a refusal with `{"status": "error", "error": "access_denied"}`
  and expiry with `"expired"`; the script tests for the statuses `access_denied` and
  `expired_token`, so both show "Unexpected error" (device_demo.html:339-344).
* A 5xx with a JSON body pops a usable device code (app.py:951).
* The docstring of `refresh_token` says Keycloak rotates the refresh token; the
  realm does not set `revokeRefreshToken`.
* `logout`'s docstring says "Clear the Flask session"; it pops `token_data` only.
* setup.py:887 says the steps "are idempotent so they are safe to re-run", which holds one after the other;
  `docker compose run --rm keycloak-init` (docs/agentic-ai.md:796) beside a run of `up` can cost
  demo-client its `delegated-agent-audience` mapper until the next run.
* A second refresh makes the flow "... (refreshed) (refreshed)".
* setup.py:463-465 says the MCP server refuses a token without the role mcp-user;
  mcp-service never looks at roles (`Accepts`).
* cert-init/setup.sh:41-42 says "partial state is regenerated". A run that dies between
  signing and `chmod 644` leaves all three files that the guard looks at, and a key that openssl
  wrote for root only: agent-cert ends with a permission error, now and after every
  further `up`, until the volume is removed (`UnreadableKey`).
* agent.conf:8-10 calls `insecure_bootstrap` acceptable for a demo and
  docs/spiffe-oauth2.md:281-282 says that keys which are "regenerated on each restart" are
  fine for one. Together with `data_dir` in the container they are not: after a
  restart of spire-server, an agent that ends cannot join again until its container is removed, and
  neither agent-start.sh nor setup.sh clears the old bundle (`Stuck`, fourth disjunct).
* docs/agentic-ai.md:442-444 says SPIRE renews the SVID without a restart of any
  container. That is so for the agent; the proxy fetched its certificate and
  the trust bundle when it started, and needs one (`Stuck`, last disjunct).
* agent-spiffe-mtls/agent.py:411-412 says the SVID's files are cleaned up before the function
  returns; those of an attempt that failed while it wrote the second file
  are not (`FetchX509Svid`, third disjunct; `UsedKeyIsRemoved` speaks of the others).
* agent-spiffe-mtls depends on the proxy being *started* (docker-compose.yml:462-463), so its
  first login may be refused although nothing failed (`OrderlyStart` exempts it).
* A service that started without Keycloak keeps the wrong audience until it is
  restarted; docs/spiffe-oauth2.md:480-484 says so, for spiffe-service. agent-spiffe and
  agent-cert do the same.
* agent-delegated/agent.py:124 calls the list of actors "inner-most first"; the code
  appends from the outermost `act` inwards. With one actor both are true.
* agentic_result.html never renders `run.error`, so a run whose loop failed or did not
  converge shows no answer and no reason (`SilentOnlyAboutTheLoop` says that these are the only ones).
* resource-server's 503 "JWKS client not initialised" cannot be reached after
  startup.

## Plan

Done: the session, the device flow, provisioning, resource calls, the agents and
their MCP service, the bootstrap of identities, and the theorems above. What remains, in
this order:

1. Token exchange (On-Behalf-Of, rescope) and introspection in `ResourceCall`: their two
   requests in a row, with a token that expires between them.
2. Lemmas about the steps that `Provisioning` may take twice, and the abstract promise of
   a provisioning run, as a refinement.
3. Older forms of clients in `Provisioning`, and an administrator who edits the
   realm beside setup.py.

## Not modelled

* Pages and documentation (`docs_renderer.py`, most templates): they render, and
  keep no state.
* Cryptography: signatures are right or the token is not Keycloak's; malformed
  headers and tokens are left out.
* Keycloak, PostgreSQL, SPIRE, Docker and the MCP library beyond what the code relies on. The
  library's reaction to a 401 is "the call fails".
* nginx in the mTLS proxy resolves Keycloak's address once, when it starts; a Keycloak that
  comes back under another address is out of its reach. Addresses are not
  modelled. Nor are the paths it forwards.
* The content of the catalogue, the sample data, the answers of the language model beyond
  their kind, and the JWT-SVID that spiffe-service shows on its pages.
