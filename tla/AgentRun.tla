------------------------------- MODULE AgentRun -------------------------------
(***************************************************************************)
(* The runs of the five AI agents (ai-agents/*/agent.py), from the page of *)
(* the client application that starts them (client-app/app.py,             *)
(* agentic_agent) through the token request and the MCP session to the     *)
(* report.  The five agents differ in how they authenticate and share the  *)
(* rest of run_agent and the tool loop.  A run works on data of its own;   *)
(* runs meet in the MCP service, in Keycloak and in the process that dies. *)
(*                                                                         *)
(* Every call out of a run ends: with an answer, with an exception of its  *)
(* client, or with the client's timeout.  Time itself is not modelled: a   *)
(* timeout may strike at any moment.                                       *)
(***************************************************************************)
EXTENDS McpService

CONSTANTS
  Agent,          \* the agents of this instance, by their slugs
  User,           \* the person who is logged in to the client application
  Attempts,       \* attempts at the Workload API (3 in the code)
  MaxIterations,  \* MAX_TOOL_ITERATIONS
  MaxBlocks,      \* bound: tool_use blocks of one answer of the model
  MaxFaults       \* bound: processes that die, outages and full disks

Slug == {"client-secret", "spiffe", "spiffe-mtls", "cert", "user-delegated-rescope"}

ASSUME AgentAssumption ==
  /\ Agent \subseteq Slug /\ Agent # {}
  /\ User \notin Agent /\ Party = Agent \cup {User}
  /\ None \notin Token /\ None \notin Agent

ASSUME BoundAssumption ==
  /\ Attempts \in Nat \ {0} /\ MaxIterations \in Nat \ {0}
  /\ MaxBlocks \in Nat \ {0} /\ MaxFaults \in Nat

VARIABLES
  live,    \* whether ANTHROPIC_API_KEY is set
  down,    \* the agents whose process is not running
  run,     \* what each run is doing, and its report
  disk,    \* the SVID files each run has on the disk
  page,    \* the page that started each run
  faults   \* faults so far, up to MaxFaults

vars == <<keycloak, token, expired, mcpVars, live, down, run, disk, page, faults>>

-----------------------------------------------------------------------------

Step == {"idle", "svid", "auth", "open", "opening", "loop", "tools", "calling",
         "exit", "respond", "done", "lost"}
Outcome == {"none", "ok", "failed"}
Answer == {"none", "empty", "text"}
Page == {"none", "login", "waiting", "result", "error"}
File == {"cert", "key"} \X (1..Attempts)

\* svid, auth, mcp, error and answer are fields of the report, and trace counts
\* the tool calls its turns list; turn counts those of the turn in progress, and
\* blocks the ones that turn has still to make.
AgentRun ==
  [agent : Agent \cup {None}, at : Step, attempt : 1..Attempts, svid : Outcome,
   auth : Outcome, mcp : Outcome, error : BOOLEAN, answer : Answer,
   iteration : Nat, blocks : Nat, turn : Nat, trace : Nat]

NoRun ==
  [agent |-> None, at |-> "idle", attempt |-> 1, svid |-> "none", auth |-> "none",
   mcp |-> "none", error |-> FALSE, answer |-> "none", iteration |-> 1,
   blocks |-> 0, turn |-> 0, trace |-> 0]

Fault == faults < MaxFaults /\ faults' = faults + 1

Active(r) == run[r].at \notin {"idle", "done", "lost"}

\* The run moves on: the fields of rec change.
Becomes(r, rec) == run' = [run EXCEPT ![r] = rec]

\* A step inside the agent's process.
Inside == UNCHANGED <<keycloak, expired, mcpVars, live, down, page, faults>>

-----------------------------------------------------------------------------
(* The client application                                                  *)

\* The agent that acts for the user is sent the access token of the session.
NeedsUser(a) == a = "user-delegated-rescope"

FirstStep(a) == IF a \in {"spiffe", "spiffe-mtls"} THEN "svid" ELSE "auth"

\* GET /agentic/<slug> without a token in the session, or with one that has
\* expired, when the agent needs it.
SendToLogin(r, a) ==
  /\ page[r] = "none" /\ NeedsUser(a)
  /\ page' = [page EXCEPT ![r] = "login"]
  /\ UNCHANGED <<keycloak, token, expired, mcpVars, live, down, run, disk, faults>>

\* GET /agentic/<slug> otherwise: the agent's /info, then POST /run.
Visit(r, a) ==
  /\ page[r] = "none"
  /\ IF a \in down
     THEN page' = [page EXCEPT ![r] = "error"] /\ UNCHANGED run
     ELSE /\ page' = [page EXCEPT ![r] = "waiting"]
          /\ Becomes(r, [NoRun EXCEPT !.agent = a, !.at = FirstStep(a)])
  /\ UNCHANGED <<keycloak, token, expired, mcpVars, live, down, disk, faults>>

\* The 120 s of POST /run are over; the agent does not learn of it.
PageTimeout(r) ==
  /\ page[r] = "waiting"
  /\ page' = [page EXCEPT ![r] = "error"]
  /\ UNCHANGED <<keycloak, token, expired, mcpVars, live, down, run, disk, faults>>

-----------------------------------------------------------------------------
(* Attestation                                                             *)

\* Mistake: one attempt too many.
OneMoreAttempt(r) ==
  IF run[r].attempt <= Attempts
  THEN Becomes(r, [run[r] EXCEPT !.attempt = @ + 1])
  ELSE Becomes(r, [run[r] EXCEPT !.svid = "failed", !.error = TRUE, !.at = "respond"])

\* An attempt at the Workload API fails; after the last one the run is over.
AttemptFails(r) ==
  IF run[r].attempt < Attempts
  THEN Becomes(r, [run[r] EXCEPT !.attempt = @ + 1])
  ELSE Becomes(r, [run[r] EXCEPT !.svid = "failed", !.error = TRUE, !.at = "respond"])

Attested(r) == Becomes(r, [run[r] EXCEPT !.svid = "ok", !.at = "auth"])

FetchJwtSvid(r) ==
  /\ run[r].at = "svid" /\ run[r].agent = "spiffe"
  /\ Attested(r) \/ AttemptFails(r)
  /\ UNCHANGED <<token, disk>> /\ Inside

\* The certificate and the key of this attempt, as files.
Files(r) == {"cert", "key"} \X {run[r].attempt}

\* An X.509-SVID also has to be written to two files: when the second cannot be
\* made, or one cannot be written, what is there stays.
FetchX509Svid(r) ==
  /\ run[r].at = "svid" /\ run[r].agent = "spiffe-mtls"
  /\ \/ /\ Attested(r)
        /\ disk' = [disk EXCEPT ![r] = @ \cup Files(r)]
        /\ UNCHANGED faults
     \/ AttemptFails(r) /\ UNCHANGED <<disk, faults>>
     \/ /\ Fault /\ AttemptFails(r)
        /\ \E left \in {Files(r), {<<"cert", run[r].attempt>>}} :
             disk' = [disk EXCEPT ![r] = @ \cup left]
  /\ UNCHANGED <<keycloak, token, expired, mcpVars, live, down, page>>

-----------------------------------------------------------------------------
(* Authentication                                                          *)

\* A token of Keycloak for the mcp scope.  Its audience is there once the
\* provisioning has given the scope its audience mapper.
ServiceToken(a) ==
  {[aud |-> aud, scope |-> TRUE, subject |-> a, human |-> FALSE, azp |-> a, act |-> <<>>] :
     aud \in BOOLEAN}

\* The exchanged token keeps the user as its subject; this version of Keycloak
\* names the agent in azp only, a later one in act as well.
DelegatedToken(a) ==
  {[aud |-> aud, scope |-> TRUE, subject |-> User, human |-> TRUE, azp |-> a, act |-> act] :
     aud \in BOOLEAN, act \in {<<>>, <<a>>}}

Authenticated(r, T) ==
  /\ keycloak
  /\ \E t \in T : token' = [token EXCEPT ![r] = t]
  /\ Becomes(r, [run[r] EXCEPT !.auth = "ok", !.at = "open"])
  /\ UNCHANGED disk /\ Inside

\* agent-secret: client credentials.
SecretToken(r) ==
  /\ run[r].at = "auth" /\ run[r].agent = "client-secret"
  /\ Authenticated(r, ServiceToken(run[r].agent))

\* agent-spiffe: an assertion signed with the key made when the agent started.
SpiffeToken(r) ==
  /\ run[r].at = "auth" /\ run[r].agent = "spiffe"
  /\ Authenticated(r, ServiceToken(run[r].agent))

\* agent-cert: an assertion signed with the key of the certificate.
CertToken(r) ==
  /\ run[r].at = "auth" /\ run[r].agent = "cert"
  /\ Authenticated(r, ServiceToken(run[r].agent))

\* agent-spiffe-mtls: the SVID's files are the client certificate.
MtlsToken(r) ==
  /\ run[r].at = "auth" /\ run[r].agent = "spiffe-mtls"
  /\ Files(r) \subseteq disk[r]
  /\ Authenticated(r, ServiceToken(run[r].agent))

\* agent-delegated: the user's token is exchanged, while its login is alive.
ExchangeToken(r) ==
  /\ run[r].at = "auth" /\ run[r].agent = "user-delegated-rescope"
  /\ Authenticated(r, DelegatedToken(run[r].agent))

\* Mistake: the reason goes to the run's own error, which the page does not show.
AuthFailsUnseen(r) ==
  /\ run[r].at = "auth"
  /\ Becomes(r, [run[r] EXCEPT !.error = TRUE, !.at = "respond"])
  /\ UNCHANGED <<token, disk>> /\ Inside

\* Keycloak refuses or cannot be reached: the report has the reason.
AuthFails(r) ==
  /\ run[r].at = "auth"
  /\ Becomes(r, [run[r] EXCEPT !.auth = "failed", !.at = "respond"])
  /\ UNCHANGED <<token, disk>> /\ Inside

\* agent-delegated's custody chain of the exchanged token.
CustodyChain(t) ==
  [subject |-> t.subject,
   actors  |-> IF t.act # <<>> THEN t.act
               ELSE IF t.human /\ t.azp # t.subject THEN <<t.azp>> ELSE <<>>]

-----------------------------------------------------------------------------
(* The MCP session and the tool loop                                       *)

\* A request to the MCP service, for which the run waits.
Send(r, kind, rec) ==
  /\ request' = [request EXCEPT ![r] = kind]
  /\ reply' = [reply EXCEPT ![r] = "none"]
  /\ Becomes(r, rec)
  /\ UNCHANGED <<keycloak, token, expired, keyKnown, lookup, executed, audit,
                 live, down, disk, page, faults>>

\* initialize and list_tools.
OpenSession(r) ==
  /\ run[r].at = "open"
  /\ Send(r, "session", [run[r] EXCEPT !.at = "opening"])

SessionOpened(r) ==
  /\ run[r].at = "opening" /\ reply[r] = "ok"
  /\ Becomes(r, [run[r] EXCEPT !.mcp = "ok", !.at = "loop"])
  /\ UNCHANGED <<token, disk>> /\ Inside

\* The one handler of every exception inside the session: it blames the
\* session until that is open, and the run from then on.  The turn in progress
\* has not been appended to the report and is gone.
Raised(r) ==
  Becomes(r, [run[r] EXCEPT !.mcp = IF @ = "none" THEN "failed" ELSE @,
                            !.error = run[r].mcp # "none",
                            !.turn = 0, !.blocks = 0, !.at = "respond"])

\* Mistake: a call that failed is sent again.
CallIsRepeated(r) ==
  /\ run[r].at \in {"opening", "calling"} /\ reply[r] # "ok"
  /\ Becomes(r, [run[r] EXCEPT !.at = IF @ = "opening" THEN "open" ELSE "tools"])
  /\ UNCHANGED <<token, disk>> /\ Inside

\* A 401, a broken connection or the client's timeout; in the last case the
\* request may still be with the service.
CallFails(r) ==
  /\ run[r].at \in {"opening", "calling"} /\ reply[r] # "ok"
  /\ Raised(r)
  /\ UNCHANGED <<token, disk>> /\ Inside

\* The model's answer: tool calls, the final answer, or an exception.  Whatever
\* is not a request for tools is final, also when it has no text.
AskModel(r) ==
  /\ run[r].at = "loop" /\ live
  /\ \/ \E n \in 1..MaxBlocks :
          Becomes(r, [run[r] EXCEPT !.blocks = n, !.at = "tools"])
     \/ \E answer \in {"empty", "text"} :
          Becomes(r, [run[r] EXCEPT !.answer = answer, !.at = "exit"])
     \/ Raised(r)
  /\ UNCHANGED <<token, disk>> /\ Inside

\* Without an API key: list_products, then get_product_details, then an answer.
MockTurn(r) ==
  /\ run[r].at = "loop" /\ ~live
  /\ IF run[r].iteration <= 2
     THEN Becomes(r, [run[r] EXCEPT !.blocks = 1, !.at = "tools"])
     ELSE Becomes(r, [run[r] EXCEPT !.answer = "text", !.at = "exit"])
  /\ UNCHANGED <<token, disk>> /\ Inside

CallTool(r) ==
  /\ run[r].at = "tools"
  /\ Send(r, "tool", [run[r] EXCEPT !.at = "calling"])

\* Mistake: the turn lists the last call only.
LastCallAppended(r) == [run[r] EXCEPT !.trace = @ + 1, !.turn = 0, !.blocks = 0]

\* The turn is appended to the report with all its calls.
TurnAppended(r) ==
  [run[r] EXCEPT !.trace = @ + run[r].turn + 1, !.turn = 0, !.blocks = 0]

\* Mistake: the loop just ends.
LoopEnds(r) == [TurnAppended(r) EXCEPT !.at = "exit"]

\* After MAX_TOOL_ITERATIONS the loop says that it did not converge.
LoopGivesUp(r) == [TurnAppended(r) EXCEPT !.error = TRUE, !.at = "exit"]

ToolResult(r) ==
  /\ run[r].at = "calling" /\ reply[r] = "ok"
  /\ Becomes(r,
       IF run[r].blocks > 1
       THEN [run[r] EXCEPT !.turn = @ + 1, !.blocks = @ - 1, !.at = "tools"]
       ELSE IF live /\ run[r].iteration >= MaxIterations
       THEN LoopGivesUp(r)
       ELSE [TurnAppended(r) EXCEPT !.iteration = @ + 1, !.at = "loop"])
  /\ UNCHANGED <<token, disk>> /\ Inside

\* The session closes; an exception now is reported beside the answer.
CloseSession(r) ==
  /\ run[r].at = "exit"
  /\ \/ Becomes(r, [run[r] EXCEPT !.at = "respond"])
     \/ Raised(r)
  /\ UNCHANGED <<token, disk>> /\ Inside

\* Mistake: the private key stays.
RespondKeepsKey(r) ==
  /\ run[r].at = "respond"
  /\ Becomes(r, [run[r] EXCEPT !.at = "done"])
  /\ disk' = [disk EXCEPT ![r] = @ \ {<<"cert", run[r].attempt>>}]
  /\ page' = [page EXCEPT ![r] = IF @ = "waiting" THEN "result" ELSE @]
  /\ UNCHANGED <<keycloak, token, expired, mcpVars, live, down, faults>>

\* The report goes out, to a page that may have stopped waiting.  agent-spiffe-mtls
\* first removes the files of the SVID it used.
Respond(r) ==
  /\ run[r].at = "respond"
  /\ Becomes(r, [run[r] EXCEPT !.at = "done"])
  /\ disk' = [disk EXCEPT ![r] = IF run[r].svid = "ok" THEN @ \ Files(r) ELSE @]
  /\ page' = [page EXCEPT ![r] = IF @ = "waiting" THEN "result" ELSE @]
  /\ UNCHANGED <<keycloak, token, expired, mcpVars, live, down, faults>>

RunStep(r) ==
  \/ FetchJwtSvid(r) \/ FetchX509Svid(r)
  \/ SecretToken(r) \/ SpiffeToken(r) \/ CertToken(r) \/ MtlsToken(r) \/ ExchangeToken(r)
  \/ AuthFails(r) \/ OpenSession(r) \/ SessionOpened(r) \/ CallFails(r)
  \/ AskModel(r) \/ MockTurn(r) \/ CallTool(r) \/ ToolResult(r)
  \/ CloseSession(r) \/ Respond(r)

-----------------------------------------------------------------------------
(* The rest of the world                                                   *)

Others == UNCHANGED <<live, down, run, disk, page, faults>>

\* The middleware and the tools.
Mcp(r) == ServiceStep(r) /\ Others

OtherClient == (OtherBegins \/ OtherEnds) /\ Others

McpRestarts == Fault /\ RestartService /\ UNCHANGED <<live, down, run, disk, page>>

\* It matters while the token is still in use.
TokenExpires(r) ==
  /\ token[r] # None /\ r \notin expired
  /\ Active(r) \/ request[r] # "none"
  /\ expired' = expired \cup {r}
  /\ UNCHANGED <<keycloak, token, mcpVars>> /\ Others

KeycloakStops ==
  /\ keycloak /\ Fault
  /\ keycloak' = FALSE
  /\ UNCHANGED <<token, expired, mcpVars, live, down, run, disk, page>>

KeycloakReturns ==
  /\ ~keycloak
  /\ keycloak' = TRUE
  /\ UNCHANGED <<token, expired, mcpVars>> /\ Others

\* The agent's process dies with the runs in it: their pages get an error.
AgentDies(a) ==
  /\ a \notin down /\ Fault
  /\ down' = down \cup {a}
  /\ LET R == {r \in Run : run[r].agent = a /\ Active(r)}
     IN  /\ run' = [r \in Run |-> IF r \in R THEN [run[r] EXCEPT !.at = "lost"] ELSE run[r]]
         /\ page' = [r \in Run |-> IF r \in R /\ page[r] = "waiting" THEN "error" ELSE page[r]]
  /\ UNCHANGED <<keycloak, token, expired, mcpVars, live, disk>>

AgentReturns(a) ==
  /\ a \in down
  /\ down' = down \ {a}
  /\ UNCHANGED <<keycloak, token, expired, mcpVars, live, run, disk, page, faults>>

-----------------------------------------------------------------------------

Init ==
  /\ keycloak = TRUE /\ keyKnown = FALSE /\ lookup = None
  /\ request = [r \in Run |-> "none"] /\ reply = [r \in Run |-> "none"]
  /\ token = [r \in Run |-> None] /\ expired = {}
  /\ executed = [r \in Run |-> 0] /\ audit = [r \in Run |-> {}]
  /\ live \in BOOLEAN /\ down = {}
  /\ run = [r \in Run |-> NoRun]
  /\ disk = [r \in Run |-> {}] /\ page = [r \in Run |-> "none"]
  /\ faults = 0

Next ==
  \/ \E r \in Run, a \in Agent : SendToLogin(r, a) \/ Visit(r, a)
  \/ \E r \in Run : PageTimeout(r) \/ RunStep(r) \/ Mcp(r) \/ TokenExpires(r)
  \/ \E a \in Agent : AgentDies(a) \/ AgentReturns(a)
  \/ OtherClient \/ McpRestarts \/ KeycloakStops \/ KeycloakReturns

Spec == Init /\ [][Next]_vars

\* A process that runs takes its next step, and every call it waits for ends:
\* also the lookup of another client.  The event loop takes the requests that
\* have arrived in turn, so one is not passed over for ever.  Nothing makes a
\* page time out, a process die or Keycloak return.
FairSpec ==
  /\ Spec /\ WF_vars(OtherEnds /\ Others)
  /\ \A r \in Run : WF_vars(RunStep(r)) /\ SF_vars(Mcp(r))

-----------------------------------------------------------------------------
(* Properties.                                                             *)

TypeOK ==
  /\ keycloak \in BOOLEAN /\ keyKnown \in BOOLEAN /\ lookup \in Run \cup {None, Other}
  /\ request \in [Run -> Request] /\ reply \in [Run -> Reply]
  /\ token \in [Run -> Token \cup {None}] /\ expired \subseteq Run
  /\ executed \in [Run -> Nat] /\ audit \in [Run -> SUBSET Custody]
  /\ live \in BOOLEAN /\ down \subseteq Agent
  /\ run \in [Run -> AgentRun] /\ disk \in [Run -> SUBSET File]
  /\ page \in [Run -> Page] /\ faults \in 0..MaxFaults

Finished(r) == run[r].at = "done"

(***************************************************************************)
(* A report without an answer names the step that failed, on every way out *)
(* of run_agent: attestation, token request, MCP session, tool loop.       *)
(***************************************************************************)
EndsWithReason ==
  \A r \in Run : Finished(r) =>
    \/ run[r].answer # "none" \/ run[r].error
    \/ "failed" \in {run[r].svid, run[r].auth, run[r].mcp}

(***************************************************************************)
(* The report never lists a call the MCP service has not executed, and it  *)
(* is short of one only in a run that failed inside the loop: whatever was *)
(* executed for a run that answers, its turns list.                        *)
(***************************************************************************)
TraceTellsItsGaps ==
  \A r \in Run :
    /\ run[r].trace + run[r].turn <= executed[r]
    /\ run[r].answer # "none" => run[r].trace = executed[r]
    /\ Finished(r) /\ run[r].trace # executed[r] => run[r].error /\ run[r].mcp = "ok"

(***************************************************************************)
(* The page of a finished run shows an answer or the reason there is none, *)
(* except when the tool loop failed or the model had nothing to say:       *)
(* agentic_result.html renders the error of every step, never run.error.   *)
(***************************************************************************)
Shown(r) == run[r].answer = "text" \/ "failed" \in {run[r].svid, run[r].auth, run[r].mcp}

SilentOnlyAboutTheLoop ==
  \A r \in Run : page[r] = "result" /\ ~Shown(r) =>
                    /\ run[r].error \/ run[r].answer = "empty"
                    /\ run[r].mcp = "ok" /\ run[r].auth = "ok"

(***************************************************************************)
(* The files of the SVID that a run authenticated with do not outlive it,  *)
(* whichever way it ends: what stays is from attempts that failed halfway. *)
(***************************************************************************)
UsedKeyIsRemoved ==
  \A r \in Run : Finished(r) /\ run[r].svid = "ok" =>
                    \A f \in disk[r] : f[2] < run[r].attempt

(***************************************************************************)
(* The audit line of every request the MCP service accepted tells on whose *)
(* behalf it was made: the user and the agent for the agent that acts for  *)
(* the user, the agent alone for the others, and the same custody chain as *)
(* the agent's report.                                                     *)
(***************************************************************************)
AuditNamesBoth ==
  \A r \in Run : \A line \in audit[r] :
    /\ line = CustodyChain(token[r])
    /\ IF NeedsUser(run[r].agent)
       THEN line.subject = User /\ line.actors = <<run[r].agent>>
       ELSE line.subject = run[r].agent /\ line.actors = <<>>

(***************************************************************************)
(* A session that was opened with a good token gives no right to a tool:   *)
(* each call runs on a token that is good at that moment, also when its    *)
(* request waited for a key lookup or for its turn.                        *)
(***************************************************************************)
ToolsRunOnGoodTokens ==
  [][\A r \in Run : executed'[r] # executed[r] =>
       /\ token[r] # None /\ r \notin expired /\ token[r].aud /\ token[r].scope
       /\ keyKnown']_vars

(***************************************************************************)
(* A request that waits at the MCP service is answered, also when the key  *)
(* lookup it waits behind meets a Keycloak that never comes back.          *)
(***************************************************************************)
RequestsAreAnswered == \A r \in Run : request[r] # "none" ~> request[r] = "none"

(***************************************************************************)
(* Every agent's run is a reported run: it ends, once, and an answer comes *)
(* with the whole list of its calls (run_agent, _run_anthropic_loop).      *)
(***************************************************************************)
Verdict(r) ==
  CASE run[r].at = "idle" -> "new"
    [] run[r].at = "lost" -> "lost"
    [] Finished(r) -> IF run[r].answer # "none" THEN "answered" ELSE "failed"
    [] OTHER -> "running"

Reported == INSTANCE ReportedRun WITH
  verdict <- [r \in Run |-> Verdict(r)],
  calls   <- executed,
  told    <- [r \in Run |-> IF Finished(r) THEN run[r].trace ELSE 0]

ReportedRunSpec == Reported!Spec

=============================================================================
