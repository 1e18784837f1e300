------------------------------ MODULE McpService ------------------------------
(***************************************************************************)
(* The MCP service as its clients see it (mcp-service/main.py): one worker *)
(* whose middleware validates the bearer token of every request to /mcp    *)
(* before the tool behind it may run.  Validation needs Keycloak's signing *)
(* key, which PyJWKClient caches by its kid; without it the middleware     *)
(* asks Keycloak and blocks the event loop until the answer is in.         *)
(*                                                                         *)
(* A client has at most one request on its way.  A request stays with the  *)
(* service when its client gives up on it.  Every token is one Keycloak    *)
(* issued; its signature and issuer are not modelled.                      *)
(***************************************************************************)
EXTENDS Naturals, Sequences, FiniteSets

CONSTANTS
  Run,     \* the clients: the runs of the agents
  Party,   \* the users and the clients of Keycloak that tokens name
  None,
  Other    \* whoever else sends requests to the service

ASSUME NoneAssumption == None \notin Run /\ Other \notin Run /\ Other # None

VARIABLES
  keycloak,  \* whether Keycloak answers
  keyKnown,  \* whether the service has the signing key in its cache
  lookup,    \* the client whose key lookup holds up the event loop, or None
  request,   \* the request each run has on its way
  reply,     \* what the service answered
  token,     \* the access token each run sends
  expired,   \* the runs whose token has expired, the leeway included
  executed,  \* the tool calls executed for each run
  audit      \* the custody lines logged for each run

mcpVars == <<keyKnown, lookup, request, reply, executed, audit>>

-----------------------------------------------------------------------------

\* What a token says: its audience and scope, its subject, the client it was
\* issued to and the actors of its act claim, outermost first.
Token == [aud : BOOLEAN, scope : BOOLEAN, subject : Party, human : BOOLEAN,
          azp : Party, act : {<<>>} \cup {<<p>> : p \in Party}]

Request == {"none", "session", "tool"}
Reply   == {"none", "ok", "refused", "broken"}
Custody == [subject : Party, actors : {<<>>} \cup {<<p>> : p \in Party}]

\* Mistake: only the act chain, which this version of Keycloak does not write.
AuditLineWithoutAzp(t) == [subject |-> t.subject, actors |-> t.act]

\* The audit line: the act chain, or azp when a person's token has none.
AuditLine(t) ==
  [subject |-> t.subject,
   actors  |-> IF t.act = <<>> /\ t.human /\ t.azp # t.subject THEN <<t.azp>> ELSE t.act]

\* Mistake: the token is validated when the session opens, and trusted then.
AcceptsTheSession(r) == \/ request[r] = "tool"
                        \/ r \notin expired /\ token[r].aud /\ token[r].scope

\* exp with the leeway, aud and scope; the roles are never looked at.
Accepts(r) == /\ r \notin expired
              /\ token[r].aud
              /\ token[r].scope

Refuse(r) ==
  /\ reply' = [reply EXCEPT ![r] = "refused"]
  /\ UNCHANGED <<executed, audit>>

Execute(r) ==
  /\ reply' = [reply EXCEPT ![r] = "ok"]
  /\ audit' = [audit EXCEPT ![r] = @ \cup {AuditLine(token[r])}]
  /\ executed' = [executed EXCEPT ![r] = IF request[r] = "tool" THEN @ + 1 ELSE @]

\* The rest of the middleware once the key is there, and the tool.
Serve(r) ==
  /\ request' = [request EXCEPT ![r] = "none"]
  /\ IF Accepts(r) THEN Execute(r) ELSE Refuse(r)

\* A request whose signing key is in the cache is served at once.
ServeCached(r) ==
  /\ lookup = None /\ request[r] # "none" /\ keyKnown
  /\ Serve(r)
  /\ UNCHANGED <<keyKnown, lookup, keycloak, token, expired>>

\* Without the key the middleware asks Keycloak, and no other request moves.
BeginLookup(r) ==
  /\ lookup = None /\ request[r] # "none" /\ ~keyKnown
  /\ lookup' = r
  /\ UNCHANGED <<keyKnown, request, reply, executed, audit, keycloak, token, expired>>

\* Mistake: the lookup goes on until Keycloak is back.
LookupWaits(r) ==
  /\ lookup = r /\ keycloak
  /\ lookup' = None
  /\ keyKnown' = TRUE /\ Serve(r)
  /\ UNCHANGED <<keycloak, token, expired>>

\* The lookup ends: with the key, or with an exception that becomes a 401.
EndLookup(r) ==
  /\ lookup = r
  /\ lookup' = None
  /\ \/ keycloak /\ keyKnown' = TRUE /\ Serve(r)
     \/ /\ ~keycloak
        /\ request' = [request EXCEPT ![r] = "none"]
        /\ Refuse(r)
        /\ UNCHANGED keyKnown
  /\ UNCHANGED <<keycloak, token, expired>>

\* Another client sends a token with a key the cache has not: this key or, in a
\* token that is not Keycloak's, one that Keycloak has not either.
OtherBegins ==
  /\ lookup = None
  /\ lookup' = Other
  /\ UNCHANGED <<keyKnown, request, reply, executed, audit, keycloak, token, expired>>

OtherEnds ==
  /\ lookup = Other
  /\ lookup' = None
  /\ keyKnown' \in {keyKnown, keyKnown \/ keycloak}
  /\ UNCHANGED <<request, reply, executed, audit, keycloak, token, expired>>

\* The service restarts: the cache is empty and the open connections break.
RestartService ==
  /\ keyKnown' = FALSE
  /\ lookup' = None
  /\ request' = [r \in Run |-> "none"]
  /\ reply' = [r \in Run |-> IF request[r] # "none" THEN "broken" ELSE reply[r]]
  /\ UNCHANGED <<executed, audit, keycloak, token, expired>>

ServiceStep(r) == ServeCached(r) \/ BeginLookup(r) \/ EndLookup(r)

=============================================================================
