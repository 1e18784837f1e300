---------------------------- MODULE Provisioning ----------------------------
(***************************************************************************)
(* keycloak-init (src/keycloak-init/setup.py): the script that brings the  *)
(* Keycloak realm from what was imported, or from what an older or an      *)
(* interrupted run left behind, to what the flows and the agents need.     *)
(*                                                                         *)
(* The script is a sequence of steps.  Each makes sure of one fact about   *)
(* the realm: it reads, skips the step when the fact holds already or when *)
(* the objects it is about are missing, and else writes.  Any HTTP error   *)
(* ends the run with an exception; compose does not restart it, but it may *)
(* be launched again, also while an earlier run is still at work.  What a  *)
(* run has written stays: Keycloak keeps the realm in PostgreSQL.          *)
(***************************************************************************)
EXTENDS Naturals, Sequences

CONSTANTS
  Run,       \* runs of the script, at once or one after the other
  OldRealms, \* the realms that may exist when Keycloak starts
  Attempts   \* bound: polls while waiting for Keycloak (60 in the code)

-----------------------------------------------------------------------------
(* Facts about the realm.                                                  *)

\* The client exists and is configured as its step wants it.  One that exists
\* in an older form counts as missing when its step migrates it; the steps that
\* only look whether the client exists would take it as it is, and such old
\* forms are not among the realms modelled.
Client(c) == [kind |-> "client", who |-> c, what |-> ""]
\* standard.token.exchange.enabled is "true" on the client.
Exchange(c) == [kind |-> "exchange", who |-> c, what |-> ""]
Role(n) == [kind |-> "role", who |-> "", what |-> n]
\* The role is assigned to the client's service account.
ServiceRole(c, n) == [kind |-> "service_role", who |-> c, what |-> n]
Scope(n) == [kind |-> "scope", who |-> "", what |-> n]
\* The client has the scope among its optional ones.
OptionalScope(c, n) == [kind |-> "optional_scope", who |-> c, what |-> n]
\* The client or client scope has the audience mapper.
Mapper(c, n) == [kind |-> "mapper", who |-> c, what |-> n]

-----------------------------------------------------------------------------
(* The steps, in the order of main().                                      *)

SetupTokenExchange ==
  << Exchange("middle-tier-client"), Exchange("demo-client"),
     Exchange("ai-agent-delegated") >>

EnsureSpiffeServiceClient ==
  << Client("spiffe-service"), ServiceRole("spiffe-service", "user-role") >>

EnsureFlowClients ==
  << Client("dpop-client"), Client("device-client"), Client("pkce-client") >>

EnsureAgentClients ==
  << Client("ai-agent-secret"), Client("ai-agent-spiffe"),
     Client("ai-agent-spiffe-mtls"), Client("ai-agent-cert"),
     Client("ai-agent-delegated") >>

EnsureDelegatedAudienceMapper == << Mapper("demo-client", "delegated-agent-audience") >>

EnsureMcpClientScope == << Scope("mcp"), Mapper("mcp", "mcp-audience") >>

EnsureMcpAccess(c) == << OptionalScope(c, "mcp"), ServiceRole(c, "mcp-user") >>

\* Mistake: the role is created after it was to be assigned.
RoleLast ==
  SetupTokenExchange \o EnsureSpiffeServiceClient \o EnsureFlowClients
  \o EnsureAgentClients \o EnsureDelegatedAudienceMapper
  \o SetupTokenExchange \o EnsureMcpClientScope
  \o EnsureMcpAccess("ai-agent-secret") \o EnsureMcpAccess("ai-agent-spiffe")
  \o EnsureMcpAccess("ai-agent-spiffe-mtls") \o EnsureMcpAccess("ai-agent-cert")
  \o << OptionalScope("ai-agent-delegated", "mcp"), Role("mcp-user") >>

Steps ==
  SetupTokenExchange \o EnsureSpiffeServiceClient \o EnsureFlowClients
  \o << Role("mcp-user") >> \o EnsureAgentClients \o EnsureDelegatedAudienceMapper
  \o SetupTokenExchange \o EnsureMcpClientScope
  \o EnsureMcpAccess("ai-agent-secret") \o EnsureMcpAccess("ai-agent-spiffe")
  \o EnsureMcpAccess("ai-agent-spiffe-mtls") \o EnsureMcpAccess("ai-agent-cert")
  \o << OptionalScope("ai-agent-delegated", "mcp") >>

\* A step whose objects are missing is skipped, with a line in the log.  The
\* service role of spiffe-service does not look for its client again.
Needs(f) ==
  CASE f.kind \in {"exchange", "optional_scope"} -> {Client(f.who)}
    [] f.kind = "service_role" /\ f.what = "mcp-user" -> {Client(f.who), Role("mcp-user")}
    [] f.kind = "service_role" /\ f.what = "user-role" -> {Role("user-role")}
    [] f.kind = "mapper" /\ f.who = "demo-client" -> {Client("demo-client")}
    [] OTHER -> {}

\* The delegated agent's client is created with token exchange enabled.
Writes(f) ==
  IF f = Client("ai-agent-delegated") THEN {f, Exchange("ai-agent-delegated")} ELSE {f}

\* These steps never PUT: if the object came into being after the step read
\* that it was missing, Keycloak answers 409 and the run ends.
Migrated == {"spiffe-service", "ai-agent-spiffe", "ai-agent-spiffe-mtls", "ai-agent-cert"}
OnlyCreates(f) ==
  \/ f.kind \in {"role", "scope", "mapper"}
  \/ f.kind = "client" /\ f.who \notin Migrated

\* What realm-export.json always held, and what it declares today.
Base == {Client("demo-client"), Client("middle-tier-client"), Role("user-role")}

Imported ==
  Base \cup {Exchange("demo-client"), Role("mcp-user"),
    Client("spiffe-service"), ServiceRole("spiffe-service", "user-role"),
    Client("ai-agent-secret"), ServiceRole("ai-agent-secret", "mcp-user"),
    Client("ai-agent-delegated"), Exchange("ai-agent-delegated"),
    Mapper("demo-client", "delegated-agent-audience")}

Fact == Imported \cup {Steps[i] : i \in DOMAIN Steps}

ASSUME AttemptsAssumption == Attempts \in Nat
ASSUME OldRealmsAssumption == \A realm \in OldRealms : Base \subseteq realm /\ realm \subseteq Fact

-----------------------------------------------------------------------------
VARIABLES
  realm,  \* the facts that hold in the realm
  ready,  \* does Keycloak answer /health/ready?
  at,     \* where each run is
  pc,     \* the step it is at
  tries,  \* its polls so far, while it waits
  copy,   \* the mappers of the client that it has read and is to PUT
  lost    \* the mappers a PUT took away, by itself or another, since its launch

vars == <<realm, ready, at, pc, tries, copy, lost>>

Working == {"health", "import", "read", "write"}

TypeOK ==
  /\ realm \subseteq Fact
  /\ ready \in BOOLEAN
  /\ at \in [Run -> {"idle", "done", "exited"} \cup Working]
  /\ pc \in [Run -> 1..Len(Steps)]
  /\ tries \in [Run -> 0..Attempts]
  /\ copy \in [Run -> SUBSET Fact]
  /\ lost \in [Run -> SUBSET {f \in Fact : f.kind = "mapper"}]

Init ==
  /\ realm \in OldRealms \cup {{}}
  /\ ready = FALSE
  /\ at = [r \in Run |-> "idle"]
  /\ pc = [r \in Run |-> 1]
  /\ tries = [r \in Run |-> 0]
  /\ copy = [r \in Run |-> {}] /\ lost = [r \in Run |-> {}]

Launch(r) ==
  /\ at[r] \notin Working
  /\ at' = [at EXCEPT ![r] = "health"]
  /\ pc' = [pc EXCEPT ![r] = 1]
  /\ tries' = [tries EXCEPT ![r] = 0]
  /\ lost' = [lost EXCEPT ![r] = {}]
  /\ UNCHANGED <<realm, ready, copy>>

\* One poll of a waiting loop: on to the next stage, or another try.
PollUntil(r, cond, next) ==
  /\ IF cond THEN /\ at' = [at EXCEPT ![r] = next]
                  /\ tries' = [tries EXCEPT ![r] = 0]
     ELSE IF tries[r] < Attempts
          THEN tries' = [tries EXCEPT ![r] = @ + 1] /\ UNCHANGED at
          ELSE at' = [at EXCEPT ![r] = "exited"] /\ UNCHANGED tries
  /\ UNCHANGED <<realm, ready, pc, copy, lost>>

WaitForKeycloak(r) == at[r] = "health" /\ PollUntil(r, ready, "import")

\* Mistake: the run goes on as soon as the Admin API answers.
WaitForAdminApi(r) == at[r] = "import" /\ PollUntil(r, ready, "read")

WaitForRealmImport(r) ==
  at[r] = "import" /\ PollUntil(r, Client("demo-client") \in realm, "read")

\* Mistake: the end of the script is noticed one step too late.
AdvancePast(r) ==
  IF pc[r] > Len(Steps) THEN at' = [at EXCEPT ![r] = "done"] /\ UNCHANGED pc
  ELSE at' = [at EXCEPT ![r] = "read"] /\ pc' = [pc EXCEPT ![r] = @ + 1]

Advance(r) ==
  IF pc[r] = Len(Steps) THEN at' = [at EXCEPT ![r] = "done"] /\ UNCHANGED pc
  ELSE at' = [at EXCEPT ![r] = "read"] /\ pc' = [pc EXCEPT ![r] = @ + 1]

\* The mappers in what a step reads of a client to PUT it back.  The migrations
\* PUT too, but the clients they are about have no mappers.
Mappers(f) == {g \in realm : f.kind = "exchange" /\ g.kind = "mapper" /\ g.who = f.who}

\* The GETs of a step.
Check(r) ==
  LET f == Steps[pc[r]]
  IN  /\ at[r] = "read"
      /\ IF Needs(f) \subseteq realm /\ f \notin realm
         THEN /\ at' = [at EXCEPT ![r] = "write"]
              /\ copy' = [copy EXCEPT ![r] = Mappers(f)]
              /\ UNCHANGED pc
         ELSE Advance(r) /\ UNCHANGED copy
      /\ UNCHANGED <<realm, ready, tries, lost>>

\* What Keycloak stores: the facts of the step.  A PUT sends the client as it
\* was read, and may take away the mappers made in between.
Store(r) ==
  LET f == Steps[pc[r]]
  IN  \E gone \in {{}, Mappers(f) \ copy[r]} :
        /\ realm' = (realm \ gone) \cup Writes(f)
        /\ lost' = [q \in Run |-> (lost[q] \cup gone) \ realm']

\* Its POST or PUT.
Write(r) ==
  LET f == Steps[pc[r]]
  IN  /\ at[r] = "write"
      /\ f \in realm => ~ OnlyCreates(f)
      /\ Store(r)
      /\ Advance(r)
      /\ copy' = [copy EXCEPT ![r] = {}]
      /\ UNCHANGED <<ready, tries>>

\* An HTTP error, a timeout or the container's end.  A write that failed for
\* the run may have been done by Keycloak.
Fail(r) ==
  /\ at[r] \in Working
  /\ at' = [at EXCEPT ![r] = "exited"]
  /\ copy' = [copy EXCEPT ![r] = {}]
  /\ \/ UNCHANGED <<realm, lost>>
     \/ at[r] = "write" /\ Store(r)
  /\ UNCHANGED <<ready, pc, tries>>

\* Keycloak starts; without a realm it imports realm-export.json, perhaps only
\* after /health/ready turned green.
Ready ==
  /\ ~ ready /\ ready' = TRUE
  /\ UNCHANGED <<realm, at, pc, tries, copy, lost>>

Import ==
  /\ realm = {} /\ realm' = Imported
  /\ UNCHANGED <<ready, at, pc, tries, copy, lost>>

Next ==
  \/ \E r \in Run : \/ Launch(r) \/ WaitForKeycloak(r) \/ WaitForRealmImport(r)
                    \/ Check(r) \/ Write(r) \/ Fail(r)
  \/ Ready \/ Import

Spec == Init /\ [][Next]_vars

-----------------------------------------------------------------------------
(* Properties.                                                             *)

\* What an agent with a service account needs to call the MCP service.
McpAccess(c) == {Client(c), OptionalScope(c, "mcp"), ServiceRole(c, "mcp-user"),
                 Scope("mcp"), Mapper("mcp", "mcp-audience")}

\* What the delegated agent needs: exchange, the user's audience, the scope.
DelegatedAccess == {Client("ai-agent-delegated"), Exchange("ai-agent-delegated"),
  Mapper("demo-client", "delegated-agent-audience"),
  OptionalScope("ai-agent-delegated", "mcp"), Scope("mcp"), Mapper("mcp", "mcp-audience")}

Agents == {"ai-agent-secret", "ai-agent-spiffe", "ai-agent-spiffe-mtls", "ai-agent-cert"}

Target ==
  (UNION {McpAccess(c) : c \in Agents}) \cup DelegatedAccess
  \cup {Exchange("middle-tier-client"), Exchange("demo-client")}
  \cup {Client(c) : c \in {"spiffe-service", "dpop-client", "device-client", "pkce-client"}}
  \cup {ServiceRole("spiffe-service", "user-role")}

(***************************************************************************)
(* When a run ends normally its last message is true, "all five agents can *)
(* access MCP" (main): no step it skipped was one that it would have       *)
(* needed, whatever realm it found, whatever earlier runs left half done   *)
(* and whatever another run does at the same time.  The one exception: a   *)
(* run that read a client before a mapper was made and PUT it afterwards   *)
(* may have taken the mapper away (setup_token_exchange); what was taken   *)
(* before this run was launched, it has put back.                          *)
(***************************************************************************)
DoneMeansConfigured == \A r \in Run : at[r] = "done" => Target \subseteq realm \cup lost[r]

(***************************************************************************)
(* Past the first pass, "OBO is ready!" (main) is true: the two clients of *)
(* the On-Behalf-Of flow may exchange tokens.                              *)
(***************************************************************************)
OboReady ==
  \A r \in Run : pc[r] > Len(SetupTokenExchange)
                   => {Exchange("middle-tier-client"), Exchange("demo-client")} \subseteq realm

=============================================================================
