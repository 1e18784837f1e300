---------------------------- MODULE SpireBootstrap ----------------------------
(***************************************************************************)
(* How the SPIRE agent comes to serve the workloads: spire/setup.sh makes a *)
(* join token and the registration entries, spire/agent-start.sh starts the *)
(* agent with the token, which the server accepts once.  The server and the *)
(* agent are external.  Both keep their keys in memory, so a server that is *)
(* started again has another CA, and an agent has to join again; the trust  *)
(* bundle the agent keeps in data_dir, in its container (agent.conf).       *)
(***************************************************************************)
EXTENDS Compose

VARIABLES
  token,    \* the join token in the shared volume
  entries,  \* the workloads with a registration entry
  ca,       \* the server's CA, by its number
  agentCa   \* the newest CA of the bundle in the agent's container, or NoBundle

spireVars == <<token, entries, ca, agentCa>>

JoinToken == {"none", "fresh", "spent"}

NoBundle == 0

\* Mistake: the last entry is for the service behind the proxy.
EntryOfKeycloak(step) ==
  CASE step = "entry 1" -> "spiffe-service"
    [] step = "entry 2" -> "agent-spiffe"
    [] step = "entry 3" -> "agent-spiffe-mtls"
    [] step = "entry 4" -> "keycloak"

\* The entries in the order of the script, and the step that follows each.
EntryOf(step) ==
  CASE step = "entry 1" -> "spiffe-service"
    [] step = "entry 2" -> "agent-spiffe"
    [] step = "entry 3" -> "agent-spiffe-mtls"
    [] step = "entry 4" -> "keycloak-mtls-proxy"

EntryStep == {"entry 1", "entry 2", "entry 3", "entry 4"}

After(step) ==
  CASE step = "entry 1" -> "entry 2"
    [] step = "entry 2" -> "entry 3"
    [] step = "entry 3" -> "entry 4"
    [] step = "entry 4" -> "done"

Quietly == UNCHANGED <<target, wanted, faults>>

-----------------------------------------------------------------------------
(* The server                                                              *)

ServerReady ==
  /\ at["spire-server"] = "starting"
  /\ Goes("spire-server", "up")
  /\ ca' = ca + 1
  /\ Quietly /\ UNCHANGED <<token, entries, agentCa>>

\* A CA nears its end.  The agent learns of the next one in time, if it trusts
\* the server.
RotatesCa ==
  /\ at["spire-server"] = "up" /\ Fault
  /\ ca' = ca + 1
  /\ agentCa' = IF at["spire-agent"] = "up" /\ agentCa = ca THEN ca' ELSE agentCa
  /\ UNCHANGED <<target, wanted, at, token, entries>>

-----------------------------------------------------------------------------
(* spire-init                                                              *)

\* The health check, up to 30 times.
InitWaits ==
  /\ at["spire-init"] = "wait" /\ at["spire-server"] = "up"
  /\ Goes("spire-init", "token")
  /\ Quietly /\ UNCHANGED spireVars

\* Mistake: the health check has no last attempt.
InitKeepsTrying ==
  /\ at["spire-init"] \in {"wait", "token"} /\ at["spire-server"] # "up"
  /\ Goes("spire-init", IF at["spire-init"] = "wait" THEN "wait" ELSE "failed")
  /\ Quietly /\ UNCHANGED spireVars

\* The server does not answer the health check or gives no token.
InitFails ==
  /\ at["spire-init"] \in {"wait", "token"} /\ at["spire-server"] # "up"
  /\ Goes("spire-init", "failed")
  /\ Quietly /\ UNCHANGED spireVars

\* Mistake: a token that is there already is kept.
KeepToken ==
  /\ at["spire-init"] = "token" /\ at["spire-server"] = "up"
  /\ token' = IF token = "none" THEN "fresh" ELSE token
  /\ Goes("spire-init", "entry 1")
  /\ Quietly /\ UNCHANGED <<entries, ca, agentCa>>

\* Every run has a token made and overwrites the file.
MakesToken ==
  /\ at["spire-init"] = "token" /\ at["spire-server"] = "up"
  /\ token' = "fresh"
  /\ Goes("spire-init", "entry 1")
  /\ Quietly /\ UNCHANGED <<entries, ca, agentCa>>

\* `entry create ... || true`: the script goes on whether it succeeds or not,
\* and it fails for an entry that exists.
CreatesEntry ==
  /\ at["spire-init"] \in EntryStep
  /\ Goes("spire-init", After(at["spire-init"]))
  /\ UNCHANGED <<target, wanted, token, ca, agentCa>>
  /\ \/ /\ at["spire-server"] = "up"
        /\ entries' = entries \cup {EntryOf(at["spire-init"])}
        /\ UNCHANGED faults
     \/ at["spire-server"] # "up" /\ UNCHANGED <<entries, faults>>
     \/ Fault /\ UNCHANGED entries

InitStep == InitWaits \/ InitFails \/ MakesToken \/ CreatesEntry

-----------------------------------------------------------------------------
(* The agent                                                               *)

\* insecure_bootstrap is for an agent without a bundle.  One that has a bundle,
\* from before it ended, verifies the server with it.
TrustsServer == agentCa \in {NoBundle, ca}

\* It joins with the token in the file, and keeps the bundle it gets.
AgentJoins ==
  /\ at["spire-agent"] = "starting" /\ at["spire-server"] = "up" /\ token = "fresh"
  /\ TrustsServer
  /\ token' = "spent"
  /\ agentCa' = ca
  /\ Goes("spire-agent", "up")
  /\ Quietly /\ UNCHANGED <<entries, ca>>

\* No token in 30 attempts, one that is spent, no server, or one that has
\* another CA: nothing removes the bundle before the agent is run.
AgentFails ==
  /\ at["spire-agent"] = "starting"
  /\ at["spire-server"] # "up" \/ token # "fresh" \/ ~TrustsServer
  /\ Goes("spire-agent", "failed")
  /\ Quietly /\ UNCHANGED spireVars

\* A token is good for ten minutes.
TokenExpires ==
  /\ token = "fresh" /\ Fault
  /\ token' = "spent"
  /\ UNCHANGED <<target, wanted, at, entries, ca, agentCa>>

\* An agent that does not know the CA of a restarted server may end.
AgentEnds ==
  /\ at["spire-agent"] = "up" /\ at["spire-server"] = "up" /\ ~TrustsServer
  /\ at' = [s \in Service |-> IF DiesWith("spire-agent", s) THEN "failed" ELSE at[s]]
  /\ Quietly /\ UNCHANGED spireVars

\* What the Workload API hands out to a registered workload: X.509-SVIDs also
\* from its cache, JWT-SVIDs only together with the server.
GetsX509(w) == at["spire-agent"] = "up" /\ w \in entries
GetsJwt(w) == GetsX509(w) /\ at["spire-server"] = "up" /\ agentCa = ca

=============================================================================
