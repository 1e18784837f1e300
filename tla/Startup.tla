-------------------------------- MODULE Startup --------------------------------
(***************************************************************************)
(* From `docker compose up` to a login: the services that authenticate to   *)
(* Keycloak without a shared secret, what they fetch, load or generate when *)
(* their process starts and keep until it ends, and whether a token request *)
(* then succeeds.  Keycloak is external: it takes an assertion with the     *)
(* right audience, verified with the key it knows by the assertion's kid or *)
(* fetches from the service when it knows no such kid.                      *)
(***************************************************************************)
EXTENDS CertInit, SpireBootstrap

VARIABLES
  signer,  \* the kid, the key and the audience each signing service started with
  jwk,     \* the key Keycloak has for it
  cert,    \* the files agent-cert has loaded
  bundle,  \* the newest CA in the trust bundle of keycloak-mtls-proxy
  login    \* how the last token request of each workload ended

workloadVars == <<signer, jwk, cert, bundle, login>>
vars == <<composeVars, pkiVars, spireVars, workloadVars>>

-----------------------------------------------------------------------------

Signer   == {"spiffe-service", "agent-spiffe", "agent-cert"}
Workload == Signer \cup {"agent-spiffe-mtls"}
Login    == {"none", "unattested", "refused", "denied", "ok"}

NoSigner == [kid |-> 0, key |-> 0, aud |-> FALSE]
NoJwk    == [kid |-> 0, key |-> 0]

ScriptStep == {"guard", "ca key", "ca", "key", "csr", "sign", "chmod", "wait", "token"} \cup EntryStep
ContainerStep == {"down", "starting", "up", "done", "failed"} \cup ScriptStep

\* A step of a container that is starting.
Started(s, step) ==
  /\ at[s] = "starting"
  /\ Goes(s, step)
  /\ UNCHANGED <<target, wanted, faults, pkiVars, spireVars, login>>

-----------------------------------------------------------------------------
(* What the services do when their process starts                          *)

\* Keycloak's cache of keys starts empty.
KeycloakReady ==
  /\ Started("keycloak", "up")
  /\ jwk' = [w \in Signer |-> NoJwk]
  /\ UNCHANGED <<signer, cert, bundle>>

\* The token endpoint Keycloak publishes is discovered once; without an answer
\* the internal URL is used, which Keycloak does not take.
Discovered == at["keycloak"] = "up"

\* Mistake: the kid does not change with the key.
FixedKid(w) == 1

\* A random one for each process.
NewKid(w) == signer[w].kid + 1

Signs(w, key) ==
  signer' = [signer EXCEPT ![w] = [kid |-> NewKid(w), key |-> key, aud |-> Discovered]]

\* The key of spiffe-service and of agent-spiffe is made for the process.
SpiffeServiceStarts ==
  /\ Started("spiffe-service", "up")
  /\ Signs("spiffe-service", signer["spiffe-service"].key + 1)
  /\ UNCHANGED <<jwk, cert, bundle>>

AgentSpiffeStarts ==
  /\ Started("agent-spiffe", "up")
  /\ Signs("agent-spiffe", signer["agent-spiffe"].key + 1)
  /\ UNCHANGED <<jwk, cert, bundle>>

\* agent-cert loads its key, as a user other than root, and its certificate.
Loadable == pki.key # Missing /\ pki.certKey # Missing /\ pki.readable

AgentCertStarts ==
  /\ Loadable /\ Started("agent-cert", "up")
  /\ cert' = pki
  /\ Signs("agent-cert", pki.key)
  /\ UNCHANGED <<jwk, bundle>>

AgentCertFails ==
  /\ ~Loadable /\ Started("agent-cert", "failed")
  /\ UNCHANGED <<signer, jwk, cert, bundle>>

\* The proxy fetches its certificate and the trust bundle, once; it gives up
\* after 60 looks for the socket or five attempts.
ProxyStarts ==
  /\ GetsX509("keycloak-mtls-proxy") /\ Started("keycloak-mtls-proxy", "up")
  /\ bundle' = agentCa
  /\ UNCHANGED <<signer, jwk, cert>>

ProxyFails ==
  /\ ~GetsX509("keycloak-mtls-proxy") /\ Started("keycloak-mtls-proxy", "failed")
  /\ UNCHANGED <<signer, jwk, cert, bundle>>

MtlsAgentStarts ==
  /\ Started("agent-spiffe-mtls", "up")
  /\ UNCHANGED <<signer, jwk, cert, bundle>>

-----------------------------------------------------------------------------
(* Token requests                                                          *)

\* The key Keycloak verifies with.
KeyTaken(w) == IF jwk[w].kid = signer[w].kid THEN jwk[w].key ELSE signer[w].key

\* Keycloak's answer to an assertion.
AssertionTaken(w) ==
  /\ at["keycloak"] = "up"
  /\ signer[w].aud
  /\ KeyTaken(w) = signer[w].key

Asks(w, outcome) ==
  /\ at[w] = "up"
  /\ login' = [login EXCEPT ![w] = outcome]
  /\ UNCHANGED <<composeVars, pkiVars, spireVars, signer, cert, bundle>>

\* Keycloak caches the key it has verified an assertion with.
SendsAssertion(w, outcome) ==
  /\ Asks(w, outcome)
  /\ jwk' = IF at["keycloak"] = "up"
            THEN [jwk EXCEPT ![w] = [kid |-> signer[w].kid, key |-> KeyTaken(w)]]
            ELSE jwk

\* GET /demo of spiffe-service: attestation, token, and a call to the resource
\* server, which may serve it or not.  The first failure ends it.
Demo ==
  LET w == "spiffe-service"
  IN  \/ ~GetsJwt(w) /\ Asks(w, "unattested") /\ UNCHANGED jwk
      \/ GetsJwt(w) /\ ~AssertionTaken(w) /\ SendsAssertion(w, "refused")
      \/ /\ GetsJwt(w) /\ AssertionTaken(w)
         /\ \E outcome \in {"ok", "denied"} : SendsAssertion(w, outcome)

AgentSpiffeLogin ==
  LET w == "agent-spiffe"
  IN  \/ ~GetsJwt(w) /\ Asks(w, "unattested") /\ UNCHANGED jwk
      \/ GetsJwt(w) /\ SendsAssertion(w, IF AssertionTaken(w) THEN "ok" ELSE "refused")

AgentCertLogin ==
  LET w == "agent-cert"
  IN  SendsAssertion(w, IF AssertionTaken(w) THEN "ok" ELSE "refused")

\* agent-spiffe-mtls presents its SVID to the proxy, which verifies it with the
\* bundle and passes the request on to Keycloak.
HandshakeTaken ==
  /\ at["keycloak-mtls-proxy"] = "up" /\ bundle >= agentCa
  /\ at["keycloak"] = "up"

MtlsLogin ==
  LET w == "agent-spiffe-mtls"
  IN  /\ Asks(w, CASE ~GetsX509(w) -> "unattested"
                   [] GetsX509(w) /\ HandshakeTaken -> "ok"
                   [] OTHER -> "refused")
      /\ UNCHANGED jwk

-----------------------------------------------------------------------------

Others == UNCHANGED <<pkiVars, spireVars, workloadVars>>

\* With the containers go the server's database, the agent's bundle and the
\* processes' memory.
ContainersRemoved ==
  /\ RemovesVolume \/ (Down /\ UNCHANGED pkiVars)
  /\ entries' = {}
  /\ token' = IF token = "none" THEN "none" ELSE "spent"
  /\ agentCa' = NoBundle
  /\ UNCHANGED <<ca, workloadVars>>

Init ==
  /\ target \in Targets /\ wanted = {} /\ faults = 0
  /\ at = [s \in Service |-> "down"]
  /\ pki = EmptyVolume /\ generation = 0
  /\ token = "none" /\ entries = {} /\ ca = 0 /\ agentCa = NoBundle
  /\ signer = [w \in Signer |-> NoSigner] /\ jwk = [w \in Signer |-> NoJwk]
  /\ cert = EmptyVolume /\ bundle = 0
  /\ login = [w \in Workload |-> "none"]

\* A step of compose, of a script or of a process that starts.
Operator == Up /\ Others
ComposeStep == (\E s \in Service : Starts(s) \/ GivesUp(s)) /\ Others
ScriptRuns ==
  \/ CertInitStep /\ UNCHANGED <<spireVars, workloadVars>>
  \/ InitStep /\ UNCHANGED <<pkiVars, workloadVars>>
ServerStarts == ServerReady /\ UNCHANGED <<pkiVars, workloadVars>>
AgentStarts == (AgentJoins \/ AgentFails) /\ UNCHANGED <<pkiVars, workloadVars>>
ProcessStarts(s) ==
  \/ s = "keycloak" /\ KeycloakReady
  \/ s = "spire-server" /\ ServerStarts
  \/ s = "spire-agent" /\ AgentStarts
  \/ s = "spiffe-service" /\ SpiffeServiceStarts
  \/ s = "agent-spiffe" /\ AgentSpiffeStarts
  \/ s = "agent-cert" /\ (AgentCertStarts \/ AgentCertFails)
  \/ s = "keycloak-mtls-proxy" /\ (ProxyStarts \/ ProxyFails)
  \/ s = "agent-spiffe-mtls" /\ MtlsAgentStarts
TokenRequest(w) ==
  \/ w = "spiffe-service" /\ Demo
  \/ w = "agent-spiffe" /\ AgentSpiffeLogin
  \/ w = "agent-cert" /\ AgentCertLogin
  \/ w = "agent-spiffe-mtls" /\ MtlsLogin

Disturbance ==
  \/ \E s \in Service \ {"cert-init"} : Dies(s) /\ Others
  \/ CertInitDies /\ UNCHANGED <<spireVars, workloadVars>>
  \/ ContainersRemoved
  \/ (RotatesCa \/ TokenExpires \/ AgentEnds) /\ UNCHANGED <<pkiVars, workloadVars>>
  \/ \E s \in Service : StartsAlone(s) /\ Others

Next ==
  \/ Operator \/ ComposeStep \/ ScriptRuns
  \/ \E s \in Service : ProcessStarts(s)
  \/ \E w \in Workload : TokenRequest(w)
  \/ Disturbance

Spec == Init /\ [][Next]_vars

\* Every wait of the scripts, the health checks and the clients is bounded, the
\* operator runs `up` again, and the workloads keep asking for tokens.
FairSpec ==
  /\ Spec
  /\ WF_vars(Operator) /\ WF_vars(ComposeStep)
  /\ WF_vars(CertInitStep /\ UNCHANGED <<spireVars, workloadVars>>)
  /\ WF_vars(InitStep /\ UNCHANGED <<pkiVars, workloadVars>>)
  /\ \A s \in Service : WF_vars(ProcessStarts(s))
  /\ \A w \in Workload : WF_vars(TokenRequest(w))

-----------------------------------------------------------------------------
(* Properties.                                                             *)

TypeOK ==
  /\ target \in Targets /\ wanted \subseteq Service /\ faults \in 0..MaxFaults
  /\ at \in [Service -> ContainerStep]
  /\ \A s \in Service : at[s] \in ScriptStep => s \in OneShot
  /\ pki \in Pki /\ generation \in Nat
  /\ token \in JoinToken /\ entries \subseteq InNamespace
  /\ ca \in Nat /\ agentCa \in NoBundle..ca /\ bundle \in 0..ca
  /\ signer \in [Signer -> [kid : Nat, key : Nat, aud : BOOLEAN]]
  /\ jwk \in [Signer -> [kid : Nat, key : Nat]]
  /\ cert \in Pki /\ login \in [Workload -> Login]

(***************************************************************************)
(* What agent-cert has loaded belongs together, whatever runs of cert-init  *)
(* died halfway before: its certificate is for its key and is signed by the *)
(* CA beside it ("partial state is regenerated", cert-init/setup.sh:42).    *)
(***************************************************************************)
CertMatchesKey ==
  at["agent-cert"] = "up" => cert.certKey = cert.key /\ cert.certCa = cert.ca

(***************************************************************************)
(* A complete PKI survives every later run of cert-init, and every crash of *)
(* one: only removing the volume makes the agent's key another              *)
(* ("second-run reuses the same cert", cert-init/setup.sh:7).               *)
(***************************************************************************)
KeyIsKept ==
  [][Present => \/ pki' = EmptyVolume
                \/ \A f \in {"key", "certKey", "certCa", "ca"} : pki'[f] = pki[f]]_vars

\* What no later `up` puts right: an audience that was not discovered; a private
\* key that its agent may not read; a SPIRE agent that runs and does not know its
\* server; one that has ended, and in whose container lies a bundle without the
\* server's CA; a bundle that the proxy fetched before the CA changed.
UnreadableKey == Present /\ ~pki.readable /\ at["cert-init"] # "chmod"

Stuck(w) ==
  \/ w \in Signer /\ at[w] = "up" /\ ~signer[w].aud
  \/ w = "agent-cert" /\ UnreadableKey
  \/ w # "agent-cert" /\ at["spire-agent"] = "up" /\ ~TrustsServer
  \/ w # "agent-cert" /\ at["spire-agent"] # "up" /\ ~TrustsServer
  \/ w = "agent-spiffe-mtls" /\ at["keycloak-mtls-proxy"] = "up" /\ bundle # agentCa

(***************************************************************************)
(* Whatever is restarted and in whatever order, Keycloak verifies an        *)
(* assertion with the key it was signed with: a key that it has cached from *)
(* an earlier process is under a kid that is no longer in use               *)
(* (spiffe-service/main.py:72, agent-spiffe/agent.py:83).                   *)
(***************************************************************************)
KeyTakenIsCurrent == \A w \in Signer : KeyTaken(w) = signer[w].key

(***************************************************************************)
(* As long as nothing fails, the conditions in docker-compose.yml order the *)
(* start well enough: no container ends with an error, nobody is stuck, and *)
(* no token request fails, but for agent-spiffe-mtls, which waits until the *)
(* proxy is started and not until it serves.                                *)
(***************************************************************************)
OrderlyStart ==
  faults = 0 =>
    /\ \A s \in Service : at[s] # "failed"
    /\ \A w \in Workload : ~Stuck(w) /\ login[w] # "unattested"
    /\ \A w \in Signer : login[w] # "refused"

(***************************************************************************)
(* Every `up` ends: each wait of the start-up scripts has a last attempt    *)
(* (spire/setup.sh, spire/agent-start.sh, keycloak-mtls-proxy/entrypoint.sh) *)
(* and compose gives up on a dependency that ended.                         *)
(***************************************************************************)
UpEnds == wanted # {} ~> wanted = {}

(***************************************************************************)
(* After the faults, repeating `up` is enough for every workload to obtain  *)
(* its token again, except where it is stuck: each `up` makes a join token  *)
(* and the missing entries, and a new process has a new kid.                *)
(***************************************************************************)
LoginsHeal ==
  \A w \in Workload :
    <>[](w \in Needed => login[w] \in {"ok", "denied"} \/ Stuck(w))

=============================================================================
