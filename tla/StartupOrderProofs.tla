--------------------------- MODULE StartupOrderProofs ---------------------------
(***************************************************************************)
(* Proofs about the order in which Startup brings the services up: as long  *)
(* as nothing fails, the conditions of docker-compose.yml are enough for    *)
(* every token request, whatever set of services the operator asks for and  *)
(* however often; and after any faults a new process is known by its kid.   *)
(***************************************************************************)
EXTENDS StartupProofs

\* The registration entries that spire-init has made when it is at a step.
EntriesBefore(step) ==
  CASE step = "entry 2" -> {"spiffe-service"}
    [] step = "entry 3" -> {"spiffe-service", "agent-spiffe"}
    [] step = "entry 4" -> {"spiffe-service", "agent-spiffe", "agent-spiffe-mtls"}
    [] step = "done"    -> InNamespace
    [] OTHER            -> {}

\* No container fails, and only one-shots end.
NoneFails == \A s \in Service : at[s] # "failed" /\ (at[s] = "done" => s \in OneShot)

\* cert-init has finished once before agent-cert starts; a later run of it
\* finds the files and writes none.
PkiFirst ==
  /\ ~UnreadableKey
  /\ at["agent-cert"] # "down" \/ at["cert-init"] = "done" => Present /\ pki.readable

\* Keycloak answers before those that ask for its token endpoint start.
KeycloakFirst ==
  /\ \A w \in Signer \cup {"keycloak-mtls-proxy"} : at[w] # "down" => at["keycloak"] = "up"
  /\ \A w \in Signer : at[w] = "up" => signer[w].aud

\* The server is up before spire-init runs, which leaves a fresh token and all
\* entries behind before the agent starts; a later run of it takes none away.
ServerFirst ==
  /\ at["spire-init"] # "down" \/ at["spire-agent"] # "down" => at["spire-server"] = "up"
  /\ \/ at["spire-agent"] = "starting"
     \/ at["spire-agent"] = "down" /\ at["spire-init"] \in EntryStep \cup {"done"}
     => token = "fresh"
  /\ EntriesBefore(at["spire-init"]) \subseteq entries
  /\ at["spire-agent"] # "down" => InNamespace \subseteq entries

\* The agent serves, with the server's CA, before the workloads start; until it
\* serves, it has no bundle.
AgentFirst ==
  /\ \A w \in InNamespace : at[w] # "down" => at["spire-agent"] = "up"
  /\ agentCa = IF at["spire-agent"] = "up" THEN ca ELSE NoBundle
  /\ at["keycloak-mtls-proxy"] = "up" => bundle = agentCa

LoginsServed ==
  /\ \A w \in Workload : login[w] # "unattested"
  /\ \A w \in Signer : login[w] # "refused"

Ordered == NoneFails /\ PkiFirst /\ KeycloakFirst /\ ServerFirst /\ AgentFirst /\ LoginsServed

\* What Keycloak has cached under the kid in use is the key in use, and a kid
\* is never used again for another key.
KeysByKid ==
  \A w \in Signer :
    /\ jwk[w].kid <= signer[w].kid
    /\ jwk[w].kid = signer[w].kid => jwk[w].key = signer[w].key
    /\ signer[w].kid = 0 => signer[w].key = 0

-----------------------------------------------------------------------------
(* Keys and kids, with any number of faults.                               *)

\* A signer starts, with a new kid.
LEMMA SignsKeepsKids ==
  ASSUME IInv, KeysByKid, NEW w \in Signer, NEW key \in Nat, Signs(w, key), jwk' = jwk
  PROVE  KeysByKid'
<1> DEFINE aud == Discovered
           kid == signer[w].kid + 1
<1>1. /\ signer \in [Signer -> [kid : Nat, key : Nat, aud : BOOLEAN]]
      /\ jwk \in [Signer -> [kid : Nat, key : Nat]]
  BY DEF IInv, WorkOK
<1>2. kid \in Nat /\ kid # 0 /\ jwk[w].kid < kid
  BY <1>1 DEF KeysByKid
<1>3. signer' = [signer EXCEPT ![w] = [kid |-> kid, key |-> key, aud |-> aud]]
  BY DEF Signs, NewKid
<1> HIDE DEF aud, kid
<1>4. SUFFICES ASSUME NEW q \in Signer
               PROVE  /\ jwk'[q].kid <= signer'[q].kid
                      /\ jwk'[q].kid = signer'[q].kid => jwk'[q].key = signer'[q].key
                      /\ signer'[q].kid = 0 => signer'[q].key = 0
  BY DEF KeysByKid
<1>5. CASE q = w
  <2>1. signer'[q].kid = kid /\ jwk'[q] = jwk[w]
    BY <1>1, <1>3, <1>5
  <2>2. jwk[w].kid \in Nat
    BY <1>1
  <2> QED BY <1>2, <2>1, <2>2
<1>6. CASE q # w
  <2>1. signer'[q] = signer[q] /\ jwk'[q] = jwk[q]
    BY <1>1, <1>3, <1>6
  <2> QED BY <2>1 DEF KeysByKid
<1> QED BY <1>5, <1>6

\* An assertion is sent, and Keycloak keeps the key it was verified with.
LEMMA AssertionKeepsKids ==
  ASSUME IInv, KeysByKid, NEW w \in Signer, NEW outcome, SendsAssertion(w, outcome)
  PROVE  KeysByKid'
<1> DEFINE kid == signer[w].kid
           key == signer[w].key
<1>1. /\ signer \in [Signer -> [kid : Nat, key : Nat, aud : BOOLEAN]]
      /\ jwk \in [Signer -> [kid : Nat, key : Nat]] /\ signer' = signer
  BY DEF IInv, WorkOK, SendsAssertion, Asks
<1>2. KeyTaken(w) = key
  BY DEF KeyTaken, KeysByKid
<1>3. jwk' \in {jwk, [jwk EXCEPT ![w] = [kid |-> kid, key |-> key]]}
  BY <1>2 DEF SendsAssertion
<1>4. kid \in Nat /\ key \in Nat /\ (kid = 0 => key = 0)
  BY <1>1 DEF KeysByKid
<1>5. signer[w].kid = kid /\ signer[w].key = key
  OBVIOUS
<1> HIDE DEF kid, key
<1>6. SUFFICES ASSUME NEW q \in Signer
               PROVE  /\ jwk'[q].kid <= signer[q].kid
                      /\ jwk'[q].kid = signer[q].kid => jwk'[q].key = signer[q].key
  BY <1>1 DEF KeysByKid
<1>7. CASE q = w /\ jwk' # jwk
  <2>1. jwk'[q].kid = kid /\ jwk'[q].key = key
    BY <1>1, <1>3, <1>7
  <2> QED BY <1>4, <1>5, <1>7, <2>1
<1>8. CASE q # w \/ jwk' = jwk
  <2>1. jwk'[q] = jwk[q]
    BY <1>1, <1>3, <1>8
  <2> QED BY <2>1 DEF KeysByKid
<1> QED BY <1>7, <1>8

LEMMA KidsInit == Init => KeysByKid
<1>1. NoSigner.kid = 0 /\ NoSigner.key = 0 /\ NoJwk.kid = 0 /\ NoJwk.key = 0
  BY DEF NoSigner, NoJwk
<1>2. ASSUME Init, NEW w \in Signer
      PROVE  jwk[w] = NoJwk /\ signer[w] = NoSigner
  BY <1>2 DEF Init
<1>3. ASSUME Init
      PROVE  KeysByKid
  BY <1>1, <1>2, <1>3 DEF KeysByKid
<1> QED BY <1>3

LEMMA KidsKept == IInv /\ KeysByKid /\ [Next]_vars => KeysByKid'
<1> SUFFICES ASSUME IInv, KeysByKid, [Next]_vars PROVE KeysByKid'
  OBVIOUS
<1>1. /\ signer \in [Signer -> [kid : Nat, key : Nat, aud : BOOLEAN]]
      /\ jwk \in [Signer -> [kid : Nat, key : Nat]]
      /\ {"spiffe-service", "agent-spiffe", "agent-cert"} = Signer
      /\ pki.key \in Nat
  BY DEF IInv, WorkOK, Signer, KeyMaterial, Pki
<1>2. CASE UNCHANGED <<signer, jwk>>
  BY <1>2 DEF KeysByKid
<1>3. CASE KeycloakReady
  <2>1. jwk' = [w \in Signer |-> NoJwk] /\ signer' = signer
    BY <1>3 DEF KeycloakReady
  <2>2. \A w \in Signer : jwk'[w].kid = 0 /\ jwk'[w].key = 0
    BY <2>1 DEF NoJwk
  <2>3. \A w \in Signer : signer[w].kid \in Nat /\ signer[w].key \in Nat
    BY <1>1
  <2> QED BY <2>1, <2>2, <2>3 DEF KeysByKid
<1>4. CASE SpiffeServiceStarts \/ AgentSpiffeStarts \/ AgentCertStarts
  <2>1. \E w \in Signer, key \in Nat : Signs(w, key) /\ jwk' = jwk
    BY <1>1, <1>4 DEF SpiffeServiceStarts, AgentSpiffeStarts, AgentCertStarts
  <2> QED BY <2>1, SignsKeepsKids
<1>5. CASE \E w \in Workload : TokenRequest(w)
  <2>1. \/ UNCHANGED <<signer, jwk>>
        \/ \E w \in Signer, outcome \in Login : SendsAssertion(w, outcome)
    BY <1>1, <1>5 DEF TokenRequest, Demo, AgentSpiffeLogin, AgentCertLogin, MtlsLogin, Asks, Login
  <2> QED BY <1>2, <2>1, AssertionKeepsKids
<1>6. CASE /\ ~KeycloakReady /\ ~SpiffeServiceStarts /\ ~AgentSpiffeStarts /\ ~AgentCertStarts
           /\ ~\E w \in Workload : TokenRequest(w)
  <2>1. UNCHANGED <<signer, jwk>>
    BY <1>6 DEF Next, vars, workloadVars, Operator, ComposeStep, Others, ScriptRuns, ProcessStarts,
                AgentCertFails, ProxyStarts, ProxyFails, MtlsAgentStarts, ServerStarts,
                AgentStarts, Disturbance, ContainersRemoved
  <2> QED BY <1>2, <2>1
<1> QED BY <1>3, <1>4, <1>5, <1>6

(***************************************************************************)
(* After any number of crashes, restarts and manual starts, Keycloak        *)
(* verifies an assertion with the key it was signed with                    *)
(* (agent-spiffe/agent.py:83).                                              *)
(***************************************************************************)
THEOREM KeysAreCurrent == Spec => []KeyTakenIsCurrent
<1>1. KeysByKid => KeyTakenIsCurrent
  BY DEF KeysByKid, KeyTakenIsCurrent, KeyTaken
<1> QED BY <1>1, Invariance, KidsInit, KidsKept, PTL DEF Spec

-----------------------------------------------------------------------------
(* The order of the start, without faults.                                 *)

LEMMA OrderedImplies ==
  ASSUME Ordered
  PROVE  OrderlyStart
<1>1. \A s \in Service : at[s] # "failed"
  BY DEF Ordered, NoneFails
<1>2. ASSUME NEW w \in Workload
      PROVE  ~Stuck(w)
  <2>1. \A q \in Signer : at[q] = "up" => signer[q].aud
    BY DEF Ordered, KeycloakFirst
  <2>2. ~UnreadableKey
    BY DEF Ordered, PkiFirst
  <2>3. /\ TrustsServer
        /\ at["keycloak-mtls-proxy"] = "up" => bundle = agentCa
    BY DEF Ordered, AgentFirst, TrustsServer
  <2> QED BY <2>1, <2>2, <2>3 DEF Stuck
<1>3. LoginsServed
  BY DEF Ordered
<1> QED BY <1>1, <1>2, <1>3 DEF OrderlyStart, LoginsServed

LEMMA OrderedInit == Init => Ordered
<1> SUFFICES ASSUME Init PROVE Ordered
  OBVIOUS
<1>1. \A s \in Service : at[s] = "down"
  BY DEF Init
<1>2. {"agent-cert", "cert-init", "keycloak", "spire-init", "spire-agent", "spire-server",
       "keycloak-mtls-proxy"} \cup Signer \cup InNamespace \subseteq Service
  BY DEF Service, OneShot, InNamespace, Signer
<1>3. NoneFails
  BY <1>1 DEF Init, NoneFails
<1>4. PkiFirst
  <2>1. ~Present
    BY DEF Init, EmptyVolume, Present
  <2> QED BY <1>1, <1>2, <2>1 DEF PkiFirst, UnreadableKey
<1>5. KeycloakFirst
  BY <1>1, <1>2 DEF KeycloakFirst
<1>6. ServerFirst
  <2>1. at["spire-init"] = "down" /\ at["spire-agent"] = "down" /\ EntriesBefore("down") = {}
    BY <1>1, <1>2 DEF EntriesBefore
  <2> QED BY <2>1 DEF ServerFirst, EntryStep
<1>7. AgentFirst
  <2>1. agentCa = NoBundle
    BY DEF Init
  <2> QED BY <1>1, <1>2, <2>1 DEF AgentFirst
<1>8. LoginsServed
  BY DEF Init, LoginsServed, Signer, Workload
<1> QED BY <1>3, <1>4, <1>5, <1>6, <1>7, <1>8 DEF Ordered

\* One container moves, and the others stay where they are.
LEMMA OneMoves ==
  ASSUME IInv, NEW s \in Service, NEW step, Goes(s, step)
  PROVE  at'[s] = step /\ \A q \in Service \ {s} : at'[q] = at[q]
BY DEF IInv, AtOK, Goes

LEMMA TheServices ==
  /\ {"agent-cert", "cert-init", "keycloak", "spire-init", "spire-agent", "spire-server",
      "keycloak-mtls-proxy", "spiffe-service", "agent-spiffe", "agent-spiffe-mtls"} = Service
  /\ Signer \subseteq Service \ OneShot /\ InNamespace \subseteq Service \ OneShot
BY DEF Service, OneShot, InNamespace, Signer

\* Nothing but the one-shots that are done moves, back to the start.
LEMMA AtRest ==
  ASSUME Ordered, UNCHANGED <<pki, token, entries, ca, agentCa, signer, bundle>>,
         \A s \in Service : at'[s] = at[s] \/ (s \in OneShot /\ at[s] = "done" /\ at'[s] = "down"),
         LoginsServed'
  PROVE  Ordered'
<1>1. \A s \in Service \ OneShot : at'[s] = at[s]
  OBVIOUS
<1>2. /\ at'["cert-init"] = at["cert-init"] \/ (at'["cert-init"] = "down" /\ at["cert-init"] = "done")
      /\ at'["spire-init"] = at["spire-init"] \/ (at'["spire-init"] = "down" /\ at["spire-init"] = "done")
      /\ {"agent-cert", "keycloak", "spire-agent", "spire-server", "keycloak-mtls-proxy"}
           \subseteq Service \ OneShot
  BY TheServices DEF OneShot
<1>3. NoneFails'
  BY DEF Ordered, NoneFails
<1>4. PkiFirst'
  BY <1>1, <1>2 DEF Ordered, PkiFirst, UnreadableKey, Present
<1>5. KeycloakFirst'
  BY <1>1, <1>2, TheServices DEF Ordered, KeycloakFirst
<1>6. ServerFirst'
  <2>1. EntriesBefore("down") = {}
    BY DEF EntriesBefore
  <2>2. "down" \notin EntryStep \cup {"done"}
    BY DEF EntryStep
  <2>3. EntriesBefore(at'["spire-init"]) \subseteq entries
    BY <1>2, <2>1 DEF Ordered, ServerFirst
  <2> QED BY <1>1, <1>2, <2>2, <2>3 DEF Ordered, ServerFirst
<1>7. AgentFirst'
  BY <1>1, <1>2, TheServices DEF Ordered, AgentFirst
<1> QED BY <1>3, <1>4, <1>5, <1>6, <1>7 DEF Ordered

\* The operator, and compose giving up.
LEMMA UpOrdered ==
  ASSUME IInv, Ordered, Up \/ (\E s \in Service : GivesUp(s)), Others
  PROVE  Ordered'
<1>1. UNCHANGED <<pki, token, entries, ca, agentCa, signer, bundle, login>>
  BY DEF Others, pkiVars, spireVars, workloadVars
<1>2. LoginsServed'
  BY <1>1 DEF Ordered, LoginsServed
<1>3. CASE Up
  <2>1. \A s \in Service : at'[s] = IF s \in Needed /\ ~Running(s) THEN "down" ELSE at[s]
    BY <1>3 DEF Up
  <2>2. \A s \in Service : ~Running(s) => at[s] = "down" \/ (at[s] = "done" /\ s \in OneShot)
    BY DEF Running, Ordered, NoneFails
  <2> QED BY <1>1, <1>2, <2>1, <2>2, AtRest
<1>4. CASE \E s \in Service : GivesUp(s)
  <2>1. at' = at
    BY <1>4 DEF GivesUp
  <2> QED BY <1>1, <1>2, <2>1, AtRest
<1> QED BY <1>3, <1>4

\* compose comes to a service that runs.
LEMMA RunsOrdered ==
  ASSUME Ordered, NEW s \in Service, Starts(s), Running(s), Others
  PROVE  Ordered'
<1>1. UNCHANGED <<at, pki, token, entries, ca, agentCa, signer, bundle, login>>
  BY DEF Starts, Others, pkiVars, spireVars, workloadVars
<1>2. LoginsServed'
  BY <1>1 DEF Ordered, LoginsServed
<1> QED BY <1>1, <1>2, AtRest

\* What compose has seen of a service's dependencies when it starts it.
LEMMA DependenciesMet ==
  ASSUME NEW s \in Service, \A d \in DependsOn(s) : Meets(d)
  PROVE  /\ s = "spire-init" => at["spire-server"] = "up"
         /\ s = "spire-agent" => at["spire-init"] = "done"
         /\ s = "agent-cert" => at["cert-init"] = "done"
         /\ s \in InNamespace => at["spire-agent"] = "up"
         /\ s \in Signer \cup {"keycloak-mtls-proxy"} => at["keycloak"] = "up"
<1>1. /\ s = "spire-init" => <<"spire-server", "healthy">> \in DependsOn(s)
      /\ s = "spire-agent" => <<"spire-init", "completed">> \in DependsOn(s)
      /\ s = "agent-cert" => <<"cert-init", "completed">> \in DependsOn(s)
      /\ s \in InNamespace => <<"spire-agent", "healthy">> \in DependsOn(s)
      /\ s \in Signer \cup {"keycloak-mtls-proxy"} => <<"keycloak", "healthy">> \in DependsOn(s)
  BY DEF DependsOn, InNamespace, Signer
<1>2. /\ Meets(<<"spire-server", "healthy">>) => at["spire-server"] = "up"
      /\ Meets(<<"spire-init", "completed">>) => at["spire-init"] = "done"
      /\ Meets(<<"cert-init", "completed">>) => at["cert-init"] = "done"
      /\ Meets(<<"spire-agent", "healthy">>) => at["spire-agent"] = "up"
      /\ Meets(<<"keycloak", "healthy">>) => at["keycloak"] = "up"
  BY DEF Meets
<1> QED BY <1>1, <1>2

\* compose starts a service that does not run, a one-shot perhaps once more.
LEMMA StartsOrdered ==
  ASSUME IInv, Ordered, NEW s \in Service, Starts(s), ~Running(s), Others
  PROVE  Ordered'
<1>1. UNCHANGED <<pki, token, entries, ca, agentCa, signer, bundle, login>>
  BY DEF Others, pkiVars, spireVars, workloadVars
<1>2. at[s] = "down" \/ (at[s] = "done" /\ s \in OneShot)
  BY DEF Running, Ordered, NoneFails
<1>3. at'[s] = FirstStep(s) /\ \A q \in Service \ {s} : at'[q] = at[q]
  BY OneMoves DEF Starts
<1>4. /\ s = "spire-init" => at["spire-server"] = "up"
      /\ s = "spire-agent" => at["spire-init"] = "done"
      /\ s = "agent-cert" => at["cert-init"] = "done"
      /\ s \in InNamespace => at["spire-agent"] = "up"
      /\ s \in Signer \cup {"keycloak-mtls-proxy"} => at["keycloak"] = "up"
  BY DependenciesMet DEF Starts
<1>5. /\ FirstStep(s) \in {"guard", "wait", "starting"}
      /\ s \notin OneShot => FirstStep(s) = "starting"
      /\ s = "spire-init" => FirstStep(s) = "wait"
      /\ s = "cert-init" => FirstStep(s) = "guard"
  BY DEF FirstStep, OneShot
<1>6. NoneFails'
  BY <1>3, <1>5 DEF Ordered, NoneFails
<1>7. PkiFirst'
  BY <1>1, <1>2, <1>3, <1>4, <1>5, TheServices DEF Ordered, PkiFirst, UnreadableKey, Present
<1>8. KeycloakFirst'
  <2>1. \A w \in Signer \cup {"keycloak-mtls-proxy"} : at'[w] # "down" => at["keycloak"] = "up"
    BY <1>3, <1>4, TheServices DEF Ordered, KeycloakFirst
  <2>2. at["keycloak"] = "up" => at'["keycloak"] = "up"
    BY <1>2, <1>3, TheServices
  <2>3. \A w \in Signer : at'[w] = "up" => at[w] = "up"
    BY <1>3, <1>5, TheServices
  <2> QED BY <1>1, <2>1, <2>2, <2>3 DEF Ordered, KeycloakFirst
<1>9. ServerFirst'
  <2>1. EntriesBefore("wait") = {} /\ EntriesBefore("done") = InNamespace
        /\ "wait" \notin EntryStep \cup {"done"}
    BY DEF EntriesBefore, EntryStep
  <2>2. at["spire-server"] = "up" => at'["spire-server"] = "up"
    BY <1>2, <1>3, TheServices
  <2>3. CASE s = "spire-init"
    <3>1. at'["spire-init"] = "wait" /\ at'["spire-agent"] = at["spire-agent"]
      BY <1>3, <1>5, <2>3, TheServices
    <3> QED BY <1>1, <1>4, <2>1, <2>2, <2>3, <3>1 DEF Ordered, ServerFirst
  <2>4. CASE s = "spire-agent"
    <3>1. /\ at'["spire-init"] = "done" /\ at["spire-init"] = "done" /\ at["spire-agent"] = "down"
          /\ at'["spire-agent"] = "starting"
      BY <1>2, <1>3, <1>4, <1>5, <2>4, TheServices DEF OneShot
    <3> QED BY <1>1, <2>1, <2>2, <3>1 DEF Ordered, ServerFirst
  <2>5. CASE s \notin {"spire-init", "spire-agent"}
    <3>1. at'["spire-init"] = at["spire-init"] /\ at'["spire-agent"] = at["spire-agent"]
      BY <1>3, <2>5, TheServices
    <3> QED BY <1>1, <2>2, <3>1 DEF Ordered, ServerFirst
  <2> QED BY <2>3, <2>4, <2>5
<1>10. AgentFirst'
  <2>1. at'["spire-agent"] = "up" <=> at["spire-agent"] = "up"
    BY <1>2, <1>3, <1>5, TheServices
  <2>2. \A w \in InNamespace : at'[w] # "down" => at["spire-agent"] = "up"
    BY <1>3, <1>4, TheServices DEF Ordered, AgentFirst
  <2>3. at'["keycloak-mtls-proxy"] = "up" => at["keycloak-mtls-proxy"] = "up"
    BY <1>3, <1>5, TheServices
  <2> QED BY <1>1, <2>1, <2>2, <2>3 DEF Ordered, AgentFirst
<1>11. LoginsServed'
  BY <1>1 DEF Ordered, LoginsServed
<1> QED BY <1>6, <1>7, <1>8, <1>9, <1>10, <1>11 DEF Ordered

\* A container moves and does not fail; what the others wait for is shown for
\* each.
LEMMA NoneFailsMove ==
  ASSUME IInv, Ordered, NEW s \in Service,
         NEW step \in ContainerStep \ {"failed"}, step = "done" => s \in OneShot,
         Goes(s, step)
  PROVE  NoneFails'
<1>1. at'[s] = step /\ \A q \in Service \ {s} : at'[q] = at[q]
  BY OneMoves
<1> QED BY <1>1 DEF Ordered, NoneFails

\* A step of cert-init.
LEMMA CertInitOrdered ==
  ASSUME IInv, IInv', Ordered, CertInitStep, UNCHANGED <<spireVars, workloadVars>>
  PROVE  Ordered'
<1>1. PICK from \in ScriptStep, to \in {"done", "ca key", "ca", "key", "csr", "sign", "chmod"} : Step(from, to)
  BY DEF CertInitStep, Guard, MakeCaKey, SelfSign, MakeKey, MakeCsr, Sign, Chmod, ScriptStep
<1>2. /\ at["cert-init"] # "down" /\ at'["cert-init"] # "down" /\ wanted' = wanted
      /\ \A q \in Service \ {"cert-init"} : at'[q] = at[q]
      /\ Goes("cert-init", to) /\ at'["cert-init"] = to
  <2>1. at["cert-init"] # "down"
    BY DEF CertInitStep, Guard, MakeCaKey, SelfSign, MakeKey, MakeCsr, Sign, Chmod, Step
  <2> QED BY <1>1, <2>1, OneMoves, TheServices DEF Step
<1>3. NoneFails'
  <2>1. "cert-init" \in Service /\ "cert-init" \in OneShot /\ to \in ContainerStep \ {"failed"}
    BY <1>1 DEF Service, OneShot, ContainerStep, ScriptStep
  <2> QED BY <1>2, <2>1, NoneFailsMove
<1>4. PkiFirst'
  <2>1. /\ pki \in Pki /\ at'["agent-cert"] = at["agent-cert"]
        /\ OfOneRun(pki, generation, at["cert-init"])
        /\ OfOneRun(pki', generation', at'["cert-init"])
    BY <1>2, TheServices DEF IInv, KeyMaterial
  <2>2. CASE Guard
    <3>1. at["cert-init"] = "guard" /\ pki' = pki
          /\ \/ Present /\ at'["cert-init"] = "done"
             \/ ~Present /\ at'["cert-init"] = "ca key"
      BY <2>2, OneMoves, TheServices DEF Guard, Step, pkiVars
    <3> QED BY <2>1, <3>1 DEF Ordered, PkiFirst, UnreadableKey, Present
  <2>3. CASE Chmod
    <3>1. at["cert-init"] = "chmod" /\ pki' = [pki EXCEPT !.readable = TRUE]
      BY <2>3 DEF Chmod, Step, Writes
    <3>2. /\ pki'.key = pki.key /\ pki'.certKey = pki.certKey /\ pki'.ca = pki.ca
          /\ pki'.readable = TRUE
      BY <2>1, <3>1 DEF Pki
    <3>3. Present
      BY <2>1, <3>1 DEF OfOneRun, Present
    <3> QED BY <3>2, <3>3 DEF PkiFirst, UnreadableKey, Present
  <2>4. CASE MakeCaKey \/ SelfSign \/ MakeKey \/ MakeCsr \/ Sign
    <3>1. at["cert-init"] \in Steps /\ at'["cert-init"] \in (Steps \cup {"chmod"})
      BY <2>4, OneMoves, TheServices DEF MakeCaKey, SelfSign, MakeKey, MakeCsr, Sign, Step, Steps
    <3>2. at["agent-cert"] = "down"
      BY <2>1, <3>1 DEF OfOneRun, Ordered, PkiFirst, Present
    <3>3. at'["cert-init"] # "done" /\ (Present' => at'["cert-init"] = "chmod")
      BY <2>1, <3>1 DEF OfOneRun, Steps, Present
    <3> QED BY <2>1, <3>2, <3>3 DEF PkiFirst, UnreadableKey
  <2> QED BY <2>2, <2>3, <2>4 DEF CertInitStep
<1>5. UNCHANGED <<token, entries, ca, agentCa, signer, bundle, login>>
  BY DEF spireVars, workloadVars
<1>6. \A s \in Service \ {"cert-init"} : at'[s] = at[s]
  BY <1>2
<1>7. KeycloakFirst' /\ AgentFirst' /\ ServerFirst' /\ LoginsServed'
  <2>1. KeycloakFirst'
    <3>1. \A w \in Signer \cup {"keycloak-mtls-proxy", "keycloak"} : at'[w] = at[w]
      BY <1>6, TheServices DEF OneShot
    <3> QED BY <1>5, <3>1 DEF Ordered, KeycloakFirst
  <2>2. AgentFirst'
    <3>1. \A w \in InNamespace \cup {"keycloak-mtls-proxy", "spire-agent"} : at'[w] = at[w]
      BY <1>6, TheServices DEF OneShot
    <3> QED BY <1>5, <3>1 DEF Ordered, AgentFirst
  <2>3. ServerFirst'
    <3>1. \A w \in {"spire-init", "spire-agent", "spire-server"} : at'[w] = at[w]
      BY <1>6, TheServices
    <3> QED BY <1>5, <3>1 DEF Ordered, ServerFirst
  <2>4. LoginsServed'
    BY <1>5 DEF Ordered, LoginsServed
  <2> QED BY <2>1, <2>2, <2>3, <2>4
<1> QED BY <1>3, <1>4, <1>7 DEF Ordered

\* What does not depend on SPIRE, when only its containers move.
LEMMA SpireAside ==
  ASSUME Ordered, NEW s \in {"spire-init", "spire-agent", "spire-server"},
         \A q \in Service \ {s} : at'[q] = at[q], UNCHANGED <<pkiVars, workloadVars>>
  PROVE  PkiFirst' /\ KeycloakFirst' /\ LoginsServed'
<1>1. UNCHANGED <<pki, signer, login>>
  BY DEF pkiVars, workloadVars
<1>2. at'["agent-cert"] = at["agent-cert"] /\ at'["cert-init"] = at["cert-init"]
  BY TheServices
<1>3. \A w \in Signer \cup {"keycloak-mtls-proxy", "keycloak"} : at'[w] = at[w]
  BY TheServices DEF Signer
<1>4. PkiFirst'
  BY <1>1, <1>2 DEF Ordered, PkiFirst, UnreadableKey, Present
<1>5. KeycloakFirst'
  BY <1>1, <1>3 DEF Ordered, KeycloakFirst
<1> QED BY <1>1, <1>4, <1>5 DEF Ordered, LoginsServed

\* A step of spire-init: what it leaves for the agent.
LEMMA InitStepOrdered ==
  ASSUME IInv, Ordered, InitStep, UNCHANGED <<pkiVars, workloadVars>>, faults = 0, faults' = 0
  PROVE  Ordered'
<1> DEFINE step == at["spire-init"]
<1>1. /\ step \in {"wait", "token"} \cup EntryStep /\ step # "down" /\ "spire-init" \in Service
      /\ "spire-init" \in OneShot
  BY DEF InitStep, InitWaits, InitFails, MakesToken, CreatesEntry, EntryStep, Service, OneShot
<1>2. at["spire-server"] = "up"
  BY <1>1 DEF Ordered, ServerFirst
<1>3. PICK to \in {"token"} \cup EntryStep \cup {"done"} :
        /\ Goes("spire-init", to) /\ wanted' = wanted /\ UNCHANGED <<ca, agentCa>>
        /\ entries \subseteq entries'
        /\ EntriesBefore(to) \subseteq entries'
        /\ token' = token \/ token' = "fresh"
        /\ to \in EntryStep \cup {"done"} => token' = "fresh" \/ step \in EntryStep
  <2>1. CASE InitWaits
    <3>1. EntriesBefore("token") = {} /\ "token" \notin EntryStep
      BY DEF EntriesBefore, EntryStep
    <3>2. Goes("spire-init", "token") /\ wanted' = wanted /\ UNCHANGED <<token, entries, ca, agentCa>>
      BY <2>1 DEF InitWaits, Quietly, spireVars
    <3> QED BY <3>1, <3>2
  <2>2. CASE InitFails
    BY <1>2, <2>2 DEF InitFails
  <2>3. CASE MakesToken
    <3>1. EntriesBefore("entry 1") = {} /\ "entry 1" \in EntryStep
      BY DEF EntriesBefore, EntryStep
    <3>2. Goes("spire-init", "entry 1") /\ wanted' = wanted /\ token' = "fresh" /\ UNCHANGED <<entries, ca, agentCa>>
      BY <2>3 DEF MakesToken, Quietly
    <3> QED BY <3>1, <3>2
  <2>4. CASE CreatesEntry
    <3>1. /\ step \in EntryStep /\ Goes("spire-init", After(step)) /\ wanted' = wanted
          /\ UNCHANGED <<token, ca, agentCa>> /\ entries' = entries \cup {EntryOf(step)}
      BY <1>2, <2>4 DEF CreatesEntry, Fault
    <3>2. After(step) \in EntryStep \cup {"done"}
      BY <3>1 DEF After, EntryStep
    <3>3. EntriesBefore(After(step)) \subseteq EntriesBefore(step) \cup {EntryOf(step)}
      BY <3>1 DEF EntriesBefore, After, EntryOf, EntryStep, InNamespace
    <3>4. EntriesBefore(step) \subseteq entries
      BY DEF Ordered, ServerFirst
    <3> QED BY <3>1, <3>2, <3>3, <3>4
  <2> QED BY <2>1, <2>2, <2>3, <2>4 DEF InitStep
<1>4. at'["spire-init"] = to /\ \A q \in Service \ {"spire-init"} : at'[q] = at[q]
  BY <1>1, <1>3, OneMoves
<1>5. NoneFails'
  <2>1. to \in ContainerStep \ {"failed"}
    BY <1>3 DEF ContainerStep, ScriptStep, EntryStep
  <2> QED BY <1>1, <1>3, <2>1, NoneFailsMove
<1>6. ServerFirst'
  <2>1. at'["spire-agent"] = at["spire-agent"] /\ at'["spire-server"] = at["spire-server"]
    BY <1>4, TheServices
  <2>2. at["spire-agent"] = "starting" => token' = "fresh"
    BY <1>3 DEF Ordered, ServerFirst
  <2>3. at["spire-agent"] = "down" /\ to \in EntryStep \cup {"done"} => token' = "fresh"
    BY <1>3 DEF Ordered, ServerFirst
  <2>4. at["spire-agent"] # "down" => InNamespace \subseteq entries
    BY DEF Ordered, ServerFirst
  <2> QED BY <1>2, <1>3, <1>4, <2>1, <2>2, <2>3, <2>4 DEF ServerFirst
<1>7. AgentFirst'
  <2>1. \A w \in InNamespace \cup {"keycloak-mtls-proxy", "spire-agent"} : at'[w] = at[w]
    BY <1>4, TheServices DEF OneShot
  <2>2. UNCHANGED <<agentCa, ca, bundle>>
    BY <1>3 DEF workloadVars
  <2> QED BY <2>1, <2>2 DEF Ordered, AgentFirst
<1> QED BY <1>4, <1>5, <1>6, <1>7, SpireAside DEF Ordered

\* The server is up before there is an agent, and the agent before there is a
\* workload.
LEMMA SpireStartsOrdered ==
  ASSUME IInv, Ordered, ServerReady \/ AgentJoins \/ AgentFails, UNCHANGED <<pkiVars, workloadVars>>
  PROVE  Ordered'
<1>1. "up" \in ContainerStep \ {"failed", "done"} /\ {"spire-server", "spire-agent"} \subseteq Service
  BY DEF ContainerStep, Service
<1>2. CASE ServerReady
  <2>1. /\ at["spire-server"] = "starting" /\ Goes("spire-server", "up") /\ wanted' = wanted
        /\ UNCHANGED <<token, entries, agentCa>>
    BY <1>2 DEF ServerReady, Quietly
  <2>2. at'["spire-server"] = "up" /\ \A q \in Service \ {"spire-server"} : at'[q] = at[q]
    BY <1>1, <2>1, OneMoves
  <2>3. NoneFails'
    BY <1>1, <2>1, NoneFailsMove
  <2>4. at'["spire-init"] = at["spire-init"] /\ at'["spire-agent"] = at["spire-agent"]
        /\ at["spire-agent"] = "down"
    BY <2>1, <2>2, TheServices DEF Ordered, ServerFirst
  <2>5. ServerFirst'
    BY <2>1, <2>2, <2>4 DEF Ordered, ServerFirst
  <2>6. AgentFirst'
    <3>1. \A w \in InNamespace : at'[w] = "down"
      BY <2>2, <2>4, TheServices DEF Ordered, AgentFirst, InNamespace
    <3>2. agentCa' = NoBundle
      BY <2>1, <2>4 DEF Ordered, AgentFirst
    <3> QED BY <2>4, <3>1, <3>2 DEF AgentFirst, InNamespace
  <2> QED BY <2>2, <2>3, <2>5, <2>6, SpireAside DEF Ordered
<1>3. CASE AgentJoins
  <2>1. /\ at["spire-agent"] = "starting" /\ Goes("spire-agent", "up") /\ wanted' = wanted
        /\ agentCa' = ca /\ UNCHANGED <<entries, ca>>
    BY <1>3 DEF AgentJoins, Quietly
  <2>2. at'["spire-agent"] = "up" /\ \A q \in Service \ {"spire-agent"} : at'[q] = at[q]
    BY <1>1, <2>1, OneMoves
  <2>3. NoneFails'
    BY <1>1, <2>1, NoneFailsMove
  <2>4. at'["spire-init"] = at["spire-init"] /\ at'["spire-server"] = at["spire-server"]
    BY <2>2, TheServices
  <2>5. ServerFirst'
    BY <2>1, <2>2, <2>4 DEF Ordered, ServerFirst
  <2>6. AgentFirst'
    <3>1. \A w \in InNamespace : at'[w] = "down"
      BY <2>1, <2>2, TheServices DEF Ordered, AgentFirst, InNamespace
    <3> QED BY <2>1, <2>2, <3>1 DEF AgentFirst, InNamespace
  <2> QED BY <2>2, <2>3, <2>5, <2>6, SpireAside DEF Ordered
<1>4. CASE AgentFails
  BY <1>4 DEF AgentFails, TrustsServer, Ordered, ServerFirst, AgentFirst
<1> QED BY <1>2, <1>3, <1>4

\* What does not depend on a process, when nothing but it moves.
LEMMA ProcessAside ==
  ASSUME IInv, Ordered, NEW s \in Service \ (OneShot \cup {"spire-agent", "spire-server"}),
         at[s] = "starting", Started(s, "up")
  PROVE  /\ NoneFails' /\ PkiFirst' /\ ServerFirst' /\ LoginsServed'
         /\ at'[s] = "up" /\ \A q \in Service \ {s} : at'[q] = at[q]
<1>1. "up" \in ContainerStep \ {"failed", "done"}
  BY DEF ContainerStep
<1>2. Goes(s, "up") /\ wanted' = wanted /\ UNCHANGED <<pki, token, entries, login>>
  BY DEF Started, pkiVars, spireVars
<1>3. at'[s] = "up" /\ \A q \in Service \ {s} : at'[q] = at[q]
  BY <1>2, OneMoves
<1>4. NoneFails'
  BY <1>1, <1>2, NoneFailsMove
<1>5. PkiFirst'
  <2>1. at'["cert-init"] = at["cert-init"] /\ (at'["agent-cert"] = "down" <=> at["agent-cert"] = "down")
    BY <1>3, TheServices DEF OneShot
  <2> QED BY <1>2, <2>1 DEF Ordered, PkiFirst, UnreadableKey, Present
<1>6. ServerFirst'
  <2>1. \A q \in {"spire-init", "spire-agent", "spire-server"} : at'[q] = at[q]
    BY <1>3, TheServices DEF OneShot
  <2> QED BY <1>2, <2>1 DEF Ordered, ServerFirst
<1> QED BY <1>2, <1>3, <1>4, <1>5, <1>6 DEF Ordered, LoginsServed

\* A service of the demo starts; Keycloak is up and answers it.
LEMMA WorkloadStartsOrdered ==
  ASSUME IInv, Ordered, NEW s \in InNamespace \cup Signer, at[s] = "starting", Started(s, "up"),
         \/ signer' = signer /\ s \notin Signer
         \/ s \in Signer /\ \E key \in Nat : Signs(s, key),
         \/ bundle' = bundle /\ s # "keycloak-mtls-proxy"
         \/ bundle' = agentCa
  PROVE  Ordered'
<1>1. s \in Service \ (OneShot \cup {"spire-agent", "spire-server", "keycloak"})
  BY TheServices DEF InNamespace, Signer, OneShot
<1>2. /\ NoneFails' /\ PkiFirst' /\ ServerFirst' /\ LoginsServed'
      /\ at'[s] = "up" /\ \A q \in Service \ {s} : at'[q] = at[q]
  BY <1>1, ProcessAside
<1>3. KeycloakFirst'
  <2>1. at'["keycloak"] = at["keycloak"]
    BY <1>1, <1>2, TheServices
  <2>2. \A w \in Signer \cup {"keycloak-mtls-proxy"} : at'[w] # "down" => at[w] # "down"
    BY <1>2, TheServices
  <2>3. ASSUME NEW w \in Signer, at'[w] = "up"
        PROVE  signer'[w].aud
    <3>1. signer \in [Signer -> [kid : Nat, key : Nat, aud : BOOLEAN]]
      BY DEF IInv, WorkOK
    <3>2. CASE w = s
      <4>1. PICK key \in Nat : Signs(s, key)
        BY <2>3, <3>2
      <4>2. Discovered
        BY <2>3, <3>2 DEF Discovered, Ordered, KeycloakFirst
      <4> DEFINE kid == NewKid(s)
                 aud == Discovered
      <4>3. signer' = [signer EXCEPT ![s] = [kid |-> kid, key |-> key, aud |-> aud]]
        BY <4>1 DEF Signs
      <4>4. aud
        BY <4>2
      <4> HIDE DEF kid, aud
      <4> QED BY <3>1, <3>2, <4>3, <4>4, <2>3
    <3>3. CASE w # s
      <4>1. at[w] = "up"
        BY <1>2, <2>3, <3>3, TheServices
      <4>2. signer'[w] = signer[w]
        <5>1. CASE signer' = signer
          BY <5>1
        <5>2. CASE \E key \in Nat : Signs(s, key)
          <6>1. PICK key \in Nat : Signs(s, key)
            BY <5>2
          <6> DEFINE new == [kid |-> NewKid(s), key |-> key, aud |-> Discovered]
          <6>2. signer' = [signer EXCEPT ![s] = new]
            BY <6>1 DEF Signs
          <6> HIDE DEF new
          <6> QED BY <3>1, <3>3, <6>2
        <5> QED BY <5>1, <5>2
      <4> QED BY <4>1, <4>2 DEF Ordered, KeycloakFirst
    <3> QED BY <3>2, <3>3
  <2> QED BY <2>1, <2>2, <2>3 DEF Ordered, KeycloakFirst
<1>4. AgentFirst'
  <2>1. at'["spire-agent"] = at["spire-agent"]
    BY <1>1, <1>2, TheServices
  <2>2. \A w \in InNamespace : at'[w] # "down" => at[w] # "down"
    BY <1>2, TheServices
  <2>3. UNCHANGED <<ca, agentCa>>
    BY DEF Started, spireVars
  <2>4. at'["keycloak-mtls-proxy"] = "up" => bundle' = agentCa
    <3>1. CASE s = "keycloak-mtls-proxy"
      BY <3>1
    <3>2. CASE s # "keycloak-mtls-proxy"
      <4>1. at'["keycloak-mtls-proxy"] = at["keycloak-mtls-proxy"]
        BY <1>2, <3>2, TheServices
      <4> QED BY <4>1 DEF Ordered, AgentFirst
    <3> QED BY <3>1, <3>2
  <2> QED BY <2>1, <2>2, <2>3, <2>4 DEF Ordered, AgentFirst
<1> QED BY <1>2, <1>3, <1>4 DEF Ordered

\* Every process that starts.
LEMMA ProcessStartsOrdered ==
  ASSUME IInv, Ordered, NEW s \in Service, ProcessStarts(s)
  PROVE  Ordered'
<1>1. /\ signer \in [Signer -> [kid : Nat, key : Nat, aud : BOOLEAN]] /\ pki.key \in Nat
      /\ Signer = {"spiffe-service", "agent-spiffe", "agent-cert"}
      /\ InNamespace = {"spiffe-service", "agent-spiffe", "keycloak-mtls-proxy", "agent-spiffe-mtls"}
  BY DEF IInv, WorkOK, KeyMaterial, Pki, Signer, InNamespace
<1>2. CASE s = "keycloak" /\ KeycloakReady
  <2>1. at["keycloak"] = "starting" /\ Started("keycloak", "up") /\ UNCHANGED <<signer, bundle, ca, agentCa>>
    BY <1>2 DEF KeycloakReady, Started, spireVars
  <2>2. /\ NoneFails' /\ PkiFirst' /\ ServerFirst' /\ LoginsServed'
        /\ at'["keycloak"] = "up" /\ \A q \in Service \ {"keycloak"} : at'[q] = at[q]
    BY <2>1, ProcessAside, TheServices DEF OneShot
  <2>3. KeycloakFirst'
    BY <1>1, <2>1, <2>2, TheServices DEF Ordered, KeycloakFirst
  <2>4. AgentFirst'
    BY <1>1, <2>1, <2>2, TheServices DEF Ordered, AgentFirst
  <2> QED BY <2>2, <2>3, <2>4 DEF Ordered
<1>3. CASE s \in {"spire-server", "spire-agent"}
  <2>1. (ServerReady \/ AgentJoins \/ AgentFails) /\ UNCHANGED <<pkiVars, workloadVars>>
    BY <1>3 DEF ProcessStarts, ServerStarts, AgentStarts
  <2> QED BY <2>1, SpireStartsOrdered
<1>4. CASE s = "spiffe-service" /\ SpiffeServiceStarts
  <2>1. signer["spiffe-service"].key + 1 \in Nat
    BY <1>1
  <2> QED BY <1>1, <1>4, <2>1, WorkloadStartsOrdered DEF SpiffeServiceStarts, Started
<1>5. CASE s = "agent-spiffe" /\ AgentSpiffeStarts
  <2>1. signer["agent-spiffe"].key + 1 \in Nat
    BY <1>1
  <2> QED BY <1>1, <1>5, <2>1, WorkloadStartsOrdered DEF AgentSpiffeStarts, Started
<1>6. CASE s = "agent-cert" /\ (AgentCertStarts \/ AgentCertFails)
  <2>1. at["agent-cert"] = "starting"
    BY <1>6 DEF AgentCertStarts, AgentCertFails, Started
  <2>2. Loadable
    BY <2>1 DEF Loadable, Ordered, PkiFirst, Present
  <2> QED BY <1>1, <1>6, <2>1, <2>2, WorkloadStartsOrdered DEF AgentCertStarts, AgentCertFails
<1>7. CASE s = "keycloak-mtls-proxy" /\ (ProxyStarts \/ ProxyFails)
  <2>1. at["keycloak-mtls-proxy"] = "starting"
    BY <1>7 DEF ProxyStarts, ProxyFails, Started
  <2>2. GetsX509("keycloak-mtls-proxy")
    BY <1>1, <2>1 DEF GetsX509, Ordered, AgentFirst, ServerFirst
  <2> QED BY <1>1, <1>7, <2>1, <2>2, WorkloadStartsOrdered DEF ProxyStarts, ProxyFails
<1>8. CASE s = "agent-spiffe-mtls" /\ MtlsAgentStarts
  BY <1>1, <1>8, WorkloadStartsOrdered DEF MtlsAgentStarts, Started
<1> QED BY <1>2, <1>3, <1>4, <1>5, <1>6, <1>7, <1>8 DEF ProcessStarts

-----------------------------------------------------------------------------
\* In an orderly start, attestation and Keycloak's check of an assertion
\* succeed for every workload that is up.
LEMMA LoginSucceeds ==
  ASSUME Ordered, KeysByKid, NEW w \in Service, at[w] = "up"
  PROVE  /\ w \in InNamespace => GetsX509(w) /\ GetsJwt(w)
         /\ w \in Signer => AssertionTaken(w)
<1>1. ASSUME w \in InNamespace
      PROVE  GetsX509(w) /\ GetsJwt(w)
  BY <1>1 DEF Ordered, AgentFirst, ServerFirst, GetsX509, GetsJwt
<1>2. ASSUME w \in Signer
      PROVE  AssertionTaken(w)
  BY <1>2 DEF Ordered, KeycloakFirst, KeysByKid, AssertionTaken, KeyTaken
<1> QED BY <1>1, <1>2

LEMMA TokenRequestOrdered ==
  ASSUME IInv, Ordered, KeysByKid, NEW w \in Workload, TokenRequest(w)
  PROVE  Ordered'
<1>1. /\ w \in Service /\ at[w] = "up" /\ w \in InNamespace \cup {"agent-cert"}
      /\ Signer = {"spiffe-service", "agent-spiffe", "agent-cert"}
      /\ Workload = Signer \cup {"agent-spiffe-mtls"}
  BY TheServices DEF TokenRequest, Demo, AgentSpiffeLogin, AgentCertLogin, MtlsLogin, SendsAssertion,
                     Asks, Workload, Signer, InNamespace
<1>2. /\ w \in InNamespace => GetsX509(w) /\ GetsJwt(w)
      /\ w \in Signer => AssertionTaken(w)
  BY <1>1, LoginSucceeds
<1>3. PICK outcome \in {"refused", "denied", "ok"} :
        Asks(w, outcome) /\ (w \in Signer => outcome # "refused")
  <2>1. CASE w = "spiffe-service" /\ Demo
    BY <1>1, <1>2, <2>1 DEF Demo, SendsAssertion, InNamespace
  <2>2. CASE w = "agent-spiffe" /\ AgentSpiffeLogin
    BY <1>1, <1>2, <2>2 DEF AgentSpiffeLogin, SendsAssertion, InNamespace
  <2>3. CASE w = "agent-cert" /\ AgentCertLogin
    BY <1>1, <1>2, <2>3 DEF AgentCertLogin, SendsAssertion
  <2>4. CASE w = "agent-spiffe-mtls" /\ MtlsLogin
    BY <1>1, <1>2, <2>4 DEF MtlsLogin, InNamespace
  <2> QED BY <2>1, <2>2, <2>3, <2>4 DEF TokenRequest
<1>4. /\ login' = [login EXCEPT ![w] = outcome] /\ login \in [Workload -> Login]
      /\ UNCHANGED <<at, wanted, pki, token, entries, ca, agentCa, signer, bundle>>
  BY <1>3 DEF Asks, composeVars, pkiVars, spireVars, IInv, WorkOK
<1>5. LoginsServed'
  BY <1>1, <1>3, <1>4 DEF Ordered, LoginsServed
<1> QED BY <1>4, <1>5, AtRest

-----------------------------------------------------------------------------
\* Faults are counted.
LEMMA FaultsCounted ==
  ASSUME IInv, [Next]_vars, faults' = 0
  PROVE  faults = 0 /\ (Disturbance => AgentEnds)
<1>1. faults \in Nat
  BY MaxFaultsAssumption DEF IInv, HostOK
<1>2. Fault => FALSE
  BY <1>1 DEF Fault
<1>3. ~Disturbance => faults' = faults
  BY <1>2 DEF Next, vars, composeVars, Operator, Up, ComposeStep, Starts, GivesUp, ScriptRuns, CertInitStep,
              Guard, MakeCaKey, SelfSign, MakeKey, MakeCsr, Sign, Chmod, Step, InitStep, InitWaits,
              InitFails, MakesToken, CreatesEntry, Quietly, ProcessStarts, KeycloakReady, ServerStarts,
              ServerReady, AgentStarts, AgentJoins, AgentFails, SpiffeServiceStarts,
              AgentSpiffeStarts, AgentCertStarts, AgentCertFails, ProxyStarts, ProxyFails,
              MtlsAgentStarts, Started, TokenRequest, Demo, AgentSpiffeLogin, AgentCertLogin,
              MtlsLogin, SendsAssertion, Asks
<1>4. Disturbance => AgentEnds
  BY <1>2 DEF Disturbance, Dies, CertInitDies, ContainersRemoved, RemovesVolume, Down, RotatesCa,
              TokenExpires, StartsAlone
<1>5. AgentEnds => faults' = faults
  BY DEF AgentEnds, Quietly
<1> QED BY <1>3, <1>4, <1>5

\* Without a fault, every step keeps the order.
LEMMA OrderedKept ==
  IInv /\ IInv' /\ KeysByKid /\ (faults = 0 => Ordered) /\ [Next]_vars => (faults' = 0 => Ordered')
<1> SUFFICES ASSUME IInv, IInv', KeysByKid, faults = 0 => Ordered, [Next]_vars, faults' = 0
             PROVE  Ordered'
  OBVIOUS
<1>1. faults = 0 /\ Ordered
  BY FaultsCounted
<1>2. CASE Operator \/ ComposeStep
  BY <1>1, <1>2, UpOrdered, StartsOrdered, RunsOrdered DEF Operator, ComposeStep
<1>3. CASE ScriptRuns
  BY <1>1, <1>3, CertInitOrdered, InitStepOrdered DEF ScriptRuns
<1>4. CASE \E s \in Service : ProcessStarts(s)
  BY <1>1, <1>4, ProcessStartsOrdered
<1>5. CASE \E w \in Workload : TokenRequest(w)
  BY <1>1, <1>5, TokenRequestOrdered
<1>6. CASE Disturbance
  <2>1. AgentEnds
    BY <1>6, FaultsCounted
  <2> QED BY <1>1, <2>1 DEF AgentEnds, TrustsServer, Ordered, AgentFirst
<1>7. CASE UNCHANGED vars
  <2>1. UNCHANGED <<at, wanted, pki, token, entries, ca, agentCa, signer, bundle, login>>
    BY <1>7 DEF vars, composeVars, pkiVars, spireVars, workloadVars
  <2>2. LoginsServed'
    BY <1>1, <2>1 DEF Ordered, LoginsServed
  <2> QED BY <1>1, <2>1, <2>2, AtRest
<1> QED BY <1>2, <1>3, <1>4, <1>5, <1>6, <1>7 DEF Next

(***************************************************************************)
(* As long as nothing fails, and however often `up` is repeated meanwhile,  *)
(* the conditions of docker-compose.yml order the start well enough: no     *)
(* container ends with an error, nobody is stuck, every workload is         *)
(* attested and no assertion is refused, for every set of services that the *)
(* operator may ask for.                                                    *)
(***************************************************************************)
THEOREM StartIsOrderly == Spec => []OrderlyStart
<1> DEFINE OrderInv == KeysByKid /\ (faults = 0 => Ordered)
<1>1. Init => OrderInv
  BY KidsInit, OrderedInit
<1>2. IInv /\ IInv' /\ OrderInv /\ [Next]_vars => OrderInv'
  BY KidsKept, OrderedKept
<1>3. OrderInv => OrderlyStart
  <2>1. faults # 0 => OrderlyStart
    BY DEF OrderlyStart
  <2> QED BY <2>1, OrderedImplies
<1> QED BY <1>1, <1>2, <1>3, Invariance, PTL DEF Spec

=============================================================================
