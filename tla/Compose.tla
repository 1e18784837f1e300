------------------------------- MODULE Compose -------------------------------
(***************************************************************************)
(* How docker compose brings up the services that have an identity of their *)
(* own (docker-compose.yml): it starts a service when its dependencies meet *)
(* their conditions and gives up when one of them no longer can.  Nothing   *)
(* is restarted by itself; the operator runs `up` again.  The containers    *)
(* share no state but the volumes and what they ask of each other.          *)
(***************************************************************************)
EXTENDS Naturals

CONSTANTS
  Targets,   \* the sets of services an operator may ask for
  MaxFaults  \* bound: crashes, failures, CA rotations, `down`s, manual starts

VARIABLES
  target,  \* the services the operator wants
  wanted,  \* what the `up` in progress has still to look at
  at,      \* the step each container is at
  faults   \* faults so far, up to MaxFaults

composeVars == <<target, wanted, at, faults>>

-----------------------------------------------------------------------------

OneShot == {"cert-init", "spire-init"}

\* The containers that live in the process namespace of the SPIRE agent.
InNamespace == {"spiffe-service", "agent-spiffe", "keycloak-mtls-proxy", "agent-spiffe-mtls"}

Service == OneShot \cup InNamespace \cup {"keycloak", "spire-server", "spire-agent", "agent-cert"}

ASSUME TargetsAssumption == Targets \subseteq SUBSET Service /\ Targets # {}
ASSUME MaxFaultsAssumption == MaxFaults \in Nat

\* Mistake: services that talk to Keycloak do not wait until it is healthy.
DependsOnStarted(s) ==
  CASE s = "spire-init" -> {<<"spire-server", "healthy">>}
    [] s = "spire-agent" -> {<<"spire-init", "completed">>}
    [] s \in {"spiffe-service", "agent-spiffe", "keycloak-mtls-proxy"} ->
         {<<"spire-agent", "healthy">>, <<"keycloak", "started">>}
    [] s = "agent-spiffe-mtls" -> {<<"spire-agent", "healthy">>, <<"keycloak-mtls-proxy", "started">>}
    [] s = "agent-cert" -> {<<"cert-init", "completed">>, <<"keycloak", "started">>}
    [] OTHER -> {}

DependsOn(s) ==
  CASE s = "spire-init" -> {<<"spire-server", "healthy">>}
    [] s = "spire-agent" -> {<<"spire-init", "completed">>}
    [] s \in {"spiffe-service", "agent-spiffe", "keycloak-mtls-proxy"} ->
         {<<"spire-agent", "healthy">>, <<"keycloak", "healthy">>}
    [] s = "agent-spiffe-mtls" -> {<<"spire-agent", "healthy">>, <<"keycloak-mtls-proxy", "started">>}
    [] s = "agent-cert" -> {<<"cert-init", "completed">>, <<"keycloak", "healthy">>}
    [] OTHER -> {}

WithDependencies(S) == S \cup {d[1] : d \in UNION {DependsOn(s) : s \in S}}

\* The services asked for and all they depend on.
Needed == WithDependencies(WithDependencies(WithDependencies(WithDependencies(target))))

Running(s) == at[s] \notin {"down", "done", "failed"}

\* `up` goes in the order of the dependencies.
Meets(d) ==
  /\ d[1] \notin wanted
  /\ d[2] = "healthy"   => at[d[1]] = "up"
  /\ d[2] = "completed" => at[d[1]] = "done"

FirstStep(s) ==
  CASE s = "cert-init"  -> "guard"
    [] s = "spire-init" -> "wait"
    [] OTHER            -> "starting"

Goes(s, step) == at' = [at EXCEPT ![s] = step]

Fault == faults < MaxFaults /\ faults' = faults + 1

-----------------------------------------------------------------------------

\* `docker compose up -d`: what has ended is made ready to be started again.
Up ==
  /\ wanted = {}
  /\ wanted' = Needed
  /\ at' = [s \in Service |-> IF s \in Needed /\ ~Running(s) THEN "down" ELSE at[s]]
  /\ UNCHANGED <<target, faults>>

\* The dependencies of a service are waited for even if it runs already.
Starts(s) ==
  /\ s \in wanted
  /\ \A d \in DependsOn(s) : Meets(d)
  /\ wanted' = wanted \ {s}
  /\ IF Running(s) THEN UNCHANGED at ELSE Goes(s, FirstStep(s))
  /\ UNCHANGED <<target, faults>>

\* A dependency has ended, or died, without meeting its condition.
GivesUp(s) ==
  /\ s \in wanted
  /\ \E d \in DependsOn(s) : d[1] \notin wanted /\ ~Running(d[1]) /\ ~Meets(d)
  /\ wanted' = {}
  /\ UNCHANGED <<target, at, faults>>

\* `docker start` of a container that has exited, which looks at no condition but the namespace.
StartsAlone(s) ==
  /\ wanted = {} /\ Fault
  /\ s \in Needed \ OneShot /\ at[s] = "failed"
  /\ s \in InNamespace => Running("spire-agent")
  /\ Goes(s, "starting")
  /\ UNCHANGED <<target, wanted>>

\* With the SPIRE agent all processes in its namespace die.
DiesWith(s, c) == c = s \/ (s = "spire-agent" /\ c \in InNamespace /\ Running(c))

Dies(s) ==
  /\ Running(s) /\ Fault
  /\ at' = [c \in Service |-> IF DiesWith(s, c) THEN "failed" ELSE at[c]]
  /\ UNCHANGED <<target, wanted>>

\* `docker compose down`: the containers are removed with all they wrote but the
\* volumes.
Down ==
  /\ wanted = {} /\ Fault
  /\ at' = [s \in Service |-> "down"]
  /\ UNCHANGED <<target, wanted>>

=============================================================================
