------------------------- MODULE ServerSideSession -------------------------
(***************************************************************************)
(* What client-app promises of its session: the session of the docs        *)
(* ("server-side Flask session", docs/architecture.md:98), which each      *)
(* handler reads and writes in one step.  It holds at most one login and   *)
(* at most one authorization request that waits for its callback.          *)
(***************************************************************************)
CONSTANTS Login, None

VARIABLES
  login,    \* the login whose tokens the session holds, or None
  pending,  \* the authorization request whose state it holds, or None
  begun,    \* authorization requests the browser was sent off with
  held      \* logins the session has held

vars == <<login, pending, begun, held>>

Init == login = None /\ pending = None /\ begun = {} /\ held = {}

\* A start route: a new state, which replaces one that is still pending.
Begin(i) ==
  /\ i \notin begun
  /\ begun' = begun \cup {i}
  /\ pending' = i
  /\ UNCHANGED <<login, held>>

\* The callback of the pending request logs in, and uses up the state.
Complete(i) ==
  /\ pending = i
  /\ i \notin held
  /\ pending' = None
  /\ login' = i
  /\ held' = held \cup {i}
  /\ UNCHANGED begun

\* A callback that fails uses up the state and leaves the login alone.
Abort ==
  /\ pending' = None
  /\ UNCHANGED <<login, begun, held>>

\* Password and client credentials: tokens without a round trip.
DirectLogin(i) ==
  /\ i \notin held \cup begun
  /\ login' = i
  /\ held' = held \cup {i}
  /\ UNCHANGED <<pending, begun>>

\* Logout, and a refresh that Keycloak refuses.
Drop ==
  /\ login' = None
  /\ UNCHANGED <<pending, begun, held>>

Next == (\E i \in Login : Begin(i) \/ Complete(i) \/ DirectLogin(i)) \/ Abort \/ Drop

Spec == Init /\ [][Next]_vars

=============================================================================
