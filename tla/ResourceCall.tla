----------------------------- MODULE ResourceCall -----------------------------
(***************************************************************************)
(* Calls of the client application to the resource server, against the     *)
(* clocks of three containers.  The client application asks Keycloak for a *)
(* token, works out its own expiry time when the answer arrives            *)
(* (client-app/app.py, token_expired), and later sends the token to the    *)
(* resource server, which finds the signing key in its cache or in         *)
(* Keycloak's key set and checks the token on its own clock with a leeway  *)
(* (resource-server/main.py, _decode_token).  The DPoP demo also sends a   *)
(* proof dated on the client's clock.                                      *)
(*                                                                         *)
(* Time is an integer and "now" is Keycloak's clock.  A timeout of the     *)
(* requests library bounds the connection and the answer separately.       *)
(* Every token here is one Keycloak issued: signatures are not modelled.   *)
(***************************************************************************)
EXTENDS Integers, FiniteSets

CONSTANTS
  Caller,      \* the browser sessions that call at the same time
  Key,         \* Keycloak's signing keys, by their kid
  None,
  Life,        \* expires_in of an access token
  Timeout,     \* timeout=10 of every HTTP request of the client application
  Leeway,      \* leeway=30 of the resource server
  ProofMax,    \* a DPoP proof is refused when it is older than 60 s ...
  ProofEarly,  \* ... or dated more than 10 s ahead
  RsSkew,      \* the resource server's clock minus Keycloak's
  AppSkew,     \* the client application's clock minus Keycloak's
  CacheSize,   \* entries of PyJWKClient's key cache
  Polls,       \* attempts of _wait_for_keycloak
  MaxTime,     \* bound: the last instant
  MaxFaults    \* bound: outages of Keycloak and keys it withdraws

ASSUME DurationAssumption ==
  /\ Life \in Nat \ {0} /\ Timeout \in Nat /\ Leeway \in Nat
  /\ ProofMax \in Nat /\ ProofEarly \in Nat
  /\ CacheSize \in Nat \ {0} /\ Polls \in Nat /\ MaxTime \in Nat /\ MaxFaults \in Nat

\* One token request and one call, each at the limit of its timeouts, and the
\* skew fit in the leeway; the two clocks a proof is compared on are close.
ASSUME ClockAssumption ==
  /\ RsSkew \in Int /\ AppSkew \in Int
  /\ 3 * Timeout + RsSkew <= Leeway /\ -RsSkew <= Leeway
  /\ 2 * Timeout + RsSkew - AppSkew <= ProofMax
  /\ AppSkew - RsSkew <= ProofEarly

VARIABLES
  now,     \* Keycloak's clock
  kc,      \* Keycloak: up, the key set it publishes, the key it signs with
  rs,      \* the resource server: phase, polls made, cached keys
  call,    \* what each caller's request is doing
  faults   \* faults so far, up to MaxFaults

vars == <<now, kc, rs, call, faults>>

-----------------------------------------------------------------------------

RsNow  == now + RsSkew
AppNow == now + AppSkew

\* The routes of ENDPOINT_MAP by what they ask for, the flows that log in, and
\* the DPoP demo's call.
ApiRoute == {"public", "products", "admin"}
Route    == ApiRoute \cup {"login", "dpop"}
NeedsToken(route) == route # "public"

\* The claims that matter; jkt names the key pair of the demo run it is bound to.
Token == [iat : Int, exp : Int, kid : Key, admin : BOOLEAN, jkt : Caller \cup {None}]

ASSUME NoneAssumption == None \notin Caller \cup Key \cup Token

\* A proof names the request it is for, the token it is for, and its key.
Proof == [for : {"token", "api"}, ath : Token \cup {None}, key : Caller, iat : Int]

Answer == {"ok", "forbidden", "noheader", "nokey", "immature", "expired",
           "mismatch", "stale", "unbound", "ath"}

Phase == {"idle", "asked", "issued", "checked", "connect", "lookup", "fetch",
          "refetch", "decode", "answered"}

\* token and expires_at are the session's token_data; sent is the Authorization
\* header of the call; since starts the timeout in force; calm records that
\* Keycloak was up and published the token's key ever since the call was sent.
Call == [at : Phase, route : Route, token : Token \cup {None}, expires_at : Int,
         sent : Token \cup {None}, proof : Proof \cup {None}, since : Int,
         calm : BOOLEAN, answer : Answer \cup {None},
         result : Answer \cup {"none", "login", "unreachable", "timeout"}]

Fault == faults < MaxFaults /\ faults' = faults + 1

\* The caller's request moves on: the fields of upd change.
Becomes(c, rec) == call' = [call EXCEPT ![c] = rec]

\* The request ends and the browser is shown result.
Ends(c, result) ==
  Becomes(c, [call[c] EXCEPT !.at = "idle", !.sent = None, !.proof = None,
                             !.answer = None, !.since = 0, !.result = result])

\* The resource server's thread has its answer for caller c.
Answers(c, answer) ==
  Becomes(c, [call[c] EXCEPT !.at = "answered", !.answer = answer])

InTime(c) == now - call[c].since <= Timeout

-----------------------------------------------------------------------------
(* The client application: obtaining a token                               *)

\* POST to the token endpoint, from a login or from the DPoP demo.  The demo
\* signs a proof for the token endpoint with a key pair made for this run.
MakeProof(c, for, ath) == [for |-> for, ath |-> ath, key |-> c, iat |-> AppNow]

AskToken(c, route) ==
  /\ call[c].at = "idle"
  /\ Becomes(c, [call[c] EXCEPT
       !.at = "asked", !.route = route, !.result = "none",
       !.proof = IF route = "dpop" THEN MakeProof(c, "token", None) ELSE None])
  /\ UNCHANGED <<now, kc, rs, faults>>

\* Keycloak issues the token; the answer is on its way.
IssueToken(c) ==
  /\ call[c].at = "asked" /\ kc.up
  /\ call[c].route = "dpop" => call[c].proof.for = "token"
  /\ \E admin \in BOOLEAN :
       Becomes(c, [call[c] EXCEPT
         !.at = "issued", !.since = now,
         !.sent = [iat |-> now, exp |-> now + Life, kid |-> kc.signing, admin |-> admin,
                   jkt |-> IF call[c].route = "dpop" THEN call[c].proof.key ELSE None]])
  /\ UNCHANGED <<now, kc, rs, faults>>

\* The token request fails: Keycloak is unreachable or the answer is late.
AskFails(c) ==
  /\ \/ call[c].at = "asked" /\ ~kc.up
     \/ call[c].at = "issued" /\ ~InTime(c)
  /\ Ends(c, "unreachable")
  /\ UNCHANGED <<now, kc, rs, faults>>

\* The login's answer is stored with an expiry on the client's own clock.
ExpiresAt == AppNow + Life

StoreToken(c) ==
  /\ call[c].at = "issued" /\ InTime(c) /\ call[c].route = "login"
  /\ Becomes(c, [call[c] EXCEPT !.at = "idle", !.since = 0, !.sent = None,
                                !.token = call[c].sent, !.expires_at = ExpiresAt])
  /\ UNCHANGED <<now, kc, rs, faults>>

\* Mistake: the proof of the token request is sent again.
ReusedProof(c) == call[c].proof

\* The demo goes on with its token in hand and a second proof.
ApiProof(c) == MakeProof(c, "api", call[c].sent)

DpopDemo(c) ==
  /\ call[c].at = "issued" /\ InTime(c) /\ call[c].route = "dpop"
  /\ Becomes(c, [call[c] EXCEPT !.at = "connect", !.since = now, !.proof = ApiProof(c)])
  /\ UNCHANGED <<now, kc, rs, faults>>

-----------------------------------------------------------------------------
(* The client application: calling                                         *)

TokenExpired(c) == AppNow >= call[c].expires_at

\* The route's first look at the session: no token, or one that has expired,
\* sends the user back to log in.
ApiCall(c, route) ==
  /\ call[c].at = "idle"
  /\ IF NeedsToken(route) /\ (call[c].token = None \/ TokenExpired(c))
     THEN Becomes(c, [call[c] EXCEPT !.route = route, !.result = "login"])
     ELSE Becomes(c, [call[c] EXCEPT !.at = "checked", !.route = route, !.result = "none"])
  /\ UNCHANGED <<now, kc, rs, faults>>

\* Its second look: the token is attached if it is still unexpired.
CallResource(c) ==
  /\ call[c].at = "checked"
  /\ Becomes(c, [call[c] EXCEPT
       !.at = "connect", !.since = now,
       !.sent = IF NeedsToken(call[c].route) /\ ~TokenExpired(c) THEN call[c].token ELSE None])
  /\ UNCHANGED <<now, kc, rs, faults>>

\* The connection is accepted, refused while the server starts, or too slow.
Connect(c) ==
  /\ call[c].at = "connect" /\ InTime(c) /\ rs.phase = "serving"
  /\ Becomes(c, [call[c] EXCEPT
       !.at = "lookup", !.since = now,
       !.calm = kc.up /\ (call[c].sent # None => call[c].sent.kid \in kc.keys)])
  /\ UNCHANGED <<now, kc, rs, faults>>

ConnectFails(c) ==
  /\ call[c].at = "connect" /\ (~InTime(c) \/ rs.phase # "serving")
  /\ Ends(c, IF InTime(c) THEN "unreachable" ELSE "timeout")
  /\ UNCHANGED <<now, kc, rs, faults>>

\* The answer reaches the client application, or comes after its timeout.
Deliver(c) ==
  /\ call[c].at = "answered"
  /\ Ends(c, IF InTime(c) THEN call[c].answer ELSE "timeout")
  /\ UNCHANGED <<now, kc, rs, faults>>

-----------------------------------------------------------------------------
(* The resource server                                                     *)

\* Mistake: the attempts are counted from the one after the first.
WaitForKeycloakOnceMore ==
  /\ rs.phase = "waiting"
  /\ rs' = IF kc.up \/ rs.polls > Polls
           THEN [rs EXCEPT !.phase = "serving"]
           ELSE [rs EXCEPT !.polls = @ + 1]
  /\ UNCHANGED <<now, kc, call, faults>>

\* Startup polls the key set and gives up waiting after Polls attempts; no
\* request is served before.  The prefetch fills no cache entry.
WaitForKeycloak ==
  /\ rs.phase = "waiting"
  /\ rs' = IF kc.up \/ rs.polls = Polls
           THEN [rs EXCEPT !.phase = "serving"]
           ELSE [rs EXCEPT !.polls = @ + 1]
  /\ UNCHANGED <<now, kc, call, faults>>

\* The key cache with k in it; the entry evicted when it is full is any other.
Remember(cache, k) ==
  IF k \in cache \/ Cardinality(cache) < CacheSize
  THEN {cache \cup {k}}
  ELSE {(cache \ {old}) \cup {k} : old \in cache}

\* Mistake: a key that is not in the cache is not looked for.
LookupCachedOnly(c) ==
  /\ call[c].at = "lookup"
  /\ IF call[c].sent # None /\ call[c].sent.kid \in rs.cache
     THEN Becomes(c, [call[c] EXCEPT !.at = "decode"])
     ELSE Answers(c, "nokey")
  /\ UNCHANGED <<now, kc, rs, faults>>

\* get_signing_key_from_jwt: the cache by kid, or else Keycloak.
Lookup(c) ==
  /\ call[c].at = "lookup"
  /\ \/ call[c].route = "public" /\ Answers(c, "ok")
     \/ call[c].route # "public" /\ call[c].sent = None /\ Answers(c, "noheader")
     \/ /\ call[c].sent # None
        /\ Becomes(c, [call[c] EXCEPT
             !.at = IF call[c].sent.kid \in rs.cache THEN "decode" ELSE "fetch"])
  /\ UNCHANGED <<now, kc, rs, faults>>

\* The key set is fetched, and once more when the key is not in it.  A failure
\* is an answer of 401 and leaves nothing in the cache.
FetchJwks(c) ==
  /\ call[c].at \in {"fetch", "refetch"}
  /\ \/ /\ kc.up /\ call[c].sent.kid \in kc.keys
        /\ \E cache \in Remember(rs.cache, call[c].sent.kid) : rs' = [rs EXCEPT !.cache = cache]
        /\ Becomes(c, [call[c] EXCEPT !.at = "decode"])
     \/ /\ kc.up /\ call[c].sent.kid \notin kc.keys /\ call[c].at = "fetch"
        /\ Becomes(c, [call[c] EXCEPT !.at = "refetch"])
        /\ UNCHANGED rs
     \/ /\ ~kc.up \/ (call[c].at = "refetch" /\ call[c].sent.kid \notin kc.keys)
        /\ Answers(c, "nokey")
        /\ UNCHANGED rs
  /\ UNCHANGED <<now, kc, faults>>

\* Mistake: no leeway.
TokenFaultStrict(t) ==
  IF t.iat > RsNow THEN "immature" ELSE IF t.exp <= RsNow THEN "expired" ELSE "ok"

\* jwt.decode: iat and exp on the server's clock, with the leeway.
TokenFault(t) ==
  IF t.iat > RsNow + Leeway THEN "immature"
  ELSE IF t.exp <= RsNow - Leeway THEN "expired"
  ELSE "ok"

\* _validate_dpop_proof: htm and htu, freshness, the binding, ath.
ProofStale(p) == RsNow - p.iat > ProofMax \/ RsNow - p.iat < -ProofEarly

ProofFault(p, t) ==
  IF p.for # "api" THEN "mismatch"
  ELSE IF ProofStale(p) THEN "stale"
  ELSE IF t.jkt # p.key THEN "unbound"
  ELSE IF p.ath # t THEN "ath"
  ELSE "ok"

\* The route's own check, for a token that is valid.
RouteCheck(c) ==
  IF call[c].route = "dpop" THEN ProofFault(call[c].proof, call[c].sent)
  ELSE IF call[c].route = "admin" /\ ~call[c].sent.admin THEN "forbidden"
  ELSE "ok"

DecodeToken(c) ==
  /\ call[c].at = "decode"
  /\ Answers(c, IF TokenFault(call[c].sent) # "ok" THEN TokenFault(call[c].sent)
                ELSE RouteCheck(c))
  /\ UNCHANGED <<now, kc, rs, faults>>

-----------------------------------------------------------------------------
(* Keycloak and time                                                       *)

\* Calls whose token's key is not one of keys, or all of them, lose their calm.
Disturb(keys, up) ==
  call' = [c \in Caller |->
    [call[c] EXCEPT !.calm = @ /\ up /\ (call[c].sent # None => call[c].sent.kid \in keys)]]

KeycloakStops ==
  /\ kc.up /\ Fault
  /\ kc' = [kc EXCEPT !.up = FALSE]
  /\ Disturb(kc.keys, FALSE)
  /\ UNCHANGED <<now, rs>>

KeycloakStarts ==
  /\ ~kc.up
  /\ kc' = [kc EXCEPT !.up = TRUE]
  /\ UNCHANGED <<now, rs, call, faults>>

\* A new key is published and signs from now on; the old ones stay published.
RotateKey ==
  /\ kc.up
  /\ \E k \in Key \ (kc.keys \cup kc.gone) :
       kc' = [kc EXCEPT !.keys = @ \cup {k}, !.signing = k]
  /\ UNCHANGED <<now, rs, call, faults>>

WithdrawKey ==
  /\ kc.up /\ Fault
  /\ \E k \in kc.keys \ {kc.signing} :
       /\ kc' = [kc EXCEPT !.keys = @ \ {k}, !.gone = @ \cup {k}]
       /\ Disturb(kc.keys \ {k}, TRUE)
  /\ UNCHANGED <<now, rs>>

Tick ==
  /\ now < MaxTime
  /\ now' = now + 1
  /\ UNCHANGED <<kc, rs, call, faults>>

-----------------------------------------------------------------------------

NoCall ==
  [at |-> "idle", route |-> "public", token |-> None, expires_at |-> 0, sent |-> None,
   proof |-> None, since |-> 0, calm |-> FALSE, answer |-> None, result |-> "none"]

Init ==
  /\ now = 0
  /\ \E k \in Key, up \in BOOLEAN :
       kc = [up |-> up, keys |-> {k}, signing |-> k, gone |-> {}]
  /\ rs = [phase |-> "waiting", polls |-> 0, cache |-> {}]
  /\ call = [c \in Caller |-> NoCall]
  /\ faults = 0

AppNext(c) ==
  \/ \E route \in {"login", "dpop"} : AskToken(c, route)
  \/ AskFails(c) \/ StoreToken(c) \/ DpopDemo(c)
  \/ \E route \in ApiRoute : ApiCall(c, route)
  \/ CallResource(c) \/ Connect(c) \/ ConnectFails(c) \/ Deliver(c)

RsNext(c) == Lookup(c) \/ FetchJwks(c) \/ DecodeToken(c)

KeycloakNext == KeycloakStops \/ KeycloakStarts \/ RotateKey \/ WithdrawKey

Next ==
  \/ \E c \in Caller : AppNext(c) \/ RsNext(c) \/ IssueToken(c)
  \/ WaitForKeycloak \/ KeycloakNext \/ Tick

Spec == Init /\ [][Next]_vars

-----------------------------------------------------------------------------
(* Properties                                                              *)

\* Every field holds a value of its set, the key cache never outgrows its size,
\* and Keycloak signs with a key it publishes.
TypeOK ==
  /\ now \in Nat /\ faults \in 0..MaxFaults
  /\ kc.up \in BOOLEAN /\ kc.keys \subseteq Key /\ kc.signing \in kc.keys /\ kc.gone \subseteq Key
  /\ rs.phase \in {"waiting", "serving"} /\ rs.polls \in 0..Polls
  /\ rs.cache \subseteq Key /\ Cardinality(rs.cache) <= CacheSize
  /\ call \in [Caller -> Call]

\* A token the client application took for unexpired is never reported expired
\* or not yet valid by the resource server: the leeway covers the late expires_at
\* (counted from the arrival of the token), the timeouts of the call and the skew.
CheckedIsNotExpired ==
  \A c \in Caller : call[c].result \notin {"expired", "immature"}

\* An answer that the signing key cannot be obtained always has a cause during
\* that very call: Keycloak was down, or had withdrawn the key.  No earlier bad
\* fetch, start before Keycloak, rotation or eviction can poison the key cache.
KeyFoundWhenPublished ==
  \A c \in Caller : call[c].result = "nokey" => ~call[c].calm

\* The DPoP demo's call, if it gets an answer, succeeds unless the key could not be
\* obtained: its second proof is always fresh, bound and made for that token.
DpopDemoSucceeds ==
  \A c \in Caller :
    call[c].at = "idle" /\ call[c].route = "dpop" =>
      call[c].result \in {"ok", "nokey", "unreachable", "timeout"}

\* A call the route let through because it needs a token and has a valid one
\* carries that token (the map of endpoints names the calls that require one).
CarriesToken ==
  \A c \in Caller :
    call[c].at = "connect" /\ NeedsToken(call[c].route) => call[c].sent # None

=============================================================================
