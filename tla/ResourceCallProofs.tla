-------------------------- MODULE ResourceCallProofs --------------------------
(***************************************************************************)
(* Proofs about ResourceCall, for any number of callers, keys and cache    *)
(* entries and any durations and skews that ClockAssumption admits: type   *)
(* correctness, that a token checked by the client is not reported         *)
(* expired, that a published key is found, and that the DPoP demo succeeds.*)
(***************************************************************************)
EXTENDS ResourceCall, FiniteSetTheorems, TLAPS

(***************************************************************************)
(* The inductive invariant speaks of each call r of a caller c, at time n  *)
(* and with Keycloak in state k.  The stored expiry is late by at most one *)
(* timeout; each leg of a call adds at most one more; an answer that says  *)
(* "expired", "immature" or "stale" is itself too late to be delivered.    *)
(***************************************************************************)
InCall == {"lookup", "fetch", "refetch", "decode", "answered"}

Stored(r, n) ==
  r.token # None => /\ r.token.iat <= n
                    /\ r.expires_at <= r.token.exp + AppSkew + Timeout

Timed(r, n) ==
  /\ r.at \in {"issued", "connect"} \cup InCall => r.since <= n
  /\ r.at = "issued" => /\ r.sent \in Token /\ r.sent.iat = r.since
                        /\ r.sent.exp = r.since + Life
  /\ r.at = "connect" /\ r.sent # None => /\ r.sent.iat <= n
                                          /\ r.since < r.sent.exp + Timeout
  /\ r.at \in InCall /\ r.sent # None => /\ r.sent.iat <= n
                                         /\ r.since < r.sent.exp + 2 * Timeout
  /\ r.at \in {"fetch", "refetch", "decode"} => r.sent # None

\* A proof made within one timeout of since, for the token that is sent.
ProofMade(c, r) ==
  /\ r.sent \in Token /\ r.sent.jkt = c
  /\ r.proof \in Proof /\ r.proof.for = "api" /\ r.proof.key = c /\ r.proof.ath = r.sent
  /\ r.since - Timeout <= r.proof.iat - AppSkew

Proved(c, r, n) ==
  r.route = "dpop" =>
    /\ r.at \notin {"checked"}
    /\ r.at = "asked" => r.proof \in Proof /\ r.proof.key = c
    /\ r.at = "issued" => r.sent.jkt = c
    /\ r.at \in {"connect"} \cup InCall => ProofMade(c, r) /\ r.proof.iat - AppSkew <= n
    /\ r.at = "connect" => r.since <= r.proof.iat - AppSkew
    /\ r.at = "idle" => r.result \in {"ok", "nokey", "unreachable", "timeout"}
    /\ r.at = "answered" => r.answer \in {"ok", "nokey", "expired", "immature", "stale"}

Answered(r, n) ==
  /\ r.at = "answered" => r.answer \in Answer
  /\ r.at = "answered" /\ r.answer \in {"expired", "immature"} => n - r.since > Timeout
  /\ r.at = "answered" /\ r.answer = "stale" /\ r.route = "dpop" => n - r.since > Timeout
  /\ r.result \notin {"expired", "immature"}
  /\ r.at # "idle" => r.result = "none"

Calm(r, k) ==
  /\ r.at \in InCall /\ r.calm => k.up /\ (r.sent # None => r.sent.kid \in k.keys)
  /\ r.at = "answered" /\ r.answer = "nokey" => ~r.calm
  /\ r.result = "nokey" => ~r.calm

CallOK(c, r, n, k) ==
  r \in Call /\ Stored(r, n) /\ Timed(r, n) /\ Proved(c, r, n) /\ Answered(r, n) /\ Calm(r, k)

KcType == [up : BOOLEAN, keys : SUBSET Key, signing : Key, gone : SUBSET Key]
RsType == [phase : {"waiting", "serving"}, polls : 0..Polls, cache : SUBSET Key]

StateOK ==
  /\ now \in Nat /\ faults \in 0..MaxFaults
  /\ kc \in KcType /\ kc.signing \in kc.keys
  /\ rs \in RsType /\ IsFiniteSet(rs.cache) /\ Cardinality(rs.cache) <= CacheSize

IInv ==
  /\ StateOK
  /\ DOMAIN call = Caller /\ call = [c \in Caller |-> call[c]]
  /\ \A c \in Caller : CallOK(c, call[c], now, kc)

-----------------------------------------------------------------------------
\* The invariant gives the four properties.
LEMMA InvImplies ==
  ASSUME IInv
  PROVE  /\ TypeOK /\ CheckedIsNotExpired /\ KeyFoundWhenPublished /\ DpopDemoSucceeds
<1>1. TypeOK
  <2>1. \A c \in Caller : call[c] \in Call
    BY DEF IInv, CallOK
  <2>2. call \in [Caller -> Call]
    BY <2>1 DEF IInv
  <2> QED BY <2>2 DEF IInv, StateOK, KcType, RsType, TypeOK
<1>2. CheckedIsNotExpired /\ KeyFoundWhenPublished /\ DpopDemoSucceeds
  BY DEF IInv, CallOK, Answered, Calm, Proved,
         CheckedIsNotExpired, KeyFoundWhenPublished, DpopDemoSucceeds
<1> QED BY <1>1, <1>2

\* The initial states satisfy the invariant.
LEMMA InitOK == Init => IInv
<1> SUFFICES ASSUME Init PROVE IInv
  OBVIOUS
<1> USE DEF Init
<1>1. StateOK
  BY FS_EmptySet, DurationAssumption DEF StateOK, KcType, RsType
<1>2. NoCall \in Call
  BY DEF NoCall, Call, Phase, Route, ApiRoute
<1>3. \A c \in Caller : CallOK(c, NoCall, now, kc)
  BY <1>2 DEF NoCall, CallOK, Stored, Timed, Proved, Answered, Calm, InCall
<1> QED BY <1>1, <1>3 DEF IInv

\* A step that changes one call, and neither time nor Keycloak, has only that
\* call to answer for.
LEMMA OneCall ==
  ASSUME IInv, NEW c \in Caller, NEW s, Becomes(c, s), CallOK(c, s, now, kc),
         UNCHANGED <<now, kc, faults>>, StateOK'
  PROVE  IInv'
<1>1. call' = [call EXCEPT ![c] = s]
  BY DEF Becomes
<1>2. DOMAIN call' = Caller /\ call' = [d \in Caller |-> call'[d]]
  BY <1>1 DEF IInv
<1>3. ASSUME NEW d \in Caller PROVE CallOK(d, call'[d], now, kc)
  <2>1. CASE d = c  BY <2>1, <1>1 DEF IInv
  <2>2. CASE d # c  BY <2>2, <1>1 DEF IInv
  <2> QED BY <2>1, <2>2
<1> QED BY <1>2, <1>3 DEF IInv

\* A step of one call that leaves the rest of the state alone.
LEMMA OneCallOnly ==
  ASSUME IInv, NEW c \in Caller, NEW s, Becomes(c, s), s \in Call,
         Stored(s, now), Timed(s, now), Proved(c, s, now), Answered(s, now), Calm(s, kc),
         UNCHANGED <<now, kc, rs, faults>>
  PROVE  IInv'
<1>1. StateOK'
  BY DEF IInv, StateOK
<1>2. CallOK(c, s, now, kc)
  BY DEF CallOK
<1> QED BY <1>1, <1>2, OneCall

\* The end of a request: the result may be any that its cause allows.
LEMMA EndOK ==
  ASSUME IInv, NEW c \in Caller, NEW result, Ends(c, result),
         result \in Answer \cup {"none", "login", "unreachable", "timeout"},
         result \notin {"expired", "immature"},
         result = "nokey" => ~call[c].calm,
         call[c].route = "dpop" => result \in {"ok", "nokey", "unreachable", "timeout"},
         UNCHANGED <<now, kc, rs, faults>>
  PROVE  IInv'
<1> DEFINE r == call[c]
           zero == 0
           s == [r EXCEPT !.at = "idle", !.sent = None, !.proof = None,
                          !.answer = None, !.since = zero, !.result = result]
<1>1. CallOK(c, r, now, kc) /\ Becomes(c, s)
  BY DEF IInv, Ends
<1>z. zero \in Int
  OBVIOUS
<1> HIDE DEF zero
<1>2. s \in Call
  BY <1>1, <1>z DEF CallOK, Call, Phase
<1>3. Stored(s, now) /\ Timed(s, now) /\ Answered(s, now) /\ Calm(s, kc) /\ Proved(c, s, now)
  BY <1>1 DEF CallOK, Call, Stored, Timed, Answered, Calm, Proved, InCall
<1> HIDE DEF s
<1> QED BY <1>1, <1>2, <1>3, OneCallOnly

\* AskToken: the demo's first proof is made with the run's own key.
LEMMA AskTokenOK ==
  ASSUME IInv, NEW c \in Caller, NEW route \in {"login", "dpop"}, AskToken(c, route)
  PROVE  IInv'
<1> DEFINE r == call[c]
           p == IF route = "dpop" THEN MakeProof(c, "token", None) ELSE None
           s == [r EXCEPT !.at = "asked", !.route = route, !.result = "none", !.proof = p]
<1>1. CallOK(c, r, now, kc) /\ Becomes(c, s) /\ r.at = "idle"
  BY DEF IInv, AskToken
<1>2. p \in Proof \cup {None} /\ (route = "dpop" => p \in Proof /\ p.key = c)
  BY ClockAssumption DEF IInv, StateOK, MakeProof, Proof, AppNow
<1> HIDE DEF p
<1>3. s \in Call
  BY <1>1, <1>2 DEF CallOK, Call, Phase, Route
<1>4. Stored(s, now) /\ Timed(s, now) /\ Answered(s, now) /\ Calm(s, kc) /\ Proved(c, s, now)
  BY <1>1, <1>2 DEF CallOK, Call, Stored, Timed, Answered, Calm, Proved, InCall
<1>5. UNCHANGED <<now, kc, rs, faults>>
  BY DEF AskToken
<1> HIDE DEF s
<1> QED BY <1>1, <1>3, <1>4, <1>5, OneCallOnly

\* IssueToken: the token is dated now, and bound to the run's key.
LEMMA IssueTokenOK ==
  ASSUME IInv, NEW c \in Caller, IssueToken(c)
  PROVE  IInv'
<1> DEFINE r == call[c]
<1>1. PICK admin \in BOOLEAN :
        Becomes(c, [r EXCEPT
          !.at = "issued", !.since = now,
          !.sent = [iat |-> now, exp |-> now + Life, kid |-> kc.signing, admin |-> admin,
                    jkt |-> IF r.route = "dpop" THEN r.proof.key ELSE None]])
  BY DEF IssueToken
<1> DEFINE j == IF r.route = "dpop" THEN r.proof.key ELSE None
           t == [iat |-> now, exp |-> now + Life, kid |-> kc.signing, admin |-> admin, jkt |-> j]
           s == [r EXCEPT !.at = "issued", !.since = now, !.sent = t]
<1>2. CallOK(c, r, now, kc) /\ Becomes(c, s) /\ r.at = "asked"
  BY <1>1 DEF IInv, IssueToken
<1>3. j \in Caller \cup {None} /\ (r.route = "dpop" => j = c)
  BY <1>2 DEF CallOK, Proved
<1> HIDE DEF j
<1>4. t \in Token /\ t.iat = now /\ t.exp = now + Life /\ (r.route = "dpop" => t.jkt = c)
  BY <1>3, DurationAssumption DEF IInv, StateOK, KcType, Token
<1> HIDE DEF t
<1>5. now \in Int
  BY DEF IInv, StateOK
<1>6. s \in Call
  BY <1>2, <1>4, <1>5 DEF CallOK, Call, Phase
<1>7. Stored(s, now) /\ Timed(s, now) /\ Answered(s, now) /\ Calm(s, kc) /\ Proved(c, s, now)
  BY <1>2, <1>4, <1>5 DEF CallOK, Call, Stored, Timed, Answered, Calm, Proved, InCall
<1>8. UNCHANGED <<now, kc, rs, faults>>
  BY DEF IssueToken
<1> HIDE DEF s
<1> QED BY <1>2, <1>6, <1>7, <1>8, OneCallOnly

\* StoreToken: the answer came within one timeout of the issue, so the stored
\* expiry is late by no more than that.
LEMMA StoreTokenOK ==
  ASSUME IInv, NEW c \in Caller, StoreToken(c)
  PROVE  IInv'
<1> DEFINE r == call[c]
           zero == 0
           s == [r EXCEPT !.at = "idle", !.since = zero, !.sent = None,
                          !.token = r.sent, !.expires_at = ExpiresAt]
<1>1. CallOK(c, r, now, kc) /\ Becomes(c, s) /\ r.at = "issued" /\ r.route # "dpop"
      /\ now - r.since <= Timeout
  BY DEF IInv, StoreToken, InTime
<1>2. now \in Nat /\ ExpiresAt = now + AppSkew + Life /\ ExpiresAt \in Int
  BY ClockAssumption, DurationAssumption DEF IInv, StateOK, ExpiresAt, AppNow
<1>3. r.sent \in Token /\ r.sent.iat = r.since /\ r.sent.exp = r.since + Life /\ r.since <= now
      /\ r.since \in Int
  BY <1>1 DEF CallOK, Timed, Call
<1>z. zero \in Int /\ r \in Call /\ ExpiresAt \in Int
  BY <1>1, <1>2 DEF CallOK
<1> HIDE DEF zero
<1>4. s \in Call
  BY <1>z, <1>3 DEF Call, Phase
<1>5. Stored(s, now)
  <2>1. s.token = r.sent /\ s.expires_at = ExpiresAt
    BY <1>1 DEF CallOK, Call
  <2> QED BY <2>1, <1>1, <1>2, <1>3, ClockAssumption, DurationAssumption DEF Stored
<1>6. Timed(s, now) /\ Answered(s, now) /\ Calm(s, kc) /\ Proved(c, s, now)
  BY <1>1 DEF CallOK, Call, Timed, Answered, Calm, Proved, InCall
<1>7. UNCHANGED <<now, kc, rs, faults>>
  BY DEF StoreToken
<1> HIDE DEF s
<1> QED BY <1>1, <1>4, <1>5, <1>6, <1>7, OneCallOnly

\* DpopDemo: the second proof is dated now and made for the token in hand.
LEMMA DpopDemoOK ==
  ASSUME IInv, NEW c \in Caller, DpopDemo(c)
  PROVE  IInv'
<1> DEFINE r == call[c]
           p == ApiProof(c)
           s == [r EXCEPT !.at = "connect", !.since = now, !.proof = p]
<1>1. CallOK(c, r, now, kc) /\ Becomes(c, s) /\ r.at = "issued" /\ r.route = "dpop"
      /\ now - r.since <= Timeout
  BY DEF IInv, DpopDemo, InTime
<1>2. now \in Nat /\ Life \in Nat \ {0} /\ Timeout \in Nat /\ AppSkew \in Int
  BY ClockAssumption, DurationAssumption DEF IInv, StateOK
<1>3. r.sent \in Token /\ r.sent.iat = r.since /\ r.sent.exp = r.since + Life /\ r.since <= now
      /\ r.since \in Int /\ r.sent.jkt = c
  BY <1>1 DEF CallOK, Timed, Call, Proved
<1>4. p \in Proof /\ p.for = "api" /\ p.key = c /\ p.ath = r.sent /\ p.iat = now + AppSkew
  BY <1>2, <1>3 DEF ApiProof, MakeProof, Proof, AppNow
<1> HIDE DEF p
<1>z. r \in Call /\ p \in Proof /\ now \in Int
  BY <1>1, <1>2, <1>4 DEF CallOK
<1>5. s \in Call
  BY <1>z DEF Call, Phase
<1>6. s.at = "connect" /\ s.sent = r.sent /\ s.proof = p /\ s.since = now /\ s.route = r.route
      /\ s.token = r.token /\ s.expires_at = r.expires_at /\ s.result = r.result
      /\ s.calm = r.calm
  BY <1>z DEF Call
<1>7. Stored(s, now) /\ Answered(s, now) /\ Calm(s, kc)
  BY <1>1, <1>6 DEF CallOK, Stored, Answered, Calm, InCall
<1>8. Timed(s, now)
  <2> HIDE DEF s
  <2>1. r.sent.exp \in Int /\ r.sent.iat \in Int
    BY <1>3 DEF Token
  <2>2. now < r.sent.exp + Timeout /\ r.sent.iat <= now /\ now <= now
    BY <2>1, <1>1, <1>2, <1>3
  <2> QED BY <2>2, <1>6 DEF Timed, InCall
<1>9. Proved(c, s, now)
  BY <1>2, <1>3, <1>4, <1>6 DEF Proved, ProofMade, InCall
<1>10. UNCHANGED <<now, kc, rs, faults>>
  BY DEF DpopDemo
<1> HIDE DEF s
<1> QED BY <1>1, <1>5, <1>7, <1>8, <1>9, <1>10, OneCallOnly

-----------------------------------------------------------------------------
\* AskFails: no answer, or a late one.
LEMMA AskFailsOK ==
  ASSUME IInv, NEW c \in Caller, AskFails(c)
  PROVE  IInv'
<1>1. Ends(c, "unreachable") /\ UNCHANGED <<now, kc, rs, faults>>
  BY DEF AskFails
<1> QED BY <1>1, EndOK

\* ConnectFails: the server is starting, or the connection took too long.
LEMMA ConnectFailsOK ==
  ASSUME IInv, NEW c \in Caller, ConnectFails(c)
  PROVE  IInv'
<1>1. \/ Ends(c, "unreachable")
      \/ Ends(c, "timeout")
  BY DEF ConnectFails
<1>2. UNCHANGED <<now, kc, rs, faults>>
  BY DEF ConnectFails
<1> QED BY <1>1, <1>2, EndOK

\* Deliver: an answer that blames the clocks is past its timeout.
LEMMA DeliverOK ==
  ASSUME IInv, NEW c \in Caller, Deliver(c)
  PROVE  IInv'
<1> DEFINE r == call[c]
<1>1. CallOK(c, r, now, kc) /\ r.at = "answered" /\ UNCHANGED <<now, kc, rs, faults>>
  BY DEF IInv, Deliver
<1>2. CASE ~(now - r.since <= Timeout)
  <2>1. Ends(c, "timeout")
    BY <1>2 DEF Deliver, InTime
  <2> QED BY <2>1, <1>1, EndOK
<1>3. CASE now - r.since <= Timeout
  <2>1. Ends(c, r.answer)
    BY <1>3 DEF Deliver, InTime
  <2>2. r.answer \in Answer
    BY <1>1 DEF CallOK, Answered
  <2>3. now - r.since \in Int /\ Timeout \in Int
    BY <1>1, DurationAssumption DEF CallOK, Call, IInv, StateOK
  <2>4. r.answer \notin {"expired", "immature"}
    BY <1>1, <1>3, <2>3 DEF CallOK, Answered
  <2>5. r.answer = "nokey" => ~r.calm
    BY <1>1 DEF CallOK, Calm
  <2>6. r.route = "dpop" => r.answer # "stale"
    BY <1>1, <1>3, <2>3 DEF CallOK, Answered
  <2>7. r.route = "dpop" => r.answer \in {"ok", "nokey", "unreachable", "timeout"}
    BY <1>1, <2>4, <2>6 DEF CallOK, Proved
  <2>8. r.answer \in Answer \cup {"none", "login", "unreachable", "timeout"}
    BY <2>2
  <2> QED BY <2>1, <2>4, <2>5, <2>7, <2>8, <1>1, EndOK
<1> QED BY <1>2, <1>3

\* ApiCall: nothing is sent yet.
LEMMA ApiCallOK ==
  ASSUME IInv, NEW c \in Caller, NEW route \in ApiRoute, ApiCall(c, route)
  PROVE  IInv'
<1> DEFINE r == call[c]
<1>1. CallOK(c, r, now, kc) /\ r \in Call /\ r.at = "idle" /\ UNCHANGED <<now, kc, rs, faults>>
  BY DEF IInv, ApiCall, CallOK
<1>2. route \in Route /\ route # "dpop"
  BY DEF Route, ApiRoute
<1>3. CASE Becomes(c, [r EXCEPT !.route = route, !.result = "login"])
  <2> DEFINE s == [r EXCEPT !.route = route, !.result = "login"]
  <2>1. s \in Call
    BY <1>1, <1>2 DEF Call
  <2>2. Stored(s, now) /\ Timed(s, now) /\ Answered(s, now) /\ Calm(s, kc) /\ Proved(c, s, now)
    BY <1>1, <1>2 DEF CallOK, Call, Stored, Timed, Answered, Calm, Proved, InCall
  <2> HIDE DEF s
  <2> QED BY <1>1, <1>3, <2>1, <2>2, OneCallOnly DEF s
<1>4. CASE Becomes(c, [r EXCEPT !.at = "checked", !.route = route, !.result = "none"])
  <2> DEFINE s == [r EXCEPT !.at = "checked", !.route = route, !.result = "none"]
  <2>1. s \in Call
    BY <1>1, <1>2 DEF Call, Phase
  <2>2. Stored(s, now) /\ Timed(s, now) /\ Answered(s, now) /\ Calm(s, kc) /\ Proved(c, s, now)
    BY <1>1, <1>2 DEF CallOK, Call, Stored, Timed, Answered, Calm, Proved, InCall
  <2> HIDE DEF s
  <2> QED BY <1>1, <1>4, <2>1, <2>2, OneCallOnly DEF s
<1> QED BY <1>3, <1>4 DEF ApiCall

\* CallResource: an attached token is unexpired on the client's own clock.
LEMMA CallResourceOK ==
  ASSUME IInv, NEW c \in Caller, CallResource(c)
  PROVE  IInv'
<1> DEFINE r == call[c]
           t == IF NeedsToken(r.route) /\ ~TokenExpired(c) THEN r.token ELSE None
           s == [r EXCEPT !.at = "connect", !.since = now, !.sent = t]
<1>1. CallOK(c, r, now, kc) /\ r.at = "checked" /\ Becomes(c, s)
      /\ UNCHANGED <<now, kc, rs, faults>>
  BY DEF IInv, CallResource
<1>2. r \in Call /\ r.route # "dpop"
  BY <1>1 DEF CallOK, Proved
<1>3. now \in Int /\ now \in Nat /\ AppSkew \in Int /\ Timeout \in Int
  BY ClockAssumption, DurationAssumption DEF IInv, StateOK
<1>4. t \in Token \cup {None}
  BY <1>2 DEF Call
<1>5. t # None => t = r.token /\ now + AppSkew < r.expires_at
  BY <1>2, <1>3 DEF TokenExpired, AppNow, Call
<1> HIDE DEF t
<1>6. s \in Call
  BY <1>2, <1>3, <1>4 DEF Call, Phase
<1>7. s.at = "connect" /\ s.sent = t /\ s.since = now /\ s.route = r.route
      /\ s.token = r.token /\ s.expires_at = r.expires_at /\ s.result = r.result
      /\ s.calm = r.calm
  BY <1>2, <1>3, <1>4 DEF Call
<1> HIDE DEF s
<1>8. Timed(s, now)
  <2>1. ASSUME t # None PROVE t.iat <= now /\ now < t.exp + Timeout
    <3>1. t = r.token /\ t \in Token /\ r.expires_at \in Int /\ t.exp \in Int
      BY <2>1, <1>2, <1>4, <1>5 DEF Call, Token
    <3>2. t.iat <= now /\ r.expires_at <= t.exp + AppSkew + Timeout
      BY <3>1, <2>1, <1>1 DEF CallOK, Stored
    <3> QED BY <3>1, <3>2, <2>1, <1>3, <1>5
  <2> QED BY <2>1, <1>3, <1>7 DEF Timed, InCall
<1>9. Stored(s, now) /\ Answered(s, now) /\ Calm(s, kc) /\ Proved(c, s, now)
  BY <1>1, <1>2, <1>7 DEF CallOK, Stored, Answered, Calm, Proved, InCall
<1> QED BY <1>1, <1>6, <1>8, <1>9, OneCallOnly

\* Connect: within one timeout of the client's check.
LEMMA ConnectOK ==
  ASSUME IInv, NEW c \in Caller, Connect(c)
  PROVE  IInv'
<1> DEFINE r == call[c]
           b == kc.up /\ (r.sent # None => r.sent.kid \in kc.keys)
           s == [r EXCEPT !.at = "lookup", !.since = now, !.calm = b]
<1>1. CallOK(c, r, now, kc) /\ r \in Call /\ r.at = "connect" /\ now - r.since <= Timeout
      /\ Becomes(c, s) /\ UNCHANGED <<now, kc, rs, faults>>
  BY DEF IInv, Connect, InTime, CallOK
<1>2. now \in Int /\ now \in Nat /\ AppSkew \in Int /\ Timeout \in Int /\ r.since \in Int
      /\ r.since <= now
  BY <1>1, ClockAssumption, DurationAssumption DEF IInv, StateOK, CallOK, Call, Timed
<1>3. b \in BOOLEAN
  BY DEF IInv, StateOK, KcType
<1>r. r \in Call
  BY <1>1
<1>b. b => kc.up /\ (r.sent # None => r.sent.kid \in kc.keys)
  OBVIOUS
<1> HIDE DEF b
<1>4. s \in Call
  BY <1>r, <1>2, <1>3 DEF Call, Phase
<1>5. s.at = "lookup" /\ s.sent = r.sent /\ s.since = now /\ s.route = r.route
      /\ s.token = r.token /\ s.expires_at = r.expires_at /\ s.result = r.result
      /\ s.calm = b /\ s.proof = r.proof
  BY <1>r, <1>2, <1>3 DEF Call
<1> HIDE DEF s
<1>6. Timed(s, now)
  <2>1. ASSUME r.sent # None PROVE r.sent.iat <= now /\ now < r.sent.exp + 2 * Timeout
    <3>1. r.sent \in Token /\ r.sent.exp \in Int
      BY <2>1, <1>r DEF Call, Token
    <3>2. r.sent.iat <= now /\ r.since < r.sent.exp + Timeout
      BY <2>1, <1>1 DEF CallOK, Timed, InCall
    <3> QED BY <3>1, <3>2, <1>1, <1>2
  <2> QED BY <2>1, <1>2, <1>5 DEF Timed, InCall
<1>7. Stored(s, now) /\ Answered(s, now) /\ Calm(s, kc)
  <2>1. r.result = "none"
    BY <1>1 DEF CallOK, Answered
  <2> QED BY <2>1, <1>1, <1>5, <1>b DEF CallOK, Stored, Answered, Calm, InCall
<1>8. Proved(c, s, now)
  <2>1. ASSUME r.route = "dpop" PROVE ProofMade(c, s) /\ s.proof.iat - AppSkew <= now
    <3>1. ProofMade(c, r) /\ r.proof.iat - AppSkew <= now /\ r.since <= r.proof.iat - AppSkew
      BY <2>1, <1>1 DEF CallOK, Proved
    <3>2. r.proof.iat \in Int
      BY <3>1 DEF ProofMade, Proof
    <3>3. now - Timeout <= r.proof.iat - AppSkew
      BY <3>1, <3>2, <1>1, <1>2
    <3> QED BY <3>1, <3>3, <1>5 DEF ProofMade
  <2> QED BY <2>1, <1>5 DEF Proved, InCall
<1> QED BY <1>1, <1>4, <1>6, <1>7, <1>8, OneCallOnly

-----------------------------------------------------------------------------
\* A thread of the server that moves on within the call changes only the phase.
LEMMA MoveOK ==
  ASSUME IInv, NEW c \in Caller, NEW at \in {"fetch", "refetch", "decode"},
         call[c].at \in {"lookup", "fetch", "refetch"}, call[c].sent # None,
         Becomes(c, [call[c] EXCEPT !.at = at]), UNCHANGED <<now, kc, faults>>, StateOK'
  PROVE  IInv'
<1> DEFINE r == call[c]
           s == [r EXCEPT !.at = at]
<1>1. CallOK(c, r, now, kc) /\ r \in Call
  BY DEF IInv, CallOK
<1>2. s \in Call
  BY <1>1 DEF Call, Phase
<1>3. s.at = at /\ s.sent = r.sent /\ s.since = r.since /\ s.route = r.route
      /\ s.token = r.token /\ s.expires_at = r.expires_at /\ s.result = r.result
      /\ s.calm = r.calm /\ s.proof = r.proof /\ s.answer = r.answer
  BY <1>1 DEF Call
<1> HIDE DEF s
<1>4. Stored(s, now) /\ Timed(s, now) /\ Answered(s, now) /\ Calm(s, kc)
  BY <1>1, <1>3 DEF CallOK, Stored, Timed, Answered, Calm, InCall
<1>5. Proved(c, s, now)
  BY <1>1, <1>3 DEF CallOK, Proved, ProofMade, InCall
<1>6. CallOK(c, s, now, kc)
  BY <1>2, <1>4, <1>5 DEF CallOK
<1> QED BY <1>6, OneCall DEF s

\* An answer that blames the clocks is late, and one that misses the key has a
\* disturbed call.
LEMMA AnswersOK ==
  ASSUME IInv, NEW c \in Caller, NEW a \in Answer, Answers(c, a),
         call[c].at \in {"lookup", "fetch", "refetch", "decode"},
         a \in {"expired", "immature"} => now - call[c].since > Timeout,
         a = "stale" /\ call[c].route = "dpop" => now - call[c].since > Timeout,
         a = "nokey" => ~call[c].calm,
         call[c].route = "dpop" => a \in {"ok", "nokey", "expired", "immature", "stale"},
         UNCHANGED <<now, kc, rs, faults>>
  PROVE  IInv'
<1> DEFINE r == call[c]
           s == [r EXCEPT !.at = "answered", !.answer = a]
<1>1. CallOK(c, r, now, kc) /\ r \in Call /\ Becomes(c, s)
  BY DEF IInv, CallOK, Answers
<1>2. s \in Call
  BY <1>1 DEF Call, Phase
<1>3. s.at = "answered" /\ s.answer = a /\ s.sent = r.sent /\ s.since = r.since
      /\ s.route = r.route /\ s.token = r.token /\ s.expires_at = r.expires_at
      /\ s.result = r.result /\ s.calm = r.calm /\ s.proof = r.proof
  BY <1>1 DEF Call
<1> HIDE DEF s
<1>4. Stored(s, now) /\ Timed(s, now) /\ Answered(s, now) /\ Calm(s, kc)
  BY <1>1, <1>3 DEF CallOK, Stored, Timed, Answered, Calm, InCall
<1>5. Proved(c, s, now)
  BY <1>1, <1>3 DEF CallOK, Proved, ProofMade, InCall
<1> QED BY <1>1, <1>2, <1>4, <1>5, OneCallOnly

\* Lookup: the demo always sends a token.
LEMMA LookupOK ==
  ASSUME IInv, NEW c \in Caller, Lookup(c)
  PROVE  IInv'
<1> DEFINE r == call[c]
<1>1. CallOK(c, r, now, kc) /\ r.at = "lookup" /\ UNCHANGED <<now, kc, rs, faults>>
  BY DEF IInv, Lookup
<1>2. r.route = "dpop" => r.sent # None
  BY <1>1, NoneAssumption DEF CallOK, Proved, ProofMade, InCall
<1>3. CASE r.route = "public" /\ Answers(c, "ok")
  BY <1>1, <1>3, AnswersOK DEF Answer
<1>4. CASE r.sent = None /\ Answers(c, "noheader")
  BY <1>1, <1>2, <1>4, AnswersOK DEF Answer
<1>5. CASE r.sent # None /\ Becomes(c, [r EXCEPT
             !.at = IF r.sent.kid \in rs.cache THEN "decode" ELSE "fetch"])
  <2>1. StateOK'
    BY <1>1 DEF IInv, StateOK
  <2>2. PICK at \in {"fetch", "refetch", "decode"} : Becomes(c, [r EXCEPT !.at = at])
    BY <1>5
  <2> QED BY <1>1, <1>5, <2>1, <2>2, MoveOK
<1> QED BY <1>3, <1>4, <1>5 DEF Lookup

\* The cache stays finite and within its size.
LEMMA RememberBounded ==
  ASSUME NEW cache \in SUBSET Key, IsFiniteSet(cache), Cardinality(cache) <= CacheSize,
         NEW k \in Key, NEW new \in Remember(cache, k)
  PROVE  new \in SUBSET Key /\ IsFiniteSet(new) /\ Cardinality(new) <= CacheSize
<1>0. CacheSize \in Nat \ {0} /\ Cardinality(cache) \in Nat
  BY DurationAssumption, FS_CardinalityType
<1>1. CASE k \in cache
  <2>1. new = cache
    BY <1>1 DEF Remember
  <2> QED BY <2>1
<1>2. CASE k \notin cache /\ Cardinality(cache) < CacheSize
  <2>1. new = cache \cup {k}
    BY <1>2 DEF Remember
  <2>2. IsFiniteSet(new) /\ Cardinality(new) = Cardinality(cache) + 1
    BY <1>2, <2>1, FS_AddElement
  <2> QED BY <2>1, <2>2, <1>0, <1>2
<1>3. CASE k \notin cache /\ ~(Cardinality(cache) < CacheSize)
  <2>1. PICK old \in cache : new = (cache \ {old}) \cup {k}
    BY <1>3 DEF Remember
  <2>2. IsFiniteSet(cache \ {old}) /\ Cardinality(cache \ {old}) = Cardinality(cache) - 1
    BY FS_RemoveElement
  <2>3. k \notin cache \ {old}
    BY <1>3
  <2>4. IsFiniteSet(new) /\ Cardinality(new) = Cardinality(cache \ {old}) + 1
    BY <2>1, <2>2, <2>3, FS_AddElement
  <2> QED BY <2>1, <2>2, <2>4, <1>0
<1> QED BY <1>1, <1>2, <1>3

\* FetchJwks: a call whose key is not found is not calm.
LEMMA FetchJwksOK ==
  ASSUME IInv, NEW c \in Caller, FetchJwks(c)
  PROVE  IInv'
<1> DEFINE r == call[c]
<1>1. CallOK(c, r, now, kc) /\ r \in Call /\ r.at \in {"fetch", "refetch"}
      /\ UNCHANGED <<now, kc, faults>>
  BY DEF IInv, FetchJwks, CallOK
<1>2. r.sent # None /\ r.sent.kid \in Key
  BY <1>1 DEF CallOK, Timed, Call, Token
<1>3. CASE \E cache \in Remember(rs.cache, r.sent.kid) :
             rs' = [rs EXCEPT !.cache = cache] /\ Becomes(c, [r EXCEPT !.at = "decode"])
  <2>1. PICK cache \in Remember(rs.cache, r.sent.kid) :
             rs' = [rs EXCEPT !.cache = cache] /\ Becomes(c, [r EXCEPT !.at = "decode"])
    BY <1>3
  <2>2. rs \in RsType /\ IsFiniteSet(rs.cache) /\ Cardinality(rs.cache) <= CacheSize
    BY DEF IInv, StateOK
  <2>3. rs.cache \in SUBSET Key
    BY <2>2 DEF RsType
  <2>4. cache \in SUBSET Key /\ IsFiniteSet(cache) /\ Cardinality(cache) <= CacheSize
    BY <2>2, <2>3, <1>2, RememberBounded
  <2>5. rs' \in RsType /\ rs'.cache = cache
    BY <2>1, <2>2, <2>4 DEF RsType
  <2>6. StateOK'
    BY <2>4, <2>5, <1>1 DEF IInv, StateOK
  <2> QED BY <1>1, <1>2, <2>1, <2>6, MoveOK
<1>4. CASE rs' = rs /\ Becomes(c, [r EXCEPT !.at = "refetch"])
  <2>1. StateOK'
    BY <1>1, <1>4 DEF IInv, StateOK
  <2> QED BY <1>1, <1>2, <1>4, <2>1, MoveOK
<1>5. CASE /\ ~kc.up \/ r.sent.kid \notin kc.keys
           /\ Answers(c, "nokey") /\ rs' = rs
  <2>1. ~r.calm
    BY <1>1, <1>2, <1>5 DEF CallOK, Calm, InCall
  <2> QED BY <1>1, <1>5, <2>1, AnswersOK DEF Answer
<1> QED BY <1>3, <1>4, <1>5 DEF FetchJwks

\* DecodeToken: by the invariant's bounds, "expired" and "stale" are late, and
\* "immature" never happens.
LEMMA DecodeTokenOK ==
  ASSUME IInv, NEW c \in Caller, DecodeToken(c)
  PROVE  IInv'
<1> DEFINE r == call[c]
           fault == TokenFault(r.sent)
           a == IF fault # "ok" THEN fault ELSE RouteCheck(c)
<1>1. CallOK(c, r, now, kc) /\ r \in Call /\ r.at = "decode" /\ Answers(c, a)
      /\ UNCHANGED <<now, kc, rs, faults>>
  BY DEF IInv, DecodeToken, CallOK
<1>2. now \in Int /\ AppSkew \in Int /\ RsSkew \in Int /\ Timeout \in Int /\ Leeway \in Int
      /\ ProofMax \in Int /\ ProofEarly \in Int /\ r.since \in Int
  BY <1>1, ClockAssumption, DurationAssumption DEF IInv, StateOK, Call
<1>3. r.sent \in Token /\ r.sent.iat \in Int /\ r.sent.exp \in Int
      /\ r.sent.iat <= now /\ r.since < r.sent.exp + 2 * Timeout
  BY <1>1 DEF CallOK, Timed, InCall, Call, Token
<1>4. fault \in {"ok", "expired"}
  BY <1>2, <1>3, ClockAssumption DEF TokenFault, RsNow
<1>5. fault = "expired" => now - r.since > Timeout
  <2>1. fault = "expired" => r.sent.exp <= now + RsSkew - Leeway
    BY <1>2, <1>3 DEF TokenFault, RsNow
  <2> HIDE DEF fault
  <2> QED BY <2>1, <1>2, <1>3, ClockAssumption
<1> HIDE DEF fault
<1>6. ASSUME r.route = "dpop"
      PROVE  /\ RouteCheck(c) \in {"ok", "stale"}
             /\ RouteCheck(c) = "stale" => now - r.since > Timeout
  <2>1. ProofMade(c, r) /\ r.proof.iat - AppSkew <= now
    BY <1>6, <1>1 DEF CallOK, Proved, InCall
  <2>2. r.proof.iat \in Int /\ r.since - Timeout <= r.proof.iat - AppSkew
    BY <2>1 DEF ProofMade, Proof
  <2>3. RouteCheck(c) = IF ProofStale(r.proof) THEN "stale" ELSE "ok"
    BY <1>6, <2>1 DEF RouteCheck, ProofFault, ProofMade
  <2>4. ProofStale(r.proof) => now - r.since > Timeout
    BY <2>1, <2>2, <1>2, ClockAssumption DEF ProofStale, RsNow
  <2> QED BY <2>3, <2>4
<1>7. r.route # "dpop" => RouteCheck(c) \in {"ok", "forbidden"}
  BY DEF RouteCheck
<1>8. a \in {"ok", "expired", "stale", "forbidden"}
  BY <1>4, <1>6, <1>7
<1>9. /\ a = "expired" => now - r.since > Timeout
      /\ a = "stale" /\ r.route = "dpop" => now - r.since > Timeout
      /\ r.route = "dpop" => a \in {"ok", "expired", "stale"}
  BY <1>4, <1>5, <1>6, <1>7
<1> HIDE DEF a
<1>10. a \in Answer /\ a # "immature" /\ a # "nokey"
  BY <1>8 DEF Answer
<1> QED BY <1>1, <1>9, <1>10, AnswersOK

-----------------------------------------------------------------------------
\* WaitForKeycloak counts no more than Polls attempts.
LEMMA WaitForKeycloakOK ==
  ASSUME IInv, WaitForKeycloak
  PROVE  IInv'
<1>1. UNCHANGED <<now, kc, call, faults>>
  BY DEF WaitForKeycloak
<1>2. rs \in RsType
  BY DEF IInv, StateOK
<1>3. rs' \in RsType /\ rs'.cache = rs.cache
  <2>1. CASE rs' = [rs EXCEPT !.phase = "serving"]
    BY <2>1, <1>2 DEF RsType
  <2>2. CASE rs' = [rs EXCEPT !.polls = @ + 1] /\ rs.polls # Polls
    BY <2>2, <1>2, DurationAssumption DEF RsType
  <2> QED BY <2>1, <2>2 DEF WaitForKeycloak
<1>4. StateOK'
  BY <1>1, <1>3 DEF IInv, StateOK
<1> QED BY <1>1, <1>4 DEF IInv

\* A change of Keycloak keeps every call that it disturbs or that stays calm.
LEMMA KeycloakOK ==
  ASSUME IInv, NEW keys, NEW up \in BOOLEAN, Disturb(keys, up),
         UNCHANGED <<now, rs>>, StateOK', kc'.up = up, kc'.keys = keys
  PROVE  IInv'
<1> DEFINE b(c) == call[c].calm /\ up /\ (call[c].sent # None => call[c].sent.kid \in keys)
<1>1. call' = [c \in Caller |-> [call[c] EXCEPT !.calm = b(c)]]
  BY DEF Disturb
<1>2. ASSUME NEW c \in Caller PROVE CallOK(c, call'[c], now, kc')
  <2> DEFINE r == call[c]
             s == [r EXCEPT !.calm = b(c)]
  <2>1. CallOK(c, r, now, kc) /\ r \in Call
    BY DEF IInv, CallOK
  <2>2. b(c) \in BOOLEAN /\ (b(c) => r.calm /\ up /\ (r.sent # None => r.sent.kid \in keys))
    BY <2>1 DEF Call
  <2> HIDE DEF b
  <2>3. s \in Call
    BY <2>1, <2>2 DEF Call
  <2>4. s.at = r.at /\ s.answer = r.answer /\ s.sent = r.sent /\ s.since = r.since
        /\ s.route = r.route /\ s.token = r.token /\ s.expires_at = r.expires_at
        /\ s.result = r.result /\ s.calm = b(c) /\ s.proof = r.proof
    BY <2>1, <2>2 DEF Call
  <2>5. call'[c] = s
    BY <1>1
  <2> HIDE DEF s
  <2>6. Stored(s, now) /\ Timed(s, now) /\ Answered(s, now)
    BY <2>1, <2>4 DEF CallOK, Stored, Timed, Answered
  <2>7. Calm(s, kc')
    BY <2>1, <2>2, <2>4 DEF CallOK, Calm
  <2>8. Proved(c, s, now)
    BY <2>1, <2>4 DEF CallOK, Proved, ProofMade
  <2> QED BY <2>3, <2>5, <2>6, <2>7, <2>8 DEF CallOK
<1> HIDE DEF b
<1>3. DOMAIN call' = Caller /\ call' = [c \in Caller |-> call'[c]]
  BY <1>1
<1> QED BY <1>2, <1>3 DEF IInv

\* KeycloakStops.
LEMMA StopsOK ==
  ASSUME IInv, KeycloakStops
  PROVE  IInv'
<1>1. kc \in KcType /\ kc.signing \in kc.keys /\ kc' = [kc EXCEPT !.up = FALSE]
  BY DEF IInv, StateOK, KeycloakStops
<1>2. kc' \in KcType /\ kc'.up = FALSE /\ kc'.keys = kc.keys /\ kc'.signing = kc.signing
  BY <1>1 DEF KcType
<1>3. StateOK'
  BY <1>1, <1>2, DurationAssumption DEF IInv, StateOK, KeycloakStops, Fault
<1> QED BY <1>2, <1>3, KeycloakOK DEF KeycloakStops

\* WithdrawKey.
LEMMA WithdrawOK ==
  ASSUME IInv, WithdrawKey
  PROVE  IInv'
<1>1. PICK k \in kc.keys \ {kc.signing} :
        /\ kc' = [kc EXCEPT !.keys = @ \ {k}, !.gone = @ \cup {k}]
        /\ Disturb(kc.keys \ {k}, TRUE)
  BY DEF WithdrawKey
<1>2. kc \in KcType /\ kc.signing \in kc.keys /\ kc.up
  BY DEF IInv, StateOK, WithdrawKey
<1>3. kc' \in KcType /\ kc'.up = TRUE /\ kc'.keys = kc.keys \ {k} /\ kc'.signing = kc.signing
  BY <1>1, <1>2 DEF KcType
<1>4. StateOK'
  BY <1>1, <1>2, <1>3, DurationAssumption DEF IInv, StateOK, WithdrawKey, Fault
<1> QED BY <1>1, <1>3, <1>4, KeycloakOK DEF WithdrawKey

\* KeycloakStarts and RotateKey take nothing away from a calm call.
LEMMA GrowsOK ==
  ASSUME IInv, KeycloakStarts \/ RotateKey
  PROVE  IInv'
<1>1. UNCHANGED <<now, rs, call, faults>>
  BY DEF KeycloakStarts, RotateKey
<1>2. kc \in KcType /\ kc.signing \in kc.keys
  BY DEF IInv, StateOK
<1>3. /\ kc' \in KcType /\ kc'.signing \in kc'.keys
      /\ kc.up => kc'.up
      /\ kc.keys \subseteq kc'.keys
  <2>1. CASE KeycloakStarts
    BY <2>1, <1>2 DEF KeycloakStarts, KcType
  <2>2. CASE RotateKey
    <3>1. PICK k \in Key \ (kc.keys \cup kc.gone) :
            kc' = [kc EXCEPT !.keys = @ \cup {k}, !.signing = k]
      BY <2>2 DEF RotateKey
    <3> QED BY <3>1, <1>2 DEF KcType
  <2> QED BY <2>1, <2>2
<1>4. StateOK'
  BY <1>1, <1>3 DEF IInv, StateOK
<1>5. ASSUME NEW c \in Caller PROVE CallOK(c, call[c], now, kc')
  <2>1. CallOK(c, call[c], now, kc)
    BY DEF IInv
  <2>2. Calm(call[c], kc')
    BY <2>1, <1>3 DEF CallOK, Calm
  <2> QED BY <2>1, <2>2 DEF CallOK
<1> QED BY <1>1, <1>4, <1>5 DEF IInv

\* Time only widens the bounds of the invariant.
LEMMA TickOK ==
  ASSUME IInv, Tick
  PROVE  IInv'
<1>1. now' = now + 1 /\ UNCHANGED <<kc, rs, call, faults>> /\ now \in Nat /\ AppSkew \in Int
  BY ClockAssumption DEF IInv, StateOK, Tick
<1>2. StateOK'
  BY <1>1 DEF IInv, StateOK
<1>3. ASSUME NEW c \in Caller PROVE CallOK(c, call[c], now + 1, kc)
  <2> DEFINE r == call[c]
  <2>1. CallOK(c, r, now, kc) /\ r \in Call
    BY DEF IInv, CallOK
  <2>2. r.since \in Int /\ (r.sent # None => r.sent \in Token) /\ (r.token # None => r.token \in Token)
    BY <2>1 DEF Call
  <2>3. /\ r.sent # None => r.sent.iat \in Int
        /\ r.token # None => r.token.iat \in Int
        /\ r.sent \in Token => r.sent.iat \in Int
    BY <2>2 DEF Token
  <2>4. Stored(r, now + 1)
    BY <2>1, <2>3, <1>1 DEF CallOK, Stored
  <2>5. Timed(r, now + 1)
    BY <2>1, <2>2, <2>3, <1>1 DEF CallOK, Timed
  <2>6. Answered(r, now + 1)
    BY <2>1, <2>2, <1>1, DurationAssumption DEF CallOK, Answered
  <2>7. Proved(c, r, now + 1)
    <3>1. ASSUME ProofMade(c, r), r.proof.iat - AppSkew <= now
          PROVE  r.proof.iat - AppSkew <= now + 1
      <4>1. r.proof.iat \in Int
        BY <3>1 DEF ProofMade, Proof
      <4> QED BY <4>1, <3>1, <1>1
    <3> QED BY <3>1, <2>1 DEF CallOK, Proved
  <2> QED BY <2>1, <2>4, <2>5, <2>6, <2>7 DEF CallOK
<1> QED BY <1>1, <1>2, <1>3 DEF IInv

-----------------------------------------------------------------------------
\* Every step preserves the invariant.
LEMMA NextOK == IInv /\ [Next]_vars => IInv'
<1> SUFFICES ASSUME IInv, [Next]_vars PROVE IInv'
  OBVIOUS
<1>1. ASSUME NEW c \in Caller, AppNext(c) \/ RsNext(c) \/ IssueToken(c) PROVE IInv'
  BY <1>1, AskTokenOK, IssueTokenOK, AskFailsOK, StoreTokenOK, DpopDemoOK, ApiCallOK,
     CallResourceOK, ConnectOK, ConnectFailsOK, DeliverOK, LookupOK, FetchJwksOK,
     DecodeTokenOK
     DEF AppNext, RsNext
<1>2. CASE KeycloakNext
  BY <1>2, StopsOK, WithdrawOK, GrowsOK DEF KeycloakNext
<1>3. CASE UNCHANGED vars
  BY <1>3 DEF vars, IInv, StateOK
<1> QED BY <1>1, <1>2, <1>3, WaitForKeycloakOK, TickOK DEF Next

\* The invariant holds in every reachable state.
THEOREM Invariance == Spec => []IInv
<1> QED BY InitOK, NextOK, PTL DEF Spec

\* Every field holds a value of its set and the key cache of the resource server
\* never outgrows its size.
THEOREM TypeCorrect == Spec => []TypeOK
<1>1. IInv => TypeOK
  BY InvImplies
<1> QED BY <1>1, Invariance, PTL

\* A token the client application found unexpired is never reported expired:
\* the leeway covers three timeouts and the skew.
THEOREM LeewayCovers == Spec => []CheckedIsNotExpired
<1>1. IInv => CheckedIsNotExpired
  BY InvImplies
<1> QED BY <1>1, Invariance, PTL

\* A signing key that Keycloak publishes during the whole call is always found,
\* whatever the cache went through and however many calls share it.
THEOREM KeyIsFound == Spec => []KeyFoundWhenPublished
<1>1. IInv => KeyFoundWhenPublished
  BY InvImplies
<1> QED BY <1>1, Invariance, PTL

\* The DPoP demo's call is refused for no reason but a key that cannot be found.
THEOREM DpopDemoWorks == Spec => []DpopDemoSucceeds
<1>1. IInv => DpopDemoSucceeds
  BY InvImplies
<1> QED BY <1>1, Invariance, PTL

=============================================================================
