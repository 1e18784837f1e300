-------------------------- MODULE MCClientSession --------------------------
(* Instances of ClientSession for TLC.                                     *)
EXTENDS ClientSession, TLC

CONSTANTS r1, r2, l1, l2

TwoReqs  == {r1, r2}
OneReq   == {r1}
TwoLogins   == {l1, l2}

AllRoutes == Route
\* The routes that move tokens, for overlapping requests.
TokenRoutes == {"start_auth_code", "pkce_flow", "auth_callback",
                "refresh_token", "logout", "pkce_result"}

\* Requests are interchangeable, and so are logins.
SymConcurrent == Permutations(TwoReqs) \cup Permutations(TwoLogins)
SymSerial     == Permutations(TwoLogins)

=============================================================================
