---------------------------- MODULE AgentRunProofs ----------------------------
(***************************************************************************)
(* Proofs about AgentRun, for any number of runs, agents among the five,    *)
(* attempts, iterations and faults: type correctness, that a run ends with  *)
(* a reason, what its trace may miss, that the SVID it used is removed,     *)
(* what the audit line says, that tools run on good tokens, and that every  *)
(* step is one of the abstract ReportedRun.                                 *)
(***************************************************************************)
EXTENDS AgentRun, TLAPS

(***************************************************************************)
(* The inductive invariant speaks of one run at a time: c is the run's      *)
(* record, rq its request and rp the reply, n the calls executed for it, tk *)
(* its token, au its audit lines, dk its files and pg its page.             *)
(***************************************************************************)
Early   == {"idle", "svid", "auth"}
Opening == {"open", "opening"}
InLoop  == {"loop", "tools", "calling", "exit"}
Ended   == {"respond", "done"}

\* What the report may miss of the calls executed, at each step.
Counted(c, rq, rp, n) ==
  /\ c.trace + c.turn <= n
  /\ c.at \in Early \cup Opening => n = 0
  /\ c.at \in {"loop", "exit"} => n = c.trace
  /\ c.at = "tools" => n = c.trace + c.turn
  /\ c.at = "calling" => n = c.trace + c.turn + (IF rp = "ok" THEN 1 ELSE 0)
  /\ c.answer # "none" => n = c.trace /\ rq # "tool"
  /\ c.at \in Ended /\ (n # c.trace \/ rq = "tool") => c.error /\ c.mcp = "ok"

\* A request is on its way while its run waits for it, or has given it up.
Sent(c, rq, rp, tk) ==
  /\ rq = "tool" => c.at \in {"calling", "respond", "done", "lost"}
  /\ rq = "session" => c.at \in {"opening", "respond", "done", "lost"}
  /\ c.at \in {"opening", "calling"} /\ rq # "none" => rp = "none"
  /\ rq # "none" => tk # None

\* Each step up to the present one has succeeded; a run that ends has a reason.
Judged(c) ==
  /\ c.at \in Early \cup Opening => c.mcp = "none"
  /\ c.at \in Opening \cup InLoop => c.auth = "ok"
  /\ c.at \in InLoop => c.mcp = "ok"
  /\ c.at \in Early \cup Opening \cup {"loop", "tools", "calling"} => c.answer = "none"
  /\ c.at = "exit" => c.error \/ c.answer # "none"
  /\ c.at \in Ended =>
       \/ "failed" \in {c.svid, c.auth, c.mcp}
       \/ c.auth = "ok" /\ c.mcp = "ok" /\ (c.error \/ c.answer # "none")

\* The token is one of the agent's, and the audit lines are that token's.
Named(c, tk, au) ==
  /\ c.at # "idle" => c.agent \in Agent
  /\ c.at \in Early => tk = None
  /\ c.at \in Opening \cup InLoop => tk # None
  /\ tk # None => /\ tk \in IF NeedsUser(c.agent) THEN DelegatedToken(c.agent)
                                                 ELSE ServiceToken(c.agent)
                  /\ c.agent \in Agent
  /\ \A line \in au : tk # None /\ line = AuditLine(tk)

\* Files on the disk are from this attempt or from one that failed before it.
Written(c, dk) ==
  /\ c.at = "idle" => dk = {}
  /\ \A f \in dk : f[2] <= c.attempt
  /\ c.at = "svid" \/ (c.at = "done" /\ c.svid = "ok") => \A f \in dk : f[2] < c.attempt

RunOK(c, rq, rp, n, tk, au, dk, pg) ==
  /\ Counted(c, rq, rp, n) /\ Sent(c, rq, rp, tk) /\ Judged(c)
  /\ Named(c, tk, au) /\ Written(c, dk)
  /\ pg \in {"none", "login"} => c.at = "idle"
  /\ pg = "result" => c.at = "done"

ThisRun(r) == RunOK(run[r], request[r], reply[r], executed[r], token[r], audit[r], disk[r], page[r])

\* A key lookup is for a request that is on its way.
LookupHeld == lookup \in Run => request[lookup] # "none"

IInv == TypeOK /\ LookupHeld /\ \A r \in Run : ThisRun(r)

-----------------------------------------------------------------------------
\* Keycloak's tokens are tokens, and what is logged of one names the right parties.
LEMMA TokensNamed ==
  ASSUME NEW a \in Agent,
         NEW t \in IF NeedsUser(a) THEN DelegatedToken(a) ELSE ServiceToken(a)
  PROVE  /\ t \in Token
         /\ AuditLine(t) \in Custody
         /\ AuditLine(t) = CustodyChain(t)
         /\ AuditLine(t).subject = (IF NeedsUser(a) THEN User ELSE a)
         /\ AuditLine(t).actors = (IF NeedsUser(a) THEN <<a>> ELSE <<>>)
<1>1. a \in Party /\ User \in Party /\ a # User
  BY AgentAssumption
<1>2. CASE NeedsUser(a)
  <2>1. PICK aud \in BOOLEAN, act \in {<<>>, <<a>>} :
          t = [aud |-> aud, scope |-> TRUE, subject |-> User, human |-> TRUE, azp |-> a, act |-> act]
    BY <1>2 DEF DelegatedToken
  <2>2. t \in Token
    BY <1>1, <2>1 DEF Token
  <2>3. t.subject = User /\ t.human /\ t.azp = a /\ t.act = act
    BY <2>1
  <2>4. (IF t.act = <<>> THEN <<t.azp>> ELSE t.act) = <<a>>
    BY <2>1, <2>3
  <2>5. AuditLine(t) = [subject |-> User, actors |-> <<a>>] /\ CustodyChain(t) = [subject |-> User, actors |-> <<a>>]
    BY <1>1, <2>3, <2>4 DEF AuditLine, CustodyChain
  <2> QED BY <1>1, <1>2, <2>2, <2>5 DEF Custody
<1>3. CASE ~NeedsUser(a)
  <2>1. PICK aud \in BOOLEAN :
          t = [aud |-> aud, scope |-> TRUE, subject |-> a, human |-> FALSE, azp |-> a, act |-> <<>>]
    BY <1>3 DEF ServiceToken
  <2>2. t \in Token
    BY <1>1, <2>1 DEF Token
  <2>3. t.subject = a /\ ~t.human /\ t.azp = a /\ t.act = <<>>
    BY <2>1
  <2>4. AuditLine(t) = [subject |-> a, actors |-> <<>>] /\ CustodyChain(t) = [subject |-> a, actors |-> <<>>]
    BY <2>3 DEF AuditLine, CustodyChain
  <2> QED BY <1>1, <1>3, <2>2, <2>4 DEF Custody
<1> QED BY <1>2, <1>3

\* The invariant implies the properties.
LEMMA InvImplies ==
  IInv => /\ TypeOK /\ EndsWithReason /\ TraceTellsItsGaps /\ SilentOnlyAboutTheLoop
          /\ UsedKeyIsRemoved /\ AuditNamesBoth
<1> SUFFICES ASSUME IInv
             PROVE  /\ EndsWithReason /\ TraceTellsItsGaps /\ SilentOnlyAboutTheLoop
                    /\ UsedKeyIsRemoved /\ AuditNamesBoth
  BY DEF IInv
<1>1. EndsWithReason
  BY DEF EndsWithReason, IInv, ThisRun, RunOK, Judged, Finished, Ended
<1>2. TraceTellsItsGaps
  BY DEF TraceTellsItsGaps, IInv, ThisRun, RunOK, Counted, Finished, Ended
<1>3. SilentOnlyAboutTheLoop
  <2> SUFFICES ASSUME NEW r \in Run, page[r] = "result", ~Shown(r)
               PROVE  /\ run[r].error \/ run[r].answer = "empty"
                      /\ run[r].mcp = "ok" /\ run[r].auth = "ok"
    BY DEF SilentOnlyAboutTheLoop
  <2>1. run[r].at = "done" /\ Judged(run[r])
    BY DEF IInv, ThisRun, RunOK
  <2>2. run[r].answer \in Answer
    BY DEF IInv, TypeOK, AgentRun
  <2> QED BY <2>1, <2>2 DEF Shown, Judged, Ended, Answer
<1>4. UsedKeyIsRemoved
  BY DEF UsedKeyIsRemoved, IInv, ThisRun, RunOK, Written, Finished
<1>5. AuditNamesBoth
  <2> SUFFICES ASSUME NEW r \in Run, NEW line \in audit[r]
               PROVE  /\ line = CustodyChain(token[r])
                      /\ IF NeedsUser(run[r].agent)
                         THEN line.subject = User /\ line.actors = <<run[r].agent>>
                         ELSE line.subject = run[r].agent /\ line.actors = <<>>
    BY DEF AuditNamesBoth
  <2>1. Named(run[r], token[r], audit[r])
    BY DEF IInv, ThisRun, RunOK
  <2>2. /\ token[r] \in IF NeedsUser(run[r].agent) THEN DelegatedToken(run[r].agent)
                                                   ELSE ServiceToken(run[r].agent)
        /\ run[r].agent \in Agent /\ line = AuditLine(token[r])
    BY <2>1 DEF Named
  <2> QED BY <2>2, TokensNamed
<1> QED BY <1>1, <1>2, <1>3, <1>4, <1>5

\* The first state.
LEMMA InitOK == Init => IInv
<1> SUFFICES ASSUME Init PROVE IInv
  OBVIOUS
<1>1. NoRun \in AgentRun
  BY BoundAssumption DEF NoRun, AgentRun, Step, Outcome, Answer
<1>2. TypeOK
  <2>1. /\ request \in [Run -> Request] /\ reply \in [Run -> Reply]
        /\ token \in [Run -> Token \cup {None}] /\ page \in [Run -> Page]
    BY DEF Init, Request, Reply, Page
  <2>2. executed \in [Run -> Nat] /\ audit \in [Run -> SUBSET Custody]
    BY DEF Init
  <2>3. run \in [Run -> AgentRun] /\ disk \in [Run -> SUBSET File]
    BY <1>1 DEF Init
  <2>4. faults \in 0..MaxFaults
    BY BoundAssumption DEF Init
  <2> QED BY <2>1, <2>2, <2>3, <2>4 DEF TypeOK, Init
<1>3. NoRun.at = "idle" /\ NoRun.trace = 0 /\ NoRun.turn = 0 /\ NoRun.answer = "none" /\ NoRun.mcp = "none"
  BY DEF NoRun
<1>4. ASSUME NEW r \in Run PROVE ThisRun(r)
  <2>1. /\ run[r] = NoRun /\ request[r] = "none" /\ reply[r] = "none" /\ executed[r] = 0
        /\ token[r] = None /\ audit[r] = {} /\ disk[r] = {} /\ page[r] = "none"
    BY DEF Init
  <2> QED BY <2>1, <1>3 DEF ThisRun, RunOK, Counted, Sent, Judged, Named, Written,
                            Early, Opening, InLoop, Ended
<1>5. LookupHeld
  BY NoneAssumption DEF Init, LookupHeld
<1> QED BY <1>2, <1>4, <1>5 DEF IInv

-----------------------------------------------------------------------------
\* A step that leaves all runs but r alone keeps the invariant if it does so for r.
LEMMA OneRun ==
  ASSUME IInv, NEW r \in Run, TypeOK', LookupHeld', ThisRun(r)',
         \A q \in Run \ {r} :
           /\ run'[q] = run[q] /\ request'[q] = request[q] /\ reply'[q] = reply[q]
           /\ executed'[q] = executed[q] /\ token'[q] = token[q] /\ audit'[q] = audit[q]
           /\ disk'[q] = disk[q] /\ page'[q] = page[q]
  PROVE  IInv'
<1>1. ASSUME NEW q \in Run \ {r} PROVE ThisRun(q)'
  <2>1. ThisRun(q)
    BY DEF IInv
  <2> QED BY <2>1 DEF ThisRun
<1> QED BY <1>1 DEF IInv

\* A step inside the agent that changes the run's record only.
LEMMA MoveOK ==
  ASSUME IInv, NEW r \in Run, NEW s \in AgentRun, Becomes(r, s),
         RunOK(s, request[r], reply[r], executed[r], token[r], audit[r], disk[r], page[r]),
         UNCHANGED <<token, disk>>, Inside
  PROVE  IInv'
<1>1. run' = [run EXCEPT ![r] = s] /\ run \in [Run -> AgentRun]
  BY DEF Becomes, IInv, TypeOK
<1>2. run' \in [Run -> AgentRun] /\ run'[r] = s /\ \A q \in Run \ {r} : run'[q] = run[q]
  BY <1>1
<1>3. TypeOK'
  BY <1>2 DEF Inside, mcpVars, IInv, TypeOK
<1>4. ThisRun(r)'
  BY <1>2 DEF Inside, mcpVars, ThisRun
<1>5. LookupHeld'
  BY DEF Inside, mcpVars, IInv, LookupHeld
<1> QED BY <1>2, <1>3, <1>4, <1>5, OneRun DEF Inside, mcpVars

\* What the invariant says of one run, with its types.
LEMMA OfRun ==
  ASSUME IInv, NEW r \in Run
  PROVE  /\ run[r] \in AgentRun
         /\ RunOK(run[r], request[r], reply[r], executed[r], token[r], audit[r], disk[r], page[r])
         /\ executed[r] \in Nat /\ disk[r] \subseteq File /\ token[r] \in Token \cup {None}
         /\ request[r] \in Request /\ reply[r] \in Reply /\ page[r] \in Page
         /\ audit[r] \subseteq Custody
BY DEF IInv, TypeOK, ThisRun

\* A failed attempt at the Workload API.
LEMMA AttemptFailsOK ==
  ASSUME IInv, NEW r \in Run, run[r].at = "svid", AttemptFails(r),
         NEW dk \in SUBSET File, \A f \in dk : f[2] <= run[r].attempt
  PROVE  \E s \in AgentRun :
           /\ Becomes(r, s)
           /\ RunOK(s, request[r], reply[r], executed[r], token[r], audit[r], dk, page[r])
<1> DEFINE c == run[r]
<1>1. c \in AgentRun /\ executed[r] \in Nat
      /\ RunOK(c, request[r], reply[r], executed[r], token[r], audit[r], disk[r], page[r])
  BY OfRun
<1>2. c.attempt \in 1..Attempts /\ Attempts \in Nat
  BY <1>1, BoundAssumption DEF AgentRun
<1>3. \A f \in dk : f[2] \in Nat
  BY BoundAssumption DEF File
<1>4. CASE c.attempt < Attempts
  <2> DEFINE next == c.attempt + 1
             s == [c EXCEPT !.attempt = next]
  <2>1. Becomes(r, s)
    BY <1>4 DEF AttemptFails
  <2>2. next \in 1..Attempts /\ \A f \in dk : f[2] < next /\ f[2] <= next
    BY <1>2, <1>3, <1>4
  <2> HIDE DEF next
  <2>3. s \in AgentRun
    BY <1>1, <2>2 DEF AgentRun
  <2>4. /\ s.attempt = next /\ s.agent = c.agent /\ s.at = c.at /\ s.svid = c.svid
        /\ s.auth = c.auth /\ s.mcp = c.mcp /\ s.error = c.error /\ s.answer = c.answer
        /\ s.turn = c.turn /\ s.trace = c.trace
    BY <1>1, <2>2 DEF AgentRun
  <2> HIDE DEF s
  <2>5. RunOK(s, request[r], reply[r], executed[r], token[r], audit[r], dk, page[r])
    BY <1>1, <2>2, <2>4 DEF RunOK, Counted, Sent, Judged, Named, Written
  <2> QED BY <2>1, <2>3, <2>5
<1>5. CASE ~(c.attempt < Attempts)
  <2> DEFINE s == [c EXCEPT !.svid = "failed", !.error = TRUE, !.at = "respond"]
  <2>1. Becomes(r, s)
    BY <1>5 DEF AttemptFails
  <2>2. s \in AgentRun
    BY <1>1 DEF AgentRun, Outcome, Step
  <2>3. /\ s.attempt = c.attempt /\ s.agent = c.agent /\ s.at = "respond" /\ s.svid = "failed"
        /\ s.auth = c.auth /\ s.mcp = c.mcp /\ s.error = TRUE /\ s.answer = c.answer
        /\ s.turn = c.turn /\ s.trace = c.trace
        /\ c.trace \in Nat /\ c.turn \in Nat
    BY <1>1 DEF AgentRun
  <2> HIDE DEF s
  <2>4. RunOK(s, request[r], reply[r], executed[r], token[r], audit[r], dk, page[r])
    BY <1>1, <2>3 DEF RunOK, Counted, Sent, Judged, Named, Written, Early, Opening, InLoop, Ended
  <2> QED BY <2>1, <2>2, <2>4
<1> QED BY <1>4, <1>5

\* A run that has its SVID.
LEMMA AttestedOK ==
  ASSUME IInv, NEW r \in Run, run[r].at = "svid", Attested(r),
         NEW dk \in SUBSET File, \A f \in dk : f[2] <= run[r].attempt
  PROVE  \E s \in AgentRun :
           /\ Becomes(r, s)
           /\ RunOK(s, request[r], reply[r], executed[r], token[r], audit[r], dk, page[r])
<1> DEFINE c == run[r]
           s == [c EXCEPT !.svid = "ok", !.at = "auth"]
<1>1. c \in AgentRun
      /\ RunOK(c, request[r], reply[r], executed[r], token[r], audit[r], disk[r], page[r])
  BY OfRun
<1>2. s \in AgentRun
  BY <1>1 DEF AgentRun, Outcome, Step
<1>3. /\ s.attempt = c.attempt /\ s.agent = c.agent /\ s.at = "auth" /\ s.svid = "ok"
      /\ s.auth = c.auth /\ s.mcp = c.mcp /\ s.error = c.error /\ s.answer = c.answer
      /\ s.turn = c.turn /\ s.trace = c.trace
  BY <1>1 DEF AgentRun
<1>4. Becomes(r, s)
  BY DEF Attested
<1> HIDE DEF s
<1>5. RunOK(s, request[r], reply[r], executed[r], token[r], audit[r], dk, page[r])
  BY <1>1, <1>3 DEF RunOK, Counted, Sent, Judged, Named, Written, Early, Opening, InLoop, Ended
<1> QED BY <1>2, <1>4, <1>5

\* FetchJwtSvid.
LEMMA FetchJwtSvidOK ==
  ASSUME IInv, NEW r \in Run, FetchJwtSvid(r)
  PROVE  IInv'
<1>1. run[r].at = "svid" /\ UNCHANGED <<token, disk>> /\ Inside
  BY DEF FetchJwtSvid
<1>2. disk[r] \in SUBSET File /\ \A f \in disk[r] : f[2] <= run[r].attempt
  BY OfRun DEF RunOK, Written
<1>3. PICK s \in AgentRun :
        /\ Becomes(r, s)
        /\ RunOK(s, request[r], reply[r], executed[r], token[r], audit[r], disk[r], page[r])
  BY <1>1, <1>2, AttemptFailsOK, AttestedOK DEF FetchJwtSvid
<1> QED BY <1>1, <1>3, MoveOK

\* FetchX509Svid, also when the files are written in part.
LEMMA FetchX509SvidOK ==
  ASSUME IInv, NEW r \in Run, FetchX509Svid(r)
  PROVE  IInv'
<1>1. /\ run[r].at = "svid"
      /\ UNCHANGED <<keycloak, token, expired, mcpVars, live, down, page>>
  BY DEF FetchX509Svid
<1>2. disk \in [Run -> SUBSET File] /\ disk[r] \in SUBSET File
      /\ \A f \in disk[r] : f[2] <= run[r].attempt
  BY OfRun DEF RunOK, Written, IInv, TypeOK
<1>3. PICK left \in {{}, Files(r), {<<"cert", run[r].attempt>>}} :
        /\ disk' = [disk EXCEPT ![r] = @ \cup left]
        /\ Attested(r) \/ AttemptFails(r)
        /\ faults' \in {faults} \/ Fault
  <2>1. disk' = disk => disk' = [disk EXCEPT ![r] = @ \cup {}]
    BY <1>2
  <2> QED BY <2>1 DEF FetchX509Svid
<1>4. run[r].attempt \in 1..Attempts /\ Attempts \in Nat
  BY OfRun, BoundAssumption DEF AgentRun
<1>5. left \subseteq File /\ \A f \in left : f[2] <= run[r].attempt
  BY <1>4 DEF Files, File
<1> DEFINE dk == disk[r] \cup left
<1>6. dk \in SUBSET File /\ \A f \in dk : f[2] <= run[r].attempt
  BY <1>2, <1>5
<1>7. disk' \in [Run -> SUBSET File] /\ disk'[r] = dk /\ \A q \in Run \ {r} : disk'[q] = disk[q]
  BY <1>2, <1>3, <1>6
<1> HIDE DEF dk
<1>8. PICK s \in AgentRun :
        /\ Becomes(r, s)
        /\ RunOK(s, request[r], reply[r], executed[r], token[r], audit[r], dk, page[r])
  BY <1>1, <1>3, <1>6, AttemptFailsOK, AttestedOK
<1>9. run' \in [Run -> AgentRun] /\ run'[r] = s /\ \A q \in Run \ {r} : run'[q] = run[q]
  BY <1>8 DEF Becomes, IInv, TypeOK
<1>10. faults' \in 0..MaxFaults
  BY <1>3, BoundAssumption DEF Fault, IInv, TypeOK
<1>11. TypeOK'
  BY <1>1, <1>7, <1>9, <1>10 DEF mcpVars, IInv, TypeOK
<1>12. ThisRun(r)'
  BY <1>1, <1>7, <1>8, <1>9 DEF mcpVars, ThisRun
<1>13. LookupHeld'
  BY <1>1 DEF mcpVars, IInv, LookupHeld
<1> QED BY <1>1, <1>7, <1>9, <1>11, <1>12, <1>13, OneRun DEF mcpVars

\* Keycloak refuses.
LEMMA AuthFailsOK ==
  ASSUME IInv, NEW r \in Run, AuthFails(r)
  PROVE  IInv'
<1> DEFINE c == run[r]
           s == [c EXCEPT !.auth = "failed", !.at = "respond"]
<1>1. c \in AgentRun /\ executed[r] \in Nat /\ c.trace \in Nat /\ c.turn \in Nat
      /\ RunOK(c, request[r], reply[r], executed[r], token[r], audit[r], disk[r], page[r])
  BY OfRun DEF AgentRun
<1>2. s \in AgentRun
  BY <1>1 DEF AgentRun, Outcome, Answer, Step
<1>3. /\ s.agent = c.agent /\ s.at = "respond" /\ s.attempt = c.attempt
      /\ s.svid = c.svid /\ s.auth = "failed" /\ s.mcp = c.mcp /\ s.error = c.error
      /\ s.answer = c.answer /\ s.turn = c.turn /\ s.trace = c.trace
  BY <1>1 DEF AgentRun
<1>4. Becomes(r, s) /\ c.at = "auth" /\ UNCHANGED <<token, disk>> /\ Inside
  BY DEF AuthFails
<1> HIDE DEF s
<1>5. RunOK(s, request[r], reply[r], executed[r], token[r], audit[r], disk[r], page[r])
  BY <1>1, <1>3, <1>4 DEF RunOK, Counted, Sent, Judged, Named, Written, Early, Opening, InLoop, Ended
<1> QED BY <1>2, <1>4, <1>5, MoveOK

\* The MCP session is open.
LEMMA SessionOpenedOK ==
  ASSUME IInv, NEW r \in Run, SessionOpened(r)
  PROVE  IInv'
<1> DEFINE c == run[r]
           s == [c EXCEPT !.mcp = "ok", !.at = "loop"]
<1>1. c \in AgentRun /\ executed[r] \in Nat /\ c.trace \in Nat /\ c.turn \in Nat
      /\ RunOK(c, request[r], reply[r], executed[r], token[r], audit[r], disk[r], page[r])
  BY OfRun DEF AgentRun
<1>2. s \in AgentRun
  BY <1>1 DEF AgentRun, Outcome, Answer, Step
<1>3. /\ s.agent = c.agent /\ s.at = "loop" /\ s.attempt = c.attempt
      /\ s.svid = c.svid /\ s.auth = c.auth /\ s.mcp = "ok" /\ s.error = c.error
      /\ s.answer = c.answer /\ s.turn = c.turn /\ s.trace = c.trace
  BY <1>1 DEF AgentRun
<1>4. Becomes(r, s) /\ c.at = "opening" /\ reply[r] = "ok" /\ UNCHANGED <<token, disk>> /\ Inside
  BY DEF SessionOpened
<1> HIDE DEF s
<1>5. RunOK(s, request[r], reply[r], executed[r], token[r], audit[r], disk[r], page[r])
  BY <1>1, <1>3, <1>4 DEF RunOK, Counted, Sent, Judged, Named, Written, Early, Opening, InLoop, Ended
<1> QED BY <1>2, <1>4, <1>5, MoveOK

\* A run that has its token.
LEMMA AuthenticatedOK ==
  ASSUME IInv, NEW r \in Run, run[r].at = "auth", run[r].agent \in Agent, NEW T,
         T = (IF NeedsUser(run[r].agent) THEN DelegatedToken(run[r].agent)
                                         ELSE ServiceToken(run[r].agent)),
         Authenticated(r, T)
  PROVE  IInv'
<1> DEFINE c == run[r]
           s == [c EXCEPT !.auth = "ok", !.at = "open"]
<1>1. c \in AgentRun /\ executed[r] \in Nat /\ c.trace \in Nat /\ c.turn \in Nat
      /\ RunOK(c, request[r], reply[r], executed[r], token[r], audit[r], disk[r], page[r])
  BY OfRun DEF AgentRun
<1>2. s \in AgentRun
  BY <1>1 DEF AgentRun, Outcome, Step
<1>3. /\ s.agent = c.agent /\ s.at = "open" /\ s.attempt = c.attempt
      /\ s.svid = c.svid /\ s.auth = "ok" /\ s.mcp = c.mcp /\ s.error = c.error
      /\ s.answer = c.answer /\ s.turn = c.turn /\ s.trace = c.trace
  BY <1>1 DEF AgentRun
<1>4. Becomes(r, s) /\ UNCHANGED disk /\ Inside
  BY DEF Authenticated
<1> HIDE DEF s
<1>5. PICK t \in T : token' = [token EXCEPT ![r] = t]
  BY DEF Authenticated
<1>6. t \in Token /\ t # None
  BY <1>5, TokensNamed, AgentAssumption
<1>7. token' \in [Run -> Token \cup {None}] /\ token'[r] = t /\ \A q \in Run \ {r} : token'[q] = token[q]
  BY <1>5, <1>6 DEF IInv, TypeOK
<1>8. run' \in [Run -> AgentRun] /\ run'[r] = s /\ \A q \in Run \ {r} : run'[q] = run[q]
  BY <1>2, <1>4 DEF Becomes, IInv, TypeOK
<1>9. audit[r] = {}
  BY <1>1 DEF RunOK, Named, Early
<1>10. RunOK(s, request[r], reply[r], executed[r], t, audit[r], disk[r], page[r])
  BY <1>1, <1>3, <1>5, <1>6, <1>9 DEF RunOK, Counted, Sent, Judged, Named, Written, Early, Opening, InLoop, Ended
<1>11. ThisRun(r)'
  BY <1>4, <1>7, <1>8, <1>10 DEF Inside, mcpVars, ThisRun
<1>12. TypeOK'
  BY <1>4, <1>7, <1>8 DEF Inside, mcpVars, IInv, TypeOK
<1>13. LookupHeld'
  BY <1>4 DEF Inside, mcpVars, IInv, LookupHeld
<1> QED BY <1>4, <1>7, <1>8, <1>11, <1>12, <1>13, OneRun DEF Inside, mcpVars

\* The five ways to authenticate.
LEMMA TokenRequestOK ==
  ASSUME IInv, NEW r \in Run,
         \/ SecretToken(r) \/ SpiffeToken(r) \/ CertToken(r) \/ MtlsToken(r) \/ ExchangeToken(r)
  PROVE  IInv'
<1>1. run[r].at = "auth"
  BY DEF SecretToken, SpiffeToken, CertToken, MtlsToken, ExchangeToken
<1>2. run[r].agent \in Agent
  BY <1>1, OfRun DEF RunOK, Named
<1>3. CASE ExchangeToken(r)
  <2>1. NeedsUser(run[r].agent) /\ Authenticated(r, DelegatedToken(run[r].agent))
    BY <1>3 DEF ExchangeToken, NeedsUser
  <2> QED BY <1>1, <1>2, <2>1, AuthenticatedOK
<1>4. CASE SecretToken(r) \/ SpiffeToken(r) \/ CertToken(r) \/ MtlsToken(r)
  <2>1. ~NeedsUser(run[r].agent) /\ Authenticated(r, ServiceToken(run[r].agent))
    BY <1>4 DEF SecretToken, SpiffeToken, CertToken, MtlsToken, NeedsUser
  <2> QED BY <1>1, <1>2, <2>1, AuthenticatedOK
<1> QED BY <1>3, <1>4

-----------------------------------------------------------------------------
\* An exception inside the session, from each step where it can be raised.
LEMMA RaisedOK ==
  ASSUME IInv, NEW r \in Run, run[r].at \in {"opening", "calling", "loop", "exit"},
         run[r].at \in {"opening", "calling"} => reply[r] # "ok", Raised(r)
  PROVE  \E s \in AgentRun : Becomes(r, s) /\ RunOK(s, request[r], reply[r], executed[r], token[r], audit[r], disk[r], page[r])
<1> DEFINE c == run[r]
           zero == 0
           blame == IF c.mcp = "none" THEN "failed" ELSE c.mcp
           open == c.mcp # "none"
           s == [c EXCEPT !.mcp = blame, !.error = open, !.turn = zero, !.blocks = zero,
                          !.at = "respond"]
<1>1. c \in AgentRun /\ executed[r] \in Nat /\ c.trace \in Nat /\ c.turn \in Nat
      /\ RunOK(c, request[r], reply[r], executed[r], token[r], audit[r], disk[r], page[r])
  BY OfRun DEF AgentRun
<1>2. c.mcp \in Outcome
  BY <1>1 DEF AgentRun
<1>3. blame \in Outcome /\ open \in BOOLEAN /\ zero \in Nat
  BY <1>2 DEF Outcome
<1>4. /\ zero = 0
      /\ c.mcp = "none" => blame = "failed" /\ ~open
      /\ c.mcp # "none" => blame = c.mcp /\ open
  OBVIOUS
<1>5. Becomes(r, s)
  BY DEF Raised
<1> HIDE DEF zero, blame, open
<1>6. s \in AgentRun
  BY <1>1, <1>3 DEF AgentRun, Step
<1>7. /\ s.agent = c.agent /\ s.at = "respond" /\ s.attempt = c.attempt
      /\ s.svid = c.svid /\ s.auth = c.auth /\ s.mcp = blame /\ s.error = open
      /\ s.answer = c.answer /\ s.turn = zero /\ s.trace = c.trace
  BY <1>1, <1>3 DEF AgentRun
<1> HIDE DEF s
<1>8. Counted(c, request[r], reply[r], executed[r]) /\ Judged(c) /\ Sent(c, request[r], reply[r], token[r])
  BY <1>1 DEF RunOK
<1>9. CASE c.at = "opening"
  BY <1>1, <1>4, <1>7, <1>8, <1>5, <1>6, <1>9 DEF RunOK, Counted, Sent, Judged, Named, Written, Early, Opening, InLoop, Ended
<1>10. CASE c.at \in {"calling", "loop", "exit"}
  <2>1. blame = "ok" /\ open /\ c.mcp = "ok" /\ c.auth = "ok"
    BY <1>4, <1>8, <1>10 DEF Judged, InLoop
  <2>2. Counted(s, request[r], reply[r], executed[r])
    BY <1>1, <1>4, <1>7, <1>8, <1>10, <2>1 DEF Counted, Sent, Early, Opening, InLoop, Ended
  <2>3. Judged(s) /\ Sent(s, request[r], reply[r], token[r])
    BY <1>4, <1>7, <1>8, <1>10, <2>1 DEF Judged, Sent, Early, Opening, InLoop, Ended
  <2>4. Named(s, token[r], audit[r]) /\ Written(s, disk[r])
    BY <1>1, <1>7, <1>10 DEF RunOK, Named, Written, Early, Opening, InLoop
  <2>5. RunOK(s, request[r], reply[r], executed[r], token[r], audit[r], disk[r], page[r])
    BY <1>1, <1>7, <1>10, <2>2, <2>3, <2>4 DEF RunOK
  <2> QED BY <1>5, <1>6, <2>5
<1> QED BY <1>9, <1>10

\* A call of the MCP service fails.
LEMMA CallFailsOK ==
  ASSUME IInv, NEW r \in Run, CallFails(r)
  PROVE  IInv'
<1>1. PICK s \in AgentRun : Becomes(r, s) /\ RunOK(s, request[r], reply[r], executed[r], token[r], audit[r], disk[r], page[r])
  BY RaisedOK DEF CallFails
<1> QED BY <1>1, MoveOK DEF CallFails

\* A run that leaves the loop with an answer.
LEMMA AnswerOK ==
  ASSUME IInv, NEW r \in Run, run[r].at = "loop", NEW answer \in {"empty", "text"},
         Becomes(r, [run[r] EXCEPT !.answer = answer, !.at = "exit"])
  PROVE  \E s \in AgentRun : Becomes(r, s) /\ RunOK(s, request[r], reply[r], executed[r], token[r], audit[r], disk[r], page[r])
<1> DEFINE c == run[r]
           s == [c EXCEPT !.answer = answer, !.at = "exit"]
<1>1. c \in AgentRun /\ executed[r] \in Nat /\ c.trace \in Nat /\ c.turn \in Nat
      /\ RunOK(c, request[r], reply[r], executed[r], token[r], audit[r], disk[r], page[r])
  BY OfRun DEF AgentRun
<1>2. s \in AgentRun
  BY <1>1 DEF AgentRun, Answer, Step
<1>3. /\ s.agent = c.agent /\ s.at = "exit" /\ s.attempt = c.attempt
      /\ s.svid = c.svid /\ s.auth = c.auth /\ s.mcp = c.mcp /\ s.error = c.error
      /\ s.answer = answer /\ s.turn = c.turn /\ s.trace = c.trace
  BY <1>1 DEF AgentRun
<1>4. Becomes(r, s)
  OBVIOUS
<1> HIDE DEF s
<1>5. RunOK(s, request[r], reply[r], executed[r], token[r], audit[r], disk[r], page[r])
  BY <1>1, <1>3 DEF RunOK, Counted, Sent, Judged, Named, Written, Early, Opening, InLoop, Ended
<1> QED BY <1>2, <1>4, <1>5

\* A run whose model asks for tools.
LEMMA AskedOK ==
  ASSUME IInv, NEW r \in Run, run[r].at = "loop", NEW n \in Nat,
         Becomes(r, [run[r] EXCEPT !.blocks = n, !.at = "tools"])
  PROVE  \E s \in AgentRun : Becomes(r, s) /\ RunOK(s, request[r], reply[r], executed[r], token[r], audit[r], disk[r], page[r])
<1> DEFINE c == run[r]
           s == [c EXCEPT !.blocks = n, !.at = "tools"]
<1>1. c \in AgentRun /\ executed[r] \in Nat /\ c.trace \in Nat /\ c.turn \in Nat
      /\ RunOK(c, request[r], reply[r], executed[r], token[r], audit[r], disk[r], page[r])
  BY OfRun DEF AgentRun
<1>2. s \in AgentRun
  BY <1>1 DEF AgentRun, Step
<1>3. /\ s.agent = c.agent /\ s.at = "tools" /\ s.attempt = c.attempt
      /\ s.svid = c.svid /\ s.auth = c.auth /\ s.mcp = c.mcp /\ s.error = c.error
      /\ s.answer = c.answer /\ s.turn = c.turn /\ s.trace = c.trace
  BY <1>1 DEF AgentRun
<1>4. Becomes(r, s)
  OBVIOUS
<1> HIDE DEF s
<1>5. RunOK(s, request[r], reply[r], executed[r], token[r], audit[r], disk[r], page[r])
  BY <1>1, <1>3 DEF RunOK, Counted, Sent, Judged, Named, Written, Early, Opening, InLoop, Ended
<1> QED BY <1>2, <1>4, <1>5

\* The model's answer, and its stand-in.
LEMMA ModelOK ==
  ASSUME IInv, NEW r \in Run, AskModel(r) \/ MockTurn(r)
  PROVE  IInv'
<1>1. run[r].at = "loop" /\ UNCHANGED <<token, disk>> /\ Inside
  BY DEF AskModel, MockTurn
<1>2. CASE Raised(r)
  <2>1. PICK s \in AgentRun : Becomes(r, s) /\ RunOK(s, request[r], reply[r], executed[r], token[r], audit[r], disk[r], page[r])
    BY <1>1, <1>2, RaisedOK
  <2> QED BY <1>1, <2>1, MoveOK
<1>3. ASSUME NEW n \in Nat, Becomes(r, [run[r] EXCEPT !.blocks = n, !.at = "tools"])
      PROVE  IInv'
  <2>1. PICK s \in AgentRun : Becomes(r, s) /\ RunOK(s, request[r], reply[r], executed[r], token[r], audit[r], disk[r], page[r])
    BY <1>1, <1>3, AskedOK
  <2> QED BY <1>1, <2>1, MoveOK
<1>4. ASSUME NEW answer \in {"empty", "text"},
             Becomes(r, [run[r] EXCEPT !.answer = answer, !.at = "exit"])
      PROVE  IInv'
  <2>1. PICK s \in AgentRun : Becomes(r, s) /\ RunOK(s, request[r], reply[r], executed[r], token[r], audit[r], disk[r], page[r])
    BY <1>1, <1>4, AnswerOK
  <2> QED BY <1>1, <2>1, MoveOK
<1>5. 1 \in Nat /\ 1..MaxBlocks \subseteq Nat
  BY BoundAssumption
<1> QED BY <1>2, <1>3, <1>4, <1>5 DEF AskModel, MockTurn

\* The session closes.
LEMMA CloseSessionOK ==
  ASSUME IInv, NEW r \in Run, CloseSession(r)
  PROVE  IInv'
<1> DEFINE c == run[r]
           s == [c EXCEPT !.at = "respond"]
<1>1. c \in AgentRun /\ executed[r] \in Nat /\ c.trace \in Nat /\ c.turn \in Nat
      /\ RunOK(c, request[r], reply[r], executed[r], token[r], audit[r], disk[r], page[r])
  BY OfRun DEF AgentRun
<1>2. c.at = "exit" /\ UNCHANGED <<token, disk>> /\ Inside
  BY DEF CloseSession
<1>3. CASE Raised(r)
  <2>1. PICK q \in AgentRun : Becomes(r, q) /\ RunOK(q, request[r], reply[r], executed[r], token[r], audit[r], disk[r], page[r])
    BY <1>2, <1>3, RaisedOK
  <2> QED BY <1>2, <2>1, MoveOK
<1>4. CASE Becomes(r, s)
  <2>1. s \in AgentRun
    BY <1>1 DEF AgentRun, Step
  <2>2. /\ s.agent = c.agent /\ s.at = "respond" /\ s.attempt = c.attempt
        /\ s.svid = c.svid /\ s.auth = c.auth /\ s.mcp = c.mcp /\ s.error = c.error
        /\ s.answer = c.answer /\ s.turn = c.turn /\ s.trace = c.trace
    BY <1>1 DEF AgentRun
  <2>3. Becomes(r, s)
    BY <1>4
  <2> HIDE DEF s
  <2>4. RunOK(s, request[r], reply[r], executed[r], token[r], audit[r], disk[r], page[r])
    BY <1>1, <1>2, <2>2 DEF RunOK, Counted, Sent, Judged, Named, Written, Early, Opening, InLoop, Ended
  <2> QED BY <1>2, <2>1, <2>3, <2>4, MoveOK
<1> QED BY <1>3, <1>4 DEF CloseSession

\* A tool has answered: the next call of the turn, the next turn, or the end.
LEMMA ToolResultOK ==
  ASSUME IInv, NEW r \in Run, ToolResult(r)
  PROVE  IInv'
<1> DEFINE c == run[r]
           zero == 0
           left == c.blocks - 1
           more == c.turn + 1
           all == c.trace + c.turn + 1
           next == c.iteration + 1
<1>1. c \in AgentRun /\ executed[r] \in Nat /\ c.trace \in Nat /\ c.turn \in Nat
      /\ RunOK(c, request[r], reply[r], executed[r], token[r], audit[r], disk[r], page[r])
      /\ c.blocks \in Nat /\ c.iteration \in Nat
  BY OfRun DEF AgentRun
<1>2. c.at = "calling" /\ reply[r] = "ok" /\ UNCHANGED <<token, disk>> /\ Inside
  BY DEF ToolResult
<1>3. /\ zero \in Nat /\ zero = 0 /\ more \in Nat /\ all \in Nat /\ next \in Nat
      /\ c.blocks > 1 => left \in Nat
      /\ more = c.turn + 1 /\ all = c.trace + c.turn + 1
  BY <1>1
<1>4. Becomes(r,
        IF c.blocks > 1
        THEN [c EXCEPT !.turn = more, !.blocks = left, !.at = "tools"]
        ELSE IF live /\ c.iteration >= MaxIterations
        THEN [[c EXCEPT !.trace = all, !.turn = zero, !.blocks = zero] EXCEPT !.error = TRUE, !.at = "exit"]
        ELSE [[c EXCEPT !.trace = all, !.turn = zero, !.blocks = zero] EXCEPT !.iteration = next, !.at = "loop"])
  BY DEF ToolResult, LoopGivesUp, TurnAppended
<1> HIDE DEF zero, left, more, all, next
<1>5. CASE c.blocks > 1
  <2> DEFINE s == [c EXCEPT !.turn = more, !.blocks = left, !.at = "tools"]
  <2>1. Becomes(r, s)
    BY <1>5, <1>4
  <2>2. s \in AgentRun
    BY <1>1, <1>3, <1>5 DEF AgentRun, Step
  <2>3. /\ s.agent = c.agent /\ s.at = "tools" /\ s.attempt = c.attempt
        /\ s.svid = c.svid /\ s.auth = c.auth /\ s.mcp = c.mcp /\ s.error = c.error
        /\ s.answer = c.answer /\ s.turn = more /\ s.trace = c.trace
    BY <1>1, <1>3, <1>5 DEF AgentRun
  <2> HIDE DEF s
  <2>4. Counted(s, request[r], reply[r], executed[r])
    BY <1>1, <1>2, <1>3, <2>3 DEF RunOK, Counted, Sent, Early, Opening, InLoop, Ended
  <2>5. Judged(s) /\ Sent(s, request[r], reply[r], token[r])
    BY <1>1, <1>2, <1>3, <2>3 DEF RunOK, Judged, Sent, Early, Opening, InLoop, Ended
  <2>6. Named(s, token[r], audit[r]) /\ Written(s, disk[r])
    BY <1>1, <1>2, <1>3, <2>3 DEF RunOK, Named, Written, Early, Opening, InLoop
  <2>7. RunOK(s, request[r], reply[r], executed[r], token[r], audit[r], disk[r], page[r])
    BY <1>1, <1>2, <1>3, <2>3, <2>4, <2>5, <2>6 DEF RunOK
  <2> QED BY <1>2, <2>2, <2>1, <2>7, MoveOK
<1>6. CASE ~(c.blocks > 1) /\ live /\ c.iteration >= MaxIterations
  <2> DEFINE s == [c EXCEPT !.trace = all, !.turn = zero, !.blocks = zero, !.error = TRUE, !.at = "exit"]
  <2>1. Becomes(r, s)
    BY <1>6, <1>4
  <2>2. s \in AgentRun
    BY <1>1, <1>3 DEF AgentRun, Step
  <2>3. /\ s.agent = c.agent /\ s.at = "exit" /\ s.attempt = c.attempt
        /\ s.svid = c.svid /\ s.auth = c.auth /\ s.mcp = c.mcp /\ s.error = TRUE
        /\ s.answer = c.answer /\ s.turn = zero /\ s.trace = all
    BY <1>1, <1>3 DEF AgentRun
  <2> HIDE DEF s
  <2>4. Counted(s, request[r], reply[r], executed[r])
    BY <1>1, <1>2, <1>3, <2>3 DEF RunOK, Counted, Sent, Early, Opening, InLoop, Ended
  <2>5. Judged(s) /\ Sent(s, request[r], reply[r], token[r])
    BY <1>1, <1>2, <1>3, <2>3 DEF RunOK, Judged, Sent, Early, Opening, InLoop, Ended
  <2>6. Named(s, token[r], audit[r]) /\ Written(s, disk[r])
    BY <1>1, <1>2, <1>3, <2>3 DEF RunOK, Named, Written, Early, Opening, InLoop
  <2>7. RunOK(s, request[r], reply[r], executed[r], token[r], audit[r], disk[r], page[r])
    BY <1>1, <1>2, <1>3, <2>3, <2>4, <2>5, <2>6 DEF RunOK
  <2> QED BY <1>2, <2>2, <2>1, <2>7, MoveOK
<1>7. CASE ~(c.blocks > 1) /\ ~(live /\ c.iteration >= MaxIterations)
  <2> DEFINE s == [c EXCEPT !.trace = all, !.turn = zero, !.blocks = zero, !.iteration = next, !.at = "loop"]
  <2>1. Becomes(r, s)
    BY <1>7, <1>4
  <2>2. s \in AgentRun
    BY <1>1, <1>3 DEF AgentRun, Step
  <2>3. /\ s.agent = c.agent /\ s.at = "loop" /\ s.attempt = c.attempt
        /\ s.svid = c.svid /\ s.auth = c.auth /\ s.mcp = c.mcp /\ s.error = c.error
        /\ s.answer = c.answer /\ s.turn = zero /\ s.trace = all
    BY <1>1, <1>3 DEF AgentRun
  <2> HIDE DEF s
  <2>4. Counted(s, request[r], reply[r], executed[r])
    BY <1>1, <1>2, <1>3, <2>3 DEF RunOK, Counted, Sent, Early, Opening, InLoop, Ended
  <2>5. Judged(s) /\ Sent(s, request[r], reply[r], token[r])
    BY <1>1, <1>2, <1>3, <2>3 DEF RunOK, Judged, Sent, Early, Opening, InLoop, Ended
  <2>6. Named(s, token[r], audit[r]) /\ Written(s, disk[r])
    BY <1>1, <1>2, <1>3, <2>3 DEF RunOK, Named, Written, Early, Opening, InLoop
  <2>7. RunOK(s, request[r], reply[r], executed[r], token[r], audit[r], disk[r], page[r])
    BY <1>1, <1>2, <1>3, <2>3, <2>4, <2>5, <2>6 DEF RunOK
  <2> QED BY <1>2, <2>2, <2>1, <2>7, MoveOK
<1> QED BY <1>5, <1>6, <1>7

\* A request goes out.
LEMMA SendOK ==
  ASSUME IInv, NEW r \in Run, NEW kind \in {"session", "tool"}, NEW s \in AgentRun,
         Send(r, kind, s),
         RunOK(s, kind, "none", executed[r], token[r], audit[r], disk[r], page[r])
  PROVE  IInv'
<1>1. /\ request \in [Run -> Request] /\ reply \in [Run -> Reply] /\ run \in [Run -> AgentRun]
      /\ request' = [request EXCEPT ![r] = kind] /\ reply' = [reply EXCEPT ![r] = "none"]
      /\ run' = [run EXCEPT ![r] = s]
      /\ UNCHANGED <<keycloak, token, expired, keyKnown, lookup, executed, audit,
                     live, down, disk, page, faults>>
      /\ kind \in Request /\ "none" \in Reply
  BY DEF Send, Becomes, IInv, TypeOK, Request, Reply
<1>2. /\ request' \in [Run -> Request] /\ request'[r] = kind /\ \A q \in Run \ {r} : request'[q] = request[q]
      /\ reply' \in [Run -> Reply] /\ reply'[r] = "none" /\ \A q \in Run \ {r} : reply'[q] = reply[q]
      /\ run' \in [Run -> AgentRun] /\ run'[r] = s /\ \A q \in Run \ {r} : run'[q] = run[q]
  BY <1>1
<1>3. TypeOK'
  BY <1>1, <1>2 DEF IInv, TypeOK
<1>4. ThisRun(r)'
  BY <1>1, <1>2 DEF ThisRun
<1>5. LookupHeld'
  BY <1>1, <1>2 DEF IInv, LookupHeld
<1> QED BY <1>1, <1>2, <1>3, <1>4, <1>5, OneRun

\* initialize and list_tools go out.
LEMMA OpenSessionOK ==
  ASSUME IInv, NEW r \in Run, OpenSession(r)
  PROVE  IInv'
<1> DEFINE c == run[r]
           s == [c EXCEPT !.at = "opening"]
<1>1. c \in AgentRun /\ executed[r] \in Nat /\ c.trace \in Nat /\ c.turn \in Nat
      /\ RunOK(c, request[r], reply[r], executed[r], token[r], audit[r], disk[r], page[r])
  BY OfRun DEF AgentRun
<1>2. s \in AgentRun
  BY <1>1 DEF AgentRun, Step
<1>3. /\ s.agent = c.agent /\ s.at = "opening" /\ s.attempt = c.attempt
      /\ s.svid = c.svid /\ s.auth = c.auth /\ s.mcp = c.mcp /\ s.error = c.error
      /\ s.answer = c.answer /\ s.turn = c.turn /\ s.trace = c.trace
  BY <1>1 DEF AgentRun
<1>4. c.at = "open" /\ Send(r, "session", s)
  BY DEF OpenSession
<1> HIDE DEF s
<1>5. RunOK(s, "session", "none", executed[r], token[r], audit[r], disk[r], page[r])
  BY <1>1, <1>3, <1>4 DEF RunOK, Counted, Sent, Judged, Named, Written, Early, Opening, InLoop, Ended
<1> QED BY <1>2, <1>4, <1>5, SendOK

\* A tool call goes out.
LEMMA CallToolOK ==
  ASSUME IInv, NEW r \in Run, CallTool(r)
  PROVE  IInv'
<1> DEFINE c == run[r]
           s == [c EXCEPT !.at = "calling"]
<1>1. c \in AgentRun /\ executed[r] \in Nat /\ c.trace \in Nat /\ c.turn \in Nat
      /\ RunOK(c, request[r], reply[r], executed[r], token[r], audit[r], disk[r], page[r])
  BY OfRun DEF AgentRun
<1>2. s \in AgentRun
  BY <1>1 DEF AgentRun, Step
<1>3. /\ s.agent = c.agent /\ s.at = "calling" /\ s.attempt = c.attempt
      /\ s.svid = c.svid /\ s.auth = c.auth /\ s.mcp = c.mcp /\ s.error = c.error
      /\ s.answer = c.answer /\ s.turn = c.turn /\ s.trace = c.trace
  BY <1>1 DEF AgentRun
<1>4. c.at = "tools" /\ Send(r, "tool", s)
  BY DEF CallTool
<1> HIDE DEF s
<1>5. RunOK(s, "tool", "none", executed[r], token[r], audit[r], disk[r], page[r])
  BY <1>1, <1>3, <1>4 DEF RunOK, Counted, Sent, Judged, Named, Written, Early, Opening, InLoop, Ended
<1> QED BY <1>2, <1>4, <1>5, SendOK

\* The report goes out and the files of the SVID are removed.
LEMMA RespondOK ==
  ASSUME IInv, NEW r \in Run, Respond(r)
  PROVE  IInv'
<1> DEFINE c == run[r]
           s == [c EXCEPT !.at = "done"]
           dk == IF c.svid = "ok" THEN disk[r] \ Files(r) ELSE disk[r]
           pg == IF page[r] = "waiting" THEN "result" ELSE page[r]
<1>1. c \in AgentRun /\ executed[r] \in Nat /\ c.trace \in Nat /\ c.turn \in Nat
      /\ RunOK(c, request[r], reply[r], executed[r], token[r], audit[r], disk[r], page[r])
  BY OfRun DEF AgentRun
<1>2. s \in AgentRun
  BY <1>1 DEF AgentRun, Step
<1>3. /\ s.agent = c.agent /\ s.at = "done" /\ s.attempt = c.attempt
      /\ s.svid = c.svid /\ s.auth = c.auth /\ s.mcp = c.mcp /\ s.error = c.error
      /\ s.answer = c.answer /\ s.turn = c.turn /\ s.trace = c.trace
  BY <1>1 DEF AgentRun
<1>4. /\ c.at = "respond" /\ run' = [run EXCEPT ![r] = s]
      /\ disk' = [disk EXCEPT ![r] = dk] /\ page' = [page EXCEPT ![r] = pg]
      /\ UNCHANGED <<keycloak, token, expired, mcpVars, live, down, faults>>
  BY DEF Respond, Becomes
<1> HIDE DEF s
<1>5. disk[r] \subseteq File /\ page[r] \in Page /\ c.attempt \in 1..Attempts /\ Attempts \in Nat
  BY <1>1, OfRun, BoundAssumption DEF AgentRun
<1>6. dk \subseteq disk[r] /\ pg \in Page
  BY <1>5 DEF Page
<1>7. ASSUME c.svid = "ok", NEW f \in dk PROVE f[2] < c.attempt
  <2>1. f \in disk[r] /\ f \notin Files(r)
    BY <1>7
  <2>2. f \in File /\ f[2] <= c.attempt
    BY <1>1, <1>5, <2>1 DEF RunOK, Written
  <2>3. PICK kind \in {"cert", "key"}, n \in 1..Attempts : f = <<kind, n>>
    BY <2>2 DEF File
  <2>4. n # c.attempt
    BY <2>1, <2>3 DEF Files
  <2> QED BY <1>5, <2>2, <2>3, <2>4
<1>8. pg \notin {"none", "login"}
  BY <1>1, <1>4 DEF RunOK
<1> HIDE DEF dk, pg
<1>9. Written(s, dk)
  BY <1>1, <1>3, <1>6, <1>7 DEF RunOK, Written
<1>10. Counted(s, request[r], reply[r], executed[r])
  BY <1>1, <1>3, <1>4 DEF RunOK, Counted, Early, Opening, InLoop, Ended
<1>11. Judged(s) /\ Sent(s, request[r], reply[r], token[r]) /\ Named(s, token[r], audit[r])
  BY <1>1, <1>3, <1>4 DEF RunOK, Judged, Sent, Named, Early, Opening, InLoop, Ended
<1>12. RunOK(s, request[r], reply[r], executed[r], token[r], audit[r], dk, pg)
  BY <1>3, <1>8, <1>9, <1>10, <1>11 DEF RunOK
<1>13. /\ run \in [Run -> AgentRun] /\ disk \in [Run -> SUBSET File] /\ page \in [Run -> Page]
       /\ dk \in SUBSET File
  BY <1>5, <1>6 DEF IInv, TypeOK
<1>14. /\ run' \in [Run -> AgentRun] /\ run'[r] = s /\ \A q \in Run \ {r} : run'[q] = run[q]
       /\ disk' \in [Run -> SUBSET File] /\ disk'[r] = dk /\ \A q \in Run \ {r} : disk'[q] = disk[q]
       /\ page' \in [Run -> Page] /\ page'[r] = pg /\ \A q \in Run \ {r} : page'[q] = page[q]
  BY <1>2, <1>4, <1>6, <1>13
<1>15. TypeOK'
  BY <1>4, <1>14 DEF mcpVars, IInv, TypeOK
<1>16. ThisRun(r)' /\ LookupHeld'
  BY <1>4, <1>12, <1>14 DEF mcpVars, ThisRun, IInv, LookupHeld
<1> QED BY <1>4, <1>14, <1>15, <1>16, OneRun DEF mcpVars

-----------------------------------------------------------------------------
\* Only the page changes, to one that says nothing of the run.
LEMMA PageOK ==
  ASSUME IInv, NEW r \in Run, NEW pg \in Page, pg # "result",
         pg = "login" => run[r].at = "idle", pg # "none",
         page' = [page EXCEPT ![r] = pg],
         UNCHANGED <<keycloak, token, expired, mcpVars, live, down, run, disk, faults>>
  PROVE  IInv'
<1>1. page' \in [Run -> Page] /\ page'[r] = pg /\ \A q \in Run \ {r} : page'[q] = page[q]
  BY DEF IInv, TypeOK
<1>2. TypeOK'
  BY <1>1 DEF mcpVars, IInv, TypeOK
<1>3. RunOK(run[r], request[r], reply[r], executed[r], token[r], audit[r], disk[r], pg)
  BY OfRun DEF RunOK
<1>4. ThisRun(r)' /\ LookupHeld'
  BY <1>1, <1>3 DEF mcpVars, ThisRun, IInv, LookupHeld
<1> QED BY <1>1, <1>2, <1>4, OneRun DEF mcpVars

\* The page of the client application.
LEMMA SendToLoginOK ==
  ASSUME IInv, NEW r \in Run, NEW a \in Agent, SendToLogin(r, a)
  PROVE  IInv'
<1>1. run[r].at = "idle"
  BY OfRun DEF SendToLogin, RunOK
<1> QED BY <1>1, PageOK DEF SendToLogin, Page

LEMMA PageTimeoutOK ==
  ASSUME IInv, NEW r \in Run, PageTimeout(r)
  PROVE  IInv'
BY PageOK DEF PageTimeout, Page

\* A run starts.
LEMMA VisitOK ==
  ASSUME IInv, NEW r \in Run, NEW a \in Agent, Visit(r, a)
  PROVE  IInv'
<1>1. /\ page[r] = "none"
      /\ UNCHANGED <<keycloak, token, expired, mcpVars, live, down, disk, faults>>
  BY DEF Visit
<1>2. CASE a \in down
  BY <1>2, PageOK DEF Visit, Page
<1>3. CASE a \notin down
  <2> DEFINE first == FirstStep(a)
             s == [NoRun EXCEPT !.agent = a, !.at = first]
  <2>1. page' = [page EXCEPT ![r] = "waiting"] /\ run' = [run EXCEPT ![r] = s]
    BY <1>3 DEF Visit, Becomes
  <2>2. first \in {"svid", "auth"} /\ first \in Step
    BY DEF FirstStep, Step
  <2> HIDE DEF first
  <2>3. /\ s \in AgentRun /\ s.agent = a /\ s.at = first /\ s.attempt = 1 /\ s.svid = "none"
        /\ s.auth = "none" /\ s.mcp = "none" /\ s.error = FALSE /\ s.answer = "none"
        /\ s.turn = 0 /\ s.trace = 0
    <3>1. NoRun \in AgentRun
      BY BoundAssumption DEF NoRun, AgentRun, Step, Outcome, Answer
    <3>2. /\ NoRun.attempt = 1 /\ NoRun.svid = "none" /\ NoRun.auth = "none" /\ NoRun.mcp = "none"
          /\ NoRun.error = FALSE /\ NoRun.answer = "none" /\ NoRun.turn = 0 /\ NoRun.trace = 0
      BY DEF NoRun
    <3> QED BY <2>2, <3>1, <3>2 DEF AgentRun
  <2> HIDE DEF s
  <2>4. /\ run[r].at = "idle" /\ executed[r] = 0 /\ disk[r] = {} /\ token[r] = None /\ audit[r] = {}
        /\ request[r] = "none"
    <3>1. RunOK(run[r], request[r], reply[r], executed[r], token[r], audit[r], disk[r], page[r])
      BY OfRun
    <3>2. run[r].at = "idle"
      BY <1>1, <3>1 DEF RunOK
    <3>3. executed[r] = 0 /\ disk[r] = {} /\ token[r] = None /\ audit[r] = {}
      BY <3>1, <3>2 DEF RunOK, Counted, Named, Written, Early
    <3>4. request[r] \in Request
      BY OfRun
    <3> QED BY <3>1, <3>2, <3>3, <3>4 DEF RunOK, Sent, Request
  <2>5. RunOK(s, request[r], reply[r], executed[r], token[r], audit[r], disk[r], "waiting")
    BY <2>2, <2>3, <2>4 DEF RunOK, Counted, Sent, Judged, Named, Written, Early, Opening, InLoop, Ended
  <2>6. /\ run' \in [Run -> AgentRun] /\ run'[r] = s /\ \A q \in Run \ {r} : run'[q] = run[q]
        /\ page' \in [Run -> Page] /\ page'[r] = "waiting" /\ \A q \in Run \ {r} : page'[q] = page[q]
    BY <2>1, <2>3 DEF IInv, TypeOK, Page
  <2>7. TypeOK'
    BY <1>1, <2>6 DEF mcpVars, IInv, TypeOK
  <2>8. ThisRun(r)' /\ LookupHeld'
    BY <1>1, <2>5, <2>6 DEF mcpVars, ThisRun, IInv, LookupHeld
  <2> QED BY <1>1, <2>6, <2>7, <2>8, OneRun DEF mcpVars
<1> QED BY <1>2, <1>3

-----------------------------------------------------------------------------
\* The MCP service takes a request off the wire: what it does to its run.
LEMMA ServedOK ==
  ASSUME IInv, NEW r \in Run, request[r] # "none",
         NEW rp \in Reply, NEW n \in Nat, NEW au,
         \/ n = executed[r] /\ au = audit[r] /\ rp # "ok"
         \/ /\ rp = "ok" /\ au = audit[r] \cup {AuditLine(token[r])}
            /\ n = IF request[r] = "tool" THEN executed[r] + 1 ELSE executed[r]
  PROVE  /\ RunOK(run[r], "none", rp, n, token[r], au, disk[r], page[r])
         /\ au \subseteq Custody
<1> DEFINE c == run[r]
<1>1. c \in AgentRun /\ executed[r] \in Nat /\ c.trace \in Nat /\ c.turn \in Nat
      /\ RunOK(c, request[r], reply[r], executed[r], token[r], audit[r], disk[r], page[r])
  BY OfRun DEF AgentRun
<1>2. /\ Counted(c, request[r], reply[r], executed[r]) /\ Sent(c, request[r], reply[r], token[r])
      /\ Named(c, token[r], audit[r]) /\ Judged(c) /\ Written(c, disk[r])
  BY <1>1 DEF RunOK
<1>3. request[r] \in {"session", "tool"} /\ token[r] # None /\ audit[r] \subseteq Custody
  BY <1>2, OfRun DEF Request, Sent
<1>4. AuditLine(token[r]) \in Custody
  BY <1>2, <1>3, TokensNamed DEF Named
<1>5. Named(c, token[r], au)
  BY <1>2, <1>3 DEF Named
<1>6. Sent(c, "none", rp, token[r])
  BY DEF Sent
<1>7. c.at \in {"opening", "calling"} => reply[r] = "none"
  BY <1>2, <1>3 DEF Sent
<1> HIDE DEF c
<1>8. Counted(c, "none", rp, n)
  <2>1. CASE n = executed[r] /\ rp # "ok"
    BY <1>1, <1>2, <1>7, <2>1 DEF Counted
  <2>2. CASE rp = "ok" /\ request[r] = "session" /\ n = executed[r]
    BY <1>1, <1>2, <2>2 DEF Counted, Sent
  <2>3. CASE rp = "ok" /\ request[r] = "tool" /\ n = executed[r] + 1
    <3>1. c.at \in {"calling", "respond", "done", "lost"} /\ c.answer = "none"
      BY <1>2, <2>3 DEF Sent, Counted
    <3>2. c.trace + c.turn <= n
      BY <1>1, <1>2, <2>3 DEF Counted
    <3>3. c.at = "calling" => n = c.trace + c.turn + 1
      BY <1>1, <1>2, <1>7, <2>3 DEF Counted
    <3>4. c.at \in Ended => c.error /\ c.mcp = "ok"
      BY <1>2, <2>3 DEF Counted
    <3> QED BY <2>3, <3>1, <3>2, <3>3, <3>4 DEF Counted, Early, Opening
  <2> QED BY <1>3, <2>1, <2>2, <2>3
<1> QED BY <1>1, <1>2, <1>3, <1>4, <1>5, <1>6, <1>8 DEF RunOK, c

\* A request is served or refused.
LEMMA TakenOK ==
  ASSUME IInv, NEW r \in Run, request[r] # "none", Others,
         request' = [request EXCEPT ![r] = "none"],
         Execute(r) \/ Refuse(r),
         keyKnown' \in BOOLEAN, lookup' = None,
         UNCHANGED <<keycloak, token, expired>>
  PROVE  IInv'
<1>1. /\ request \in [Run -> Request] /\ reply \in [Run -> Reply]
      /\ executed \in [Run -> Nat] /\ audit \in [Run -> SUBSET Custody]
  BY DEF IInv, TypeOK
<1>2. PICK rp \in Reply, n \in Nat, au \in {audit[r], audit[r] \cup {AuditLine(token[r])}} :
        /\ reply' = [reply EXCEPT ![r] = rp] /\ executed' = [executed EXCEPT ![r] = n]
        /\ audit' = [audit EXCEPT ![r] = au]
        /\ \/ n = executed[r] /\ au = audit[r] /\ rp # "ok"
           \/ /\ rp = "ok" /\ au = audit[r] \cup {AuditLine(token[r])}
              /\ n = IF request[r] = "tool" THEN executed[r] + 1 ELSE executed[r]
  <2>1. CASE Execute(r)
    <3> DEFINE n == IF request[r] = "tool" THEN executed[r] + 1 ELSE executed[r]
    <3>1. n \in Nat
      BY <1>1
    <3>2. /\ reply' = [reply EXCEPT ![r] = "ok"] /\ executed' = [executed EXCEPT ![r] = n]
          /\ audit' = [audit EXCEPT ![r] = audit[r] \cup {AuditLine(token[r])}]
      BY <2>1 DEF Execute
    <3> HIDE DEF n
    <3>3. n = IF request[r] = "tool" THEN executed[r] + 1 ELSE executed[r]
      BY DEF n
    <3> QED BY <3>1, <3>2, <3>3 DEF Reply
  <2>2. CASE Refuse(r)
    <3>1. executed' = [executed EXCEPT ![r] = executed[r]] /\ audit' = [audit EXCEPT ![r] = audit[r]]
      BY <1>1, <2>2 DEF Refuse
    <3>2. reply' = [reply EXCEPT ![r] = "refused"] /\ executed[r] \in Nat
      BY <1>1, <2>2 DEF Refuse
    <3> QED BY <3>1, <3>2 DEF Reply
  <2> QED BY <2>1, <2>2
<1>3. /\ RunOK(run[r], "none", rp, n, token[r], au, disk[r], page[r])
      /\ au \subseteq Custody
  BY <1>2, ServedOK
<1>4. /\ request' \in [Run -> Request] /\ request'[r] = "none" /\ \A q \in Run \ {r} : request'[q] = request[q]
      /\ reply' \in [Run -> Reply] /\ reply'[r] = rp /\ \A q \in Run \ {r} : reply'[q] = reply[q]
  BY <1>1, <1>2 DEF Request
<1>5. /\ executed' \in [Run -> Nat] /\ executed'[r] = n /\ \A q \in Run \ {r} : executed'[q] = executed[q]
      /\ audit' \in [Run -> SUBSET Custody] /\ audit'[r] = au /\ \A q \in Run \ {r} : audit'[q] = audit[q]
  BY <1>1, <1>2, <1>3
<1>6. TypeOK'
  BY <1>4, <1>5 DEF Others, IInv, TypeOK
<1>7. ThisRun(r)' /\ LookupHeld'
  BY <1>3, <1>4, <1>5, NoneAssumption DEF Others, ThisRun, LookupHeld
<1> QED BY <1>4, <1>5, <1>6, <1>7, OneRun DEF Others

\* The middleware's steps for a run's request.
LEMMA McpOK ==
  ASSUME IInv, NEW r \in Run, Mcp(r)
  PROVE  IInv'
<1>1. Others /\ keyKnown \in BOOLEAN
  BY DEF Mcp, IInv, TypeOK
<1>2. CASE ServeCached(r)
  BY <1>1, <1>2, TakenOK DEF ServeCached, Serve
<1>3. CASE EndLookup(r)
  <2>1. request[r] # "none"
    BY <1>3 DEF EndLookup, IInv, LookupHeld
  <2>2. keyKnown' \in BOOLEAN
    BY <1>1, <1>3 DEF EndLookup
  <2> QED BY <1>1, <1>3, <2>1, <2>2, TakenOK DEF EndLookup, Serve
<1>4. CASE BeginLookup(r)
  <2>1. TypeOK'
    BY <1>1, <1>4 DEF BeginLookup, Others, IInv, TypeOK
  <2>2. LookupHeld'
    BY <1>4 DEF BeginLookup, LookupHeld
  <2>3. ASSUME NEW q \in Run PROVE ThisRun(q)'
    BY <1>1, <1>4 DEF BeginLookup, Others, IInv, ThisRun
  <2> QED BY <2>1, <2>2, <2>3 DEF IInv
<1> QED BY <1>2, <1>3, <1>4 DEF Mcp, ServiceStep

\* A step that no run can see.
LEMMA UnseenOK ==
  ASSUME IInv, UNCHANGED <<request, reply, token, executed, audit, run, disk, page, live>>,
         keycloak' \in BOOLEAN, keyKnown' \in BOOLEAN, lookup' \in {lookup, None, Other},
         expired' \subseteq Run, down' \subseteq Agent, faults' \in 0..MaxFaults
  PROVE  IInv'
<1>1. TypeOK'
  BY DEF IInv, TypeOK
<1>2. LookupHeld'
  BY NoneAssumption DEF IInv, LookupHeld
<1>3. ASSUME NEW q \in Run PROVE ThisRun(q)'
  BY DEF IInv, ThisRun
<1> QED BY <1>1, <1>2, <1>3 DEF IInv

\* Keycloak, the clock, other clients, and an agent that is started again.
LEMMA WorldOK ==
  ASSUME IInv,
         \/ OtherClient \/ KeycloakStops \/ KeycloakReturns
         \/ \E r \in Run : TokenExpires(r)
         \/ \E a \in Agent : AgentReturns(a)
  PROVE  IInv'
<1>1. /\ keycloak \in BOOLEAN /\ keyKnown \in BOOLEAN /\ expired \subseteq Run
      /\ down \subseteq Agent /\ faults \in 0..MaxFaults /\ MaxFaults \in Nat
  BY BoundAssumption DEF IInv, TypeOK
<1>2. CASE OtherClient
  <2>1. keyKnown' \in BOOLEAN
    BY <1>1, <1>2 DEF OtherClient, OtherBegins, OtherEnds
  <2> QED BY <1>1, <1>2, <2>1, UnseenOK DEF OtherClient, OtherBegins, OtherEnds, Others
<1>3. CASE KeycloakStops
  <2>1. faults' \in 0..MaxFaults
    BY <1>1, <1>3 DEF KeycloakStops, Fault
  <2> QED BY <1>1, <1>3, <2>1, UnseenOK DEF KeycloakStops, mcpVars
<1>4. CASE KeycloakReturns
  BY <1>1, <1>4, UnseenOK DEF KeycloakReturns, mcpVars, Others
<1>5. CASE \E r \in Run : TokenExpires(r)
  BY <1>1, <1>5, UnseenOK DEF TokenExpires, mcpVars, Others
<1>6. CASE \E a \in Agent : AgentReturns(a)
  BY <1>1, <1>6, UnseenOK DEF AgentReturns, mcpVars
<1> QED BY <1>2, <1>3, <1>4, <1>5, <1>6

\* The MCP service restarts: every open request breaks.
LEMMA McpRestartsOK ==
  ASSUME IInv, McpRestarts
  PROVE  IInv'
<1>1. /\ keyKnown' = FALSE /\ lookup' = None
      /\ request' = [r \in Run |-> "none"]
      /\ reply' = [r \in Run |-> IF request[r] # "none" THEN "broken" ELSE reply[r]]
      /\ UNCHANGED <<executed, audit, keycloak, token, expired, live, down, run, disk, page>>
  BY DEF McpRestarts, RestartService
<1>2. faults' \in 0..MaxFaults
  BY BoundAssumption DEF McpRestarts, Fault, IInv, TypeOK
<1>3. request' \in [Run -> Request] /\ reply' \in [Run -> Reply]
  BY <1>1 DEF IInv, TypeOK, Request, Reply
<1>4. TypeOK'
  BY <1>1, <1>2, <1>3 DEF IInv, TypeOK
<1>5. LookupHeld'
  BY <1>1, NoneAssumption DEF LookupHeld
<1>6. ASSUME NEW q \in Run PROVE ThisRun(q)'
  <2>1. request'[q] = "none"
    BY <1>1
  <2>2. CASE request[q] # "none"
    <3>1. reply'[q] = "broken" /\ "broken" \in Reply /\ executed[q] \in Nat
      BY <1>1, <2>2, OfRun DEF Reply
    <3>2. RunOK(run[q], "none", "broken", executed[q], token[q], audit[q], disk[q], page[q])
      BY <2>2, <3>1, ServedOK
    <3> QED BY <1>1, <2>1, <3>1, <3>2 DEF ThisRun
  <2>3. CASE request[q] = "none"
    <3>1. reply'[q] = reply[q]
      BY <1>1, <2>3
    <3> QED BY <1>1, <2>1, <2>3, <3>1 DEF ThisRun, IInv
  <2> QED BY <2>2, <2>3
<1> QED BY <1>4, <1>5, <1>6 DEF IInv

\* A process that dies takes its runs with it.
LEMMA AgentDiesOK ==
  ASSUME IInv, NEW a \in Agent, AgentDies(a)
  PROVE  IInv'
<1> DEFINE R == {r \in Run : run[r].agent = a /\ Active(r)}
           Lost(q) == [run[q] EXCEPT !.at = "lost"]
<1>1. /\ down' = down \cup {a} /\ Fault
      /\ run' = [q \in Run |-> IF q \in R THEN Lost(q) ELSE run[q]]
      /\ page' = [q \in Run |-> IF q \in R /\ page[q] = "waiting" THEN "error" ELSE page[q]]
      /\ UNCHANGED <<keycloak, token, expired, mcpVars, live, disk>>
  BY DEF AgentDies
<1>2. \A q \in R : run[q].at \notin {"idle", "done", "lost"}
  BY DEF Active
<1> HIDE DEF R
<1>3. ASSUME NEW q \in Run
      PROVE  Lost(q) \in AgentRun
  BY OfRun DEF AgentRun, Step
<1>4. run' \in [Run -> AgentRun]
  BY <1>1, <1>3, OfRun
<1>5. page' \in [Run -> Page]
  BY <1>1, OfRun DEF Page
<1>6. faults' \in 0..MaxFaults
  BY <1>1, BoundAssumption DEF Fault, IInv, TypeOK
<1>7. TypeOK'
  BY <1>1, <1>4, <1>5, <1>6 DEF mcpVars, IInv, TypeOK
<1>8. LookupHeld'
  BY <1>1 DEF mcpVars, IInv, LookupHeld
<1>9. ASSUME NEW q \in Run PROVE ThisRun(q)'
  <2>1. RunOK(run[q], request[q], reply[q], executed[q], token[q], audit[q], disk[q], page[q])
    BY OfRun
  <2>2. CASE q \notin R
    <3>1. run'[q] = run[q] /\ page'[q] = page[q]
      BY <1>1, <2>2
    <3> QED BY <1>1, <2>1, <3>1 DEF mcpVars, ThisRun
  <2>3. CASE q \in R
    <3> DEFINE c == run[q]
               s == Lost(q)
               pg == IF page[q] = "waiting" THEN "error" ELSE page[q]
    <3>1. c \in AgentRun /\ executed[q] \in Nat /\ c.trace \in Nat /\ c.turn \in Nat /\ c.at # "idle"
      BY <1>2, <2>3, OfRun DEF AgentRun
    <3>2. /\ s.agent = c.agent /\ s.at = "lost" /\ s.attempt = c.attempt
          /\ s.svid = c.svid /\ s.auth = c.auth /\ s.mcp = c.mcp /\ s.error = c.error
          /\ s.answer = c.answer /\ s.turn = c.turn /\ s.trace = c.trace
      BY <3>1 DEF AgentRun
    <3>3. pg \notin {"none", "login", "result"}
      BY <1>2, <2>1, <2>3 DEF RunOK
    <3>4. run'[q] = s /\ page'[q] = pg
      BY <1>1, <2>3
    <3> HIDE DEF s, pg
    <3>5. RunOK(s, request[q], reply[q], executed[q], token[q], audit[q], disk[q], pg)
      BY <2>1, <3>1, <3>2, <3>3 DEF RunOK, Counted, Sent, Judged, Named, Written, Early, Opening, InLoop, Ended
    <3> QED BY <1>1, <3>4, <3>5 DEF mcpVars, ThisRun
  <2> QED BY <2>2, <2>3
<1> QED BY <1>7, <1>8, <1>9 DEF IInv

-----------------------------------------------------------------------------
\* Every step of a run.
LEMMA RunStepOK ==
  ASSUME IInv, NEW r \in Run, RunStep(r)
  PROVE  IInv'
<1>1. CASE FetchJwtSvid(r) \/ FetchX509Svid(r)
  BY <1>1, FetchJwtSvidOK, FetchX509SvidOK
<1>2. CASE SecretToken(r) \/ SpiffeToken(r) \/ CertToken(r) \/ MtlsToken(r) \/ ExchangeToken(r)
  BY <1>2, TokenRequestOK
<1>3. CASE AuthFails(r) \/ OpenSession(r) \/ SessionOpened(r) \/ CallFails(r)
  BY <1>3, AuthFailsOK, OpenSessionOK, SessionOpenedOK, CallFailsOK
<1>4. CASE AskModel(r) \/ MockTurn(r)
  BY <1>4, ModelOK
<1>5. CASE CallTool(r) \/ ToolResult(r) \/ CloseSession(r) \/ Respond(r)
  BY <1>5, CallToolOK, ToolResultOK, CloseSessionOK, RespondOK
<1> QED BY <1>1, <1>2, <1>3, <1>4, <1>5 DEF RunStep

\* The invariant is inductive.
LEMMA NextOK == IInv /\ [Next]_vars => IInv'
<1> SUFFICES ASSUME IInv, [Next]_vars PROVE IInv'
  OBVIOUS
<1>1. CASE \E r \in Run, a \in Agent : SendToLogin(r, a) \/ Visit(r, a)
  BY <1>1, SendToLoginOK, VisitOK
<1>2. CASE \E r \in Run : PageTimeout(r) \/ RunStep(r) \/ Mcp(r)
  BY <1>2, PageTimeoutOK, RunStepOK, McpOK
<1>3. CASE \E a \in Agent : AgentDies(a)
  BY <1>3, AgentDiesOK
<1>4. CASE McpRestarts
  BY <1>4, McpRestartsOK
<1>5. CASE \/ OtherClient \/ KeycloakStops \/ KeycloakReturns
           \/ \E r \in Run : TokenExpires(r)
           \/ \E a \in Agent : AgentReturns(a)
  BY <1>5, WorldOK
<1>6. CASE UNCHANGED vars
  <2>1. TypeOK' /\ LookupHeld'
    BY <1>6 DEF vars, mcpVars, IInv, TypeOK, LookupHeld
  <2>2. ASSUME NEW q \in Run PROVE ThisRun(q)'
    BY <1>6 DEF vars, mcpVars, IInv, ThisRun
  <2> QED BY <2>1, <2>2 DEF IInv
<1> QED BY <1>1, <1>2, <1>3, <1>4, <1>5, <1>6 DEF Next

(***************************************************************************)
(* The inductive invariant holds in every reachable state.                  *)
(***************************************************************************)
THEOREM Invariance == Spec => []IInv
<1> QED BY InitOK, NextOK, PTL DEF Spec

(***************************************************************************)
(* Every variable keeps its type, whatever the agents, runs and faults.     *)
(***************************************************************************)
THEOREM TypeCorrect == Spec => []TypeOK
<1> QED BY Invariance, InvImplies, PTL

(***************************************************************************)
(* On every way out of run_agent the report has an answer or the reason     *)
(* there is none (ai-agents/*/agent.py).                                    *)
(***************************************************************************)
THEOREM RunsEndWithReason == Spec => []EndsWithReason
<1> QED BY Invariance, InvImplies, PTL

(***************************************************************************)
(* The report of a run lists no call that was not executed, and misses one  *)
(* only when the tool loop failed, for any number of iterations and blocks. *)
(***************************************************************************)
THEOREM TraceIsHonest == Spec => []TraceTellsItsGaps
<1> QED BY Invariance, InvImplies, PTL

(***************************************************************************)
(* A result page without an answer or a reason means that the tool loop     *)
(* failed or that the model had nothing to say.                             *)
(***************************************************************************)
THEOREM SilenceIsTheLoops == Spec => []SilentOnlyAboutTheLoop
<1> QED BY Invariance, InvImplies, PTL

(***************************************************************************)
(* The files of the SVID a run authenticated with are gone when it ends.    *)
(***************************************************************************)
THEOREM KeysAreRemoved == Spec => []UsedKeyIsRemoved
<1> QED BY Invariance, InvImplies, PTL

(***************************************************************************)
(* The MCP service's audit line names the user and the agent of a delegated *)
(* call and the agent alone otherwise, as the report's custody chain does.  *)
(***************************************************************************)
THEOREM AuditIsTruthful == Spec => []AuditNamesBoth
<1> QED BY Invariance, InvImplies, PTL

-----------------------------------------------------------------------------
\* A tool is executed only for an accepted request.
LEMMA ExecutesAccepted ==
  ASSUME IInv, [Next]_vars, NEW r \in Run, executed'[r] # executed[r]
  PROVE  Mcp(r) /\ Execute(r) /\ request[r] = "tool" /\ Accepts(r) /\ keyKnown'
<1>1. executed' # executed
  OBVIOUS
<1>2. PICK q \in Run : Mcp(q)
  BY <1>1 DEF Next, vars, mcpVars, SendToLogin, Visit, PageTimeout, TokenExpires, Others,
              AgentDies, AgentReturns, OtherClient, OtherBegins, OtherEnds, McpRestarts,
              RestartService, KeycloakStops, KeycloakReturns, RunStep, Inside,
              FetchJwtSvid, FetchX509Svid, SecretToken, SpiffeToken, CertToken, MtlsToken,
              ExchangeToken, Authenticated, AuthFails, OpenSession, SessionOpened, Send,
              CallFails, AskModel, MockTurn, CallTool, ToolResult, CloseSession, Respond
<1>3. Execute(q) /\ Accepts(q) /\ keyKnown'
  BY <1>1, <1>2 DEF Mcp, ServiceStep, ServeCached, BeginLookup, EndLookup, Serve, Refuse
<1>4. executed \in [Run -> Nat]
  BY DEF IInv, TypeOK
<1>5. request[q] = "tool" /\ q = r
  BY <1>3, <1>4 DEF Execute
<1> QED BY <1>2, <1>3, <1>5

(***************************************************************************)
(* Whatever waits, expires or restarts in between, a tool runs on a token   *)
(* that the MCP service finds good at that moment.                          *)
(***************************************************************************)
THEOREM ToolsAreGuarded == Spec => ToolsRunOnGoodTokens
<1> DEFINE Guarded == \A r \in Run : executed'[r] # executed[r] =>
                        /\ token[r] # None /\ r \notin expired /\ token[r].aud /\ token[r].scope
                        /\ keyKnown'
<1>1. IInv /\ [Next]_vars => [Guarded]_vars
  <2> SUFFICES ASSUME IInv, [Next]_vars, NEW r \in Run, executed'[r] # executed[r]
               PROVE  /\ token[r] # None /\ r \notin expired /\ token[r].aud /\ token[r].scope
                      /\ keyKnown'
    OBVIOUS
  <2>1. request[r] = "tool" /\ Accepts(r) /\ keyKnown'
    BY ExecutesAccepted
  <2>2. token[r] # None
    BY <2>1, OfRun DEF RunOK, Sent
  <2> QED BY <2>1, <2>2 DEF Accepts
<1> QED BY <1>1, Invariance, PTL DEF Spec, ToolsRunOnGoodTokens

-----------------------------------------------------------------------------
\* What the abstract report sees of a run.
Told(r) == IF Finished(r) THEN run[r].trace ELSE 0

UnderWay(c) == c.at \notin {"idle", "done", "lost"}

\* A run under way that stays under way: the abstract report stutters.
LEMMA Stutters ==
  ASSUME IInv, NEW r \in Run, NEW s, Becomes(r, s), UnderWay(run[r]), UnderWay(s),
         executed' = executed
  PROVE  UNCHANGED Reported!vars
<1>1. run' = [run EXCEPT ![r] = s] /\ run \in [Run -> AgentRun]
  BY DEF Becomes, IInv, TypeOK
<1>2. run'[r] = s /\ \A q \in Run \ {r} : run'[q] = run[q]
  BY <1>1
<1>3. ASSUME NEW q \in Run
      PROVE  Verdict(q)' = Verdict(q) /\ Told(q)' = Told(q)
  <2>1. CASE q = r
    BY <1>2, <2>1 DEF Verdict, Told, Finished, UnderWay
  <2>2. CASE q # r
    BY <1>2, <2>2 DEF Verdict, Told, Finished
  <2> QED BY <2>1, <2>2
<1> QED BY <1>3 DEF Reported!vars, Told

\* A run that no step touches keeps its verdict.
LEMMA SameRuns ==
  ASSUME UNCHANGED <<run, executed>>
  PROVE  UNCHANGED Reported!vars
BY DEF Reported!vars, Verdict, Finished

\* A run's own steps but for its report.
LEMMA OwnStepsStutter ==
  ASSUME IInv, NEW r \in Run, RunStep(r), ~Respond(r)
  PROVE  UNCHANGED Reported!vars
<1> DEFINE c == run[r]
           Moves(s) == Becomes(r, s) /\ UnderWay(c) /\ UnderWay(s)
<1> SUFFICES executed' = executed /\ \E s : Moves(s)
  BY Stutters
<1>1. c \in AgentRun
  BY OfRun
<1>2. executed' = executed
  BY DEF RunStep, Inside, mcpVars, FetchJwtSvid, FetchX509Svid, SecretToken, SpiffeToken, CertToken,
         MtlsToken, ExchangeToken, Authenticated, AuthFails, OpenSession, SessionOpened, Send,
         CallFails, AskModel, MockTurn, CallTool, ToolResult, CloseSession
<1>3. ASSUME c.at = "svid", Attested(r) \/ AttemptFails(r)
      PROVE  \E s : Moves(s)
  <2>1. CASE Attested(r)
    <3>1. UnderWay([c EXCEPT !.svid = "ok", !.at = "auth"])
      BY <1>1 DEF UnderWay, AgentRun
    <3> QED BY <1>3, <2>1, <3>1 DEF Attested, UnderWay
  <2>2. CASE AttemptFails(r)
    <3> DEFINE next == c.attempt + 1
    <3> HIDE DEF next
    <3>1. /\ UnderWay([c EXCEPT !.attempt = next])
          /\ UnderWay([c EXCEPT !.svid = "failed", !.error = TRUE, !.at = "respond"])
      BY <1>1, <1>3 DEF UnderWay, AgentRun
    <3> QED BY <1>3, <2>2, <3>1 DEF AttemptFails, UnderWay, next
  <2> QED BY <1>3, <2>1, <2>2
<1>4. CASE FetchJwtSvid(r) \/ FetchX509Svid(r)
  BY <1>2, <1>3, <1>4 DEF FetchJwtSvid, FetchX509Svid
<1>5. CASE \/ SecretToken(r) \/ SpiffeToken(r) \/ CertToken(r) \/ MtlsToken(r) \/ ExchangeToken(r)
           \/ AuthFails(r)
  <2>1. /\ UnderWay([c EXCEPT !.auth = "ok", !.at = "open"])
        /\ UnderWay([c EXCEPT !.auth = "failed", !.at = "respond"])
    BY <1>1 DEF UnderWay, AgentRun
  <2> QED BY <1>2, <1>5, <2>1 DEF SecretToken, SpiffeToken, CertToken, MtlsToken, ExchangeToken,
                                  Authenticated, AuthFails, UnderWay
<1>6. CASE OpenSession(r) \/ SessionOpened(r) \/ CallTool(r)
  <2>1. /\ UnderWay([c EXCEPT !.at = "opening"]) /\ UnderWay([c EXCEPT !.at = "calling"])
        /\ UnderWay([c EXCEPT !.mcp = "ok", !.at = "loop"])
    BY <1>1 DEF UnderWay, AgentRun
  <2> QED BY <1>2, <1>6, <2>1 DEF OpenSession, SessionOpened, CallTool, Send, UnderWay
<1>7. ASSUME Raised(r), UnderWay(c)
      PROVE  \E s : Moves(s)
  <2> DEFINE zero == 0
             blame == IF c.mcp = "none" THEN "failed" ELSE c.mcp
             open == c.mcp # "none"
             s == [c EXCEPT !.mcp = blame, !.error = open, !.turn = zero, !.blocks = zero,
                            !.at = "respond"]
  <2>1. Becomes(r, s)
    BY <1>7 DEF Raised
  <2> HIDE DEF zero, blame, open
  <2>2. UnderWay(s)
    BY <1>1 DEF UnderWay, AgentRun
  <2> QED BY <1>7, <2>1, <2>2
<1>8. CASE CallFails(r)
  BY <1>2, <1>7, <1>8 DEF CallFails, UnderWay
<1>9. CASE AskModel(r) \/ MockTurn(r)
  <2>1. ASSUME NEW n PROVE UnderWay([c EXCEPT !.blocks = n, !.at = "tools"])
    BY <1>1 DEF UnderWay, AgentRun
  <2>2. ASSUME NEW answer PROVE UnderWay([c EXCEPT !.answer = answer, !.at = "exit"])
    BY <1>1 DEF UnderWay, AgentRun
  <2> QED BY <1>2, <1>7, <1>9, <2>1, <2>2 DEF AskModel, MockTurn, UnderWay
<1>10. CASE ToolResult(r)
  <2> DEFINE zero == 0
             left == c.blocks - 1
             more == c.turn + 1
             all == c.trace + c.turn + 1
             next == c.iteration + 1
             s1 == [c EXCEPT !.turn = more, !.blocks = left, !.at = "tools"]
             s2 == [c EXCEPT !.trace = all, !.turn = zero, !.blocks = zero, !.error = TRUE, !.at = "exit"]
             s3 == [c EXCEPT !.trace = all, !.turn = zero, !.blocks = zero, !.iteration = next, !.at = "loop"]
  <2>1. Becomes(r, s1) \/ Becomes(r, s2) \/ Becomes(r, s3)
    BY <1>10 DEF ToolResult, LoopGivesUp, TurnAppended
  <2> HIDE DEF zero, left, more, all, next
  <2>2. UnderWay(s1) /\ UnderWay(s2) /\ UnderWay(s3)
    BY <1>1 DEF UnderWay, AgentRun
  <2>3. UnderWay(c)
    BY <1>10 DEF ToolResult, UnderWay
  <2> HIDE DEF s1, s2, s3
  <2> QED BY <1>2, <2>1, <2>2, <2>3
<1>11. CASE CloseSession(r)
  <2>1. UnderWay([c EXCEPT !.at = "respond"]) /\ UnderWay(c)
    BY <1>1, <1>11 DEF UnderWay, AgentRun, CloseSession
  <2> QED BY <1>2, <1>7, <1>11, <2>1 DEF CloseSession
<1> QED BY <1>4, <1>5, <1>6, <1>8, <1>9, <1>10, <1>11 DEF RunStep

\* POST /run starts a run.
LEMMA VisitStarts ==
  ASSUME IInv, NEW r \in Run, NEW a \in Agent, Visit(r, a)
  PROVE  [Reported!Next]_(Reported!vars)
<1>1. executed' = executed /\ run \in [Run -> AgentRun]
  BY DEF Visit, mcpVars, IInv, TypeOK
<1>2. CASE a \in down
  BY <1>1, <1>2, SameRuns DEF Visit
<1>3. CASE a \notin down
  <2> DEFINE first == FirstStep(a)
             s == [NoRun EXCEPT !.agent = a, !.at = first]
  <2>1. first \in {"svid", "auth"} /\ run' = [run EXCEPT ![r] = s]
    BY <1>3 DEF Visit, Becomes, FirstStep
  <2> HIDE DEF first
  <2>2. s.at = first
    BY DEF NoRun
  <2> HIDE DEF s
  <2>3. run'[r].at \in {"svid", "auth"} /\ \A q \in Run \ {r} : run'[q] = run[q]
    BY <1>1, <2>1, <2>2
  <2>4. run[r].at = "idle"
    BY OfRun DEF Visit, RunOK
  <2>5. Verdict(r) = "new" /\ Verdict(r)' = "running" /\ Told(r) = 0 /\ Told(r)' = 0
    BY <2>3, <2>4 DEF Verdict, Told, Finished
  <2>6. \A q \in Run \ {r} : Verdict(q)' = Verdict(q) /\ Told(q)' = Told(q)
    BY <2>3 DEF Verdict, Told, Finished
  <2>7. Reported!Start(r)
    BY <1>1, <2>5, <2>6 DEF Reported!Start, Told
  <2> QED BY <2>7 DEF Reported!Next
<1> QED BY <1>2, <1>3

\* The report goes out: an answered run lists every call, a failed one no more.
LEMMA RespondReports ==
  ASSUME IInv, NEW r \in Run, Respond(r)
  PROVE  [Reported!Next]_(Reported!vars)
<1> DEFINE c == run[r]
           s == [c EXCEPT !.at = "done"]
<1>1. c \in AgentRun /\ executed[r] \in Nat /\ c.trace \in Nat /\ c.turn \in Nat
      /\ Counted(c, request[r], reply[r], executed[r])
      /\ run \in [Run -> AgentRun]
  BY OfRun DEF RunOK, AgentRun, IInv, TypeOK
<1>2. c.at = "respond" /\ run' = [run EXCEPT ![r] = s] /\ executed' = executed
  BY DEF Respond, Becomes, mcpVars
<1>3. s.at = "done" /\ s.answer = c.answer /\ s.trace = c.trace
  BY <1>1 DEF AgentRun
<1> HIDE DEF s
<1>4. run'[r] = s /\ \A q \in Run \ {r} : run'[q] = run[q]
  BY <1>1, <1>2
<1>5. /\ Verdict(r) = "running" /\ Told(r) = 0 /\ Told(r)' = c.trace
      /\ Verdict(r)' = IF c.answer # "none" THEN "answered" ELSE "failed"
  BY <1>2, <1>3, <1>4 DEF Verdict, Told, Finished
<1>6. \A q \in Run \ {r} : Verdict(q)' = Verdict(q) /\ Told(q)' = Told(q)
  BY <1>4 DEF Verdict, Told, Finished
<1>7. CASE c.answer # "none"
  <2>1. c.trace = executed[r]
    BY <1>1, <1>7 DEF Counted
  <2>2. Reported!Answer(r)
    BY <1>2, <1>5, <1>6, <1>7, <2>1 DEF Reported!Answer, Told
  <2> QED BY <2>2 DEF Reported!Next
<1>8. CASE c.answer = "none"
  <2>1. c.trace \in 0..executed[r]
    BY <1>1 DEF Counted
  <2>2. Reported!Fail(r)
    BY <1>2, <1>5, <1>6, <1>8, <2>1 DEF Reported!Fail, Told
  <2> QED BY <2>2 DEF Reported!Next
<1> QED BY <1>7, <1>8

\* A tool is executed for a run that has not answered.
LEMMA McpCalls ==
  ASSUME IInv, NEW r \in Run, Mcp(r)
  PROVE  [Reported!Next]_(Reported!vars)
<1>1. run' = run /\ executed \in [Run -> Nat]
  BY DEF Mcp, Others, IInv, TypeOK
<1>2. CASE executed' = executed
  BY <1>1, <1>2, SameRuns
<1>3. CASE executed' # executed
  <2>1. Execute(r) /\ request[r] # "none"
    BY <1>3 DEF Mcp, ServiceStep, ServeCached, BeginLookup, EndLookup, Serve, Refuse, IInv, LookupHeld
  <2>2. request[r] = "tool" /\ executed' = [executed EXCEPT ![r] = @ + 1]
    BY <1>1, <1>3, <2>1 DEF Execute
  <2>3. /\ Counted(run[r], request[r], reply[r], executed[r])
        /\ Sent(run[r], request[r], reply[r], token[r])
    BY OfRun DEF RunOK
  <2>4. run[r].at \in {"calling", "respond", "done", "lost"} /\ run[r].answer = "none"
    BY <2>2, <2>3 DEF Counted, Sent
  <2>5. Verdict(r) \in {"running", "failed", "lost"}
    BY <2>4 DEF Verdict, Finished
  <2>6. \A q \in Run : Verdict(q)' = Verdict(q) /\ Told(q)' = Told(q)
    BY <1>1 DEF Verdict, Told, Finished
  <2>7. Reported!Call(r)
    BY <2>2, <2>5, <2>6 DEF Reported!Call, Told
  <2> QED BY <2>7 DEF Reported!Next
<1> QED BY <1>2, <1>3

\* A process dies: its runs are lost, or it had none.
LEMMA AgentDiesLoses ==
  ASSUME IInv, NEW a \in Agent, AgentDies(a)
  PROVE  [Reported!Next]_(Reported!vars)
<1> DEFINE R == {r \in Run : run[r].agent = a /\ Active(r)}
<1>1. /\ run' = [q \in Run |-> IF q \in R THEN [run[q] EXCEPT !.at = "lost"] ELSE run[q]]
      /\ executed' = executed
  BY DEF AgentDies, mcpVars
<1>2. ASSUME NEW q \in R
      PROVE  Verdict(q) = "running" /\ Verdict(q)' = "lost" /\ Told(q) = 0 /\ Told(q)' = 0
  <2>1. run[q] \in AgentRun /\ UnderWay(run[q])
    BY <1>2, OfRun DEF Active, UnderWay
  <2>2. run'[q].at = "lost"
    BY <1>1, <2>1 DEF AgentRun
  <2> QED BY <2>1, <2>2 DEF Verdict, Told, Finished, UnderWay
<1>3. ASSUME NEW q \in Run \ R
      PROVE  Verdict(q)' = Verdict(q) /\ Told(q)' = Told(q)
  <2>1. run'[q] = run[q]
    BY <1>1
  <2> QED BY <2>1 DEF Verdict, Told, Finished
<1>4. R \in SUBSET Run
  OBVIOUS
<1> HIDE DEF R
<1>5. CASE R = {}
  <2>1. \A q \in Run : Verdict(q)' = Verdict(q) /\ Told(q)' = Told(q)
    BY <1>3, <1>5
  <2> QED BY <1>1, <2>1 DEF Reported!vars, Told
<1>6. CASE R # {}
  <2>1. Reported!Lose(R)
    BY <1>1, <1>2, <1>3, <1>4, <1>6 DEF Reported!Lose, Told
  <2> QED BY <1>4, <2>1 DEF Reported!Next
<1> QED BY <1>5, <1>6

\* Every step of an agent's run is one of the abstract report, or none.
LEMMA StepRefines == IInv /\ [Next]_vars => [Reported!Next]_(Reported!vars)
<1> SUFFICES ASSUME IInv, [Next]_vars PROVE [Reported!Next]_(Reported!vars)
  OBVIOUS
<1>1. CASE \E r \in Run, a \in Agent : Visit(r, a)
  BY <1>1, VisitStarts
<1>2. CASE \E r \in Run : RunStep(r)
  BY <1>2, OwnStepsStutter, RespondReports
<1>3. CASE \E r \in Run : Mcp(r)
  BY <1>3, McpCalls
<1>4. CASE \E a \in Agent : AgentDies(a)
  BY <1>4, AgentDiesLoses
<1>5. CASE \/ \E r \in Run, a \in Agent : SendToLogin(r, a)
           \/ \E r \in Run : PageTimeout(r) \/ TokenExpires(r)
           \/ \E a \in Agent : AgentReturns(a)
           \/ OtherClient \/ McpRestarts \/ KeycloakStops \/ KeycloakReturns
           \/ UNCHANGED vars
  <2>1. UNCHANGED <<run, executed>>
    BY <1>5 DEF SendToLogin, PageTimeout, TokenExpires, AgentReturns, OtherClient, OtherBegins,
                OtherEnds, McpRestarts, RestartService, KeycloakStops, KeycloakReturns,
                Others, mcpVars, vars
  <2> QED BY <2>1, SameRuns
<1> QED BY <1>1, <1>2, <1>3, <1>4, <1>5 DEF Next

(***************************************************************************)
(* The safety part of the refinement: the runs of the agents, with their    *)
(* report and the calls executed for them, behave as ReportedRun says.      *)
(***************************************************************************)
THEOREM RunsAreReported == Spec => Reported!Init /\ [][Reported!Next]_(Reported!vars)
<1>1. Init => Reported!Init
  <2>1. NoRun.at = "idle"
    BY DEF NoRun
  <2>2. Init => \A r \in Run : run[r].at = "idle"
    BY <2>1 DEF Init
  <2> QED BY <2>2 DEF Init, Reported!Init, Verdict, Finished
<1> QED BY <1>1, StepRefines, Invariance, PTL DEF Spec

=============================================================================
