--------------------------- MODULE DeviceFlowProofs ---------------------------
(***************************************************************************)
(* Proofs about DeviceFlow, for any number of tabs, device flows and        *)
(* faults: type correctness, that a poll gives up no usable code, and what   *)
(* it takes for a page to show another flow's tokens.                       *)
(***************************************************************************)
EXTENDS DeviceFlow, TLAPS

PageState == [view : {"closed", "loading", "waiting", "token", "error"},
              code : CodeOrNone, shown : CodeOrNone]

ReqState == [phase : {"idle", "sent", "answered"}, copy : CodeOrNone, save : BOOLEAN,
             answer : {"none", "page", "failed", "pending", "success", "error"}]

CodeState == {"unused", "pending", "approved", "redeemed", "void"}

\* The constant records have their types.
LEMMA Records ==
  /\ Closed \in PageState /\ Failed \in PageState /\ Idle \in ReqState
  /\ [Closed EXCEPT !.view = "loading"] \in PageState
  /\ \A c \in CodeOrNone : [Closed EXCEPT !.view = "waiting", !.code = c] \in PageState
  /\ \A c \in CodeOrNone : [Idle EXCEPT !.phase = "sent", !.copy = c] \in ReqState
  /\ \A a \in {"failed", "pending", "error"} :
       /\ [Idle EXCEPT !.phase = "answered", !.answer = a] \in ReqState
       /\ [Idle EXCEPT !.phase = "answered", !.answer = a].save = FALSE
<1>1. Closed \in PageState /\ Idle \in ReqState /\ Idle.save = FALSE
  BY DEF Closed, Idle, PageState, ReqState, CodeOrNone
<1>2. Failed \in PageState
  BY <1>1 DEF Failed, PageState
<1>3. \A c \in CodeOrNone : [Closed EXCEPT !.view = "waiting", !.code = c] \in PageState
  BY <1>1 DEF PageState
<1>4. \A c \in CodeOrNone : [Idle EXCEPT !.phase = "sent", !.copy = c] \in ReqState
  BY <1>1 DEF ReqState
<1>5. ASSUME NEW a \in {"failed", "pending", "error"}
      PROVE  /\ [Idle EXCEPT !.phase = "answered", !.answer = a] \in ReqState
             /\ [Idle EXCEPT !.phase = "answered", !.answer = a].save = FALSE
  BY <1>1 DEF ReqState
<1>6. [Closed EXCEPT !.view = "loading"] \in PageState
  BY <1>1 DEF PageState
<1> QED BY <1>1, <1>2, <1>3, <1>4, <1>5, <1>6

LEMMA Types ==
  TypeOK <=> /\ cookie \in CodeOrNone /\ page \in [Tab -> PageState] /\ req \in [Tab -> ReqState]
             /\ other \in SUBSET CodeOrNone /\ kc \in [Code -> CodeState] /\ faults \in 0..MaxFaults
BY DEF TypeOK, PageState, ReqState, CodeState

LEMMA FaultOK ==
  ASSUME faults \in 0..MaxFaults, Fault
  PROVE  faults' \in 0..MaxFaults /\ faults' # faults
BY FaultsAssumption DEF Fault

\* What a handler leaves in the request of its tab.
LEMMA AnswersOK ==
  ASSUME req \in [Tab -> ReqState], NEW t \in Tab
  PROVE  /\ \A a \in {"failed", "pending", "error"} :
              NoSave(t, a) => req' \in [Tab -> ReqState] /\ req'[t].save = FALSE
         /\ \A a \in {"success", "error"} : Popped(t, a) => req' \in [Tab -> ReqState]
         /\ \A c \in CodeOrNone : Save(t, c, "page") => req' \in [Tab -> ReqState]
<1>1. ASSUME NEW a \in {"failed", "pending", "error"}, NoSave(t, a)
      PROVE  req' \in [Tab -> ReqState] /\ req'[t].save = FALSE
  <2> DEFINE s == [Idle EXCEPT !.phase = "answered", !.answer = a]
  <2>1. s \in ReqState /\ s.save = FALSE
    BY Records
  <2>2. req' = [req EXCEPT ![t] = s]
    BY <1>1 DEF NoSave
  <2> HIDE DEF s
  <2> QED BY <2>1, <2>2
<1>2. ASSUME NEW a \in {"success", "error"}, Popped(t, a)
      PROVE  req' \in [Tab -> ReqState]
  <2> DEFINE s == [req[t] EXCEPT !.phase = "answered", !.save = TRUE, !.answer = a]
  <2>1. s \in ReqState
    BY DEF ReqState
  <2>2. req' = [req EXCEPT ![t] = s]
    BY <1>2 DEF Popped
  <2> HIDE DEF s
  <2> QED BY <2>1, <2>2
<1>3. ASSUME NEW c \in CodeOrNone, Save(t, c, "page")
      PROVE  req' \in [Tab -> ReqState]
  <2>1. [phase |-> "answered", copy |-> c, save |-> TRUE, answer |-> "page"] \in ReqState
    BY DEF ReqState
  <2> QED BY <1>3, <2>1 DEF Save
<1> QED BY <1>1, <1>2, <1>3

\* The handlers.
LEMMA ServerOK ==
  ASSUME TypeOK, NEW t \in Tab, DeviceFlow(t) \/ DevicePoll(t)
  PROVE  TypeOK'
<1>1. /\ cookie \in CodeOrNone /\ page \in [Tab -> PageState] /\ req \in [Tab -> ReqState]
      /\ other \in SUBSET CodeOrNone /\ kc \in [Code -> CodeState] /\ faults \in 0..MaxFaults
  BY Types
<1>2. Fault => faults' \in 0..MaxFaults
  BY <1>1, FaultOK
<1>3. /\ UNCHANGED <<cookie, page, other>>
      /\ faults' = faults \/ Fault
  BY DEF DeviceFlow, DevicePoll
<1>4. req' \in [Tab -> ReqState] /\ kc' \in [Code -> CodeState]
  <2>1. CASE DeviceFlow(t)
    <3>1. CASE NoSave(t, "failed") /\ UNCHANGED kc
      BY <1>1, <3>1, AnswersOK
    <3>2. CASE Unused # {} /\ LET c == CHOOSE x \in Unused : TRUE
                              IN  kc' = [kc EXCEPT ![c] = "pending"] /\ Save(t, c, "page")
      <4> DEFINE c == CHOOSE x \in Unused : TRUE
      <4>1. kc' = [kc EXCEPT ![c] = "pending"] /\ Save(t, c, "page")
        BY <3>2
      <4>2. c \in Code /\ c \in CodeOrNone
        BY <3>2 DEF Unused, CodeOrNone
      <4> HIDE DEF c
      <4>3. kc' \in [Code -> CodeState]
        BY <1>1, <4>1, <4>2 DEF CodeState
      <4> QED BY <1>1, <4>1, <4>2, <4>3, AnswersOK
    <3> QED BY <2>1, <3>1, <3>2 DEF DeviceFlow
  <2>2. CASE DevicePoll(t)
    <3>1. \/ \E a \in {"failed", "pending", "error"} : NoSave(t, a)
          \/ \E a \in {"success", "error"} : Popped(t, a)
      BY <2>2 DEF DevicePoll
    <3>2. kc' = kc \/ kc' = [kc EXCEPT ![req[t].copy] = "redeemed"]
      BY <2>2 DEF DevicePoll
    <3>3. kc' \in [Code -> CodeState]
      BY <1>1, <3>2 DEF CodeState
    <3> QED BY <1>1, <3>1, <3>3, AnswersOK
  <2> QED BY <2>1, <2>2
<1> QED BY <1>1, <1>2, <1>3, <1>4 DEF TypeOK, PageState, ReqState, CodeState

\* The browser's side of a tab.
LEMMA TabOK ==
  ASSUME TypeOK, NEW t \in Tab,
         Open(t) \/ Loaded(t) \/ Poll(t) \/ Polled(t) \/ Lost(t) \/ Close(t) \/ Ignored(t)
  PROVE  TypeOK'
<1>1. /\ cookie \in CodeOrNone /\ page \in [Tab -> PageState] /\ req \in [Tab -> ReqState]
      /\ other \in SUBSET CodeOrNone /\ kc \in [Code -> CodeState] /\ faults \in 0..MaxFaults
  BY Types
<1>2. req[t].copy \in CodeOrNone /\ None \in CodeOrNone
  BY <1>1 DEF ReqState, CodeOrNone
<1>3. UNCHANGED <<other, kc>> /\ faults' \in 0..MaxFaults
  BY <1>1, FaultOK DEF Open, Loaded, Poll, Polled, Lost, Close, Ignored
<1>4. cookie' \in CodeOrNone
  BY <1>1, <1>2 DEF Open, Loaded, Poll, Polled, Lost, Close, Ignored
<1>5. req' \in [Tab -> ReqState]
  <2>1. \/ req' = req \/ req' = [req EXCEPT ![t] = Idle]
        \/ req' = [req EXCEPT ![t] = [Idle EXCEPT !.phase = "sent", !.copy = cookie]]
    BY DEF Open, Loaded, Poll, Polled, Lost, Close, Ignored
  <2> QED BY <1>1, <2>1, Records
<1>6. page' \in [Tab -> PageState]
  <2>1. Show(t, req[t].answer, req[t].copy) \in PageState
    <3> DEFINE c == req[t].copy
    <3>1. [page[t] EXCEPT !.view = "token", !.shown = c] \in PageState
      BY <1>1, <1>2 DEF PageState
    <3> HIDE DEF c
    <3>2. \/ Show(t, req[t].answer, c) = [page[t] EXCEPT !.view = "token", !.shown = c]
          \/ Show(t, req[t].answer, c) = page[t]
          \/ Show(t, req[t].answer, c) = Failed
      BY DEF Show
    <3>3. Show(t, req[t].answer, c) \in PageState
      BY <1>1, <3>1, <3>2, Records
    <3> QED BY <3>3 DEF c
  <2>2. \/ page' = page
        \/ \E s \in {Closed, Failed, [Closed EXCEPT !.view = "loading"],
                     [Closed EXCEPT !.view = "waiting", !.code = req[t].copy],
                     Show(t, req[t].answer, req[t].copy)} : page' = [page EXCEPT ![t] = s]
    BY DEF Open, Loaded, Poll, Polled, Lost, Close, Ignored
  <2>3. \A s \in {Closed, Failed, [Closed EXCEPT !.view = "loading"],
                  [Closed EXCEPT !.view = "waiting", !.code = req[t].copy],
                  Show(t, req[t].answer, req[t].copy)} : s \in PageState
    BY <1>2, <2>1, Records
  <2> QED BY <1>1, <2>2, <2>3
<1> QED BY <1>1, <1>3, <1>4, <1>5, <1>6 DEF TypeOK, PageState, ReqState, CodeState

\* The user, time and the other pages.
LEMMA RestOK ==
  ASSUME TypeOK, (\E c \in Code : Decide(c) \/ Expire(c)) \/ OtherSend \/ OtherReceive
  PROVE  TypeOK'
<1>1. /\ cookie \in CodeOrNone /\ page \in [Tab -> PageState] /\ req \in [Tab -> ReqState]
      /\ other \in SUBSET CodeOrNone /\ kc \in [Code -> CodeState] /\ faults \in 0..MaxFaults
  BY Types
<1>2. ASSUME NEW c \in Code, Decide(c) \/ Expire(c)
      PROVE  TypeOK'
  <2>1. /\ kc' \in {[kc EXCEPT ![c] = "approved"], [kc EXCEPT ![c] = "void"]}
        /\ UNCHANGED <<cookie, page, req, other, faults>>
    BY <1>2 DEF Decide, Expire
  <2>2. kc' \in [Code -> CodeState]
    BY <1>1, <2>1 DEF CodeState
  <2> QED BY <1>1, <2>1, <2>2 DEF TypeOK, PageState, ReqState, CodeState
<1>3. CASE OtherSend \/ OtherReceive
  <2>1. /\ cookie' \in CodeOrNone /\ other' \in SUBSET CodeOrNone
        /\ UNCHANGED <<page, req, kc, faults>>
    BY <1>1, <1>3 DEF OtherSend, OtherReceive
  <2> QED BY <1>1, <2>1 DEF TypeOK, PageState, ReqState, CodeState
<1> QED BY <1>2, <1>3

(***************************************************************************)
(* Session, pages, requests and codes keep their types.                     *)
(***************************************************************************)
THEOREM TypeCorrect == Spec => []TypeOK
<1>1. Init => TypeOK
  <2> SUFFICES ASSUME Init PROVE TypeOK
    OBVIOUS
  <2>1. page \in [Tab -> PageState] /\ req \in [Tab -> ReqState]
    BY Records DEF Init
  <2>2. kc \in [Code -> CodeState] /\ cookie \in CodeOrNone /\ other \in SUBSET CodeOrNone
    BY DEF Init, CodeState, CodeOrNone
  <2>3. faults \in 0..MaxFaults
    BY FaultsAssumption DEF Init
  <2> QED BY <2>1, <2>2, <2>3, Types
<1>2. TypeOK /\ [Next]_vars => TypeOK'
  <2>1. TypeOK /\ Next => TypeOK'
    BY ServerOK, TabOK, RestOK DEF Next
  <2>2. TypeOK /\ UNCHANGED vars => TypeOK'
    BY DEF vars, TypeOK
  <2> QED BY <2>1, <2>2
<1> QED BY <1>1, <1>2, PTL DEF Spec

(***************************************************************************)
(* No answer of Keycloak makes device_poll forget a code that the user can  *)
(* still approve or has approved, with any number of tabs.                  *)
(***************************************************************************)
THEOREM UsableCodesAreKept == Spec => KeepsUsableCode
<1> DEFINE Keeps == \A t \in Tab :
             LET c == req[t].copy
             IN  /\ DevicePoll(t) /\ c # None /\ faults' = faults
                 /\ req'[t].save
                 => ~ Pending(c) /\ (Grants(c) => kc'[c] = "redeemed")
<1>1. TypeOK /\ [Next]_vars => [Keeps]_vars
  <2> SUFFICES ASSUME TypeOK, NEW t \in Tab, DevicePoll(t), req[t].copy # None,
                      faults' = faults, req'[t].save
               PROVE  ~ Pending(req[t].copy) /\ (Grants(req[t].copy) => kc'[req[t].copy] = "redeemed")
    OBVIOUS
  <2> DEFINE c == req[t].copy
  <2>1. /\ req \in [Tab -> ReqState] /\ kc \in [Code -> CodeState] /\ faults \in 0..MaxFaults
    BY Types
  <2>2. c \in Code
    BY <2>1 DEF ReqState, CodeOrNone
  <2>3. \A a \in {"failed", "pending", "error"} : ~ NoSave(t, a)
    BY <2>1, AnswersOK
  <2>4. ~ Fault
    BY <2>1, FaultOK
  <2>5. \/ Grants(c) /\ kc' = [kc EXCEPT ![c] = "redeemed"]
        \/ ~ Grants(c) /\ ~ Pending(c)
    BY <2>3, <2>4 DEF DevicePoll, PendingErrors
  <2> QED BY <2>1, <2>2, <2>5 DEF Grants, Pending
<1> QED BY <1>1, TypeCorrect, PTL DEF Spec, KeepsUsableCode

-----------------------------------------------------------------------------
(* One device page at a time.                                              *)

\* The tab waits for an approval, or has a request in flight.
Live(t) == page[t].view \in {"loading", "waiting"} \/ req[t].phase # "idle"

\* One tab at most is live, and no other page's request overlaps one of its.
OnePage ==
  /\ \A t, u \in Tab : Live(t) /\ Live(u) => t = u
  /\ other # {} => \A t \in Tab : req[t].phase = "idle"

(***************************************************************************)
(* The session holds the code of the page that waits, and so does every     *)
(* poll of that page that is under way or was answered with tokens.         *)
(***************************************************************************)
OwnPage(p) == p.shown # None => p.shown = p.code

OwnWait(p, q) ==
  p.view = "waiting" => /\ cookie = p.code
                        /\ q.phase = "sent" \/ q.answer = "success" => q.copy = p.code

\* A page waits with a saved code, and goes on waiting only if it is kept.
OwnAnswer(p, q) ==
  /\ p.view = "loading" => q.phase # "idle"
  /\ q.answer = "page" => q.save = TRUE
  /\ q.answer = "pending" => q.save = FALSE

OwnInv ==
  /\ other \subseteq {cookie}
  /\ \A t \in Tab : OwnPage(page[t]) /\ OwnWait(page[t], req[t]) /\ OwnAnswer(page[t], req[t])

\* A step of one tab, which leaves the session alone or finds no other page
\* waiting and no other request in flight.
LEMMA OwnStep ==
  ASSUME TypeOK, OnePage, OwnInv, NEW t \in Tab, NEW p, NEW q,
         page' = [page EXCEPT ![t] = p], req' = [req EXCEPT ![t] = q], other' = other,
         cookie' = cookie \/ req[t].phase # "idle",
         OwnPage(p), OwnWait(p, q)', OwnAnswer(p, q)
  PROVE  OwnInv'
<1>1. page'[t] = p /\ req'[t] = q /\ \A u \in Tab \ {t} : page'[u] = page[u] /\ req'[u] = req[u]
  BY DEF TypeOK
<1>2. other' \subseteq {cookie'}
  BY DEF OnePage, OwnInv
<1>3. ASSUME NEW u \in Tab \ {t}, page[u].view = "waiting" PROVE cookie' = cookie
  BY <1>3 DEF OnePage, Live
<1>4. ASSUME NEW u \in Tab
      PROVE  /\ OwnPage(page'[u]) /\ OwnAnswer(page'[u], req'[u])
             /\ page'[u].view = "waiting"
                  => /\ cookie' = page'[u].code
                     /\ req'[u].phase = "sent" \/ req'[u].answer = "success"
                          => req'[u].copy = page'[u].code
  <2>1. CASE u = t
    BY <1>1, <2>1 DEF OwnWait
  <2>2. CASE u # t
    BY <1>1, <1>3, <2>2 DEF OwnInv, OwnWait
  <2> QED BY <2>1, <2>2
<1> QED BY <1>2, <1>4 DEF OwnInv, OwnWait, OwnPage, OwnAnswer

\* What the tab was: its two records, and what the invariant says of them.
LEMMA OwnTab ==
  ASSUME TypeOK, OwnInv, NEW t \in Tab
  PROVE  /\ page[t] \in PageState /\ req[t] \in ReqState
         /\ OwnPage(page[t]) /\ OwnWait(page[t], req[t]) /\ OwnAnswer(page[t], req[t])
         /\ page = [page EXCEPT ![t] = page[t]] /\ req = [req EXCEPT ![t] = req[t]]
BY Types DEF OwnInv

\* DeviceFlow and DevicePoll: only the request of the tab changes.
LEMMA OwnServer ==
  ASSUME TypeOK, OnePage, OwnInv, NEW t \in Tab, DeviceFlow(t) \/ DevicePoll(t)
  PROVE  OwnInv'
<1>1. UNCHANGED <<cookie, page, other>>
  BY DEF DeviceFlow, DevicePoll
<1> PICK p, q : p = page[t] /\ q = req[t]
  OBVIOUS
<1>2. /\ p \in PageState /\ q \in ReqState /\ OwnPage(p) /\ OwnWait(p, q) /\ OwnAnswer(p, q)
      /\ page' = [page EXCEPT ![t] = p]
  BY <1>1, OwnTab
<1>3. CASE \E c : Save(t, c, "page") /\ p.view = "loading"
  <2> PICK c : Save(t, c, "page") /\ p.view = "loading"
    BY <1>3
  <2> PICK n : n = [phase |-> "answered", copy |-> c, save |-> TRUE, answer |-> "page"]
    OBVIOUS
  <2>1. n.phase = "answered" /\ n.save = TRUE /\ n.answer = "page"
    OBVIOUS
  <2>2. req' = [req EXCEPT ![t] = n]
    BY DEF Save
  <2>3. OwnWait(p, n)' /\ OwnAnswer(p, n)
    BY <2>1 DEF OwnWait, OwnAnswer
  <2> QED BY <1>1, <1>2, <2>2, <2>3, OwnStep
<1>4. CASE \E a \in {"failed", "pending", "error"} : NoSave(t, a)
  <2> PICK a \in {"failed", "pending", "error"} : NoSave(t, a)
    BY <1>4
  <2> PICK n : n = [Idle EXCEPT !.phase = "answered", !.answer = a]
    OBVIOUS
  <2>1. n.phase = "answered" /\ n.save = FALSE /\ n.answer = a
    BY DEF Idle
  <2>2. req' = [req EXCEPT ![t] = n]
    BY DEF NoSave
  <2>3. OwnWait(p, n)' /\ OwnAnswer(p, n)
    BY <1>1, <1>2, <2>1 DEF OwnWait, OwnAnswer
  <2> QED BY <1>1, <1>2, <2>2, <2>3, OwnStep
<1>5. CASE \E a \in {"success", "error"} : Popped(t, a) /\ q.phase = "sent"
  <2> PICK a \in {"success", "error"} : Popped(t, a) /\ q.phase = "sent"
    BY <1>5
  <2> PICK n : n = [q EXCEPT !.phase = "answered", !.save = TRUE, !.answer = a]
    OBVIOUS
  <2>1. n.phase = "answered" /\ n.save = TRUE /\ n.answer = a /\ n.copy = q.copy
    BY <1>2 DEF ReqState
  <2>2. req' = [req EXCEPT ![t] = n]
    BY DEF Popped
  <2>3. OwnWait(p, n)' /\ OwnAnswer(p, n)
    BY <1>1, <1>2, <2>1 DEF OwnWait, OwnAnswer
  <2> QED BY <1>1, <1>2, <2>2, <2>3, OwnStep
<1> QED BY <1>3, <1>4, <1>5 DEF DeviceFlow, DevicePoll, Serving

\* The browser's side of a tab.
LEMMA OwnBrowser ==
  ASSUME TypeOK, OnePage, OwnInv, NEW t \in Tab,
         Open(t) \/ Loaded(t) \/ Poll(t) \/ Polled(t) \/ Lost(t) \/ Close(t) \/ Ignored(t)
  PROVE  OwnInv'
<1> PICK p, q : p = page[t] /\ q = req[t]
  OBVIOUS
<1>1. /\ p \in PageState /\ q \in ReqState /\ OwnPage(p) /\ OwnWait(p, q) /\ OwnAnswer(p, q)
      /\ page = [page EXCEPT ![t] = p] /\ req = [req EXCEPT ![t] = q]
  BY OwnTab
<1>2. other' = other
  BY DEF Open, Loaded, Poll, Polled, Lost, Close, Ignored
<1>3. /\ Idle.phase = "idle" /\ Idle.answer = "none"
      /\ \A c : [Idle EXCEPT !.phase = "sent", !.copy = c].phase = "sent"
      /\ \A c : [Idle EXCEPT !.phase = "sent", !.copy = c].copy = c
      /\ \A c : [Idle EXCEPT !.phase = "sent", !.copy = c].answer = "none"
  BY DEF Idle
<1>4. /\ Failed.view = "error" /\ OwnPage(Failed) /\ Closed.view = "closed" /\ OwnPage(Closed)
  BY DEF Failed, Closed, OwnPage
<1>5. CASE Open(t)
  <2> PICK n, m : n = [Closed EXCEPT !.view = "loading"] /\ m = [Idle EXCEPT !.phase = "sent", !.copy = cookie]
    OBVIOUS
  <2>1. n.view = "loading" /\ OwnPage(n)
    BY DEF Closed, OwnPage
  <2>2. OwnWait(n, m)' /\ OwnAnswer(n, m)
    BY <1>3, <2>1 DEF OwnWait, OwnAnswer
  <2> QED BY <1>2, <1>5, <2>1, <2>2, OwnStep DEF Open
<1>6. CASE Loaded(t)
  <2> PICK n : n = [Closed EXCEPT !.view = "waiting", !.code = q.copy]
    OBVIOUS
  <2>1. n.view = "waiting" /\ n.code = q.copy /\ OwnPage(n)
    BY DEF Closed, OwnPage
  <2>2. CASE q.answer = "page"
    <3>1. page' = [page EXCEPT ![t] = n] /\ req' = [req EXCEPT ![t] = Idle] /\ cookie' = n.code
      BY <1>1, <1>6, <2>1, <2>2 DEF Loaded, OwnAnswer
    <3>2. OwnWait(n, Idle)' /\ OwnAnswer(n, Idle)
      BY <1>3, <2>1, <3>1 DEF OwnWait, OwnAnswer
    <3> QED BY <1>2, <1>6, <2>1, <3>1, <3>2, OwnStep DEF Loaded
  <2>3. CASE q.answer # "page"
    <3>1. page' = [page EXCEPT ![t] = Failed] /\ req' = [req EXCEPT ![t] = Idle]
      BY <1>6, <2>3 DEF Loaded
    <3>2. OwnWait(Failed, Idle)' /\ OwnAnswer(Failed, Idle)
      BY <1>3, <1>4 DEF OwnWait, OwnAnswer
    <3> QED BY <1>2, <1>4, <1>6, <3>1, <3>2, OwnStep DEF Loaded
  <2> QED BY <2>2, <2>3
<1>7. CASE Poll(t)
  <2> PICK m : m = [Idle EXCEPT !.phase = "sent", !.copy = cookie]
    OBVIOUS
  <2>1. cookie' = cookie /\ page' = page /\ req' = [req EXCEPT ![t] = m] /\ p.view = "waiting"
    BY <1>7 DEF Poll
  <2>2. OwnWait(p, m)' /\ OwnAnswer(p, m)
    BY <1>1, <1>3, <2>1 DEF OwnWait, OwnAnswer
  <2> QED BY <1>1, <1>2, <2>1, <2>2, OwnStep
<1>8. CASE Polled(t)
  <2>1. req' = [req EXCEPT ![t] = Idle] /\ q.phase # "idle" /\ p.view = "waiting"
    BY <1>8 DEF Polled
  <2>2. CASE q.answer = "success"
    <3> PICK n : n = [p EXCEPT !.view = "token", !.shown = q.copy]
      OBVIOUS
    <3>1. n.view = "token" /\ n.code = p.code /\ n.shown = q.copy
      BY <1>1 DEF PageState
    <3>2. q.copy = p.code
      BY <1>1, <2>1, <2>2 DEF OwnWait
    <3>3. page' = [page EXCEPT ![t] = n]
      BY <1>8, <2>2 DEF Polled, Show
    <3>4. OwnPage(n) /\ OwnWait(n, Idle)' /\ OwnAnswer(n, Idle)
      BY <1>3, <3>1, <3>2 DEF OwnPage, OwnWait, OwnAnswer
    <3> QED BY <1>2, <2>1, <3>3, <3>4, OwnStep
  <2>3. CASE q.answer = "pending"
    <3>1. page' = [page EXCEPT ![t] = p] /\ cookie' = cookie
      BY <1>1, <1>8, <2>3 DEF Polled, Show, OwnAnswer
    <3>2. OwnWait(p, Idle)' /\ OwnAnswer(p, Idle)
      BY <1>1, <1>3, <2>1, <3>1 DEF OwnWait, OwnAnswer
    <3> QED BY <1>1, <1>2, <2>1, <3>1, <3>2, OwnStep
  <2>4. CASE q.answer \notin {"success", "pending"}
    <3>1. page' = [page EXCEPT ![t] = Failed]
      BY <1>8, <2>4 DEF Polled, Show
    <3>2. OwnWait(Failed, Idle)' /\ OwnAnswer(Failed, Idle)
      BY <1>3, <1>4 DEF OwnWait, OwnAnswer
    <3> QED BY <1>2, <1>4, <2>1, <3>1, <3>2, OwnStep
  <2> QED BY <2>2, <2>3, <2>4
<1>9. CASE Lost(t)
  <2>1. OwnWait(Failed, Idle)' /\ OwnAnswer(Failed, Idle)
    BY <1>3, <1>4 DEF OwnWait, OwnAnswer
  <2> QED BY <1>2, <1>4, <1>9, <2>1, OwnStep DEF Lost
<1>10. CASE Close(t)
  <2>1. cookie' = cookie /\ page' = [page EXCEPT ![t] = Closed] /\ req' = [req EXCEPT ![t] = q]
    BY <1>1, <1>10 DEF Close
  <2>2. OwnWait(Closed, q)' /\ OwnAnswer(Closed, q)
    BY <1>1, <1>4 DEF OwnWait, OwnAnswer
  <2> QED BY <1>2, <1>4, <2>1, <2>2, OwnStep
<1>11. CASE Ignored(t)
  <2>1. /\ req' = [req EXCEPT ![t] = Idle] /\ page' = [page EXCEPT ![t] = p]
        /\ q.phase # "idle" /\ p.view = "closed"
    BY <1>1, <1>11 DEF Ignored
  <2>2. OwnWait(p, Idle)' /\ OwnAnswer(p, Idle)
    BY <1>3, <2>1 DEF OwnWait, OwnAnswer
  <2> QED BY <1>1, <1>2, <2>1, <2>2, OwnStep
<1> QED BY <1>5, <1>6, <1>7, <1>8, <1>9, <1>10, <1>11

\* Everybody else: another page that overlaps none of the tabs' requests gives
\* the session back as it was.
LEMMA OwnRest ==
  ASSUME OwnInv,
         \/ \E c \in Code : Decide(c) \/ Expire(c)
         \/ OtherSend \/ OtherReceive \/ UNCHANGED vars
  PROVE  OwnInv'
<1>1. UNCHANGED <<cookie, page, req>> /\ other' \subseteq {cookie}
  BY DEF Decide, Expire, OtherSend, OtherReceive, vars, OwnInv
<1> QED BY <1>1 DEF OwnInv, OwnWait

(***************************************************************************)
(* With one live device page at a time, and no request of another page that *)
(* overlaps one of its own, a page shows the tokens of the device flow it   *)
(* started, for any number of tabs, flows and faults: what device_poll       *)
(* shows of another flow comes from tabs that share the session.            *)
(***************************************************************************)
THEOREM OnePageShowsItsOwn == Spec /\ []OnePage => []ShownIsOwn
<1>1. Init => OwnInv
  BY DEF Init, OwnInv, OwnPage, OwnWait, OwnAnswer, Closed, Idle
<1>2. TypeOK /\ OnePage /\ OwnInv /\ [Next]_vars => OwnInv'
  BY OwnServer, OwnBrowser, OwnRest DEF Next
<1>3. OwnInv => ShownIsOwn
  BY DEF OwnInv, OwnPage, ShownIsOwn
<1> QED BY <1>1, <1>2, <1>3, TypeCorrect, PTL DEF Spec

=============================================================================
