----------------------------- MODULE DeviceFlow -----------------------------
(***************************************************************************)
(* The Device Authorization Grant of client-app: the routes /auth/device   *)
(* and /auth/device/poll (src/client-app/app.py) and the polling script of *)
(* the page they serve (src/client-app/templates/device_demo.html).        *)
(*                                                                         *)
(* Each tab that opens the page starts a device flow of its own, but the   *)
(* code that a poll asks Keycloak about is the one in the session cookie,  *)
(* which all tabs share: the device_code parameter the script sends is not *)
(* read.  Of the session only device_code is modelled; device_expires goes *)
(* with it.  The poll interval is time, and abstracted: a slow_down makes  *)
(* the script wait longer before the next poll, as authorization_pending   *)
(* makes it wait.                                                          *)
(***************************************************************************)
EXTENDS Naturals

CONSTANTS
  Tab,       \* browser tabs on the device page
  Code,      \* bound: device flows that are started
  None,      \* no device code
  MaxFaults  \* bound: failed calls and lost responses

ASSUME CodeAssumption == None \notin Code
ASSUME FaultsAssumption == MaxFaults \in Nat

VARIABLES
  cookie,  \* session["device_code"] in the browser's cookie
  page,    \* what each tab shows
  req,     \* each tab's request in flight, with its copy of the session
  other,   \* a request of some other page in flight: its copy of the session
  kc,      \* each device code at Keycloak; void: refused or expired
  faults   \* failures still to come

vars == <<cookie, page, req, other, kc, faults>>

CodeOrNone == Code \cup {None}

Idle == [phase |-> "idle", copy |-> None, save |-> FALSE, answer |-> "none"]

TypeOK ==
  /\ cookie \in CodeOrNone
  /\ page \in [Tab -> [view : {"closed", "loading", "waiting", "token", "error"},
                       code : CodeOrNone, shown : CodeOrNone]]
  /\ req \in [Tab -> [phase : {"idle", "sent", "answered"}, copy : CodeOrNone,
                      save : BOOLEAN,
                      answer : {"none", "page", "failed", "pending",
                                "success", "error"}]]
  /\ other \in SUBSET CodeOrNone
  /\ kc \in [Code -> {"unused", "pending", "approved", "redeemed", "void"}]
  /\ faults \in 0..MaxFaults

Closed == [view |-> "closed", code |-> None, shown |-> None]
Failed == [Closed EXCEPT !.view = "error"]

Init ==
  /\ cookie = None
  /\ page = [t \in Tab |-> Closed]
  /\ req = [t \in Tab |-> Idle]
  /\ other = {}
  /\ kc = [c \in Code |-> "unused"]
  /\ faults = MaxFaults

Fault == faults > 0 /\ faults' = faults - 1

-----------------------------------------------------------------------------
(* client-app.                                                             *)

Serving(t, view) == req[t].phase = "sent" /\ page[t].view = view

\* Answer with a changed session, which the response carries as a whole.
Save(t, copy, answer) ==
  req' = [req EXCEPT ![t] = [phase |-> "answered", copy |-> copy, save |-> TRUE,
                             answer |-> answer]]

\* Answer and leave the session alone.
NoSave(t, answer) ==
  req' = [req EXCEPT ![t] = [Idle EXCEPT !.phase = "answered", !.answer = answer]]

Unused == {c \in Code : kc[c] = "unused"}

\* GET /auth/device.  The page carries the code it was rendered with.
DeviceFlow(t) ==
  /\ Serving(t, "loading")
  /\ \/ /\ Unused # {}
        /\ LET c == CHOOSE x \in Unused : TRUE
           IN  kc' = [kc EXCEPT ![c] = "pending"] /\ Save(t, c, "page")
        /\ UNCHANGED faults
     \/ Fault /\ NoSave(t, "failed") /\ UNCHANGED kc
  /\ UNCHANGED <<cookie, page, other>>

\* Keycloak hands out the tokens of a code once, to whoever polls with it.
Grants(c) == kc[c] = "approved"
Pending(c) == kc[c] = "pending"

\* The session that a poll leaves behind when it pops device_code.  req keeps
\* the code the poll was about, for the page that shows its tokens.
Popped(t, answer) ==
  req' = [req EXCEPT ![t].phase = "answered", ![t].save = TRUE, ![t].answer = answer]

\* Mistake: only authorization_pending keeps the code.
OnePendingError == {"authorization_pending"}

\* The errors of Keycloak after which a poll keeps the code.  The page's wait
\* is abstracted, so it makes the same of both.
PendingErrors == {"authorization_pending", "slow_down"}

\* GET /auth/device/poll.
DevicePoll(t) ==
  LET c == req[t].copy
  IN  /\ req[t].phase = "sent" /\ page[t].view # "loading"
      /\ \/ /\ c = None                                  \* no_device_session
            /\ NoSave(t, "error")
            /\ UNCHANGED <<kc, faults>>
         \/ /\ c # None /\ Grants(c)
            /\ Popped(t, "success")
            /\ kc' = [kc EXCEPT ![c] = "redeemed"]
            /\ UNCHANGED faults
         \/ /\ c # None /\ Pending(c)
            /\ \E e \in {"authorization_pending", "slow_down"} :
                 IF e \in PendingErrors THEN NoSave(t, "pending") ELSE Popped(t, "error")
            /\ UNCHANGED <<kc, faults>>
         \/ /\ c # None                \* past device_expires, or any other error
            /\ ~ Grants(c) /\ ~ Pending(c)
            /\ Popped(t, "error")
            /\ UNCHANGED <<kc, faults>>
         \/ /\ c # None                                  \* 5xx with a JSON body
            /\ Fault
            /\ Popped(t, "error")
            /\ UNCHANGED kc
         \/ /\ c # None                                  \* timeout, no JSON: HTTP 500
            /\ Fault
            /\ NoSave(t, "failed")
            /\ kc' \in {kc, IF Grants(c) THEN [kc EXCEPT ![c] = "redeemed"] ELSE kc}
      /\ UNCHANGED <<cookie, page, other>>

-----------------------------------------------------------------------------
(* The browser.                                                            *)

\* The user opens or reloads the device page.
Open(t) ==
  /\ page[t].view \in {"closed", "token", "error"} /\ req[t].phase = "idle"
  /\ page' = [page EXCEPT ![t] = [Closed EXCEPT !.view = "loading"]]
  /\ req' = [req EXCEPT ![t] = [Idle EXCEPT !.phase = "sent", !.copy = cookie]]
  /\ UNCHANGED <<cookie, other, kc, faults>>

Loaded(t) ==
  /\ page[t].view = "loading" /\ req[t].phase = "answered"
  /\ cookie' = IF req[t].save THEN req[t].copy ELSE cookie
  /\ page' = [page EXCEPT ![t] =
       IF req[t].answer = "page"
       THEN [Closed EXCEPT !.view = "waiting", !.code = req[t].copy]
       ELSE Failed]
  /\ req' = [req EXCEPT ![t] = Idle]
  /\ UNCHANGED <<other, kc, faults>>

\* The timer of the script fires: poll().
Poll(t) ==
  /\ page[t].view = "waiting" /\ req[t].phase = "idle"
  /\ req' = [req EXCEPT ![t] = [Idle EXCEPT !.phase = "sent", !.copy = cookie]]
  /\ UNCHANGED <<cookie, page, other, kc, faults>>

\* Mistake: an error answer re-arms the timer.
ShowRetries(t, answer, c) ==
  CASE answer = "success" -> [page[t] EXCEPT !.view = "token", !.shown = c]
    [] answer = "failed" -> Failed
    [] OTHER -> page[t]

\* Mistake: the name of an unknown answer becomes the state of the page.
ShowAnswer(t, answer, c) ==
  CASE answer = "success" -> [page[t] EXCEPT !.view = "token", !.shown = c]
    [] answer = "pending" -> page[t]
    [] OTHER -> [Closed EXCEPT !.view = answer]

\* Mistake: the script looks for the status in upper case, and sees no success.
ShowNever(t, answer, c) ==
  IF answer = "pending" THEN page[t]
  ELSE Failed

\* What the script makes of an answer about code c.  It knows neither the
\* status "expired" nor "error": both end as "Unexpected error".
Show(t, answer, c) ==
  CASE answer = "success" -> [page[t] EXCEPT !.view = "token", !.shown = c]
    [] answer = "pending" -> page[t]
    [] OTHER -> Failed

Polled(t) ==
  /\ page[t].view = "waiting" /\ req[t].phase = "answered"
  /\ cookie' = IF req[t].save THEN None ELSE cookie
  /\ page' = [page EXCEPT ![t] = Show(t, req[t].answer, req[t].copy)]
  /\ req' = [req EXCEPT ![t] = Idle]
  /\ UNCHANGED <<other, kc, faults>>

\* The response is lost: fetch rejects, or the browser shows an error page.
Lost(t) ==
  /\ page[t].view \in {"loading", "waiting"} /\ req[t].phase # "idle"
  /\ Fault
  /\ page' = [page EXCEPT ![t] = Failed]
  /\ req' = [req EXCEPT ![t] = Idle]
  /\ UNCHANGED <<cookie, other, kc>>

\* The user leaves the page; a poll in flight may still reach client-app.
Close(t) ==
  /\ page[t].view = "waiting"
  /\ page' = [page EXCEPT ![t] = Closed]
  /\ UNCHANGED <<cookie, req, other, kc, faults>>

\* Nobody waits for this answer; its Set-Cookie may still be stored.
Ignored(t) ==
  /\ page[t].view = "closed" /\ req[t].phase = "answered"
  /\ cookie' \in {cookie, IF req[t].save THEN None ELSE cookie}
  /\ req' = [req EXCEPT ![t] = Idle]
  /\ UNCHANGED <<page, other, kc, faults>>

\* Any other page of client-app, or a failed /auth/device, that saves the
\* session with the copy it was sent with.
OtherSend ==
  /\ other = {} /\ other' = {cookie}
  /\ UNCHANGED <<cookie, page, req, kc, faults>>

OtherReceive ==
  /\ cookie' \in other /\ other' = {}
  /\ UNCHANGED <<page, req, kc, faults>>

-----------------------------------------------------------------------------
(* The user at Keycloak's verification page, and time.                     *)

Decide(c) ==
  /\ Pending(c)
  /\ kc' \in {[kc EXCEPT ![c] = "approved"], [kc EXCEPT ![c] = "void"]}
  /\ UNCHANGED <<cookie, page, req, other, faults>>

\* client-app's own deadline, device_expires, is computed after Keycloak's and
\* so is never the earlier one: a poll past either pops the code.
Expire(c) ==
  /\ Pending(c) \/ Grants(c)
  /\ kc' = [kc EXCEPT ![c] = "void"]
  /\ UNCHANGED <<cookie, page, req, other, faults>>

Next ==
  \/ \E t \in Tab : \/ Open(t) \/ DeviceFlow(t) \/ Loaded(t)
                    \/ Poll(t) \/ DevicePoll(t) \/ Polled(t)
                    \/ Lost(t) \/ Close(t) \/ Ignored(t)
  \/ \E c \in Code : Decide(c) \/ Expire(c)
  \/ OtherSend \/ OtherReceive

Spec == Init /\ [][Next]_vars

(***************************************************************************)
(* client-app answers, the timer fires and the answer arrives, and time    *)
(* passes.  Nothing is assumed of the user.                                *)
(***************************************************************************)
Fairness ==
  /\ \A t \in Tab : WF_vars(Poll(t)) /\ WF_vars(DevicePoll(t)) /\ WF_vars(Polled(t))
  /\ \A c \in Code : WF_vars(Expire(c))

FairSpec == Spec /\ Fairness

-----------------------------------------------------------------------------
(* Properties.                                                             *)

(***************************************************************************)
(* device_poll gives a code up only when it is of no use any more: while   *)
(* the user can still approve it, or has approved it and the tokens wait,  *)
(* no answer of Keycloak (pending, slow_down) makes the session forget it. *)
(* A 5xx does, and counts as a fault here.                                 *)
(***************************************************************************)
KeepsUsableCode ==
  [][\A t \in Tab :
       LET c == req[t].copy
       IN  /\ DevicePoll(t) /\ c # None /\ faults' = faults
           /\ req'[t].save
           => ~ Pending(c) /\ (Grants(c) => kc'[c] = "redeemed")]_vars

(***************************************************************************)
(* Every page stops polling, whatever becomes of its own code and whatever *)
(* the other tabs do to the session it shares with them.                   *)
(***************************************************************************)
PollingStops == \A t \in Tab : page[t].view = "waiting" ~> page[t].view # "waiting"

\* Nobody but tab t touches the session.
Alone(t) ==
  /\ other = {}
  /\ \A u \in Tab \ {t} : page[u].view \in {"closed", "error"} /\ req[u].phase = "idle"

\* Tab t polls for its own code c, which the user has approved.
Awaits(t, c) ==
  /\ page[t].view = "waiting" /\ page[t].code = c /\ cookie = c
  /\ req[t].phase # "idle" => req[t].copy = c
  /\ kc[c] = "approved"

(***************************************************************************)
(* Once the faults are over, a page that has the session to itself shows   *)
(* the tokens of the code the user approved, unless it is closed or the    *)
(* code expires first.                                                     *)
(***************************************************************************)
ApprovedDelivered ==
  \A t \in Tab, c \in Code :
    Awaits(t, c) /\ Alone(t) /\ faults = 0
      ~> page[t].shown = c \/ page[t].view = "closed" \/ kc[c] = "void" \/ ~ Alone(t)

(***************************************************************************)
(* The page shows the tokens of the device flow it started, the one whose  *)
(* user code it displays.                                                  *)
(***************************************************************************)
ShownIsOwn == \A t \in Tab : page[t].shown # None => page[t].shown = page[t].code

=============================================================================
