------------------------------ MODULE ReportedRun ------------------------------
(***************************************************************************)
(* What an agent promises of POST /run (ai-agents/agent-secret/agent.py,   *)
(* run_agent, and the same in the other four): a run that has started ends *)
(* once, with an answer or a failure, and the report of an answered run    *)
(* lists every tool call that was made for it.  A failed run may have made *)
(* calls that its report does not list, and one that is still with the MCP *)
(* service may be executed after the report.                               *)
(***************************************************************************)
EXTENDS Naturals

CONSTANT Run

VARIABLES
  verdict,  \* what each run has come to
  calls,    \* the tool calls executed for it
  told      \* the tool calls its report lists

vars == <<verdict, calls, told>>

Init ==
  /\ verdict = [r \in Run |-> "new"]
  /\ calls = [r \in Run |-> 0]
  /\ told = [r \in Run |-> 0]

Start(r) ==
  /\ verdict[r] = "new"
  /\ verdict' = [verdict EXCEPT ![r] = "running"]
  /\ UNCHANGED <<calls, told>>

Call(r) ==
  /\ verdict[r] \in {"running", "failed", "lost"}
  /\ calls' = [calls EXCEPT ![r] = @ + 1]
  /\ UNCHANGED <<verdict, told>>

Answer(r) ==
  /\ verdict[r] = "running"
  /\ verdict' = [verdict EXCEPT ![r] = "answered"]
  /\ told' = [told EXCEPT ![r] = calls[r]]
  /\ UNCHANGED calls

Fail(r) ==
  /\ verdict[r] = "running"
  /\ verdict' = [verdict EXCEPT ![r] = "failed"]
  /\ \E n \in 0..calls[r] : told' = [told EXCEPT ![r] = n]
  /\ UNCHANGED calls

\* The agent's process dies with all its runs: nobody gets a report.
Lose(R) ==
  /\ R # {} /\ \A r \in R : verdict[r] = "running"
  /\ verdict' = [r \in Run |-> IF r \in R THEN "lost" ELSE verdict[r]]
  /\ UNCHANGED <<calls, told>>

Next ==
  \/ \E r \in Run : Start(r) \/ Call(r) \/ Answer(r) \/ Fail(r)
  \/ \E R \in SUBSET Run : Lose(R)

Ended(r) == verdict[r] \notin {"new", "running"}

\* A run that has started ends.
Spec == Init /\ [][Next]_vars /\ \A r \in Run : (verdict[r] = "running" ~> Ended(r))

=============================================================================
