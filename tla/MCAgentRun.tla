------------------------------ MODULE MCAgentRun ------------------------------
(* An instance of AgentRun for TLC: a run of any of the five agents.        *)
EXTENDS AgentRun

CONSTANTS r1, alice

OneRun  == {r1}
Parties == Slug \cup {alice}

=============================================================================
