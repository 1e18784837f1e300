--------------------------- MODULE MCProvisioning ---------------------------
(* Instances of Provisioning for TLC.                                      *)
EXTENDS Provisioning, TLC

CONSTANTS ra, rb

TwoRuns == {ra, rb}
SymRuns == Permutations(TwoRuns)

\* Before the agents; with an older delegated client; half provisioned.
SomeOldRealms ==
  { Base,
    Base \cup {Client("ai-agent-delegated"), Client("spiffe-service")},
    Base \cup {Scope("mcp"), Client("ai-agent-cert"), OptionalScope("ai-agent-cert", "mcp")},
    Imported \cup {Exchange("middle-tier-client"), Scope("mcp")} }

=============================================================================
