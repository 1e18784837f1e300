------------------------- MODULE ProvisioningProofs -------------------------
(***************************************************************************)
(* Proofs about Provisioning, for any number of runs and any old realm:    *)
(* a run that ends normally leaves the realm configured.                   *)
(*                                                                         *)
(* Only mappers are ever withdrawn, and each run remembers which, so it is *)
(* enough that no step is skipped for want of an object it needs, which no *)
(* mapper is.  A step is Met when each such object is in every realm, or   *)
(* is made by an earlier step that needs nothing; the order of main() is   *)
(* right because every fact of Target has a step that is Met.              *)
(***************************************************************************)
EXTENDS Provisioning, TLAPS

Met(j) == \A n \in Needs(Steps[j]) :
            n \in Base \/ \E k \in 1..(j - 1) : Steps[k] = n /\ Needs(n) = {}

\* What run r may count on, but for what a PUT has taken away meanwhile.
Made(r) == realm \cup lost[r]

\* What run r has seen to: its steps before the one it is at.
Settled(r) == \A j \in 1..(pc[r] - 1) : Met(j) => Steps[j] \in Made(r)

\* What holds of a run on its way.
RunOK(r) ==
  /\ at[r] \in {"read", "write", "done"} => realm # {}
  /\ at[r] \in {"health", "import"} => pc[r] = 1
  /\ Settled(r)
  /\ at[r] = "done" => pc[r] = Len(Steps) /\ (Met(pc[r]) => Steps[pc[r]] \in Made(r))

IInv ==
  /\ TypeOK
  /\ realm # {} => Base \subseteq realm
  /\ \A r \in Run : RunOK(r)

-----------------------------------------------------------------------------
(* The table of steps, written out.                                        *)

\* The 29 rows of the table, spelt out for the provers.
LEMMA Table ==
  /\ Len(Steps) = 29
  /\ Steps[1] = Exchange("middle-tier-client")
  /\ Steps[2] = Exchange("demo-client")
  /\ Steps[4] = Client("spiffe-service")
  /\ Steps[5] = ServiceRole("spiffe-service", "user-role")
  /\ Steps[6] = Client("dpop-client")
  /\ Steps[7] = Client("device-client")
  /\ Steps[8] = Client("pkce-client")
  /\ Steps[9] = Role("mcp-user")
  /\ Steps[10] = Client("ai-agent-secret")
  /\ Steps[11] = Client("ai-agent-spiffe")
  /\ Steps[12] = Client("ai-agent-spiffe-mtls")
  /\ Steps[13] = Client("ai-agent-cert")
  /\ Steps[14] = Client("ai-agent-delegated")
  /\ Steps[15] = Mapper("demo-client", "delegated-agent-audience")
  /\ Steps[18] = Exchange("ai-agent-delegated")
  /\ Steps[19] = Scope("mcp")
  /\ Steps[20] = Mapper("mcp", "mcp-audience")
  /\ Steps[21] = OptionalScope("ai-agent-secret", "mcp")
  /\ Steps[22] = ServiceRole("ai-agent-secret", "mcp-user")
  /\ Steps[23] = OptionalScope("ai-agent-spiffe", "mcp")
  /\ Steps[24] = ServiceRole("ai-agent-spiffe", "mcp-user")
  /\ Steps[25] = OptionalScope("ai-agent-spiffe-mtls", "mcp")
  /\ Steps[26] = ServiceRole("ai-agent-spiffe-mtls", "mcp-user")
  /\ Steps[27] = OptionalScope("ai-agent-cert", "mcp")
  /\ Steps[28] = ServiceRole("ai-agent-cert", "mcp-user")
  /\ Steps[29] = OptionalScope("ai-agent-delegated", "mcp")
BY DEF Steps, SetupTokenExchange, EnsureSpiffeServiceClient, EnsureFlowClients,
       EnsureAgentClients, EnsureDelegatedAudienceMapper, EnsureMcpClientScope,
       EnsureMcpAccess

\* Each step is about a fact of the realm, and writes only such facts.
LEMMA StepIsFact == \A j \in 1..Len(Steps) : Steps[j] \in Fact /\ Writes(Steps[j]) \subseteq Fact
<1>1. DOMAIN Steps = 1..Len(Steps)
  BY DEF Steps, SetupTokenExchange, EnsureSpiffeServiceClient, EnsureFlowClients,
         EnsureAgentClients, EnsureDelegatedAudienceMapper, EnsureMcpClientScope,
         EnsureMcpAccess
<1>2. Exchange("ai-agent-delegated") \in Fact
  BY DEF Fact, Imported
<1> QED BY <1>1, <1>2 DEF Fact, Writes

(***************************************************************************)
(* What each kind of step needs.                                           *)
(***************************************************************************)
LEMMA NeedsOf ==
  /\ \A c : Needs(Client(c)) = {} /\ Needs(Exchange(c)) = {Client(c)}
  /\ \A c, n : Needs(OptionalScope(c, n)) = {Client(c)}
  /\ \A c : /\ Needs(ServiceRole(c, "mcp-user")) = {Client(c), Role("mcp-user")}
            /\ Needs(ServiceRole(c, "user-role")) = {Role("user-role")}
  /\ \A n : Needs(Role(n)) = {} /\ Needs(Scope(n)) = {}
  /\ \A n : Needs(Mapper("demo-client", n)) = {Client("demo-client")}
  /\ \A n : Needs(Mapper("mcp", n)) = {}
BY DEF Needs, Client, Exchange, OptionalScope, ServiceRole, Role, Scope, Mapper

\* The kinds of some facts.
LEMMA Kinds ==
  /\ \A c : Client(c).kind # "mapper" /\ Exchange(c).kind # "mapper"
  /\ \A n : Role(n).kind # "mapper"
<1>1. ASSUME NEW c PROVE Client(c).kind = "client" /\ Exchange(c).kind = "exchange"
  BY DEF Client, Exchange
<1>2. ASSUME NEW n PROVE Role(n).kind = "role"
  BY DEF Role
<1> QED BY <1>1, <1>2

\* No step needs a mapper.
LEMMA NeedsNoMapper == \A f : \A n \in Needs(f) : n.kind # "mapper"
<1> SUFFICES ASSUME NEW f, NEW n \in Needs(f) PROVE n.kind # "mapper"
  OBVIOUS
<1>1. n = Client(f.who) \/ n = Role("mcp-user") \/ n = Role("user-role")
         \/ n = Client("demo-client")
  BY DEF Needs
<1> QED BY <1>1, Kinds

(***************************************************************************)
(* The order of main(): the steps that make the facts of Target are met.   *)
(***************************************************************************)
LEMMA Order == \A j \in 1..29 \ {3, 16, 17} : Met(j)
<1>1. ASSUME NEW j \in {4, 6, 7, 8, 9, 10, 11, 12, 13, 14, 19, 20}
      PROVE  Needs(Steps[j]) = {}
  BY Table, NeedsOf
<1>2. Met(1) /\ Met(2) /\ Met(5) /\ Met(15)
  BY Table, NeedsOf DEF Met, Base
<1>3. Met(18) /\ Met(29)
  <2>1. Steps[14] = Client("ai-agent-delegated") /\ Needs(Steps[14]) = {}
    BY Table, NeedsOf
  <2> QED BY <2>1, Table, NeedsOf DEF Met
<1>4. ASSUME NEW c, NEW k \in 10..13, Steps[k] = Client(c),
             NEW j \in 21..28,
             Steps[j] \in {OptionalScope(c, "mcp"), ServiceRole(c, "mcp-user")}
      PROVE  Met(j)
  <2>1. Needs(Steps[j]) \subseteq {Client(c), Role("mcp-user")}
    BY <1>4, NeedsOf
  <2>2. Needs(Client(c)) = {} /\ Needs(Role("mcp-user")) = {} /\ Steps[9] = Role("mcp-user")
    BY Table, NeedsOf
  <2> QED BY <2>1, <2>2, <1>4 DEF Met
<1>5. Met(21) /\ Met(22)
  BY <1>4, Table
<1>6. Met(23) /\ Met(24)
  BY <1>4, Table
<1>7. Met(25) /\ Met(26)
  BY <1>4, Table
<1>8. Met(27) /\ Met(28)
  BY <1>4, Table
<1>9. \A j \in {4, 6, 7, 8, 9, 10, 11, 12, 13, 14, 19, 20} : Met(j)
  BY <1>1 DEF Met
<1> QED BY <1>2, <1>3, <1>5, <1>6, <1>7, <1>8, <1>9

\* Every target fact has a step whose needs are met when it comes.
LEMMA Covered ==
  \A f \in Target : \E j \in 1..29 \ {3, 16, 17} : Steps[j] = f
<1> DEFINE HasStep(f) == \E j \in 1..29 \ {3, 16, 17} : Steps[j] = f
<1>1. /\ HasStep(Scope("mcp")) /\ HasStep(Mapper("mcp", "mcp-audience"))
      /\ HasStep(Exchange("middle-tier-client")) /\ HasStep(Exchange("demo-client"))
      /\ HasStep(ServiceRole("spiffe-service", "user-role"))
  BY Table
<1>2. \A f \in DelegatedAccess : HasStep(f)
  <2>1. /\ HasStep(Client("ai-agent-delegated")) /\ HasStep(Exchange("ai-agent-delegated"))
        /\ HasStep(Mapper("demo-client", "delegated-agent-audience"))
        /\ HasStep(OptionalScope("ai-agent-delegated", "mcp"))
    BY Table
  <2> HIDE DEF HasStep
  <2> QED BY <1>1, <2>1 DEF DelegatedAccess
<1>3. /\ HasStep(Client("spiffe-service")) /\ HasStep(Client("dpop-client"))
      /\ HasStep(Client("device-client")) /\ HasStep(Client("pkce-client"))
  BY Table
<1>4. ASSUME NEW c \in Agents PROVE \A f \in McpAccess(c) : HasStep(f)
  <2>1. HasStep(Client(c)) /\ HasStep(OptionalScope(c, "mcp")) /\ HasStep(ServiceRole(c, "mcp-user"))
    <3>1. CASE c = "ai-agent-secret"
      BY Table, <3>1
    <3>2. CASE c = "ai-agent-spiffe"
      BY Table, <3>2
    <3>3. CASE c = "ai-agent-spiffe-mtls"
      BY Table, <3>3
    <3>4. CASE c = "ai-agent-cert"
      BY Table, <3>4
    <3> QED BY <3>1, <3>2, <3>3, <3>4 DEF Agents
  <2> HIDE DEF HasStep
  <2> QED BY <1>1, <2>1 DEF McpAccess
<1> HIDE DEF HasStep
<1>5. ASSUME NEW f \in Target PROVE HasStep(f)
  <2>1. CASE \E c \in Agents : f \in McpAccess(c)
    BY <1>4, <2>1
  <2>2. CASE f \in DelegatedAccess
    BY <1>2, <2>2
  <2>3. CASE \E c \in {"spiffe-service", "dpop-client", "device-client", "pkce-client"} :
               f = Client(c)
    BY <1>3, <2>3
  <2>4. CASE f \in {Exchange("middle-tier-client"), Exchange("demo-client"),
                     ServiceRole("spiffe-service", "user-role")}
    BY <1>1, <2>4
  <2> QED BY <2>1, <2>2, <2>3, <2>4 DEF Target
<1> QED BY <1>5 DEF HasStep

-----------------------------------------------------------------------------
(* The invariant is inductive.                                             *)

\* The initial states satisfy the invariant.
LEMMA InitOK == Init => IInv
<1> SUFFICES ASSUME Init PROVE IInv
  OBVIOUS
<1>1. TypeOK
  <2>1. realm \subseteq Fact
    BY OldRealmsAssumption DEF Init
  <2>2. 1 \in 1..Len(Steps) /\ 0 \in 0..Attempts
    BY Table, AttemptsAssumption
  <2> QED BY <2>1, <2>2 DEF Init, TypeOK
<1>2. realm # {} => Base \subseteq realm
  BY OldRealmsAssumption DEF Init
<1> QED BY <1>1, <1>2 DEF Init, IInv, RunOK, Settled

\* A run at a step that is met finds what the step needs.
LEMMA NeedsThere ==
  ASSUME IInv, NEW r \in Run, at[r] \in {"read", "write"}, Met(pc[r])
  PROVE  Needs(Steps[pc[r]]) \subseteq realm
<1>1. Base \subseteq realm /\ pc[r] \in 1..Len(Steps) /\ Settled(r)
  BY DEF IInv, RunOK, TypeOK
<1>2. \A f \in lost[r] : f.kind = "mapper"
  BY DEF IInv, TypeOK
<1>3. ASSUME NEW n \in Needs(Steps[pc[r]]), NEW k \in 1..(pc[r] - 1),
             Steps[k] = n, Needs(n) = {}
      PROVE  n \in realm
  <2>1. n \in Made(r)
    BY <1>1, <1>3 DEF Settled, Met
  <2> QED BY <1>2, <2>1, NeedsNoMapper DEF Made
<1> QED BY <1>1, <1>3 DEF Met

\* A run that does not move, when what it may count on is kept.
LEMMA OthersKept ==
  ASSUME IInv, NEW r \in Run, pc'[r] = pc[r], at'[r] = at[r],
         realm # {} => realm' # {}, Made(r) \subseteq Made(r)'
  PROVE  RunOK(r)'
<1>1. RunOK(r)
  BY DEF IInv
<1>2. Settled(r)'
  BY <1>1 DEF RunOK, Settled
<1> QED BY <1>1, <1>2 DEF RunOK

\* What Keycloak stores has the step's fact, lacks nothing but mappers, and
\* what it lacks every run has noted.
LEMMA StoreOK ==
  ASSUME IInv, NEW r \in Run, at[r] = "write", Store(r)
  PROVE  /\ realm' \subseteq Fact /\ Base \subseteq realm'
         /\ lost' \in [Run -> SUBSET {f \in Fact : f.kind = "mapper"}]
         /\ \A q \in Run : Made(q) \subseteq Made(q)'
         /\ Steps[pc[r]] \in realm'
<1> DEFINE f == Steps[pc[r]]
<1>1. /\ realm \subseteq Fact /\ Base \subseteq realm /\ pc[r] \in 1..Len(Steps)
      /\ lost \in [Run -> SUBSET {g \in Fact : g.kind = "mapper"}]
  BY DEF IInv, RunOK, TypeOK
<1>2. PICK gone \in {{}, Mappers(f) \ copy[r]} :
        /\ realm' = (realm \ gone) \cup Writes(f)
        /\ lost' = [q \in Run |-> (lost[q] \cup gone) \ realm']
  BY DEF Store
<1>3. gone \subseteq {g \in Fact : g.kind = "mapper"}
  BY <1>1, <1>2 DEF Mappers
<1>4. Writes(f) \subseteq Fact /\ f \in Writes(f)
  BY <1>1, StepIsFact DEF Writes
<1>5. \A g \in Base : g.kind # "mapper"
  BY Kinds DEF Base
<1>6. \A q \in Run : Made(q) \subseteq Made(q)'
  BY <1>2 DEF Made
<1> QED BY <1>1, <1>2, <1>3, <1>4, <1>5, <1>6

(***************************************************************************)
(* A step that has been seen to: the run advances, or is done.             *)
(***************************************************************************)
LEMMA AdvanceOK ==
  ASSUME IInv, NEW r \in Run, at[r] \in {"read", "write"}, Advance(r),
         \A q \in Run : Made(q) \subseteq Made(q)',
         Base \subseteq realm', realm' \subseteq Fact,
         lost' \in [Run -> SUBSET {f \in Fact : f.kind = "mapper"}],
         copy' \in [Run -> SUBSET Fact],
         Met(pc[r]) => Steps[pc[r]] \in realm',
         ready' = ready, tries' = tries
  PROVE  IInv'
<1>0. /\ pc[r] \in 1..Len(Steps) /\ Len(Steps) = 29
      /\ at \in [Run -> {"idle", "done", "exited"} \cup Working]
      /\ pc \in [Run -> 1..Len(Steps)]
      /\ realm' # {} /\ RunOK(r)
  BY Table DEF IInv, TypeOK, Base
<1>1. TypeOK'
  BY <1>0 DEF Advance, IInv, TypeOK, Working
<1>2. \A x \in Run \ {r} : pc'[x] = pc[x] /\ at'[x] = at[x]
  BY <1>0 DEF Advance
<1>3. \A x \in Run \ {r} : RunOK(x)'
  BY <1>0, <1>2, OthersKept
<1>4. Met(pc[r]) => Steps[pc[r]] \in Made(r)'
  BY DEF Made
<1>5. CASE pc[r] = Len(Steps)
  <2>1. at'[r] = "done" /\ pc'[r] = pc[r]
    BY <1>0, <1>5 DEF Advance
  <2>2. Settled(r)'
    BY <1>0, <2>1 DEF RunOK, Settled
  <2>3. RunOK(r)'
    BY <1>0, <1>4, <1>5, <2>1, <2>2 DEF RunOK
  <2> QED BY <1>1, <1>3, <2>3 DEF IInv
<1>6. CASE pc[r] # Len(Steps)
  <2>1. at'[r] = "read" /\ pc'[r] = pc[r] + 1
    BY <1>0, <1>6 DEF Advance
  <2>2. Settled(r)'
    <3> SUFFICES ASSUME NEW j \in 1..(pc'[r] - 1), Met(j) PROVE Steps[j] \in Made(r)'
      BY DEF Settled, Met
    <3>1. CASE j = pc[r]
      BY <1>4, <3>1
    <3>2. CASE j # pc[r]
      <4>1. j \in 1..(pc[r] - 1)
        BY <1>0, <2>1, <3>2
      <4> QED BY <1>0, <4>1 DEF RunOK, Settled
    <3> QED BY <3>1, <3>2
  <2>3. RunOK(r)'
    BY <1>0, <2>1, <2>2 DEF RunOK
  <2> QED BY <1>1, <1>3, <2>3 DEF IInv
<1> QED BY <1>5, <1>6

\* Check.
LEMMA CheckOK == ASSUME IInv, NEW r \in Run, Check(r) PROVE IInv'
<1> DEFINE f == Steps[pc[r]]
<1>0. /\ at[r] = "read" /\ UNCHANGED <<realm, ready, tries, lost>>
      /\ realm \subseteq Fact /\ realm # {} /\ Base \subseteq realm /\ RunOK(r)
      /\ lost \in [Run -> SUBSET {g \in Fact : g.kind = "mapper"}]
      /\ copy \in [Run -> SUBSET Fact]
  BY DEF Check, IInv, RunOK, TypeOK
<1>1. CASE Needs(f) \subseteq realm /\ f \notin realm
  <2>1. /\ at' = [at EXCEPT ![r] = "write"] /\ UNCHANGED pc
        /\ copy' = [copy EXCEPT ![r] = Mappers(f)]
    BY <1>1 DEF Check
  <2>2. TypeOK'
    <3>1. Mappers(f) \subseteq Fact
      BY <1>0 DEF Mappers
    <3> QED BY <1>0, <2>1, <3>1 DEF IInv, TypeOK, Working
  <2>3. \A x \in Run \ {r} : RunOK(x)'
    <3>1. \A x \in Run \ {r} : pc'[x] = pc[x] /\ at'[x] = at[x]
      BY <2>1 DEF IInv, TypeOK
    <3> QED BY <1>0, <3>1, OthersKept DEF Made
  <2>4. at'[r] = "write" /\ pc'[r] = pc[r] /\ Settled(r)'
    BY <1>0, <2>1 DEF IInv, TypeOK, RunOK, Settled, Made
  <2>5. RunOK(r)'
    BY <1>0, <2>4 DEF RunOK
  <2> QED BY <1>0, <2>2, <2>3, <2>5 DEF IInv
<1>2. CASE ~ (Needs(f) \subseteq realm /\ f \notin realm)
  <2>1. Advance(r) /\ UNCHANGED copy
    BY <1>2 DEF Check
  <2>2. Met(pc[r]) => f \in realm
    BY <1>0, <1>2, NeedsThere
  <2>3. \A q \in Run : Made(q) \subseteq Made(q)'
    BY <1>0 DEF Made
  <2> QED BY <1>0, <2>1, <2>2, <2>3, AdvanceOK
<1> QED BY <1>1, <1>2

\* Write.
LEMMA WriteOK == ASSUME IInv, NEW r \in Run, Write(r) PROVE IInv'
<1>1. /\ at[r] = "write" /\ Advance(r) /\ UNCHANGED <<ready, tries>> /\ Store(r)
      /\ copy' = [copy EXCEPT ![r] = {}]
  BY DEF Write
<1>2. copy' \in [Run -> SUBSET Fact]
  BY <1>1 DEF IInv, TypeOK
<1> QED BY <1>1, <1>2, StoreOK, AdvanceOK

\* A run fails, and what it was about to write may have been stored.
LEMMA FailOK == ASSUME IInv, NEW r \in Run, Fail(r) PROVE IInv'
<1>0. /\ at' = [at EXCEPT ![r] = "exited"] /\ copy' = [copy EXCEPT ![r] = {}]
      /\ UNCHANGED <<ready, pc, tries>> /\ at[r] \in Working
  BY DEF Fail
<1>1. /\ realm' \subseteq Fact /\ (realm' # {} => Base \subseteq realm')
      /\ (realm # {} => realm' # {})
      /\ lost' \in [Run -> SUBSET {f \in Fact : f.kind = "mapper"}]
      /\ \A q \in Run : Made(q) \subseteq Made(q)'
  <2>1. CASE UNCHANGED <<realm, lost>>
    BY <2>1 DEF IInv, TypeOK, Made
  <2>2. CASE at[r] = "write" /\ Store(r)
    BY <2>2, StoreOK DEF Base
  <2> QED BY <2>1, <2>2 DEF Fail
<1>2. TypeOK'
  BY <1>0, <1>1 DEF IInv, TypeOK
<1>3. /\ \A x \in Run \ {r} : pc'[x] = pc[x] /\ at'[x] = at[x]
      /\ at'[r] = "exited" /\ pc'[r] = pc[r]
  BY <1>0 DEF IInv, TypeOK
<1>4. \A x \in Run \ {r} : RunOK(x)'
  BY <1>1, <1>3, OthersKept
<1>5. RunOK(r)'
  <2>1. Settled(r)'
    BY <1>1, <1>3 DEF IInv, RunOK, Settled
  <2> QED BY <1>3, <2>1 DEF RunOK
<1> QED BY <1>1, <1>2, <1>4, <1>5 DEF IInv

(***************************************************************************)
(* The actions that take a run to its steps, and leave the realm alone.    *)
(***************************************************************************)
LEMMA OtherOK ==
  ASSUME IInv, NEW r \in Run, Launch(r) \/ WaitForKeycloak(r) \/ WaitForRealmImport(r)
  PROVE  IInv'
<1>0. /\ Len(Steps) = 29 /\ pc[r] \in 1..Len(Steps)
      /\ at \in [Run -> {"idle", "done", "exited"} \cup Working]
      /\ pc \in [Run -> 1..Len(Steps)]
      /\ lost \in [Run -> SUBSET {f \in Fact : f.kind = "mapper"}]
  BY Table DEF IInv, TypeOK
<1>1. /\ realm' = realm /\ copy' = copy /\ ready' = ready
      /\ \A x \in Run \ {r} : pc'[x] = pc[x] /\ at'[x] = at[x] /\ lost'[x] = lost[x]
  BY <1>0 DEF Launch, WaitForKeycloak, WaitForRealmImport, PollUntil
<1>2. TypeOK'
  <2>1. CASE Launch(r)
    BY <2>1, <1>0, <1>1, AttemptsAssumption DEF Launch, IInv, TypeOK, Working
  <2>2. CASE WaitForKeycloak(r)
    BY <2>2, <1>0, <1>1, AttemptsAssumption
    DEF WaitForKeycloak, PollUntil, IInv, TypeOK, Working
  <2>3. CASE WaitForRealmImport(r)
    BY <2>3, <1>0, <1>1, AttemptsAssumption
    DEF WaitForRealmImport, PollUntil, IInv, TypeOK, Working
  <2> QED BY <2>1, <2>2, <2>3
<1>3. \A x \in Run \ {r} : RunOK(x)'
  BY <1>1, OthersKept DEF Made
<1>4. /\ at'[r] \in {"health", "import", "exited"} \/ (at'[r] = "read" /\ realm' # {})
      /\ pc'[r] = 1
  <2>1. CASE Launch(r)
    BY <2>1, <1>0 DEF Launch
  <2>2. CASE WaitForKeycloak(r)
    BY <2>2, <1>0 DEF WaitForKeycloak, PollUntil, IInv, RunOK
  <2>3. CASE WaitForRealmImport(r)
    BY <2>3, <1>0 DEF WaitForRealmImport, PollUntil, IInv, RunOK
  <2> QED BY <2>1, <2>2, <2>3
<1>5. RunOK(r)'
  BY <1>4 DEF RunOK, Settled
<1> QED BY <1>1, <1>2, <1>3, <1>5 DEF IInv

\* Keycloak only adds facts.
LEMMA KeycloakOK == ASSUME IInv, Ready \/ Import PROVE IInv'
<1>1. /\ realm \subseteq realm' /\ realm' \subseteq Fact
      /\ UNCHANGED <<at, pc, tries, copy, lost>> /\ ready' \in BOOLEAN
  BY DEF Ready, Import, IInv, TypeOK, Fact
<1>2. realm' # {} => Base \subseteq realm'
  BY DEF Ready, Import, IInv, Imported
<1>3. TypeOK'
  BY <1>1 DEF IInv, TypeOK
<1>4. \A x \in Run : RunOK(x)'
  BY <1>1, OthersKept DEF Made
<1> QED BY <1>2, <1>3, <1>4 DEF IInv

\* Every step preserves the invariant.
LEMMA NextOK == IInv /\ [Next]_vars => IInv'
<1> SUFFICES ASSUME IInv, [Next]_vars PROVE IInv'
  OBVIOUS
<1>1. CASE UNCHANGED vars
  BY <1>1 DEF vars, IInv, TypeOK, RunOK, Settled, Made
<1>2. CASE Next
  BY <1>2, CheckOK, WriteOK, FailOK, OtherOK, KeycloakOK DEF Next
<1> QED BY <1>1, <1>2

-----------------------------------------------------------------------------
(* Theorems.                                                               *)

(***************************************************************************)
(* Every state of every run is of the declared types.                      *)
(***************************************************************************)
THEOREM TypeCorrect == Spec => []TypeOK
<1>1. IInv => TypeOK
  BY DEF IInv
<1> QED BY <1>1, InitOK, NextOK, PTL DEF Spec

(***************************************************************************)
(* The last message of main() is true, for any number of concurrent,       *)
(* interrupted and repeated runs over any realm that holds Base, but for a *)
(* mapper that a PUT took away while the run was at work.                  *)
(***************************************************************************)
THEOREM Configures == Spec => []DoneMeansConfigured
<1>1. IInv => DoneMeansConfigured
  <2> SUFFICES ASSUME IInv, NEW r \in Run, at[r] = "done", NEW f \in Target
               PROVE  f \in Made(r)
    BY DEF DoneMeansConfigured, Made
  <2>1. PICK j \in 1..29 : Met(j) /\ Steps[j] = f
    BY Covered, Order
  <2>2. pc[r] = 29 /\ Settled(r) /\ (Met(29) => Steps[29] \in Made(r))
    BY Table DEF IInv, RunOK
  <2> QED BY <2>1, <2>2 DEF Settled
<1> QED BY <1>1, InitOK, NextOK, PTL DEF Spec

(***************************************************************************)
(* The message after the first pass of setup_token_exchange is true.       *)
(***************************************************************************)
THEOREM OboIsReady == Spec => []OboReady
<1>1. IInv => OboReady
  <2> SUFFICES ASSUME IInv, NEW r \in Run, pc[r] > 3
               PROVE  Steps[1] \in realm /\ Steps[2] \in realm
    BY Table DEF OboReady, SetupTokenExchange
  <2>1. Met(1) /\ Met(2) /\ pc[r] \in 1..29 /\ Settled(r)
    BY Order, Table DEF IInv, RunOK, TypeOK
  <2>2. Steps[1] \in Made(r) /\ Steps[2] \in Made(r)
    BY <2>1 DEF Settled
  <2>3. Steps[1].kind # "mapper" /\ Steps[2].kind # "mapper"
    BY Table, Kinds
  <2>4. \A f \in lost[r] : f.kind = "mapper"
    BY DEF IInv, TypeOK
  <2> QED BY <2>2, <2>3, <2>4 DEF Made
<1> QED BY <1>1, InitOK, NextOK, PTL DEF Spec

=============================================================================
