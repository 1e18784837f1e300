----------------------------- MODULE StartupProofs -----------------------------
(***************************************************************************)
(* Proofs about Startup, for any sets of services an operator asks for and  *)
(* any number of faults: type correctness, and that the key material on the *)
(* volume, and what agent-cert loads of it, is whole and stays the same     *)
(* whatever runs of cert-init die halfway.                                  *)
(***************************************************************************)
EXTENDS Startup, TLAPS

Steps == {"ca key", "ca", "key", "csr", "sign"}

AtOK ==
  /\ at \in [Service -> ContainerStep]
  /\ \A s \in Service : at[s] \in ScriptStep => s \in OneShot

HostOK == target \in Targets /\ wanted \subseteq Service /\ faults \in 0..MaxFaults

SpireOK ==
  /\ token \in JoinToken /\ entries \subseteq InNamespace
  /\ ca \in Nat /\ agentCa \in 0..ca /\ bundle \in 0..ca

WorkOK ==
  /\ signer \in [Signer -> [kid : Nat, key : Nat, aud : BOOLEAN]]
  /\ jwk \in [Signer -> [kid : Nat, key : Nat]]
  /\ login \in [Workload -> Login]

(***************************************************************************)
(* A signed certificate is the last file of its run, and a run that finds   *)
(* one writes nothing: so before the signature all files of the run so far  *)
(* are of this run, and after it everything on the volume belongs together. *)
(***************************************************************************)
OfOneRun(p, n, step) ==
  /\ step \in Steps => p.certKey = Missing /\ n # Missing
  /\ step \in {"ca", "key", "csr", "sign"} => p.caKey = n
  /\ step \in {"key", "csr", "sign"} => p.ca = n
  /\ step \in {"csr", "sign"} => p.key = n
  /\ step = "sign" => p.csr = n
  /\ step = "chmod" => p.certKey # Missing
  /\ p.certKey # Missing => /\ p.key = p.certKey /\ p.certCa = p.caKey /\ p.ca = p.caKey
                            /\ p.ca # Missing

KeyMaterial ==
  /\ pki \in Pki /\ generation \in Nat /\ cert \in Pki
  /\ OfOneRun(pki, generation, at["cert-init"])
  /\ CertMatchesKey

IInv == AtOK /\ HostOK /\ SpireOK /\ WorkOK /\ KeyMaterial

-----------------------------------------------------------------------------
\* The invariant implies the properties, and holds at first.
LEMMA InvImplies == IInv => TypeOK /\ CertMatchesKey
BY DEF IInv, AtOK, HostOK, SpireOK, WorkOK, KeyMaterial, TypeOK, NoBundle

LEMMA InitOK == Init => IInv
<1> SUFFICES ASSUME Init PROVE IInv
  OBVIOUS
<1>1. AtOK
  <2>1. "down" \in ContainerStep /\ "down" \notin ScriptStep
    BY DEF ContainerStep, ScriptStep, EntryStep
  <2> QED BY <2>1 DEF Init, AtOK
<1>2. HostOK
  BY MaxFaultsAssumption DEF Init, HostOK
<1>3. SpireOK
  BY DEF Init, SpireOK, JoinToken, NoBundle
<1>4. WorkOK
  <2>1. NoSigner \in [kid : Nat, key : Nat, aud : BOOLEAN] /\ NoJwk \in [kid : Nat, key : Nat]
    BY DEF NoSigner, NoJwk
  <2>2. "none" \in Login
    BY DEF Login
  <2> QED BY <2>1, <2>2 DEF Init, WorkOK
<1>5. KeyMaterial
  <2>1. EmptyVolume \in Pki
    BY DEF EmptyVolume, Pki, Missing
  <2>2. EmptyVolume.certKey = Missing
    BY DEF EmptyVolume
  <2>3. at["cert-init"] = "down" /\ at["agent-cert"] = "down"
    BY DEF Init, Service, OneShot
  <2> QED BY <2>1, <2>2, <2>3 DEF Init, KeyMaterial, OfOneRun, Steps, CertMatchesKey
<1> QED BY <1>1, <1>2, <1>3, <1>4, <1>5 DEF IInv

-----------------------------------------------------------------------------
\* Dependencies are services.
LEMMA NeededAreServices ==
  ASSUME HostOK
  PROVE  Needed \subseteq Service
<1>1. \A s \in Service : \A d \in DependsOn(s) : d[1] \in Service
  BY DEF DependsOn, Service, OneShot, InNamespace
<1>2. ASSUME NEW S \in SUBSET Service
      PROVE  WithDependencies(S) \in SUBSET Service
  BY <1>1 DEF WithDependencies
<1>3. target \in SUBSET Service
  BY TargetsAssumption DEF HostOK
<1> QED BY <1>2, <1>3 DEF Needed

\* One container moves.
LEMMA GoesOK ==
  ASSUME AtOK, NEW s \in Service, NEW step \in ContainerStep,
         step \in ScriptStep => s \in OneShot, Goes(s, step)
  PROVE  AtOK' /\ at'[s] = step /\ \A q \in Service \ {s} : at'[q] = at[q]
BY DEF AtOK, Goes

\* Several containers stop.
LEMMA StopOK ==
  ASSUME AtOK, NEW R, NEW end \in {"down", "failed"},
         at' = [s \in Service |-> IF s \in R THEN end ELSE at[s]]
  PROVE  AtOK'
<1>1. end \in ContainerStep /\ end \notin ScriptStep
  BY DEF ContainerStep, ScriptStep, EntryStep
<1> QED BY <1>1 DEF AtOK

\* Key material is whole as long as nobody writes it, wherever cert-init goes
\* outside its steps.
LEMMA KeyMaterialKept ==
  ASSUME KeyMaterial, UNCHANGED <<pki, generation, cert>>,
         \/ at'["cert-init"] = at["cert-init"]
         \/ at'["cert-init"] \in {"down", "failed", "guard", "done"},
         at'["agent-cert"] = "up" => at["agent-cert"] = "up"
  PROVE  KeyMaterial'
BY DEF KeyMaterial, OfOneRun, Steps, CertMatchesKey

\* Everything but the containers stays.
LEMMA OthersOK ==
  ASSUME IInv, Others, AtOK', HostOK',
         \/ at'["cert-init"] = at["cert-init"]
         \/ at'["cert-init"] \in {"down", "failed", "guard", "done"},
         at'["agent-cert"] = "up" => at["agent-cert"] = "up"
  PROVE  IInv'
<1>1. SpireOK' /\ WorkOK'
  BY DEF Others, spireVars, workloadVars, IInv, SpireOK, WorkOK
<1>2. KeyMaterial'
  BY KeyMaterialKept DEF Others, pkiVars, workloadVars, IInv
<1> QED BY <1>1, <1>2 DEF IInv

\* What the operator, compose, a crash and `docker start` do to the containers.
LEMMA ComposeOK ==
  ASSUME IInv, Others,
         \/ Up
         \/ \E s \in Service : Starts(s) \/ GivesUp(s) \/ StartsAlone(s)
         \/ \E s \in Service \ {"cert-init"} : Dies(s)
  PROVE  IInv'
<1>1. AtOK /\ HostOK /\ Needed \subseteq Service /\ "cert-init" \in Service /\ "agent-cert" \in Service
  BY NeededAreServices DEF IInv, Service, OneShot
<1>2. Fault => faults' \in 0..MaxFaults
  BY <1>1, MaxFaultsAssumption DEF Fault, HostOK
<1>3. CASE Up
  <2> DEFINE R == {s \in Service : s \in Needed /\ ~Running(s)}
  <2>1. at' = [s \in Service |-> IF s \in R THEN "down" ELSE at[s]]
    BY <1>3 DEF Up
  <2> HIDE DEF R
  <2>2. AtOK'
    BY <1>1, <2>1, StopOK
  <2>3. HostOK'
    BY <1>1, <1>3 DEF Up, HostOK
  <2>4. /\ at'["cert-init"] \in {at["cert-init"], "down"}
        /\ at'["agent-cert"] \in {at["agent-cert"], "down"}
    BY <1>1, <2>1
  <2> QED BY <2>2, <2>3, <2>4, OthersOK
<1>4. ASSUME NEW s \in Service, Starts(s)
      PROVE  IInv'
  <2>1. /\ FirstStep(s) \in {"guard", "wait", "starting"}
        /\ FirstStep(s) = "guard" => s = "cert-init"
        /\ FirstStep(s) = "wait" => s = "spire-init"
        /\ s = "cert-init" => FirstStep(s) = "guard"
        /\ s = "agent-cert" => FirstStep(s) = "starting"
    BY DEF FirstStep
  <2>2. FirstStep(s) \in ContainerStep /\ (FirstStep(s) \in ScriptStep => s \in OneShot)
    BY <2>1 DEF ContainerStep, ScriptStep, EntryStep, OneShot
  <2>3. HostOK'
    BY <1>1, <1>4 DEF Starts, HostOK
  <2>4. CASE Running(s)
    <3>1. at' = at
      BY <1>4, <2>4 DEF Starts
    <3>2. AtOK'
      BY <1>1, <3>1 DEF AtOK
    <3> QED BY <2>3, <3>1, <3>2, OthersOK
  <2>5. CASE ~Running(s)
    <3>1. AtOK' /\ at'[s] = FirstStep(s) /\ \A q \in Service \ {s} : at'[q] = at[q]
      BY <1>1, <1>4, <2>2, <2>5, GoesOK DEF Starts
    <3>2. /\ at'["cert-init"] \in {at["cert-init"], "guard"}
          /\ at'["agent-cert"] \in {at["agent-cert"], "starting"}
      BY <1>1, <2>1, <3>1
    <3> QED BY <2>3, <3>1, <3>2, OthersOK
  <2> QED BY <2>4, <2>5
<1>5. ASSUME NEW s \in Service, GivesUp(s)
      PROVE  IInv'
  <2>1. AtOK' /\ HostOK'
    BY <1>1, <1>5 DEF GivesUp, AtOK, HostOK
  <2> QED BY <1>5, <2>1, OthersOK DEF GivesUp
<1>6. ASSUME NEW s \in Service, StartsAlone(s)
      PROVE  IInv'
  <2>1. "starting" \in ContainerStep /\ "starting" \notin ScriptStep
    BY DEF ContainerStep, ScriptStep, EntryStep
  <2>2. AtOK' /\ at'[s] = "starting" /\ \A q \in Service \ {s} : at'[q] = at[q]
    BY <1>1, <1>6, <2>1, GoesOK DEF StartsAlone
  <2>3. HostOK'
    BY <1>1, <1>2, <1>6 DEF StartsAlone, HostOK
  <2>4. s # "cert-init"
    BY <1>6 DEF StartsAlone, OneShot
  <2>5. /\ at'["cert-init"] = at["cert-init"]
        /\ at'["agent-cert"] \in {at["agent-cert"], "starting"}
    BY <1>1, <2>2, <2>4
  <2> QED BY <2>2, <2>3, <2>5, OthersOK
<1>7. ASSUME NEW s \in Service \ {"cert-init"}, Dies(s)
      PROVE  IInv'
  <2> DEFINE R == {c \in Service : DiesWith(s, c)}
  <2>1. at' = [c \in Service |-> IF c \in R THEN "failed" ELSE at[c]]
    BY <1>7 DEF Dies
  <2>2. "cert-init" \notin R
    BY <1>7 DEF DiesWith, InNamespace
  <2> HIDE DEF R
  <2>3. AtOK'
    BY <1>1, <2>1, StopOK
  <2>4. HostOK'
    BY <1>1, <1>2, <1>7 DEF Dies, HostOK
  <2>5. /\ at'["cert-init"] = at["cert-init"]
        /\ at'["agent-cert"] \in {at["agent-cert"], "failed"}
    BY <1>1, <2>1, <2>2
  <2> QED BY <2>3, <2>4, <2>5, OthersOK
<1> QED BY <1>3, <1>4, <1>5, <1>6, <1>7

-----------------------------------------------------------------------------
\* A step of the script is a step of its container.
LEMMA CertInitGoes ==
  ASSUME IInv, NEW from, NEW to \in {"done", "ca key", "ca", "key", "csr", "sign", "chmod"},
         Step(from, to), UNCHANGED <<spireVars, workloadVars>>
  PROVE  /\ AtOK' /\ HostOK' /\ SpireOK' /\ WorkOK'
         /\ at["cert-init"] = from /\ at'["cert-init"] = to /\ at'["agent-cert"] = at["agent-cert"]
<1>1. "cert-init" \in Service /\ "agent-cert" \in Service /\ "cert-init" \in OneShot /\ "agent-cert" # "cert-init"
  BY DEF Service, OneShot
<1>2. to \in ContainerStep
  BY DEF ContainerStep, ScriptStep
<1>3. AtOK' /\ at'["cert-init"] = to /\ at'["agent-cert"] = at["agent-cert"]
  BY <1>1, <1>2, GoesOK DEF Step, IInv
<1>4. HostOK' /\ SpireOK' /\ WorkOK'
  BY DEF Step, spireVars, workloadVars, IInv, HostOK, SpireOK, WorkOK
<1> QED BY <1>3, <1>4 DEF Step

\* New key material that is consistent at the next step of the script.
LEMMA WritesOK ==
  ASSUME IInv, NEW p \in Pki, pki' = p, generation' \in Nat,
         OfOneRun(p, generation', at'["cert-init"]),
         at'["agent-cert"] = "up" => at["agent-cert"] = "up", cert' = cert,
         AtOK', HostOK', SpireOK', WorkOK'
  PROVE  IInv'
BY DEF IInv, KeyMaterial, CertMatchesKey

\* The guard, and the commands one by one.
LEMMA GuardOK ==
  ASSUME IInv, Guard, UNCHANGED <<spireVars, workloadVars>>
  PROVE  IInv'
<1>1. pki \in Pki /\ generation \in Nat /\ OfOneRun(pki, generation, at["cert-init"])
  BY DEF IInv, KeyMaterial
<1>2. CASE Present /\ Step("guard", "done") /\ UNCHANGED pkiVars
  <2>1. /\ AtOK' /\ HostOK' /\ SpireOK' /\ WorkOK'
        /\ at'["cert-init"] = "done" /\ at'["agent-cert"] = at["agent-cert"]
    BY <1>2, CertInitGoes
  <2>2. KeyMaterial'
    BY <1>2, <2>1, KeyMaterialKept DEF IInv, pkiVars, workloadVars
  <2> QED BY <2>1, <2>2 DEF IInv
<1>3. CASE ~Present /\ Step("guard", "ca key") /\ generation' = generation + 1 /\ UNCHANGED pki
  <2>1. /\ AtOK' /\ HostOK' /\ SpireOK' /\ WorkOK'
        /\ at'["cert-init"] = "ca key" /\ at'["agent-cert"] = at["agent-cert"]
    BY <1>3, CertInitGoes
  <2>2. pki.certKey = Missing
    <3>1. ~Present
      BY <1>3
    <3> QED BY <1>1, <3>1 DEF OfOneRun, Present
  <2>3. generation' \in Nat /\ generation' # Missing
    <3>1. generation' = generation + 1
      BY <1>3
    <3> QED BY <1>1, <3>1 DEF Missing
  <2>4. OfOneRun(pki, generation', "ca key")
    BY <2>2, <2>3 DEF OfOneRun, Steps
  <2> QED BY <1>1, <1>3, <2>1, <2>3, <2>4, WritesOK DEF workloadVars
<1> QED BY <1>2, <1>3 DEF Guard

LEMMA MakeCaKeyOK ==
  ASSUME IInv, MakeCaKey, UNCHANGED <<spireVars, workloadVars>>
  PROVE  IInv'
<1> DEFINE p == [pki EXCEPT !.caKey = generation]
<1>1. pki \in Pki /\ generation \in Nat /\ OfOneRun(pki, generation, at["cert-init"])
  BY DEF IInv, KeyMaterial
<1>2. /\ AtOK' /\ HostOK' /\ SpireOK' /\ WorkOK' /\ at["cert-init"] = "ca key"
      /\ at'["cert-init"] = "ca" /\ at'["agent-cert"] = at["agent-cert"]
  BY CertInitGoes DEF MakeCaKey
<1>3. pki' = p /\ generation' = generation
  BY DEF MakeCaKey, Writes
<1>4. p \in Pki
  BY <1>1 DEF Pki
<1>5. /\ p.caKey = generation /\ p.ca = pki.ca /\ p.key = pki.key
      /\ p.csr = pki.csr /\ p.certKey = pki.certKey /\ p.certCa = pki.certCa
  BY <1>1 DEF Pki
<1> HIDE DEF p
<1>6. OfOneRun(p, generation, "ca")
  BY <1>1, <1>2, <1>5 DEF OfOneRun, Steps
<1> QED BY <1>1, <1>2, <1>3, <1>4, <1>6, WritesOK DEF workloadVars

LEMMA SelfSignOK ==
  ASSUME IInv, SelfSign, UNCHANGED <<spireVars, workloadVars>>
  PROVE  IInv'
<1> DEFINE p == [pki EXCEPT !.ca = pki.caKey]
<1>1. pki \in Pki /\ generation \in Nat /\ OfOneRun(pki, generation, at["cert-init"])
  BY DEF IInv, KeyMaterial
<1>2. /\ AtOK' /\ HostOK' /\ SpireOK' /\ WorkOK' /\ at["cert-init"] = "ca"
      /\ at'["cert-init"] = "key" /\ at'["agent-cert"] = at["agent-cert"]
  BY CertInitGoes DEF SelfSign
<1>3. pki' = p /\ generation' = generation
  BY DEF SelfSign, Writes
<1>4. p \in Pki
  BY <1>1 DEF Pki
<1>5. /\ p.caKey = pki.caKey /\ p.ca = pki.caKey /\ p.key = pki.key
      /\ p.csr = pki.csr /\ p.certKey = pki.certKey /\ p.certCa = pki.certCa
  BY <1>1 DEF Pki
<1> HIDE DEF p
<1>6. OfOneRun(p, generation, "key")
  BY <1>1, <1>2, <1>5 DEF OfOneRun, Steps
<1> QED BY <1>1, <1>2, <1>3, <1>4, <1>6, WritesOK DEF workloadVars

LEMMA MakeKeyOK ==
  ASSUME IInv, MakeKey, UNCHANGED <<spireVars, workloadVars>>
  PROVE  IInv'
<1> DEFINE p == [pki EXCEPT !.key = generation]
<1>1. pki \in Pki /\ generation \in Nat /\ OfOneRun(pki, generation, at["cert-init"])
  BY DEF IInv, KeyMaterial
<1>2. /\ AtOK' /\ HostOK' /\ SpireOK' /\ WorkOK' /\ at["cert-init"] = "key"
      /\ at'["cert-init"] = "csr" /\ at'["agent-cert"] = at["agent-cert"]
  BY CertInitGoes DEF MakeKey
<1>3. pki' = p /\ generation' = generation
  BY DEF MakeKey, Writes
<1>4. p \in Pki
  BY <1>1 DEF Pki
<1>5. /\ p.caKey = pki.caKey /\ p.ca = pki.ca /\ p.key = generation
      /\ p.csr = pki.csr /\ p.certKey = pki.certKey /\ p.certCa = pki.certCa
  BY <1>1 DEF Pki
<1> HIDE DEF p
<1>6. OfOneRun(p, generation, "csr")
  BY <1>1, <1>2, <1>5 DEF OfOneRun, Steps
<1> QED BY <1>1, <1>2, <1>3, <1>4, <1>6, WritesOK DEF workloadVars

LEMMA MakeCsrOK ==
  ASSUME IInv, MakeCsr, UNCHANGED <<spireVars, workloadVars>>
  PROVE  IInv'
<1> DEFINE p == [pki EXCEPT !.csr = pki.key]
<1>1. pki \in Pki /\ generation \in Nat /\ OfOneRun(pki, generation, at["cert-init"])
  BY DEF IInv, KeyMaterial
<1>2. /\ AtOK' /\ HostOK' /\ SpireOK' /\ WorkOK' /\ at["cert-init"] = "csr"
      /\ at'["cert-init"] = "sign" /\ at'["agent-cert"] = at["agent-cert"]
  BY CertInitGoes DEF MakeCsr
<1>3. pki' = p /\ generation' = generation
  BY DEF MakeCsr, Writes
<1>4. p \in Pki
  BY <1>1 DEF Pki
<1>5. /\ p.caKey = pki.caKey /\ p.ca = pki.ca /\ p.key = pki.key
      /\ p.csr = pki.key /\ p.certKey = pki.certKey /\ p.certCa = pki.certCa
  BY <1>1 DEF Pki
<1> HIDE DEF p
<1>6. OfOneRun(p, generation, "sign")
  BY <1>1, <1>2, <1>5 DEF OfOneRun, Steps
<1> QED BY <1>1, <1>2, <1>3, <1>4, <1>6, WritesOK DEF workloadVars

LEMMA SignOK ==
  ASSUME IInv, Sign, UNCHANGED <<spireVars, workloadVars>>
  PROVE  IInv'
<1> DEFINE p == [pki EXCEPT !.certKey = pki.csr, !.certCa = pki.caKey]
<1>1. pki \in Pki /\ generation \in Nat /\ OfOneRun(pki, generation, at["cert-init"])
  BY DEF IInv, KeyMaterial
<1>2. /\ AtOK' /\ HostOK' /\ SpireOK' /\ WorkOK' /\ at["cert-init"] = "sign"
      /\ at'["cert-init"] = "chmod" /\ at'["agent-cert"] = at["agent-cert"]
  BY CertInitGoes DEF Sign
<1>3. pki' = p /\ generation' = generation
  BY DEF Sign, Writes
<1>4. p \in Pki
  BY <1>1 DEF Pki
<1>5. /\ p.caKey = pki.caKey /\ p.ca = pki.ca /\ p.key = pki.key
      /\ p.csr = pki.csr /\ p.certKey = pki.csr /\ p.certCa = pki.caKey
  BY <1>1 DEF Pki
<1> HIDE DEF p
<1>6. OfOneRun(p, generation, "chmod")
  BY <1>1, <1>2, <1>5 DEF OfOneRun, Steps
<1> QED BY <1>1, <1>2, <1>3, <1>4, <1>6, WritesOK DEF workloadVars

LEMMA ChmodOK ==
  ASSUME IInv, Chmod, UNCHANGED <<spireVars, workloadVars>>
  PROVE  IInv'
<1> DEFINE p == [pki EXCEPT !.readable = TRUE]
<1>1. pki \in Pki /\ generation \in Nat /\ OfOneRun(pki, generation, at["cert-init"])
  BY DEF IInv, KeyMaterial
<1>2. /\ AtOK' /\ HostOK' /\ SpireOK' /\ WorkOK' /\ at["cert-init"] = "chmod"
      /\ at'["cert-init"] = "done" /\ at'["agent-cert"] = at["agent-cert"]
  BY CertInitGoes DEF Chmod
<1>3. pki' = p /\ generation' = generation
  BY DEF Chmod, Writes
<1>4. p \in Pki
  BY <1>1 DEF Pki
<1>5. /\ p.caKey = pki.caKey /\ p.ca = pki.ca /\ p.key = pki.key
      /\ p.csr = pki.csr /\ p.certKey = pki.certKey /\ p.certCa = pki.certCa
  BY <1>1 DEF Pki
<1> HIDE DEF p
<1>6. OfOneRun(p, generation, "done")
  BY <1>1, <1>2, <1>5 DEF OfOneRun, Steps
<1> QED BY <1>1, <1>2, <1>3, <1>4, <1>6, WritesOK DEF workloadVars

\* A run dies: of the file it is writing, all or nothing is left.
LEMMA CertInitDiesOK ==
  ASSUME IInv, CertInitDies, UNCHANGED <<spireVars, workloadVars>>
  PROVE  IInv'
<1>1. pki \in Pki /\ generation \in Nat /\ OfOneRun(pki, generation, at["cert-init"])
      /\ AtOK /\ HostOK
  BY DEF IInv, KeyMaterial
<1>2. /\ at' = [c \in Service |-> IF c \in {"cert-init"} THEN "failed" ELSE at[c]]
      /\ Fault /\ UNCHANGED <<target, wanted>> /\ generation' = generation
      /\ pki' = pki \/ pki' = Truncated
  BY DEF CertInitDies, Dies, DiesWith
<1>3. AtOK'
  BY <1>1, <1>2, StopOK
<1>4. HostOK'
  BY <1>1, <1>2, MaxFaultsAssumption DEF HostOK, Fault
<1>5. SpireOK' /\ WorkOK'
  BY DEF spireVars, workloadVars, IInv, SpireOK, WorkOK
<1>6. at'["cert-init"] = "failed" /\ at'["agent-cert"] = at["agent-cert"]
  BY <1>2 DEF Service, OneShot
<1>7. Truncated \in Pki /\ (Truncated.certKey # Missing => Truncated = pki)
  <2> DEFINE none == Missing
             t(f) == [pki EXCEPT ![f] = none]
             s == [pki EXCEPT !.certKey = none, !.certCa = none]
  <2>1. none \in Nat
    BY DEF Missing
  <2> HIDE DEF none
  <2>2. at["cert-init"] \in Steps => pki.certKey = none
    BY <1>1 DEF OfOneRun, none
  <2>3. s \in Pki /\ s.certKey = none
    BY <1>1, <2>1 DEF Pki
  <2>4. /\ [pki EXCEPT !.caKey = none] \in Pki /\ [pki EXCEPT !.caKey = none].certKey = pki.certKey
        /\ [pki EXCEPT !.ca = none] \in Pki /\ [pki EXCEPT !.ca = none].certKey = pki.certKey
        /\ [pki EXCEPT !.key = none] \in Pki /\ [pki EXCEPT !.key = none].certKey = pki.certKey
        /\ [pki EXCEPT !.csr = none] \in Pki /\ [pki EXCEPT !.csr = none].certKey = pki.certKey
    BY <1>1, <2>1 DEF Pki
  <2>5. CASE at["cert-init"] \in Steps
    <3>1. Truncated \in {[pki EXCEPT !.caKey = none], [pki EXCEPT !.ca = none], [pki EXCEPT !.key = none],
                         [pki EXCEPT !.csr = none], s}
      BY <2>5 DEF Truncated, Steps, none
    <3>2. Truncated \in Pki /\ Truncated.certKey = none
      BY <2>2, <2>3, <2>4, <2>5, <3>1
    <3> QED BY <3>2 DEF none
  <2>6. CASE at["cert-init"] \notin Steps
    <3>1. Truncated = pki
      BY <2>6 DEF Truncated, Steps
    <3> QED BY <1>1, <3>1
  <2> QED BY <2>5, <2>6
<1>8. OfOneRun(pki', generation', "failed") /\ pki' \in Pki
  BY <1>1, <1>2, <1>7 DEF OfOneRun, Steps
<1> QED BY <1>1, <1>2, <1>3, <1>4, <1>5, <1>6, <1>8, WritesOK DEF workloadVars

LEMMA CertInitOK ==
  ASSUME IInv, CertInitStep, UNCHANGED <<spireVars, workloadVars>>
  PROVE  IInv'
BY GuardOK, MakeCaKeyOK, SelfSignOK, MakeKeyOK, MakeCsrOK, SignOK, ChmodOK DEF CertInitStep

-----------------------------------------------------------------------------
\* A step of another container than cert-init, with what it may change besides.
LEMMA ElsewhereOK ==
  ASSUME IInv, NEW s \in Service \ {"cert-init"}, NEW step \in ContainerStep, Goes(s, step),
         step \in ScriptStep => s \in OneShot,
         s = "agent-cert" => step # "up",
         UNCHANGED <<target, wanted, pkiVars, cert>>, faults' \in 0..MaxFaults,
         SpireOK', WorkOK'
  PROVE  IInv'
<1>1. AtOK /\ HostOK /\ "cert-init" \in Service /\ "agent-cert" \in Service
  BY DEF IInv, Service, OneShot
<1>2. AtOK' /\ at'[s] = step /\ \A q \in Service \ {s} : at'[q] = at[q]
  BY <1>1, GoesOK
<1>3. HostOK'
  BY <1>1 DEF HostOK
<1>4. at'["cert-init"] = at["cert-init"] /\ (at'["agent-cert"] = "up" => at["agent-cert"] = "up")
  BY <1>1, <1>2
<1>5. KeyMaterial'
  BY <1>4, KeyMaterialKept DEF pkiVars, IInv
<1> QED BY <1>2, <1>3, <1>5 DEF IInv

\* spire-init.
LEMMA InitStepOK ==
  ASSUME IInv, InitStep, UNCHANGED <<pkiVars, workloadVars>>
  PROVE  IInv'
<1>1. "spire-init" \in Service \ {"cert-init"} /\ "spire-init" \in OneShot
  BY DEF Service, OneShot
<1>2. SpireOK /\ WorkOK' /\ faults \in 0..MaxFaults /\ UNCHANGED <<cert, pkiVars, bundle>>
  BY DEF IInv, HostOK, WorkOK, workloadVars, pkiVars
<1>3. CASE InitWaits
  <2>1. Goes("spire-init", "token") /\ UNCHANGED <<target, wanted, faults, spireVars>>
    BY <1>3 DEF InitWaits, Quietly
  <2>2. "token" \in ContainerStep /\ SpireOK'
    BY <1>2, <2>1 DEF ContainerStep, ScriptStep, SpireOK, spireVars
  <2> QED BY <1>1, <1>2, <2>1, <2>2, ElsewhereOK
<1>4. CASE InitFails
  <2>1. Goes("spire-init", "failed") /\ UNCHANGED <<target, wanted, faults, spireVars>>
    BY <1>4 DEF InitFails, Quietly
  <2>2. "failed" \in ContainerStep /\ SpireOK'
    BY <1>2, <2>1 DEF ContainerStep, SpireOK, spireVars
  <2> QED BY <1>1, <1>2, <2>1, <2>2, ElsewhereOK
<1>5. CASE MakesToken
  <2>1. Goes("spire-init", "entry 1") /\ UNCHANGED <<target, wanted, faults, entries, ca, agentCa>>
        /\ token' = "fresh"
    BY <1>5 DEF MakesToken, Quietly
  <2>2. "entry 1" \in ContainerStep /\ SpireOK'
    BY <1>2, <2>1 DEF ContainerStep, ScriptStep, EntryStep, SpireOK, JoinToken
  <2> QED BY <1>1, <1>2, <2>1, <2>2, ElsewhereOK
<1>6. CASE CreatesEntry
  <2> DEFINE step == at["spire-init"]
  <2>1. /\ step \in EntryStep /\ Goes("spire-init", After(step))
        /\ UNCHANGED <<target, wanted, token, ca, agentCa>>
        /\ entries' = entries \cup {EntryOf(step)} \/ entries' = entries
        /\ faults' = faults \/ Fault
    BY <1>6 DEF CreatesEntry
  <2> HIDE DEF step
  <2>2. After(step) \in {"entry 2", "entry 3", "entry 4", "done"} /\ EntryOf(step) \in InNamespace
    BY <2>1 DEF EntryStep, After, EntryOf, InNamespace
  <2>3. After(step) \in ContainerStep
    BY <2>2 DEF ContainerStep, ScriptStep, EntryStep
  <2>4. SpireOK'
    BY <1>2, <2>1, <2>2 DEF SpireOK
  <2>5. faults' \in 0..MaxFaults
    BY <1>2, <2>1, MaxFaultsAssumption DEF Fault
  <2> QED BY <1>1, <1>2, <2>1, <2>3, <2>4, <2>5, ElsewhereOK
<1> QED BY <1>3, <1>4, <1>5, <1>6 DEF InitStep

\* The server and the agent start.
LEMMA SpireStartsOK ==
  ASSUME IInv, ServerReady \/ AgentJoins \/ AgentFails, UNCHANGED <<pkiVars, workloadVars>>
  PROVE  IInv'
<1>1. {"spire-server", "spire-agent"} \subseteq Service \ {"cert-init"}
  BY DEF Service, OneShot
<1>2. /\ SpireOK /\ WorkOK' /\ faults \in 0..MaxFaults /\ UNCHANGED <<cert, pkiVars, bundle>>
      /\ {"up", "failed"} \subseteq ContainerStep \ ScriptStep
  BY DEF IInv, HostOK, WorkOK, workloadVars, pkiVars, ContainerStep, ScriptStep, EntryStep
<1>3. CASE ServerReady
  <2>1. /\ Goes("spire-server", "up") /\ UNCHANGED <<target, wanted, faults, token, entries, agentCa>>
        /\ ca' = ca + 1
    BY <1>3 DEF ServerReady, Quietly
  <2>2. SpireOK'
    BY <1>2, <2>1 DEF SpireOK
  <2> QED BY <1>1, <1>2, <2>1, <2>2, ElsewhereOK
<1>4. CASE AgentJoins
  <2>1. /\ Goes("spire-agent", "up") /\ UNCHANGED <<target, wanted, faults, entries, ca>>
        /\ token' = "spent" /\ agentCa' = ca
    BY <1>4 DEF AgentJoins, Quietly
  <2>2. SpireOK'
    BY <1>2, <2>1 DEF SpireOK, JoinToken
  <2> QED BY <1>1, <1>2, <2>1, <2>2, ElsewhereOK
<1>5. CASE AgentFails
  <2>1. Goes("spire-agent", "failed") /\ UNCHANGED <<target, wanted, faults, spireVars>>
    BY <1>5 DEF AgentFails, Quietly
  <2>2. SpireOK'
    BY <1>2, <2>1 DEF SpireOK, spireVars
  <2> QED BY <1>1, <1>2, <2>1, <2>2, ElsewhereOK
<1> QED BY <1>3, <1>4, <1>5

\* A CA rotation, a join token that expires, an agent that ends.
LEMMA SpireDisturbedOK ==
  ASSUME IInv, RotatesCa \/ TokenExpires \/ AgentEnds, UNCHANGED <<pkiVars, workloadVars>>
  PROVE  IInv'
<1>1. /\ AtOK /\ HostOK /\ SpireOK /\ WorkOK' /\ KeyMaterial /\ UNCHANGED <<pki, generation, cert, bundle>>
      /\ "cert-init" \in Service /\ "agent-cert" \in Service
  BY DEF IInv, WorkOK, workloadVars, pkiVars, Service, OneShot
<1>2. Fault => faults' \in 0..MaxFaults
  BY <1>1, MaxFaultsAssumption DEF Fault, HostOK
<1>3. CASE RotatesCa
  <2>1. UNCHANGED <<target, wanted, at, token, entries>> /\ Fault /\ ca' = ca + 1
        /\ (agentCa' = ca' \/ agentCa' = agentCa)
    BY <1>3 DEF RotatesCa
  <2>2. AtOK' /\ HostOK' /\ SpireOK'
    BY <1>1, <1>2, <2>1 DEF AtOK, HostOK, SpireOK
  <2>3. KeyMaterial'
    BY <1>1, <2>1, KeyMaterialKept
  <2> QED BY <1>1, <2>2, <2>3 DEF IInv
<1>4. CASE TokenExpires
  <2>1. UNCHANGED <<target, wanted, at, entries, ca, agentCa>> /\ Fault /\ token' = "spent"
    BY <1>4 DEF TokenExpires
  <2>2. AtOK' /\ HostOK' /\ SpireOK'
    BY <1>1, <1>2, <2>1 DEF AtOK, HostOK, SpireOK, JoinToken
  <2>3. KeyMaterial'
    BY <1>1, <2>1, KeyMaterialKept
  <2> QED BY <1>1, <2>2, <2>3 DEF IInv
<1>5. CASE AgentEnds
  <2> DEFINE R == {s \in Service : DiesWith("spire-agent", s)}
  <2>1. /\ at' = [s \in Service |-> IF s \in R THEN "failed" ELSE at[s]]
        /\ UNCHANGED <<target, wanted, faults, spireVars>>
    BY <1>5 DEF AgentEnds, Quietly
  <2>2. "cert-init" \notin R
    BY DEF DiesWith, InNamespace
  <2> HIDE DEF R
  <2>3. AtOK' /\ HostOK' /\ SpireOK'
    BY <1>1, <2>1, StopOK DEF HostOK, SpireOK, spireVars
  <2>4. at'["cert-init"] = at["cert-init"] /\ (at'["agent-cert"] = "up" => at["agent-cert"] = "up")
    BY <1>1, <2>1, <2>2
  <2>5. KeyMaterial'
    BY <1>1, <2>4, KeyMaterialKept
  <2> QED BY <1>1, <2>3, <2>5 DEF IInv
<1> QED BY <1>3, <1>4, <1>5

\* `down`, with the volume or without.
LEMMA RemovedOK ==
  ASSUME IInv, ContainersRemoved
  PROVE  IInv'
<1>1. AtOK /\ HostOK /\ SpireOK /\ KeyMaterial /\ "cert-init" \in Service /\ "agent-cert" \in Service
  BY DEF IInv, Service, OneShot
<1>2. /\ Down /\ (pki' = pki \/ pki' = EmptyVolume) /\ generation' = generation
      /\ entries' = {} /\ token' \in {"none", "spent"} /\ agentCa' = 0 /\ UNCHANGED <<ca, workloadVars>>
  BY DEF ContainersRemoved, RemovesVolume, pkiVars, NoBundle
<1>3. at' = [s \in Service |-> IF s \in Service THEN "down" ELSE at[s]]
  BY <1>2 DEF Down
<1>4. AtOK'
  BY <1>1, <1>3, StopOK
<1>5. HostOK'
  BY <1>1, <1>2, MaxFaultsAssumption DEF Down, Fault, HostOK
<1>6. SpireOK'
  BY <1>1, <1>2 DEF SpireOK, JoinToken, workloadVars
<1>7. WorkOK'
  BY <1>2 DEF IInv, WorkOK, workloadVars
<1>8. at'["cert-init"] = "down" /\ at'["agent-cert"] = "down"
  BY <1>1, <1>3
<1>9. pki' \in Pki /\ OfOneRun(pki', generation', "down")
  <2>1. CASE pki' = pki
    BY <1>1, <1>2, <2>1 DEF KeyMaterial, OfOneRun, Steps
  <2>2. CASE pki' = EmptyVolume
    <3>1. EmptyVolume \in Pki /\ EmptyVolume.certKey = Missing
      BY DEF EmptyVolume, Pki, Missing
    <3> QED BY <2>2, <3>1 DEF OfOneRun, Steps
  <2> QED BY <1>2, <2>1, <2>2
<1>10. generation' \in Nat /\ cert' = cert
  BY <1>1, <1>2 DEF KeyMaterial, workloadVars
<1> QED BY <1>4, <1>5, <1>6, <1>7, <1>8, <1>9, <1>10, WritesOK

-----------------------------------------------------------------------------
\* A process of the demo starts; what it does to the variables of this module.
LEMMA StartedOK ==
  ASSUME IInv, NEW s \in Service \ {"cert-init"}, NEW step \in {"up", "failed"}, Started(s, step),
         s = "agent-cert" => step # "up",
         cert' = cert, bundle' \in {bundle, agentCa},
         signer' \in [Signer -> [kid : Nat, key : Nat, aud : BOOLEAN]],
         jwk' \in [Signer -> [kid : Nat, key : Nat]]
  PROVE  IInv'
<1>1. Goes(s, step) /\ UNCHANGED <<target, wanted, faults, pkiVars, spireVars, login>>
  BY DEF Started
<1>2. step \in ContainerStep /\ step \notin ScriptStep
  BY DEF ContainerStep, ScriptStep, EntryStep
<1>3. SpireOK' /\ WorkOK'
  BY <1>1 DEF IInv, SpireOK, WorkOK, spireVars
<1>4. faults' \in 0..MaxFaults
  BY <1>1 DEF IInv, HostOK
<1> QED BY <1>1, <1>2, <1>3, <1>4, ElsewhereOK

\* A new kid, a key and whether the audience was discovered.
LEMMA SignsOK ==
  ASSUME IInv, NEW w \in Signer, NEW key \in Nat, Signs(w, key)
  PROVE  signer' \in [Signer -> [kid : Nat, key : Nat, aud : BOOLEAN]]
<1> DEFINE kid == NewKid(w)
           aud == Discovered
<1>1. signer \in [Signer -> [kid : Nat, key : Nat, aud : BOOLEAN]]
  BY DEF IInv, WorkOK
<1>2. kid \in Nat /\ aud \in BOOLEAN
  BY <1>1 DEF NewKid, Discovered
<1>3. signer' = [signer EXCEPT ![w] = [kid |-> kid, key |-> key, aud |-> aud]]
  BY DEF Signs
<1> HIDE DEF kid, aud
<1> QED BY <1>1, <1>2, <1>3

\* agent-cert loads key and certificate.
LEMMA AgentCertStartsOK ==
  ASSUME IInv, AgentCertStarts
  PROVE  IInv'
<1>1. /\ Started("agent-cert", "up") /\ cert' = pki /\ Signs("agent-cert", pki.key)
      /\ UNCHANGED <<jwk, bundle>> /\ Loadable
  BY DEF AgentCertStarts
<1>2. /\ Goes("agent-cert", "up") /\ UNCHANGED <<target, wanted, faults, pkiVars, spireVars, login>>
  BY <1>1 DEF Started
<1>3. /\ AtOK /\ HostOK /\ KeyMaterial /\ pki \in Pki /\ pki.key \in Nat
      /\ "cert-init" \in Service /\ "agent-cert" \in Service /\ "agent-cert" \in Signer
      /\ "cert-init" # "agent-cert"
  BY DEF IInv, KeyMaterial, Pki, Service, OneShot, Signer
<1>4. "up" \in ContainerStep /\ "up" \notin ScriptStep
  BY DEF ContainerStep, ScriptStep, EntryStep
<1>5. AtOK' /\ at'["cert-init"] = at["cert-init"]
  BY <1>2, <1>3, <1>4, GoesOK
<1>6. HostOK' /\ SpireOK'
  BY <1>1, <1>2, <1>3 DEF IInv, HostOK, SpireOK, spireVars
<1>7. signer' \in [Signer -> [kid : Nat, key : Nat, aud : BOOLEAN]]
  BY <1>1, <1>3, SignsOK
<1>8. WorkOK'
  BY <1>1, <1>2, <1>7 DEF IInv, WorkOK
<1>9. pki' = pki /\ generation' = generation /\ generation \in Nat
      /\ OfOneRun(pki, generation, at["cert-init"])
  BY <1>2, <1>3 DEF pkiVars, KeyMaterial
<1>10. pki.certKey = pki.key /\ pki.certCa = pki.ca
  BY <1>1, <1>9 DEF Loadable, OfOneRun
<1>11. KeyMaterial'
  BY <1>1, <1>3, <1>5, <1>9, <1>10 DEF KeyMaterial, CertMatchesKey
<1> QED BY <1>5, <1>6, <1>8, <1>11 DEF IInv

\* Every process.
LEMMA ProcessStartsOK ==
  ASSUME IInv, NEW s \in Service, ProcessStarts(s)
  PROVE  IInv'
<1>1. /\ signer \in [Signer -> [kid : Nat, key : Nat, aud : BOOLEAN]]
      /\ jwk \in [Signer -> [kid : Nat, key : Nat]]
  BY DEF IInv, WorkOK
<1>2. CASE s = "keycloak" /\ KeycloakReady
  <2>1. NoJwk \in [kid : Nat, key : Nat]
    BY DEF NoJwk
  <2>2. jwk' \in [Signer -> [kid : Nat, key : Nat]]
    BY <1>2, <2>1 DEF KeycloakReady
  <2> QED BY <1>1, <1>2, <2>2, StartedOK DEF KeycloakReady
<1>3. CASE s \in {"spire-server", "spire-agent"}
  BY <1>3, SpireStartsOK DEF ProcessStarts, ServerStarts, AgentStarts
<1>4. CASE s = "spiffe-service" /\ SpiffeServiceStarts
  <2>1. "spiffe-service" \in Signer /\ signer["spiffe-service"].key + 1 \in Nat
    BY <1>1 DEF Signer
  <2>2. signer' \in [Signer -> [kid : Nat, key : Nat, aud : BOOLEAN]]
    BY <1>4, <2>1, SignsOK DEF SpiffeServiceStarts
  <2> QED BY <1>1, <1>4, <2>2, StartedOK DEF SpiffeServiceStarts
<1>5. CASE s = "agent-spiffe" /\ AgentSpiffeStarts
  <2>1. "agent-spiffe" \in Signer /\ signer["agent-spiffe"].key + 1 \in Nat
    BY <1>1 DEF Signer
  <2>2. signer' \in [Signer -> [kid : Nat, key : Nat, aud : BOOLEAN]]
    BY <1>5, <2>1, SignsOK DEF AgentSpiffeStarts
  <2> QED BY <1>1, <1>5, <2>2, StartedOK DEF AgentSpiffeStarts
<1>6. CASE s = "agent-cert" /\ (AgentCertStarts \/ AgentCertFails)
  <2>1. CASE AgentCertFails
    BY <1>1, <1>6, <2>1, StartedOK DEF AgentCertFails
  <2> QED BY <1>6, <2>1, AgentCertStartsOK
<1>7. CASE s = "keycloak-mtls-proxy" /\ (ProxyStarts \/ ProxyFails)
  BY <1>1, <1>7, StartedOK DEF ProxyStarts, ProxyFails
<1>8. CASE s = "agent-spiffe-mtls" /\ MtlsAgentStarts
  BY <1>1, <1>8, StartedOK DEF MtlsAgentStarts
<1> QED BY <1>2, <1>3, <1>4, <1>5, <1>6, <1>7, <1>8 DEF ProcessStarts

-----------------------------------------------------------------------------
\* A token request touches nothing but its outcome and Keycloak's cache of keys.
LEMMA AsksOK ==
  ASSUME IInv, NEW w \in Workload, NEW outcome \in Login, Asks(w, outcome),
         jwk' \in [Signer -> [kid : Nat, key : Nat]]
  PROVE  IInv'
<1>1. /\ login' = [login EXCEPT ![w] = outcome]
      /\ UNCHANGED <<composeVars, pkiVars, spireVars, signer, cert, bundle>>
  BY DEF Asks
<1>2. WorkOK'
  BY <1>1 DEF IInv, WorkOK
<1>3. AtOK' /\ HostOK' /\ SpireOK'
  BY <1>1 DEF composeVars, spireVars, IInv, AtOK, HostOK, SpireOK
<1>4. KeyMaterial'
  BY <1>1, KeyMaterialKept DEF composeVars, pkiVars, IInv
<1> QED BY <1>2, <1>3, <1>4 DEF IInv

LEMMA SendsAssertionOK ==
  ASSUME IInv, NEW w \in Signer, NEW outcome \in Login, SendsAssertion(w, outcome)
  PROVE  IInv'
<1> DEFINE key == KeyTaken(w)
           kid == signer[w].kid
<1>1. /\ signer \in [Signer -> [kid : Nat, key : Nat, aud : BOOLEAN]]
      /\ jwk \in [Signer -> [kid : Nat, key : Nat]] /\ w \in Workload
  BY DEF IInv, WorkOK, Workload
<1>2. key \in Nat /\ kid \in Nat
  BY <1>1 DEF KeyTaken
<1>3. jwk' \in {jwk, [jwk EXCEPT ![w] = [kid |-> kid, key |-> key]]} /\ Asks(w, outcome)
  BY DEF SendsAssertion
<1> HIDE DEF key, kid
<1>4. jwk' \in [Signer -> [kid : Nat, key : Nat]]
  BY <1>1, <1>2, <1>3
<1> QED BY <1>1, <1>3, <1>4, AsksOK

LEMMA TokenRequestOK ==
  ASSUME IInv, NEW w \in Workload, TokenRequest(w)
  PROVE  IInv'
<1>1. /\ {"spiffe-service", "agent-spiffe", "agent-cert"} \subseteq Signer
      /\ Signer \cup {"agent-spiffe-mtls"} \subseteq Workload
      /\ {"unattested", "refused", "denied", "ok"} \subseteq Login
  BY DEF Signer, Workload, Login
<1>2. jwk \in [Signer -> [kid : Nat, key : Nat]]
  BY DEF IInv, WorkOK
<1>3. CASE w = "spiffe-service" /\ Demo
  <2>1. \/ Asks("spiffe-service", "unattested") /\ UNCHANGED jwk
        \/ \E outcome \in {"refused", "ok", "denied"} : SendsAssertion("spiffe-service", outcome)
    BY <1>3 DEF Demo
  <2>2. CASE Asks("spiffe-service", "unattested") /\ UNCHANGED jwk
    BY <1>1, <1>2, <2>2, AsksOK
  <2>3. CASE \E outcome \in {"refused", "ok", "denied"} : SendsAssertion("spiffe-service", outcome)
    BY <1>1, <2>3, SendsAssertionOK
  <2> QED BY <2>1, <2>2, <2>3
<1>4. CASE w = "agent-spiffe" /\ AgentSpiffeLogin
  <2>1. \/ Asks("agent-spiffe", "unattested") /\ UNCHANGED jwk
        \/ \E outcome \in {"refused", "ok"} : SendsAssertion("agent-spiffe", outcome)
    BY <1>4 DEF AgentSpiffeLogin
  <2>2. CASE Asks("agent-spiffe", "unattested") /\ UNCHANGED jwk
    BY <1>1, <1>2, <2>2, AsksOK
  <2>3. CASE \E outcome \in {"refused", "ok"} : SendsAssertion("agent-spiffe", outcome)
    BY <1>1, <2>3, SendsAssertionOK
  <2> QED BY <2>1, <2>2, <2>3
<1>5. CASE w = "agent-cert" /\ AgentCertLogin
  <2>1. \E outcome \in {"refused", "ok"} : SendsAssertion("agent-cert", outcome)
    BY <1>5 DEF AgentCertLogin
  <2> QED BY <1>1, <2>1, SendsAssertionOK
<1>6. CASE w = "agent-spiffe-mtls" /\ MtlsLogin
  <2>1. \E outcome \in {"unattested", "ok", "refused"} : Asks("agent-spiffe-mtls", outcome) /\ UNCHANGED jwk
    BY <1>6 DEF MtlsLogin
  <2> QED BY <1>1, <1>2, <2>1, AsksOK
<1> QED BY <1>3, <1>4, <1>5, <1>6 DEF TokenRequest

-----------------------------------------------------------------------------
\* The invariant is inductive.
LEMMA NextOK == IInv /\ [Next]_vars => IInv'
<1> SUFFICES ASSUME IInv, [Next]_vars PROVE IInv'
  OBVIOUS
<1>1. CASE Operator \/ ComposeStep \/ (\E s \in Service : StartsAlone(s) /\ Others)
           \/ (\E s \in Service \ {"cert-init"} : Dies(s) /\ Others)
  BY <1>1, ComposeOK DEF Operator, ComposeStep
<1>2. CASE ScriptRuns
  BY <1>2, CertInitOK, InitStepOK DEF ScriptRuns
<1>3. CASE \E s \in Service : ProcessStarts(s)
  BY <1>3, ProcessStartsOK
<1>4. CASE \E w \in Workload : TokenRequest(w)
  BY <1>4, TokenRequestOK
<1>5. CASE \/ CertInitDies /\ UNCHANGED <<spireVars, workloadVars>>
           \/ ContainersRemoved
           \/ (RotatesCa \/ TokenExpires \/ AgentEnds) /\ UNCHANGED <<pkiVars, workloadVars>>
  BY <1>5, CertInitDiesOK, RemovedOK, SpireDisturbedOK
<1>6. CASE UNCHANGED vars
  <2>1. UNCHANGED <<composeVars, pkiVars, spireVars, workloadVars>>
    BY <1>6 DEF vars
  <2>2. AtOK' /\ HostOK' /\ SpireOK' /\ WorkOK'
    BY <2>1 DEF composeVars, spireVars, workloadVars, IInv, AtOK, HostOK, SpireOK, WorkOK
  <2>3. KeyMaterial'
    BY <2>1, KeyMaterialKept DEF composeVars, pkiVars, workloadVars, IInv
  <2> QED BY <2>2, <2>3 DEF IInv
<1> QED BY <1>1, <1>2, <1>3, <1>4, <1>5, <1>6 DEF Next, Disturbance

(***************************************************************************)
(* The inductive invariant holds in every reachable state.                  *)
(***************************************************************************)
THEOREM Invariance == Spec => []IInv
<1> QED BY InitOK, NextOK, PTL DEF Spec

(***************************************************************************)
(* Every variable keeps its type, whatever the operator asks for.           *)
(***************************************************************************)
THEOREM TypeCorrect == Spec => []TypeOK
<1> QED BY Invariance, InvImplies, PTL

(***************************************************************************)
(* However often cert-init dies, and wherever, the certificate agent-cert   *)
(* has loaded is for its key and signed by the CA beside it                 *)
(* (cert-init/setup.sh:41).                                                 *)
(***************************************************************************)
THEOREM LoadedCertMatches == Spec => []CertMatchesKey
<1> QED BY Invariance, InvImplies, PTL

\* No step but the removal of the volume changes a complete PKI.
LEMMA StepKeepsKey ==
  ASSUME IInv, [Next]_vars, Present
  PROVE  \/ pki' = EmptyVolume
         \/ /\ pki'["key"] = pki["key"] /\ pki'["certKey"] = pki["certKey"]
            /\ pki'["certCa"] = pki["certCa"] /\ pki'["ca"] = pki["ca"]
<1>1. pki \in Pki /\ at["cert-init"] \notin Steps
  BY DEF IInv, KeyMaterial, OfOneRun, Present
<1>2. CASE CertInitStep
  <2>1. pki' = pki \/ Chmod
    BY <1>1, <1>2 DEF CertInitStep, Guard, MakeCaKey, SelfSign, MakeKey, MakeCsr, Sign, Step,
                      Steps, pkiVars
  <2>2. CASE Chmod
    <3>1. pki' = [pki EXCEPT !.readable = TRUE]
      BY <2>2 DEF Chmod, Writes
    <3> QED BY <1>1, <3>1 DEF Pki
  <2> QED BY <2>1, <2>2
<1>3. CASE CertInitDies
  <2>1. Truncated = pki
    BY <1>1 DEF Truncated, Steps
  <2> QED BY <1>3, <2>1 DEF CertInitDies
<1>4. CASE ContainersRemoved
  BY <1>4 DEF ContainersRemoved, RemovesVolume, pkiVars
<1>5. CASE ~CertInitStep /\ ~CertInitDies /\ ~ContainersRemoved
  <2>1. pki' = pki
    BY <1>5 DEF Next, vars, Operator, ComposeStep, Others, ScriptRuns, pkiVars, ProcessStarts,
                KeycloakReady, SpiffeServiceStarts, AgentSpiffeStarts, AgentCertStarts,
                AgentCertFails, ProxyStarts, ProxyFails, MtlsAgentStarts, Started, ServerStarts,
                AgentStarts, TokenRequest, Demo, AgentSpiffeLogin, AgentCertLogin, MtlsLogin,
                SendsAssertion, Asks, Disturbance
  <2> QED BY <2>1
<1> QED BY <1>2, <1>3, <1>4, <1>5

(***************************************************************************)
(* Neither a later run of cert-init nor a crash of one touches a complete   *)
(* PKI (cert-init/setup.sh:7).                                              *)
(***************************************************************************)
THEOREM CompletePkiIsKept == Spec => KeyIsKept
<1> DEFINE Kept == Present => \/ pki' = EmptyVolume
                              \/ \A f \in {"key", "certKey", "certCa", "ca"} : pki'[f] = pki[f]
<1>1. IInv /\ [Next]_vars => [Kept]_vars
  <2> SUFFICES ASSUME IInv, [Next]_vars, Present
               PROVE  \/ pki' = EmptyVolume
                      \/ \A f \in {"key", "certKey", "certCa", "ca"} : pki'[f] = pki[f]
    OBVIOUS
  <2>1. \/ pki' = EmptyVolume
        \/ /\ pki'["key"] = pki["key"] /\ pki'["certKey"] = pki["certKey"]
           /\ pki'["certCa"] = pki["certCa"] /\ pki'["ca"] = pki["ca"]
    BY StepKeepsKey
  <2> QED BY <2>1
<1> QED BY <1>1, Invariance, PTL DEF Spec, KeyIsKept

=============================================================================
