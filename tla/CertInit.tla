------------------------------- MODULE CertInit -------------------------------
(***************************************************************************)
(* cert-init/setup.sh: the one-shot that fills the agent-cert-pki volume    *)
(* with a CA, the agent's key and its certificate, unless they are there.   *)
(* Key material is named by the run that made it.  A file is written whole, *)
(* or is left empty by a run that dies, which counts as missing.            *)
(***************************************************************************)
EXTENDS Compose

VARIABLES
  pki,         \* the files on the volume
  generation   \* runs that have generated key material

pkiVars == <<pki, generation>>

Missing == 0

\* The CA's certificate is for the key `ca`, the request for the key `csr`; the
\* agent's certificate is for `certKey`, signed with the CA key `certCa`.
\* readable says whether agent.key can be read by a user other than root.
EmptyVolume ==
  [caKey |-> Missing, ca |-> Missing, key |-> Missing, csr |-> Missing,
   certKey |-> Missing, certCa |-> Missing, readable |-> FALSE]

Pki == [caKey : Nat, ca : Nat, key : Nat, csr : Nat, certKey : Nat, certCa : Nat,
        readable : BOOLEAN]

\* -s agent.key, -s agent.crt, -s ca.crt
Present == pki.key # Missing /\ pki.certKey # Missing /\ pki.ca # Missing

Step(from, to) ==
  /\ at["cert-init"] = from
  /\ Goes("cert-init", to)
  /\ UNCHANGED <<target, wanted, faults>>

\* Mistake: the script has no idempotency guard.
NoGuard ==
  /\ Step("guard", "ca key")
  /\ generation' = generation + 1
  /\ UNCHANGED pki

Guard ==
  \/ Present /\ Step("guard", "done") /\ UNCHANGED pkiVars
  \/ /\ ~Present /\ Step("guard", "ca key")
     /\ generation' = generation + 1
     /\ UNCHANGED pki

Writes(files) == pki' = files /\ UNCHANGED generation

MakeCaKey == Step("ca key", "ca") /\ Writes([pki EXCEPT !.caKey = generation])
SelfSign  == Step("ca", "key") /\ Writes([pki EXCEPT !.ca = pki.caKey])
MakeKey   == Step("key", "csr") /\ Writes([pki EXCEPT !.key = generation])

\* Mistake: a request that is there already is used again.
KeepCsr ==
  /\ Step("csr", "sign")
  /\ Writes([pki EXCEPT !.csr = IF @ # Missing THEN @ ELSE pki.key])

MakeCsr   == Step("csr", "sign") /\ Writes([pki EXCEPT !.csr = pki.key])
Sign      == Step("sign", "chmod") /\ Writes([pki EXCEPT !.certKey = pki.csr, !.certCa = pki.caKey])
Chmod     == Step("chmod", "done") /\ Writes([pki EXCEPT !.readable = TRUE])

CertInitStep ==
  Guard \/ MakeCaKey \/ SelfSign \/ MakeKey \/ MakeCsr \/ Sign \/ Chmod

\* What a run that dies leaves of the file it is writing.
Truncated ==
  CASE at["cert-init"] = "ca key" -> [pki EXCEPT !.caKey = Missing]
    [] at["cert-init"] = "ca"     -> [pki EXCEPT !.ca = Missing]
    [] at["cert-init"] = "key"    -> [pki EXCEPT !.key = Missing]
    [] at["cert-init"] = "csr"    -> [pki EXCEPT !.csr = Missing]
    [] at["cert-init"] = "sign"   -> [pki EXCEPT !.certKey = Missing, !.certCa = Missing]
    [] OTHER                      -> pki

CertInitDies ==
  /\ Dies("cert-init")
  /\ pki' \in {pki, Truncated}
  /\ UNCHANGED generation

\* `docker volume rm`, for which the containers have to be gone.
RemovesVolume ==
  /\ Down
  /\ pki' = EmptyVolume
  /\ UNCHANGED generation

=============================================================================
