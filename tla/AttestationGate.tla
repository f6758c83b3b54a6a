---------------------------- MODULE AttestationGate ----------------------------
(***************************************************************************)
(* The safety attestation asked for before a claim: what gate decides of   *)
(* an attestation, and what POST /claim makes of the decision.  Signatures *)
(* and digests are abstracted to whether they verify and what they bind.   *)
(***************************************************************************)
EXTENDS Naturals

CONSTANT Absent      \* no attestation, or no such field in it

\* signed: the proof verifies against the key set; binding: which claim its
\* digest binds; blocking: critical and high findings.
Attestation == [signed : BOOLEAN, binding : {Absent, "this", "other"},
                verdict : {Absent, "admit", "refuse"}, blocking : 0..1]

\* Mutant: keys that could not be fetched skip the signature check.
GateUnsigned(att, keys, required) ==
    IF att = Absent THEN IF required THEN "DENY" ELSE "SKIP"
    ELSE IF /\ keys => att.signed
            /\ att.binding \in {Absent, "this"}
            /\ att.verdict \in {Absent, "admit"}
            /\ att.blocking = 0
         THEN "ALLOW" ELSE "DENY"

\* keys: whether the issuer's key set was fetched.  The service passes no
\* freshness limit, so the age of an attestation is not looked at.
Gate(att, keys, required) ==
    IF att = Absent THEN IF required THEN "DENY" ELSE "SKIP"
    ELSE IF /\ keys /\ att.signed
            /\ att.binding \in {Absent, "this"}
            /\ att.verdict \in {Absent, "admit"}
            /\ att.blocking = 0
         THEN "ALLOW" ELSE "DENY"

\* The policy of a deployment, from its two environment variables.
Policy == {"off", "on", "required"}

\* POST /claim: the binding asked for is made of the caller and the request,
\* never of a charge, so an attestation bound to a charge does not match it.
\* importable: the gate and the HTTP client can be imported; where they cannot
\* nothing is asked, and the claim goes on even if an attestation is required.
\* fails: the gate raised (a malformed attestation).
Decision(policy, importable, att, keys, fails) ==
    IF policy = "off" \/ ~importable THEN "SKIP"
    ELSE IF fails THEN IF policy = "required" THEN "DENY" ELSE "SKIP"
    ELSE Gate(att, keys, policy = "required")

\* What requiring an attestation is for: a signed one that refuses nothing.
Sound(att, keys) ==
    /\ att # Absent
    /\ keys /\ att.signed
    /\ att.verdict # "refuse" /\ att.binding # "other" /\ att.blocking = 0

\* What comes of asking: the decision, and whether the gate allowed the claim
\* on a sound attestation.
Outcome(policy, importable, att, keys, fails) ==
    LET decision == Decision(policy, importable, att, keys, fails)
    IN  <<decision, decision = "ALLOW" /\ Sound(att, keys)>>

Outcomes(policy, importable) ==
    {Outcome(policy, importable, att, keys, fails) :
        att \in Attestation \cup {Absent}, keys \in BOOLEAN, fails \in BOOLEAN}
=============================================================================
