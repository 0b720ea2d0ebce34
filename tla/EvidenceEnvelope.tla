-------------------------- MODULE EvidenceEnvelope --------------------------
(***************************************************************************)
(* The producer-authoritative evidence envelope and its validation         *)
(* (internal/contracts/evidence_envelope.go).                              *)
(*                                                                         *)
(* What the properties tell apart is kept: the identity of the envelope,   *)
(* who claims to produce it and in which authority domain, its validity    *)
(* window, and whether its text is already in normal form.  The remaining  *)
(* text is folded into content; wellFormed stands for the purely syntactic *)
(* checks (version, lengths, revision and digest patterns, required        *)
(* fields) and minimized for the data-class and content-flag checks.  A    *)
(* time is a natural number and 0 is Go's zero time.                       *)
(***************************************************************************)
EXTENDS Naturals

CONSTANTS EnvelopeIds,   \* envelope ids, after trimming
          Contents       \* assertion, outcome, subject, source, summary...

EvidenceEnvelope ==
    [id : EnvelopeIds, content : Contents,
     system : STRING, repository : STRING, contract : STRING, domain : STRING,
     observedAt : Nat, validUntil : Nat,
     wellFormed : BOOLEAN, minimized : BOOLEAN,
     form : {"raw", "normal"}]

-----------------------------------------------------------------------------
(* The authority tables.                                                   *)

evidenceProducerRepositories ==
    [p \in {"goreecloud-mesh", "goreecloud-identity", "glaze-ui",
            "wardveil-security", "privacy-shield", "everkeep"} |->
        CASE p = "goreecloud-mesh"     -> "GoreeCloud/goreecloud-mesh"
          [] p = "goreecloud-identity" -> "GoreeCloud/goreecloud-identity"
          [] p = "glaze-ui"            -> "GoreeCloud/goreecloud-glaze-ui"
          [] p = "wardveil-security"   -> "GoreeCloud/goreecloud-wardveil-security"
          [] p = "privacy-shield"      -> "GoreeCloud/goreecloud-privacy-shield"
          [] p = "everkeep"            -> "GoreeCloud/goreecloud-everkeep"]

Producers == DOMAIN evidenceProducerRepositories

evidenceAuthorityDomains ==
    [p \in Producers |->
        CASE p = "goreecloud-mesh"     -> {"coordination", "governance"}
          [] p = "goreecloud-identity" -> {"identity", "authentication",
                 "authorization", "accounts", "devices", "credentials",
                 "sessions", "delegated-authority"}
          [] p = "glaze-ui"            -> {"presentation", "design-conformance"}
          [] p = "wardveil-security"   -> {"security"}
          [] p = "privacy-shield"      -> {"privacy"}
          [] p = "everkeep"            -> {"resilience", "recovery",
                 "preservation", "continuity"}]

\* A contract path is represented by the prefix it starts with, or, for
\* Glaze UI, whose contracts are listed one by one, by the path itself.
evidenceProducerContracts ==
    [p \in Producers |->
        CASE p = "goreecloud-mesh"     -> {"contracts/mesh."}
          [] p = "goreecloud-identity" -> {"contracts/identity."}
          [] p = "glaze-ui"            -> {"CONFORMANCE.md",
                 "EVIDENCE_PRESENTATION.md", "tokens/enforcement.json",
                 "tokens/evidence-presentation.json"}
          [] p = "wardveil-security"   -> {"contracts/wardveil."}
          [] p = "privacy-shield"      -> {"contracts/privacy-shield."}
          [] p = "everkeep"            -> {"contracts/everkeep."}]

producerContractAllowed(producer, contract) ==
    contract \in evidenceProducerContracts[producer]

-----------------------------------------------------------------------------
(* Validation.  normalizeEvidenceEnvelope either fails or returns the      *)
(* envelope in normal form: NormalizeSucceeds says when it returns, Normal *)
(* what it returns.                                                        *)

\* Trimmed text fields and UTC times.
Normal(v) == [v EXCEPT !.form = "normal"]

AuthorityBound(v) ==
    /\ v.system \in Producers
    /\ v.repository = evidenceProducerRepositories[v.system]
    /\ producerContractAllowed(v.system, v.contract)
    /\ v.domain \in evidenceAuthorityDomains[v.system]

\* Mutant: the end of the window is excluded.
NormalizeSucceedsBeforeEnd(v, evaluatedAt, requireFresh) ==
    /\ v.wellFormed
    /\ AuthorityBound(v)
    /\ v.observedAt # 0
    /\ v.observedAt <= evaluatedAt
    /\ v.validUntil > v.observedAt
    /\ requireFresh => evaluatedAt < v.validUntil
    /\ v.minimized

\* normalizeEvidenceEnvelope returns no error; only a submission has to be
\* fresh, a stored envelope need not be.
NormalizeSucceeds(v, evaluatedAt, requireFresh) ==
    /\ v.wellFormed
    /\ AuthorityBound(v)
    /\ v.observedAt # 0
    /\ v.observedAt <= evaluatedAt
    /\ v.validUntil > v.observedAt
    /\ requireFresh => evaluatedAt <= v.validUntil
    /\ v.minimized

\* Mutant: the last instant does not count.
FreshAtBeforeEnd(v, evaluatedAt) == v.validUntil # 0 /\ evaluatedAt < v.validUntil

\* FreshAt: the last instant of the window still counts as fresh.
FreshAt(v, evaluatedAt) == v.validUntil # 0 /\ evaluatedAt <= v.validUntil
=============================================================================
