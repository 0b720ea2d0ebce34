-------------------------- MODULE RuntimeContracts --------------------------
(***************************************************************************)
(* Runtime contract evidence (internal/contracts/contracts.go): the        *)
(* registry of the latest evidence per mandatory platform, the Stable      *)
(* eligibility gate over it and the per-platform integration status.       *)
(*                                                                         *)
(* Of an evidence record the model keeps the platform, the state, the      *)
(* repository compared with the catalog ("" is an absent one), whether the *)
(* contract is the catalog's, whether source and exact revision are given, *)
(* and the validity window.  A time is a natural number, 0 the zero time.  *)
(***************************************************************************)
EXTENDS PlatformGate

ScopeContractsWrite == "mesh.contracts.write"

Platforms == {Mandatory[i] : i \in 1 .. Len(Mandatory)}

States == {"pending", "validated", "blocked"}

\* Evidence: what a body decodes to, before any check.
Evidence == [platform : STRING, state : STRING, repository : STRING,
             contract : STRING, sourced : BOOLEAN,
             observedAt : Nat, validUntil : Nat]

-----------------------------------------------------------------------------
\* normalizeEvidenceAt: a zero observation time becomes the evaluation time.
NormalizedEvidence(v, t) ==
    [v EXCEPT !.observedAt = IF v.observedAt = 0 THEN t ELSE v.observedAt]

\* normalizeEvidenceAt returns no error.
EvidenceAcceptable(v, t) ==
    /\ v.platform \in Platforms
    /\ v.repository \in {"", "canonical"}
    /\ v.contract = "canonical"
    /\ v.state \in States
    /\ v.observedAt <= t
    /\ v.state = "validated" =>
         /\ v.repository = "canonical"
         /\ v.sourced
         /\ v.validUntil > NormalizedEvidence(v, t).observedAt
         /\ t <= v.validUntil

\* evidenceFreshAt: validated, and the end of the window included.
EvidenceFreshAt(v, t) ==
    v.state = "validated" /\ v.validUntil # 0 /\ t <= v.validUntil

\* IntegrationStatuses: the gate reported for one platform.
StableGateSatisfied(v) == v # NoRecord /\ v.state = "validated"

PlatformOf(v) == v.platform

\* GET /v1/platforms/status reports IntegrationStatuses, GET
\* /v1/contracts/stable-eligibility reports List.
RuntimeListings == {"each", "all"}

StoredEvidence ==
    UNION {{NormalizedEvidence(v, t) : v \in {w \in Inputs : EvidenceAcceptable(w, t)}}
             : t \in 1 .. MaxTime}

-----------------------------------------------------------------------------
(* What this component puts into the shared registry, behind POST          *)
(* /v1/contracts and the two reports: NewPersistentRegistry validates what *)
(* it reads with the same normalizeEvidence as Record.                     *)

UsesRuntimeEvidence ==
    /\ Scope = ScopeContractsWrite
    /\ Inputs \subseteq Evidence
    /\ Records = StoredEvidence
    /\ Listings = RuntimeListings
    /\ \A v \in Inputs \cup Records : KeyOf(v) = PlatformOf(v)
    /\ \A v \in Inputs \cup Records, t \in 1 .. MaxTime :
         /\ Accept(v, t) = EvidenceAcceptable(v, t)
         /\ Reload(v, t) = EvidenceAcceptable(v, t)
         /\ Normalize(v, t) = NormalizedEvidence(v, t)
         /\ Qualifies(v, t) = EvidenceFreshAt(v, t)
         /\ Reported(v) = StableGateSatisfied(v)

ASSUME RuntimeEvidenceRegistry == UsesRuntimeEvidence

-----------------------------------------------------------------------------
(* Properties.                                                             *)

\* A restart is refused for two reasons only: the clock stands behind a time
\* it has already shown, or validated evidence has expired in the meantime.
RefusedOnlyByClockOrExpiry ==
    [][(status # "refused" /\ status' = "refused") =>
          \/ now < high
          \/ \E p \in Platforms : /\ file[p] # NoRecord
                                  /\ file[p].state = "validated"
                                  /\ now > file[p].validUntil]_vars

\* The documentation's rule for expired evidence, on the integration status:
\* a platform whose gate is reported as satisfied has current evidence.
SatisfiedGateIsCurrent ==
    (status = "up" /\ lock = Free) =>
        \A p \in Platforms : StableGateSatisfied(mem[p]) => EvidenceFreshAt(mem[p], now)
=============================================================================
