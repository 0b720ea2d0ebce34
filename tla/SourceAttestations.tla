------------------------- MODULE SourceAttestations -------------------------
(***************************************************************************)
(* Source attestations (internal/contracts/source_attestation*.go): the    *)
(* registry of the latest reviewed source revision per mandatory platform  *)
(* and the report GET /v1/platforms/source-attestations, AllValidated      *)
(* followed by List.  An attestation has no validity window.  The          *)
(* assumption below says what this component puts into the shared          *)
(* registry.                                                               *)
(***************************************************************************)
EXTENDS PlatformGate

ScopeAttestationsWrite == "mesh.attestations.write"

\* CatalogFor and ValidateSourceAttestation: no error, at whatever time.
\* canonical: repository and manifest path are the catalog's; exact: full
\* revision and digest; workflow: a workflow and a positive run id.
ValidateSourceAttestation(v, t) ==
    /\ v.platform \in Keys
    /\ v.canonical /\ v.exact
    /\ v.state \in {"pending", "validated", "blocked"}
    /\ v.observedAt # 0
    /\ ~v.impliesRuntime /\ ~v.impliesStable
    /\ v.state = "validated" => v.workflow

\* Record stores what it was given.
AsGiven(v, t) == v

PlatformOf(v) == v.platform

\* The test of AllValidated.
AttestationValidated(v, t) == v.state = "validated"

\* What the list shows of a record.
AttestationShown(v) == v.state = "validated"

StoredAttestations ==
    {v \in Inputs : \E t \in 1 .. MaxTime : ValidateSourceAttestation(v, t)}

\* LatestRegistry with these parameters is SourceAttestationRegistry;
\* NewPersistentSourceAttestationRegistry validates as Record does.
UsesSourceAttestations ==
    /\ Scope = ScopeAttestationsWrite
    /\ Records = StoredAttestations
    /\ Listings = {"all"}
    /\ \A v \in Inputs \cup Records, t \in 1 .. MaxTime :
         /\ KeyOf(v) = PlatformOf(v) /\ Normalize(v, t) = AsGiven(v, t)
         /\ Accept(v, t) = ValidateSourceAttestation(v, t)
         /\ Reload(v, t) = ValidateSourceAttestation(v, t)
         /\ Qualifies(v, t) = AttestationValidated(v, t)
         /\ Reported(v) = AttestationShown(v)

ASSUME SourceAttestationRegistry == UsesSourceAttestations
=============================================================================
