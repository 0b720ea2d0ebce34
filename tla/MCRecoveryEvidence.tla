------------------------- MODULE MCRecoveryEvidence -------------------------
(***************************************************************************)
(* Two recovery dimensions, validated and degraded evidence with windows   *)
(* that overlap and end during the run, and bodies one check each refuses. *)
(***************************************************************************)
EXTENDS RecoveryEvidence

MCDimensions == {"backup_coverage", "provenance"}

Recovery(dimension, state, observedAt, validUntil) ==
    [dimension |-> dimension, state |-> state, sourced |-> TRUE,
     observedAt |-> observedAt, validUntil |-> validUntil]

MCSubmissions ==
    {Recovery("backup_coverage", "validated", 1, 3),
     Recovery("backup_coverage", "degraded", 1, 3),
     Recovery("provenance", "validated", 2, 4),
     Recovery("provenance", "validated", 2, 2),
     Recovery("provenance", "validated", 0, 2),
     Recovery("provenance", "lost", 1, 2),
     Recovery("weather", "validated", 1, 2),
     [Recovery("provenance", "validated", 1, 2) EXCEPT !.sourced = FALSE]}

Everkeep == [verified |-> TRUE, serviceID |-> "everkeep", subject |-> "s",
             issuer |-> TrustedIdentityIssuer, scopes |-> {ScopeRecoveryWrite}]

MCPrincipals == {Everkeep, [Everkeep EXCEPT !.scopes = {}]}
=============================================================================
