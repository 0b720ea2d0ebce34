------------------------ MODULE MCSourceAttestations ------------------------
(***************************************************************************)
(* Two platforms; validated, pending and future-dated attestations, and    *)
(* bodies one check each refuses; two concurrent writers.                  *)
(***************************************************************************)
EXTENDS SourceAttestations

MCMandatory == <<"glaze-ui", "everkeep">>
MCKeys == {"glaze-ui", "everkeep"}

Attestation(platform, state, observedAt) ==
    [platform |-> platform, state |-> state, canonical |-> TRUE, exact |-> TRUE,
     workflow |-> TRUE, observedAt |-> observedAt,
     impliesRuntime |-> FALSE, impliesStable |-> FALSE]

MCSubmissions ==
    {Attestation("glaze-ui", "validated", 2),
     Attestation("glaze-ui", "pending", 1),
     Attestation("everkeep", "validated", 1),
     Attestation("everkeep", "validated", 0),
     Attestation("everkeep", "passed", 1),
     Attestation("goreecloud-sync", "validated", 1),
     [Attestation("everkeep", "validated", 1) EXCEPT !.canonical = FALSE],
     [Attestation("everkeep", "validated", 1) EXCEPT !.exact = FALSE],
     [Attestation("everkeep", "validated", 1) EXCEPT !.workflow = FALSE],
     [Attestation("everkeep", "validated", 1) EXCEPT !.impliesRuntime = TRUE],
     [Attestation("everkeep", "pending", 1) EXCEPT !.impliesStable = TRUE]}

Reviewer == [verified |-> TRUE, serviceID |-> "review", subject |-> "s",
             issuer |-> "goreecloud-identity", scopes |-> {ScopeAttestationsWrite}]

MCPrincipals == {Reviewer, [Reviewer EXCEPT !.issuer = "other-issuer"]}
=============================================================================
