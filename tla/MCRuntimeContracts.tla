------------------------- MODULE MCRuntimeContracts -------------------------
(***************************************************************************)
(* Small instances of RuntimeContracts: two mandatory platforms,           *)
(* evidence of each state with short windows, and bodies one check each    *)
(* refuses.                                                                *)
(***************************************************************************)
EXTENDS RuntimeContracts

MCMandatory == <<"glaze-ui", "everkeep">>

Body(platform, state, observedAt, validUntil) ==
    [platform |-> platform, state |-> state, repository |-> "canonical",
     contract |-> "canonical", sourced |-> TRUE,
     observedAt |-> observedAt, validUntil |-> validUntil]

MCSound == {Body("glaze-ui", "validated", 0, 2),
            Body("glaze-ui", "blocked", 1, 0),
            Body("everkeep", "validated", 1, 3),
            [Body("everkeep", "pending", 1, 0) EXCEPT !.repository = ""]}

MCUnsound == {Body("glaze-ui", "validated", 1, 1),
              Body("glaze-ui", "validated", 1, 0),
              [Body("glaze-ui", "validated", 1, 3) EXCEPT !.repository = ""],
              [Body("glaze-ui", "validated", 1, 3) EXCEPT !.sourced = FALSE],
              [Body("glaze-ui", "pending", 1, 3) EXCEPT !.contract = "other"],
              [Body("glaze-ui", "pending", 1, 3) EXCEPT !.repository = "other"],
              Body("glaze-ui", "unknown", 1, 3),
              Body("goreecloud-sync", "pending", 1, 3)}

MCSubmissions == MCSound \cup MCUnsound

Operator == [verified |-> TRUE, serviceID |-> "release", subject |-> "s",
             issuer |-> TrustedIdentityIssuer, scopes |-> {ScopeContractsWrite}]

MCPrincipals == {Operator, [Operator EXCEPT !.verified = FALSE],
                 [Operator EXCEPT !.scopes = {}]}
OnePrincipal == {Operator}
=============================================================================
