------------------------- MODULE MCEnvelopeRegistry -------------------------
(***************************************************************************)
(* Small instances of EnvelopeRegistry: two ids, a security envelope in    *)
(* both textual forms, a rival content for the same id, a second id with a *)
(* shorter window, a body outside its system's domain, three principals.   *)
(***************************************************************************)
EXTENDS EnvelopeRegistry, TLC

CONSTANTS i1, i2, c1, c2, h1, h2

MCIds == {i1, i2}
MCContents == {c1, c2}
MCHandlers == {h1, h2}

Security(id, content, observedAt, validUntil, form) ==
    [id |-> id, content |-> content, system |-> "wardveil-security",
     repository |-> "GoreeCloud/goreecloud-wardveil-security",
     contract |-> "contracts/wardveil.", domain |-> "security",
     observedAt |-> observedAt, validUntil |-> validUntil,
     wellFormed |-> TRUE, minimized |-> TRUE, form |-> form]

Privacy(id, content, observedAt, validUntil) ==
    [id |-> id, content |-> content, system |-> "privacy-shield",
     repository |-> "GoreeCloud/goreecloud-privacy-shield",
     contract |-> "contracts/privacy-shield.", domain |-> "privacy",
     observedAt |-> observedAt, validUntil |-> validUntil,
     wellFormed |-> TRUE, minimized |-> TRUE, form |-> "raw"]

\* Bodies that pass every check at some time.
Sound == {Security(i1, c1, 1, 2, "raw"), Security(i1, c1, 1, 2, "normal"),
          Privacy(i1, c2, 2, 3), Privacy(i2, c1, 1, 3)}

\* ...and one that claims a foreign authority domain.
MCSubmissions == Sound \cup {[Security(i2, c1, 1, 2, "raw") EXCEPT !.domain = "privacy"]}

Wardveil == [verified |-> TRUE, serviceID |-> "wardveil-security", subject |-> "s",
             issuer |-> TrustedIdentityIssuer, scopes |-> {ScopeEvidenceWrite}]

MCPrincipals ==
    {Wardveil,
     [Wardveil EXCEPT !.serviceID = "privacy-shield"],
     [Wardveil EXCEPT !.issuer = "other-issuer"]}
=============================================================================
