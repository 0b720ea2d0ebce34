------------------------------- MODULE Access -------------------------------
(***************************************************************************)
(* The gate in front of every mutating route and every authenticated read  *)
(* of the Mesh API: requireScope of internal/api/auth.go, with the         *)
(* principal it takes from the identity verifier.  A principal carries the *)
(* fields the gate and the handlers look at, already trimmed by the        *)
(* verifier and by trust.WithPrincipal; verified is FALSE when no verifier *)
(* is configured or when it rejected the bearer token.                     *)
(***************************************************************************)
EXTENDS Integers

\* HTTP statuses the handlers of this project answer with.
OK           == 200
Created      == 201
BadRequest   == 400
Unauthorized == 401
Forbidden    == 403

\* Result of the gate when the request goes on to its handler.
Pass == 0

TrustedIdentityIssuer == "goreecloud-identity"

Principal == [verified  : BOOLEAN,
              serviceID : STRING,
              subject   : STRING,
              issuer    : STRING,
              scopes    : SUBSET STRING]

\* trust.Validate and the issuer comparison of requireScope.
Authenticated(p) ==
    /\ p.verified
    /\ p.serviceID # ""
    /\ p.issuer = TrustedIdentityIssuer

\* requireScope: the status the gate answers with, or Pass.
RequireScope(p, scope) ==
    IF ~Authenticated(p) THEN Unauthorized
    ELSE IF scope \notin p.scopes THEN Forbidden
    ELSE Pass
=============================================================================
