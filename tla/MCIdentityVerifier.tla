------------------------- MODULE MCIdentityVerifier -------------------------
(***************************************************************************)
(* IdentityVerifier with two requests, a kid that is reused for a second   *)
(* key and a kid whose key may be one that RS256 cannot use.               *)
(***************************************************************************)
EXTENDS IdentityVerifier, TLC

CONSTANTS h1, h2

MCHandlers == {h1, h2}
MCKids == {"k1", "k2"}

Rsa(n) == [kty |-> "RSA", wellFormed |-> TRUE, alg |-> "", use |-> "sig", n |-> n]
Ec == [Rsa(2) EXCEPT !.kty = "EC"]
MCKeys == {Rsa(1), Rsa(2), Ec}
MCOffers == {<<"k1", Rsa(1)>>, <<"k1", Rsa(2)>>, <<"k1", Ec>>, <<"k2", Rsa(2)>>}

MCAtStart == {[k1 |-> NoKey, k2 |-> Rsa(2)]}

Token(kid, key) ==
    [compact |-> TRUE, alg |-> "RS256", kid |-> kid, key |-> key,
     iss |-> TrustedIdentityIssuer, aud |-> {"goreecloud-mesh"},
     serviceID |-> "everkeep", subject |-> <<"service", "everkeep">>, jti |-> "t",
     iat |-> 1, exp |-> 2, nbf |-> Absent, scopes |-> {"write"}]

MCTokens == (h1 :> {Token("k1", Rsa(1))}) @@
            (h2 :> {Token("k1", Rsa(1)),
                    [Token("k2", Rsa(2)) EXCEPT !.exp = 4],
                    [Token("k1", Rsa(1)) EXCEPT !.alg = "none"]})
=============================================================================
