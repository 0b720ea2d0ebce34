-------------------------- MODULE IdentityVerifier --------------------------
(***************************************************************************)
(* IdentityJWTVerifier of internal/trust/identity_jwt.go behind            *)
(* requireScope: the JWKS cache, filled with the verifier's mutex held     *)
(* over the HTTP fetch, and the checks on the token.                       *)
(*                                                                         *)
(* GoreeCloud Identity publishes at most one key under a kid, and may      *)
(* withdraw, replace or add keys at any time.  Cached keys are timed with  *)
(* the wall clock (time.Now().UTC() drops the monotonic reading), which    *)
(* can be set; the HTTP client's timeout runs on real time.  One Tick is   *)
(* one unit of both.                                                       *)
(***************************************************************************)
EXTENDS Access

CONSTANTS Handlers,      \* concurrent requests
          Kids, Keys,    \* key ids and JWKs
          Offers,        \* <<kid, key>> pairs that may be published
          AtStart,       \* documents served when the process starts
          NoKey,         \* nothing published or cached under a kid
          Tokens,        \* Tokens[h]: bearer credentials presented to h
          Issuer, Audience,   \* the flags -identity-issuer, -identity-audience
          Scope,         \* the scope the route requires
          CacheTTL, FetchTimeout, ClockSkew, MaxLifetime,
          MaxTime,       \* bound on the clock
          MaxRotations   \* bound on the changes of the published keys

ASSUME KeysType == NoKey \notin Keys /\ Offers \subseteq Kids \X Keys
ASSUME TimesType == /\ {CacheTTL, FetchTimeout, MaxLifetime} \subseteq Nat \ {0}
                    /\ ClockSkew \in Nat /\ MaxTime \in Nat \ {0}
                    /\ MaxRotations \in Nat

Free   == "free"     \* the mutex is not held
Absent == -1         \* a claim that the token does not carry

ASSUME FreeNew == Free \notin Handlers

\* What the endpoint may serve.
Documents == {d \in [Kids -> Keys \cup {NoKey}] :
                \A kid \in Kids : d[kid] = NoKey \/ <<kid, d[kid]>> \in Offers}

ASSUME AtStartType == AtStart \subseteq Documents

\* Real time a withdrawn key may survive: a document in flight, then the cache.
Horizon == CacheTTL + FetchTimeout

VARIABLES
    now,        \* the wall clock
    back,       \* history: the wall clock was set back
    published,  \* what the JWKS endpoint serves
    rotations,  \* number of its changes
    age,        \* history: time since a key was last published, up to Horizon
    keys,       \* IdentityJWTVerifier.keys; Unset before the first fetch
    fetchedAt,  \* IdentityJWTVerifier.fetchedAt
    mu,         \* IdentityJWTVerifier.mu: Free or its holder
    elapsed,    \* real time since the running fetch began
    doc,        \* the document on its way to the holder
    req         \* the request of each handler

cache == <<keys, fetchedAt>>
idp   == <<published, rotations, age>>
fetch == <<mu, elapsed, doc>>
vars  == <<now, back, idp, cache, fetch, req>>

Unset == [k \in {} |-> NoKey]

\* No request yet, or how the last one ended: accepted, refused for what the
\* token says, for want of a key (no JWKS, or kid not in it), or for its
\* signature.
Ended == {"idle", "accepted", "denied", "unfetched", "unknown", "forged"}

\* force is keyFor's argument, key its result.  History: whether the token's
\* key was published all along (steady) and in an unexpired cache all along
\* (ready), until a key is found.
NoReq == [pc |-> "idle", token |-> NoKey, force |-> FALSE, key |-> NoKey,
          steady |-> FALSE, ready |-> FALSE]

End(h, outcome) == req' = [req EXCEPT ![h] = [NoReq EXCEPT !.pc = outcome]]

-----------------------------------------------------------------------------
\* A JWK that refreshKeysLocked keeps.
Usable(kid, k) ==
    /\ k # NoKey /\ kid # ""
    /\ k.kty = "RSA" /\ k.wellFormed
    /\ k.alg \in {"", "RS256"}
    /\ k.use \in {"", "sig"}

\* The map refreshKeysLocked builds from a document.
UsableKeys(d) == [kid \in {k \in DOMAIN d : Usable(k, d[k])} |-> d[kid]]

\* Mutant: the last instant counts as fresh.
CacheFreshAtEnd == keys # Unset /\ now - fetchedAt <= CacheTTL

\* keyFor's test on the cache.
CacheFresh == keys # Unset /\ now - fetchedAt < CacheTTL

\* Verify's checks on the credential before it asks for a key.
HeaderAccepted(t) == t.compact /\ t.alg = "RS256" /\ t.kid # ""

\* Kids has every key id that is published or asked for.
ASSUME TokensType ==
    \A h \in Handlers : \A t \in Tokens[h] : HeaderAccepted(t) => t.kid \in Kids

DateAccepted(d) == d > 0

\* validateClaims, with its own reading of the clock.
ClaimsAccepted(t) ==
    /\ t.iss = Issuer /\ Audience \in t.aud
    /\ t.serviceID # "" /\ t.subject = <<"service", t.serviceID>> /\ t.jti # ""
    /\ DateAccepted(t.iat) /\ DateAccepted(t.exp)
    /\ t.exp > t.iat /\ t.exp - t.iat <= MaxLifetime
    /\ now <= t.exp + ClockSkew /\ t.iat <= now + ClockSkew
    /\ t.nbf # Absent => DateAccepted(t.nbf) /\ t.nbf <= now + ClockSkew
    /\ t.scopes # {}

\* The principal validateClaims returns: its issuer is the configured one.
PrincipalOf(t) == [verified |-> TRUE, serviceID |-> t.serviceID,
                   subject |-> t.subject, issuer |-> Issuer, scopes |-> t.scopes]

Init ==
    /\ now = 1 /\ back = FALSE
    /\ published \in AtStart /\ rotations = 0
    /\ age = [p \in {o \in Offers : Usable(o[1], o[2])} |-> IF published[p[1]] = p[2] THEN 0 ELSE Horizon]
    /\ keys = Unset /\ fetchedAt = 0
    /\ mu = Free /\ elapsed = 0 /\ doc = Unset
    /\ req = [h \in Handlers |-> NoReq]

-----------------------------------------------------------------------------
\* Real time passes: the client's timeout fires before a fetch outlasts it.
Tick ==
    /\ now < MaxTime
    /\ mu # Free => elapsed < FetchTimeout
    /\ now' = now + 1
    /\ elapsed' = IF mu = Free THEN 0 ELSE elapsed + 1
    /\ age' = [p \in DOMAIN age |->
                 IF published[p[1]] = p[2] THEN 0
                 ELSE IF age[p] < Horizon THEN age[p] + 1 ELSE Horizon]
    /\ UNCHANGED <<back, published, rotations, cache, mu, doc>>
    /\ req' = [h \in Handlers |-> [req[h] EXCEPT !.ready = @ /\ CacheFresh']]

\* The wall clock is set, forward any number of times or back once (a bound:
\* WithdrawnKeyExpires says nothing from then on, and the other properties do
\* not depend on which way the cache lost or gained age).
SetClock ==
    /\ ~back
    /\ \E t \in 1..MaxTime \ {now} : now' = t /\ back' = (t < now)
    /\ UNCHANGED <<idp, cache, fetch>>
    /\ req' = [h \in Handlers |-> [req[h] EXCEPT !.ready = @ /\ CacheFresh']]

\* GoreeCloud Identity adds, replaces or withdraws the key under a kid.
Rotate ==
    /\ rotations < MaxRotations /\ rotations' = rotations + 1
    /\ \E kid \in Kids, k \in Keys \cup {NoKey} :
         /\ published[kid] # k
         /\ published' = [published EXCEPT ![kid] = k] /\ published' \in Documents
         /\ age' = [p \in DOMAIN age |-> IF p = <<kid, k>> THEN 0 ELSE age[p]]
         /\ req' = [h \in Handlers |->
                IF req[h].pc \notin Ended /\ req[h].token.kid = kid
                THEN [req[h] EXCEPT !.steady = FALSE, !.ready = FALSE] ELSE req[h]]
    /\ UNCHANGED <<now, back, cache, fetch>>

\* The token is signed with the usable key published under its kid.
Genuine(t) == t.key # NoKey /\ published[t.kid] = t.key /\ Usable(t.kid, t.key)

\* A cache holds the key that signed the token.
Holds(c, t) == t.kid \in DOMAIN c /\ c[t.kid] = t.key

\* Verify up to the first keyFor.
Receive(h) ==
    /\ req[h].pc \in Ended
    /\ \E t \in Tokens[h] :
         IF HeaderAccepted(t)
         THEN req' = [req EXCEPT ![h] = [NoReq EXCEPT !.pc = "lookup", !.token = t,
                !.steady = Genuine(t),
                !.ready = Genuine(t) /\ CacheFresh /\ Holds(keys, t)]]
         ELSE End(h, "denied")
    /\ UNCHANGED <<now, back, idp, cache, fetch>>

Found(r, h, k) ==
    req' = [r EXCEPT ![h] = [NoReq EXCEPT !.pc = "verify", !.key = k,
                !.token = r[h].token]]

\* keyFor, answered from the cache.
LookupCached(h) ==
    /\ req[h].pc = "lookup" /\ mu = Free
    /\ ~req[h].force /\ CacheFresh
    /\ req[h].token.kid \in DOMAIN keys
    /\ Found(req, h, keys[req[h].token.kid])
    /\ UNCHANGED <<now, back, idp, cache, fetch>>

\* Mutant: a fresh cache without the kid is the last word.
LookupFetchStale(h) ==
    /\ req[h].pc = "lookup" /\ mu = Free
    /\ \/ CacheFresh /\ req[h].token.kid \notin DOMAIN keys
          /\ End(h, "unknown") /\ UNCHANGED fetch
       \/ /\ ~CacheFresh
          /\ mu' = h /\ elapsed' = 0 /\ doc' = published
          /\ req' = [req EXCEPT ![h].pc = "fetch"]
    /\ UNCHANGED <<now, back, idp, cache>>

\* keyFor takes the mutex and asks for the JWKS.  The endpoint reads its keys
\* at once, which is the oldest document the fetch can return; a later reading
\* is a later request.
LookupFetch(h) ==
    /\ req[h].pc = "lookup" /\ mu = Free
    /\ ~(~req[h].force /\ CacheFresh /\ req[h].token.kid \in DOMAIN keys)
    /\ mu' = h /\ elapsed' = 0 /\ doc' = published
    /\ req' = [req EXCEPT ![h].pc = "fetch"]
    /\ UNCHANGED <<now, back, idp, cache>>

\* Mutant: Verify asks again until a key is found.
KeyForFailsForever(r, h, why) ==
    req' = [r EXCEPT ![h].pc = "lookup", ![h].force = TRUE]

\* keyFor returns an error: Verify asks once more, by force, then gives up.
KeyForFails(r, h, why) ==
    IF r[h].force THEN req' = [r EXCEPT ![h] = [NoReq EXCEPT !.pc = why]]
    ELSE req' = [r EXCEPT ![h].pc = "lookup", ![h].force = TRUE]

Unlock == mu' = Free /\ elapsed' = 0 /\ doc' = Unset

\* The document arrives, replaces the cache, and is asked for the kid.
FetchDone(h) ==
    /\ req[h].pc = "fetch" /\ DOMAIN UsableKeys(doc) # {}
    /\ keys' = UsableKeys(doc) /\ fetchedAt' = now
    /\ Unlock
    /\ LET kid == req[h].token.kid
           r   == [g \in Handlers |-> [req[g] EXCEPT !.ready = @ /\ Holds(keys', req[g].token)]]
       IN  IF kid \in DOMAIN keys' THEN Found(r, h, keys'[kid])
           ELSE KeyForFails(r, h, "unknown")
    /\ UNCHANGED <<now, back, idp>>

\* Mutant: a failed fetch empties the cache.
FetchFailsEmptying(h) ==
    /\ req[h].pc = "fetch"
    /\ keys' = Unset /\ Unlock
    /\ KeyForFails(req, h, "unfetched")
    /\ UNCHANGED <<now, back, idp, fetchedAt>>

\* No connection, another status, an unreadable body, no usable key in the
\* document, or the client's timeout: the cache stays as it was.
FetchFails(h) ==
    /\ req[h].pc = "fetch"
    /\ Unlock
    /\ KeyForFails(req, h, "unfetched")
    /\ UNCHANGED <<now, back, idp, cache>>

\* Signature, claims, and the rest of requireScope.
Check(h) ==
    /\ req[h].pc = "verify"
    /\ LET t == req[h].token
       IN  \/ t.key # req[h].key /\ End(h, "forged")
           \/ /\ t.key = req[h].key
              /\ End(h, IF /\ ClaimsAccepted(t)
                           /\ RequireScope(PrincipalOf(t), Scope) = Pass
                        THEN "accepted" ELSE "denied")
    /\ UNCHANGED <<now, back, idp, cache, fetch>>

Verify(h) == \/ FetchDone(h) \/ FetchFails(h) \/ Check(h)

Next ==
    \/ Tick \/ SetClock \/ Rotate
    \/ \E h \in Handlers : \/ Receive(h) \/ LookupCached(h) \/ LookupFetch(h)
                            \/ Verify(h)

\* A request that can run does run, a fetch returns, and a mutex that is free
\* again and again is granted.
Fairness ==
    \A h \in Handlers : /\ WF_vars(Verify(h))
                        /\ SF_vars(LookupCached(h) \/ LookupFetch(h))

Spec == Init /\ [][Next]_vars /\ Fairness

-----------------------------------------------------------------------------
Caches    == UNION {[K -> Keys] : K \in SUBSET Kids}

\* The mutex is held by exactly the request that fetches, and only a usable
\* key is ever cached.
TypeOK ==
    /\ now \in 1..MaxTime /\ back \in BOOLEAN
    /\ published \in Documents /\ rotations \in 0..MaxRotations
    /\ age \in [DOMAIN age -> 0..Horizon]
    /\ keys \in Caches /\ \A kid \in DOMAIN keys : Usable(kid, keys[kid])
    /\ fetchedAt \in 0..MaxTime /\ elapsed \in 0..FetchTimeout
    /\ doc \in Documents \cup {Unset}
    /\ {h \in Handlers : req[h].pc = "fetch"} = {mu} \ {Free}
    /\ \A h \in Handlers : req[h].pc = "verify" => req[h].key \in Keys

\* Revocation takes effect: unless the wall clock was set back, a key that
\* keyFor hands out was still published less than CacheTTL and one fetch
\* before, whatever documents were in flight when it was withdrawn, however
\* often fetches failed since, and whether or not the clock jumped forward.
WithdrawnKeyExpires ==
    [][\A h \in Handlers :
         req[h].pc # "verify" /\ req'[h].pc = "verify" /\ ~back =>
            age[req[h].token.kid, req'[h].key] < Horizon]_vars

Ends(h) == req[h].pc \notin Ended /\ req'[h].pc \in Ended

\* Rotation takes effect at once: a request is not told that its kid is
\* unknown if the key was published from its arrival on, though the cache
\* is fresh and another request fetched it before the key was there.
PublishedKeyKnown ==
    [][\A h \in Handlers : Ends(h) /\ req[h].steady => req'[h].pc # "unknown"]_vars

\* Outages are bridged: a request whose key is cached and unexpired when it
\* arrives is not refused for want of it, however many fetches other requests
\* force and lose meanwhile, unless before its turn the cache expires, the key
\* published under its kid changes, or a document without that key arrives.
CachedKeySurvivesOutage ==
    [][\A h \in Handlers : Ends(h) /\ req[h].ready =>
         req'[h].pc \notin {"unfetched", "unknown"}]_vars

\* Every request is answered, although the mutex is held over each fetch and
\* every fetch may fail.
VerificationEnds ==
    \A h \in Handlers : req[h].pc \notin Ended ~> req[h].pc \in Ended
=============================================================================
