----------------------- MODULE IdentityVerifierProofs -----------------------
(***************************************************************************)
(* Theorems about the JWKS cache for any number of requests, keys, key ids *)
(* and rotations, and for every cache lifetime and fetch timeout.          *)
(*                                                                         *)
(* The bound on withdrawn keys adds up two times.  A key in a document in  *)
(* flight has been withdrawn for no longer than the fetch runs (DocYoung); *)
(* once cached, it ages no faster than the wall clock moves away from      *)
(* fetchedAt, as long as that is not set back (CacheYoung).                *)
(***************************************************************************)
EXTENDS IdentityVerifier, TLAPS

\* The usable keys, whose age is kept.
Timed == {o \in Offers : Usable(o[1], o[2])}

Credentials == UNION {Tokens[h] : h \in Handlers}

RequestType == [pc : Ended \cup {"lookup", "fetch", "verify"},
                token : Credentials \cup {NoKey}, force : BOOLEAN,
                key : Keys \cup {NoKey}, steady : BOOLEAN, ready : BOOLEAN]

CacheType ==
    /\ now \in Nat /\ fetchedAt \in Nat /\ elapsed \in 0 .. FetchTimeout
    /\ back \in BOOLEAN
    /\ published \in Documents
    /\ age \in [Timed -> 0 .. Horizon]
    /\ req \in [Handlers -> RequestType]
    /\ \A kid \in DOMAIN keys : <<kid, keys[kid]>> \in Timed

\* The mutex is held by the request that fetches, for which a document is on
\* its way.
Holder ==
    /\ \A h \in Handlers : req[h].pc = "fetch" <=> mu = h
    /\ mu # Free => mu \in Handlers /\ doc \in Documents

\* A key that is published has no age.
PublishedYoung == \A p \in Timed : published[p[1]] = p[2] => age[p] = 0

\* A key on its way was published when the fetch began.
DocYoung == mu # Free =>
    \A p \in Timed : doc[p[1]] = p[2] => age[p] <= elapsed

\* A cached key was published one fetch before it was cached.
CacheYoung == ~back =>
    /\ fetchedAt <= now
    /\ \A kid \in DOMAIN keys :
         age[<<kid, keys[kid]>>] <= FetchTimeout + (now - fetchedAt)

\* The token's key has been published since the request arrived, so that the
\* document it waits for has it.
Steady ==
    \A h \in Handlers : req[h].steady =>
        /\ req[h].pc \in {"lookup", "fetch"}
        /\ req[h].token.kid \in Kids
        /\ Genuine(req[h].token)
        /\ req[h].pc = "fetch" => doc[req[h].token.kid] = req[h].token.key

\* The token's key is in a fresh cache, where the first keyFor will find it.
Ready ==
    \A h \in Handlers : req[h].ready =>
        /\ req[h].pc = "lookup" /\ ~req[h].force
        /\ CacheFresh /\ Holds(keys, req[h].token)

IndInv ==
    /\ CacheType /\ Holder /\ PublishedYoung /\ DocYoung /\ CacheYoung
    /\ Steady /\ Ready

-----------------------------------------------------------------------------
(* Facts about the operators.                                              *)

\* The bounds on time are positive numbers.
LEMMA TimeFacts ==
    /\ CacheTTL \in Nat /\ CacheTTL >= 1 /\ FetchTimeout \in Nat /\ FetchTimeout >= 1
    /\ Horizon \in Nat /\ Horizon = CacheTTL + FetchTimeout
  BY TimesType DEF Horizon

\* A usable key is a kid and a key.
LEMMA TimedFacts ==
    \A p \in Timed : /\ p[1] \in Kids /\ p[2] \in Keys /\ p = <<p[1], p[2]>>
                     /\ Usable(p[1], p[2])
  BY KeysType DEF Timed

\* refreshKeysLocked keeps the usable keys of a document.
LEMMA UsableFacts ==
    ASSUME NEW d \in Documents
    PROVE  /\ \A kid \in DOMAIN UsableKeys(d) :
                 /\ UsableKeys(d)[kid] = d[kid]
                 /\ <<kid, d[kid]>> \in Timed
           /\ \A kid \in Kids : Usable(kid, d[kid]) => kid \in DOMAIN UsableKeys(d)
<1>1. DOMAIN d = Kids
  BY DEF Documents
<1>2. \A kid \in Kids : Usable(kid, d[kid]) => <<kid, d[kid]>> \in Timed
  BY DEF Documents, Timed, Usable
<1>3. QED
  BY <1>1, <1>2 DEF UsableKeys

\* A request that ended, or has not begun.
LEMMA EndedRequest ==
    ASSUME NEW outcome \in Ended
    PROVE  LET n == [NoReq EXCEPT !.pc = outcome]
           IN  /\ n \in RequestType /\ n.pc = outcome
               /\ n.steady = FALSE /\ n.ready = FALSE
  BY DEF NoReq, RequestType, Ended

\* A request whose key was found.
LEMMA FoundRequest ==
    ASSUME NEW k \in Keys, NEW t \in Credentials \cup {NoKey}
    PROVE  LET n == [NoReq EXCEPT !.pc = "verify", !.key = k, !.token = t]
           IN  /\ n \in RequestType /\ n.pc = "verify" /\ n.key = k
               /\ n.steady = FALSE /\ n.ready = FALSE
  BY DEF NoReq, RequestType, Ended

\* The history of the requests after a step of the clock.
LEMMA ReadyHistory ==
    ASSUME CacheType, NEW b \in BOOLEAN,
           req' = [h \in Handlers |-> [req[h] EXCEPT !.ready = req[h].ready /\ b]]
    PROVE  /\ req' \in [Handlers -> RequestType]
           /\ \A h \in Handlers :
                /\ req'[h].pc = req[h].pc /\ req'[h].token = req[h].token
                /\ req'[h].force = req[h].force /\ req'[h].steady = req[h].steady
                /\ req'[h].key = req[h].key
                /\ req'[h].ready = (req[h].ready /\ b)
<1>1. ASSUME NEW h \in Handlers, NEW y \in BOOLEAN
      PROVE  LET n == [req[h] EXCEPT !.ready = y]
             IN  /\ n \in RequestType
                 /\ n.pc = req[h].pc /\ n.token = req[h].token /\ n.force = req[h].force
                 /\ n.steady = req[h].steady /\ n.key = req[h].key /\ n.ready = y
  <2>1. req[h] \in RequestType
    BY DEF CacheType
  <2>2. QED
    BY <2>1 DEF RequestType
<1>2. \A h \in Handlers : (req[h].ready /\ b) \in BOOLEAN
  OBVIOUS
<1>3. QED
  BY <1>1, <1>2

\* A step of one request that does not fetch.
LEMMA OneRequest ==
    ASSUME IndInv, NEW h \in Handlers, NEW n \in RequestType,
           req' = [req EXCEPT ![h] = n],
           UNCHANGED <<now, back, published, age, keys, fetchedAt, mu, elapsed, doc>>,
           req[h].pc # "fetch", n.pc # "fetch",
           n.steady => n.pc = "lookup" /\ n.token.kid \in Kids /\ Genuine(n.token),
           n.ready => n.pc = "lookup" /\ ~n.force /\ CacheFresh /\ Holds(keys, n.token)
    PROVE  IndInv'
<1>1. \A g \in Handlers : req'[g] = IF g = h THEN n ELSE req[g]
  BY DEF IndInv, CacheType
<1>2. CacheType'
  BY DEF IndInv, CacheType
<1>3. Holder'
  BY <1>1 DEF IndInv, Holder
<1>4. PublishedYoung' /\ DocYoung' /\ CacheYoung'
  BY DEF IndInv, PublishedYoung, DocYoung, CacheYoung
<1>5. Steady'
  BY <1>1 DEF IndInv, Steady, Genuine
<1>6. Ready'
  BY <1>1 DEF IndInv, Ready, CacheFresh, Holds
<1>7. QED
  BY <1>2, <1>3, <1>4, <1>5, <1>6 DEF IndInv

-----------------------------------------------------------------------------
\* Nothing is cached, nobody asks.
LEMMA IndInvInit == Init => IndInv
<1> SUFFICES ASSUME Init PROVE IndInv
  OBVIOUS
<1>1. NoReq \in RequestType /\ NoReq.pc = "idle" /\ NoReq.steady = FALSE /\ NoReq.ready = FALSE
  BY DEF NoReq, RequestType, Ended
<1>2. \A h \in Handlers : req[h] = NoReq
  BY DEF Init
<1>3. DOMAIN keys = {}
  BY DEF Init, Unset
<1>4. published \in Documents
  BY AtStartType DEF Init
<1>5. age \in [Timed -> 0 .. Horizon] /\ PublishedYoung
  <2>1. age = [p \in Timed |-> IF published[p[1]] = p[2] THEN 0 ELSE Horizon]
    BY DEF Init, Timed
  <2>2. 0 \in 0 .. Horizon /\ Horizon \in 0 .. Horizon
    BY TimeFacts
  <2>3. QED
    BY <2>1, <2>2 DEF PublishedYoung
<1>6. CacheType
  <2>1. now \in Nat /\ fetchedAt \in Nat /\ elapsed \in 0 .. FetchTimeout
    BY TimeFacts DEF Init
  <2>2. back \in BOOLEAN
    BY DEF Init
  <2>3. req \in [Handlers -> RequestType]
    BY <1>1 DEF Init
  <2>4. QED
    BY <1>3, <1>4, <1>5, <2>1, <2>2, <2>3 DEF CacheType
<1>7. Holder /\ DocYoung /\ CacheYoung
  BY <1>1, <1>2, <1>3, FreeNew DEF Init, Holder, DocYoung, CacheYoung
<1>8. Steady /\ Ready
  BY <1>1, <1>2 DEF Steady, Ready
<1>9. QED
  BY <1>5, <1>6, <1>7, <1>8 DEF IndInv

\* Time: no key ages faster than the wall clock runs, unless that is set back.
LEMMA ClockInv ==
    ASSUME IndInv, Tick \/ SetClock
    PROVE  IndInv'
<1>1. /\ UNCHANGED <<published, keys, fetchedAt, mu, doc>>
      /\ req' = [h \in Handlers |-> [req[h] EXCEPT !.ready = req[h].ready /\ CacheFresh']]
  BY DEF Tick, SetClock, idp, cache, fetch
<1>2. CacheFresh' \in BOOLEAN /\ CacheType
  BY DEF CacheFresh, IndInv
<1>3. /\ req' \in [Handlers -> RequestType]
      /\ \A h \in Handlers :
           /\ req'[h].pc = req[h].pc /\ req'[h].token = req[h].token
           /\ req'[h].force = req[h].force /\ req'[h].steady = req[h].steady
           /\ req'[h].key = req[h].key
           /\ req'[h].ready = (req[h].ready /\ CacheFresh')
  BY <1>1, <1>2, ReadyHistory
<1>4. /\ now' \in Nat /\ back' \in BOOLEAN /\ elapsed' \in 0 .. FetchTimeout
      /\ age' \in [Timed -> 0 .. Horizon]
      /\ \A p \in Timed : \/ age'[p] = age[p] \/ age'[p] = 0
                          \/ age'[p] = age[p] + 1 /\ Tick
      /\ \A p \in Timed : published[p[1]] = p[2] => age'[p] = 0
      /\ \/ now' = now + 1 /\ back' = back /\ (mu # Free => elapsed' = elapsed + 1)
         \/ /\ elapsed' = elapsed /\ age' = age
            /\ back' = FALSE => now' >= now /\ back = FALSE
  <2>1. CASE Tick
    <3>1. /\ now' = now + 1 /\ back' = back
          /\ elapsed' = (IF mu = Free THEN 0 ELSE elapsed + 1)
          /\ mu # Free => elapsed < FetchTimeout
      BY <2>1 DEF Tick
    <3>2. age' = [p \in Timed |->
                    IF published[p[1]] = p[2] THEN 0
                    ELSE IF age[p] < Horizon THEN age[p] + 1 ELSE Horizon]
      BY <2>1 DEF Tick, IndInv, CacheType
    <3>3. ASSUME NEW p \in Timed
          PROVE  /\ age'[p] \in 0 .. Horizon
                 /\ age'[p] = age[p] \/ age'[p] = 0 \/ age'[p] = age[p] + 1
                 /\ published[p[1]] = p[2] => age'[p] = 0
      <4>1. age[p] \in 0 .. Horizon
        BY DEF IndInv, CacheType
      <4>2. QED
        BY <3>2, <4>1, TimeFacts
    <3>4. now' \in Nat /\ elapsed' \in 0 .. FetchTimeout
      BY <3>1, TimeFacts DEF IndInv, CacheType
    <3>5. age' \in [Timed -> 0 .. Horizon]
      BY <3>2, <3>3
    <3>6. QED
      BY <2>1, <3>1, <3>3, <3>4, <3>5 DEF IndInv, CacheType
  <2>2. CASE SetClock
    <3>1. PICK t \in 1 .. MaxTime : now' = t /\ back' = (t < now) /\ back = FALSE
      BY <2>2 DEF SetClock, IndInv, CacheType
    <3>2. t \in Nat /\ now \in Nat
      BY TimesType DEF IndInv, CacheType
    <3>3. elapsed' = elapsed /\ age' = age
      BY <2>2 DEF SetClock, idp, fetch
    <3>4. back' \in BOOLEAN /\ (back' = FALSE => now' >= now)
      <4>1. CASE t < now
        BY <3>1, <4>1
      <4>2. CASE ~(t < now)
        <5>1. now' >= now
          BY <3>1, <3>2, <4>2
        <5>2. QED
          BY <3>1, <4>2, <5>1
      <4>3. QED
        BY <4>1, <4>2
    <3>5. QED
      BY <3>1, <3>2, <3>3, <3>4 DEF IndInv, CacheType, PublishedYoung
  <2>3. QED
    BY <2>1, <2>2
<1>5. CacheType'
  BY <1>1, <1>3, <1>4 DEF IndInv, CacheType
<1>6. Holder' /\ PublishedYoung'
  BY <1>1, <1>3, <1>4 DEF IndInv, Holder, PublishedYoung
<1>7. DocYoung'
  <2> SUFFICES ASSUME mu # Free, NEW p \in Timed, doc[p[1]] = p[2]
               PROVE  age'[p] <= elapsed'
    BY <1>1 DEF DocYoung
  <2>1. age[p] <= elapsed /\ age[p] \in Nat /\ elapsed \in Nat
    BY TimeFacts DEF IndInv, DocYoung, CacheType
  <2>2. QED
    BY <1>4, <2>1, TimeFacts DEF IndInv, CacheType
<1>8. CacheYoung'
  <2> SUFFICES ASSUME back' = FALSE
               PROVE  /\ fetchedAt <= now'
                      /\ \A kid \in DOMAIN keys :
                           age'[<<kid, keys[kid]>>] <= FetchTimeout + (now' - fetchedAt)
    BY <1>1, <1>4 DEF CacheYoung
  <2>1. back = FALSE /\ now' >= now /\ now \in Nat /\ now' \in Nat /\ fetchedAt \in Nat
    BY <1>4 DEF IndInv, CacheType
  <2>2. fetchedAt <= now
    BY <2>1 DEF IndInv, CacheYoung
  <2>3. ASSUME NEW kid \in DOMAIN keys
        PROVE  age'[<<kid, keys[kid]>>] <= FetchTimeout + (now' - fetchedAt)
    <3> DEFINE p == <<kid, keys[kid]>>
    <3>1. p \in Timed /\ age[p] \in Nat
      BY TimeFacts DEF IndInv, CacheType
    <3>2. age[p] <= FetchTimeout + (now - fetchedAt)
      BY <2>1 DEF IndInv, CacheYoung
    <3> HIDE DEF p
    <3>3. age'[p] <= FetchTimeout + (now' - fetchedAt)
      BY <1>4, <2>1, <2>2, <3>1, <3>2, TimeFacts DEF IndInv, CacheType
    <3>4. QED
      BY <3>3 DEF p
  <2>4. QED
    BY <2>1, <2>2, <2>3
<1>9. Steady'
  BY <1>1, <1>3 DEF IndInv, Steady, Genuine
<1>10. Ready'
  <2> SUFFICES ASSUME NEW h \in Handlers, req'[h].ready
               PROVE  /\ req'[h].pc = "lookup" /\ ~req'[h].force
                      /\ CacheFresh' /\ Holds(keys, req[h].token)'
    BY DEF Ready
  <2>1. req[h].ready /\ CacheFresh'
    BY <1>3
  <2>2. QED
    BY <1>1, <1>3, <2>1 DEF IndInv, Ready, Holds
<1>11. QED
  BY <1>5, <1>6, <1>7, <1>8, <1>9, <1>10 DEF IndInv

\* A rotation ends the claims of the requests for that kid, and makes no key
\* older.
LEMMA RotateInv ==
    ASSUME IndInv, Rotate
    PROVE  IndInv'
<1>1. PICK kid \in Kids, k \in Keys \cup {NoKey} :
        /\ published' = [published EXCEPT ![kid] = k] /\ published' \in Documents
        /\ age' = [p \in DOMAIN age |-> IF p = <<kid, k>> THEN 0 ELSE age[p]]
        /\ req' = [h \in Handlers |->
               IF req[h].pc \notin Ended /\ req[h].token.kid = kid
               THEN [req[h] EXCEPT !.steady = FALSE, !.ready = FALSE] ELSE req[h]]
  BY DEF Rotate
<1>2. UNCHANGED <<now, back, keys, fetchedAt, mu, elapsed, doc>>
  BY DEF Rotate, cache, fetch
<1>3. published \in [Kids -> Keys \cup {NoKey}] /\ age \in [Timed -> 0 .. Horizon]
  BY DEF IndInv, CacheType, Documents
<1>4. ASSUME NEW h \in Handlers
      PROVE  LET n == [req[h] EXCEPT !.steady = FALSE, !.ready = FALSE]
             IN  /\ n \in RequestType
                 /\ n.pc = req[h].pc /\ n.token = req[h].token /\ n.force = req[h].force
                 /\ n.key = req[h].key /\ n.steady = FALSE /\ n.ready = FALSE
  <2>1. req[h] \in RequestType
    BY DEF IndInv, CacheType
  <2>2. QED
    BY <2>1 DEF RequestType
<1>5. /\ req' \in [Handlers -> RequestType]
      /\ \A h \in Handlers :
           /\ req'[h].pc = req[h].pc /\ req'[h].token = req[h].token
           /\ req'[h].force = req[h].force /\ req'[h].key = req[h].key
           /\ req'[h].steady => req[h].steady
           /\ req'[h].ready => req[h].ready
           /\ req'[h].steady => req[h].pc \in Ended \/ req[h].token.kid # kid
  <2>1. req \in [Handlers -> RequestType]
    BY DEF IndInv, CacheType
  <2>2. QED
    BY <1>1, <1>4, <2>1
<1>6. /\ age' \in [Timed -> 0 .. Horizon]
      /\ \A p \in Timed : age'[p] = IF p = <<kid, k>> THEN 0 ELSE age[p]
  <2>1. age' = [p \in Timed |-> IF p = <<kid, k>> THEN 0 ELSE age[p]]
    BY <1>1, <1>3
  <2>2. 0 \in 0 .. Horizon
    BY TimeFacts
  <2>3. QED
    BY <1>3, <2>1, <2>2
<1>7. \A p \in Timed : age'[p] <= age[p]
  BY <1>3, <1>6, TimeFacts
<1>8. CacheType'
  BY <1>1, <1>2, <1>5, <1>6 DEF IndInv, CacheType
<1>9. Holder'
  BY <1>2, <1>5 DEF IndInv, Holder
<1>10. PublishedYoung'
  <2> SUFFICES ASSUME NEW p \in Timed, published'[p[1]] = p[2]
               PROVE  age'[p] = 0
    BY DEF PublishedYoung
  <2>1. p[1] \in Kids /\ p = <<p[1], p[2]>>
    BY TimedFacts
  <2>2. CASE p[1] = kid
    BY <1>1, <1>3, <1>6, <2>1, <2>2
  <2>3. CASE p[1] # kid
    BY <1>1, <1>3, <1>6, <2>1, <2>3 DEF IndInv, PublishedYoung
  <2>4. QED
    BY <2>2, <2>3
<1>11. DocYoung'
  <2> SUFFICES ASSUME mu # Free, NEW p \in Timed, doc[p[1]] = p[2]
               PROVE  age'[p] <= elapsed
    BY <1>2 DEF DocYoung
  <2>1. age[p] <= elapsed
    BY DEF IndInv, DocYoung
  <2>2. QED
    BY <1>3, <1>6, <1>7, <2>1, TimeFacts DEF IndInv, CacheType
<1>12. CacheYoung'
  <2> SUFFICES ASSUME ~back
               PROVE  /\ fetchedAt <= now
                      /\ \A i \in DOMAIN keys :
                           age'[<<i, keys[i]>>] <= FetchTimeout + (now - fetchedAt)
    BY <1>2 DEF CacheYoung
  <2>1. ASSUME NEW i \in DOMAIN keys
        PROVE  age'[<<i, keys[i]>>] <= FetchTimeout + (now - fetchedAt)
    <3> DEFINE p == <<i, keys[i]>>
    <3>1. p \in Timed /\ age[p] <= FetchTimeout + (now - fetchedAt)
      BY DEF IndInv, CacheType, CacheYoung
    <3> HIDE DEF p
    <3>2. age'[p] <= FetchTimeout + (now - fetchedAt)
      BY <1>3, <1>6, <1>7, <3>1, TimeFacts DEF IndInv, CacheType
    <3>3. QED
      BY <3>2 DEF p
  <2>2. QED
    BY <2>1 DEF IndInv, CacheYoung
<1>13. Steady'
  <2> SUFFICES ASSUME NEW h \in Handlers, req'[h].steady
               PROVE  /\ req[h].pc \in {"lookup", "fetch"}
                      /\ req[h].token.kid \in Kids
                      /\ Genuine(req[h].token)'
                      /\ req[h].pc = "fetch" => doc[req[h].token.kid] = req[h].token.key
    BY <1>2, <1>5 DEF Steady
  <2>1. req[h].steady
    BY <1>5
  <2>2. /\ req[h].pc \in {"lookup", "fetch"} /\ req[h].token.kid \in Kids
        /\ Genuine(req[h].token)
        /\ req[h].pc = "fetch" => doc[req[h].token.kid] = req[h].token.key
    BY <2>1 DEF IndInv, Steady
  <2>3. req[h].token.kid # kid
    BY <1>5, <2>2 DEF Ended
  <2>4. published'[req[h].token.kid] = published[req[h].token.kid]
    BY <1>1, <1>3, <2>2, <2>3
  <2>5. Genuine(req[h].token)'
    BY <1>5, <2>2, <2>4 DEF Genuine
  <2>6. QED
    BY <2>2, <2>5
<1>14. Ready'
  BY <1>2, <1>5 DEF IndInv, Ready, CacheFresh, Holds
<1>15. QED
  BY <1>8, <1>9, <1>10, <1>11, <1>12, <1>13, <1>14 DEF IndInv

\* The end of a fetch by h, whether the cache was replaced or not.
LEMMA Released ==
    ASSUME IndInv, NEW h \in Handlers, req[h].pc = "fetch", Unlock,
           UNCHANGED <<now, back, published, age>>,
           fetchedAt' \in Nat, CacheYoung',
           \A kid \in DOMAIN keys' : <<kid, keys'[kid]>> \in Timed,
           req' \in [Handlers -> RequestType],
           req'[h].pc # "fetch", ~req'[h].ready,
           req'[h].steady => /\ req'[h].pc = "lookup" /\ req[h].steady
                             /\ req'[h].token = req[h].token,
           \A g \in Handlers \ {h} :
              /\ req'[g].pc = req[g].pc /\ req'[g].token = req[g].token
              /\ req'[g].force = req[g].force /\ req'[g].steady = req[g].steady
              /\ req'[g].ready => /\ req[g].ready /\ CacheFresh'
                                  /\ Holds(keys, req[g].token)'
    PROVE  IndInv'
<1>1. mu = h /\ mu' = Free /\ elapsed' = 0
  BY DEF IndInv, Holder, Unlock
<1>2. CacheType'
  <2>1. elapsed' \in 0 .. FetchTimeout
    BY <1>1, TimeFacts
  <2>2. QED
    BY <2>1 DEF IndInv, CacheType
<1>3. \A g \in Handlers : req'[g].pc # "fetch"
  BY <1>1 DEF IndInv, Holder
<1>4. Holder' /\ DocYoung'
  BY <1>1, <1>3, FreeNew DEF Holder, DocYoung
<1>5. PublishedYoung'
  BY DEF IndInv, PublishedYoung
<1>6. Steady'
  BY <1>3 DEF IndInv, Steady, Genuine
<1>7. Ready'
  BY DEF IndInv, Ready, Holds
<1>8. QED
  BY <1>2, <1>4, <1>5, <1>6, <1>7 DEF IndInv

-----------------------------------------------------------------------------
(* The steps of a request.                                                 *)

\* A credential that passes the header checks names a kid.
LEMMA ReceiveInv ==
    ASSUME IndInv, NEW h \in Handlers, Receive(h)
    PROVE  IndInv'
<1>1. /\ UNCHANGED <<now, back, published, age, keys, fetchedAt, mu, elapsed, doc>>
      /\ req[h].pc # "fetch"
  BY DEF Receive, idp, cache, fetch, Ended
<1>2. PICK t \in Tokens[h] :
        IF HeaderAccepted(t)
        THEN req' = [req EXCEPT ![h] = [NoReq EXCEPT !.pc = "lookup", !.token = t,
               !.steady = Genuine(t),
               !.ready = Genuine(t) /\ CacheFresh /\ Holds(keys, t)]]
        ELSE End(h, "denied")
  BY DEF Receive
<1>3. CASE HeaderAccepted(t)
  <2> DEFINE n == [NoReq EXCEPT !.pc = "lookup", !.token = t, !.steady = Genuine(t),
                     !.ready = Genuine(t) /\ CacheFresh /\ Holds(keys, t)]
  <2>1. t \in Credentials /\ t.kid \in Kids
    BY <1>3, TokensType DEF Credentials
  <2>2. Genuine(t) \in BOOLEAN /\ (Genuine(t) /\ CacheFresh /\ Holds(keys, t)) \in BOOLEAN
    BY DEF Genuine
  <2>3. ASSUME NEW a \in BOOLEAN, NEW b \in BOOLEAN
        PROVE  LET q == [NoReq EXCEPT !.pc = "lookup", !.token = t, !.steady = a, !.ready = b]
               IN  /\ q \in RequestType /\ q.pc = "lookup" /\ q.token = t
                   /\ q.force = FALSE /\ q.steady = a /\ q.ready = b
    BY <2>1 DEF NoReq, RequestType
  <2>4. /\ n \in RequestType /\ n.pc = "lookup" /\ n.token = t /\ n.force = FALSE
        /\ n.steady = Genuine(t)
        /\ n.ready = (Genuine(t) /\ CacheFresh /\ Holds(keys, t))
    BY <2>2, <2>3
  <2>5. req' = [req EXCEPT ![h] = n]
    BY <1>2, <1>3
  <2> HIDE DEF n
  <2>6. /\ n.steady => n.token.kid \in Kids /\ Genuine(n.token)
        /\ n.ready => CacheFresh /\ Holds(keys, n.token)
    BY <2>1, <2>4
  <2>7. QED
    BY <1>1, <2>4, <2>5, <2>6, OneRequest
<1>4. CASE ~HeaderAccepted(t)
  <2>1. req' = [req EXCEPT ![h] = [NoReq EXCEPT !.pc = "denied"]]
    BY <1>2, <1>4 DEF End
  <2>2. "denied" \in Ended /\ "denied" # "fetch"
    BY DEF Ended
  <2>3. QED
    BY <1>1, <2>1, <2>2, EndedRequest, OneRequest
<1>5. QED
  BY <1>3, <1>4

\* keyFor hands out a key of the cache.
LEMMA LookupCachedInv ==
    ASSUME IndInv, NEW h \in Handlers, LookupCached(h)
    PROVE  IndInv'
<1>1. /\ UNCHANGED <<now, back, published, age, keys, fetchedAt, mu, elapsed, doc>>
      /\ req[h].pc # "fetch" /\ req[h].token.kid \in DOMAIN keys
  BY DEF LookupCached, idp, cache, fetch
<1>2. keys[req[h].token.kid] \in Keys /\ req[h].token \in Credentials \cup {NoKey}
  <2>1. <<req[h].token.kid, keys[req[h].token.kid]>> \in Timed
    BY <1>1 DEF IndInv, CacheType
  <2>2. req[h] \in RequestType
    BY DEF IndInv, CacheType
  <2>3. QED
    BY <2>1, <2>2, TimedFacts DEF RequestType
<1>3. req' = [req EXCEPT ![h] = [NoReq EXCEPT !.pc = "verify",
                !.key = keys[req[h].token.kid], !.token = req[h].token]]
  BY DEF LookupCached, Found
<1>4. QED
  BY <1>1, <1>2, <1>3, FoundRequest, OneRequest

\* Signature and claims.
LEMMA CheckInv ==
    ASSUME IndInv, NEW h \in Handlers, Check(h)
    PROVE  IndInv'
<1>1. /\ UNCHANGED <<now, back, published, age, keys, fetchedAt, mu, elapsed, doc>>
      /\ req[h].pc # "fetch"
  BY DEF Check, idp, cache, fetch
<1>2. \E outcome \in {"accepted", "denied", "forged"} : End(h, outcome)
  BY DEF Check
<1>3. PICK outcome \in {"accepted", "denied", "forged"} :
        req' = [req EXCEPT ![h] = [NoReq EXCEPT !.pc = outcome]]
  BY <1>2 DEF End
<1>4. outcome \in Ended /\ outcome # "fetch"
  BY DEF Ended
<1>5. QED
  BY <1>1, <1>3, <1>4, EndedRequest, OneRequest

\* A document leaves the endpoint with the keys published at that moment.
LEMMA LookupFetchInv ==
    ASSUME IndInv, NEW h \in Handlers, LookupFetch(h)
    PROVE  IndInv'
<1>1. /\ UNCHANGED <<now, back, published, age, keys, fetchedAt>>
      /\ req[h].pc = "lookup" /\ mu = Free
      /\ ~(~req[h].force /\ CacheFresh /\ req[h].token.kid \in DOMAIN keys)
      /\ mu' = h /\ elapsed' = 0 /\ doc' = published
      /\ req' = [req EXCEPT ![h].pc = "fetch"]
  BY DEF LookupFetch, idp, cache
<1>2. req[h] \in RequestType /\ req \in [Handlers -> RequestType]
  BY DEF IndInv, CacheType
<1>3. LET n == [req[h] EXCEPT !.pc = "fetch"]
      IN  /\ n \in RequestType /\ n.pc = "fetch" /\ n.token = req[h].token
          /\ n.force = req[h].force /\ n.key = req[h].key
          /\ n.steady = req[h].steady /\ n.ready = req[h].ready
  BY <1>2 DEF RequestType
<1>4. /\ req' \in [Handlers -> RequestType]
      /\ \A g \in Handlers \ {h} : req'[g] = req[g]
      /\ req'[h].pc = "fetch" /\ req'[h].token = req[h].token
      /\ req'[h].steady = req[h].steady /\ req'[h].ready = req[h].ready
  BY <1>1, <1>2, <1>3
<1>5. CacheType'
  <2>1. elapsed' \in 0 .. FetchTimeout
    BY <1>1, TimeFacts
  <2>2. QED
    BY <1>1, <1>4, <2>1 DEF IndInv, CacheType
<1>6. \A g \in Handlers : req[g].pc # "fetch"
  BY <1>1, FreeNew DEF IndInv, Holder
<1>7. Holder'
  BY <1>1, <1>4, <1>5, <1>6 DEF Holder, CacheType
<1>8. PublishedYoung' /\ CacheYoung'
  BY <1>1 DEF IndInv, PublishedYoung, CacheYoung
<1>9. DocYoung'
  BY <1>1 DEF IndInv, PublishedYoung, DocYoung
<1>10. Steady'
  BY <1>1, <1>4, <1>6 DEF IndInv, Steady, Genuine
<1>11. ~req[h].ready
  BY <1>1 DEF IndInv, Ready, Holds
<1>12. Ready'
  BY <1>1, <1>4, <1>11 DEF IndInv, Ready, CacheFresh, Holds
<1>13. QED
  BY <1>5, <1>7, <1>8, <1>9, <1>10, <1>12 DEF IndInv

\* Verify asks once more, by force, then gives up.
LEMMA FailedRequest ==
    ASSUME NEW r \in [Handlers -> RequestType], NEW h \in Handlers,
           NEW why \in {"unfetched", "unknown"}, KeyForFails(r, h, why)
    PROVE  /\ req' \in [Handlers -> RequestType]
           /\ \A g \in Handlers \ {h} : req'[g] = r[g]
           /\ req'[h].pc \in {"lookup", why}
           /\ req'[h].steady => /\ req'[h].pc = "lookup" /\ r[h].steady
                                /\ req'[h].token = r[h].token
           /\ req'[h].ready => r[h].ready
<1>1. CASE r[h].force
  <2>1. req' = [r EXCEPT ![h] = [NoReq EXCEPT !.pc = why]]
    BY <1>1 DEF KeyForFails
  <2>2. why \in Ended
    BY DEF Ended
  <2>3. QED
    BY <2>1, <2>2, EndedRequest
<1>2. CASE ~r[h].force
  <2> DEFINE n == [r[h] EXCEPT !.pc = "lookup", !.force = TRUE]
  <2>1. req' = [r EXCEPT ![h] = n]
    BY <1>2 DEF KeyForFails
  <2>2. /\ n \in RequestType /\ n.pc = "lookup" /\ n.token = r[h].token
        /\ n.steady = r[h].steady /\ n.ready = r[h].ready
    BY DEF RequestType
  <2> HIDE DEF n
  <2>3. QED
    BY <2>1, <2>2
<1>3. QED
  BY <1>1, <1>2

\* A lost fetch leaves the cache alone.
LEMMA FetchFailsInv ==
    ASSUME IndInv, NEW h \in Handlers, FetchFails(h)
    PROVE  IndInv'
<1>1. /\ UNCHANGED <<now, back, published, age, keys, fetchedAt>>
      /\ req[h].pc = "fetch" /\ Unlock /\ KeyForFails(req, h, "unfetched")
  BY DEF FetchFails, idp, cache
<1>2. req \in [Handlers -> RequestType] /\ fetchedAt' \in Nat
  BY <1>1 DEF IndInv, CacheType
<1>3. ~req[h].ready
  BY <1>1 DEF IndInv, Ready
<1>4. /\ req' \in [Handlers -> RequestType]
      /\ \A g \in Handlers \ {h} : req'[g] = req[g]
      /\ req'[h].pc # "fetch" /\ ~req'[h].ready
      /\ req'[h].steady => /\ req'[h].pc = "lookup" /\ req[h].steady
                           /\ req'[h].token = req[h].token
  BY <1>1, <1>2, <1>3, FailedRequest
<1>5. CacheYoung' /\ \A kid \in DOMAIN keys' : <<kid, keys'[kid]>> \in Timed
  BY <1>1 DEF IndInv, CacheYoung, CacheType
<1>6. \A g \in Handlers \ {h} : req'[g].ready =>
        req[g].ready /\ CacheFresh' /\ Holds(keys, req[g].token)'
  BY <1>1, <1>4 DEF IndInv, Ready, CacheFresh, Holds
<1>7. QED
  BY <1>1, <1>2, <1>4, <1>5, <1>6, Released

\* What FetchDone does to the requests.
LEMMA DeliveredRequests ==
    ASSUME IndInv, NEW h \in Handlers, FetchDone(h)
    PROVE  /\ req' \in [Handlers -> RequestType]
           /\ \A g \in Handlers \ {h} :
                /\ req'[g].pc = req[g].pc /\ req'[g].token = req[g].token
                /\ req'[g].force = req[g].force /\ req'[g].steady = req[g].steady
                /\ req'[g].key = req[g].key
                /\ req'[g].ready => req[g].ready /\ Holds(keys', req[g].token)
           /\ \/ /\ req[h].token.kid \in DOMAIN keys'
                 /\ req'[h].pc = "verify" /\ req'[h].key = keys'[req[h].token.kid]
                 /\ req'[h].steady = FALSE /\ req'[h].ready = FALSE
              \/ /\ req[h].token.kid \notin DOMAIN keys'
                 /\ req'[h].pc \in {"lookup", "unknown"} /\ ~req'[h].ready
                 /\ req'[h].steady => /\ req'[h].pc = "lookup" /\ req[h].steady
                                      /\ req'[h].token = req[h].token
<1> DEFINE r == [g \in Handlers |->
                   [req[g] EXCEPT !.ready = req[g].ready /\ Holds(keys', req[g].token)]]
<1>1. req \in [Handlers -> RequestType] /\ req[h].pc = "fetch"
  BY DEF IndInv, CacheType, FetchDone
<1>2. ASSUME NEW g \in Handlers, NEW y \in BOOLEAN
      PROVE  LET n == [req[g] EXCEPT !.ready = y]
             IN  /\ n \in RequestType
                 /\ n.pc = req[g].pc /\ n.token = req[g].token /\ n.force = req[g].force
                 /\ n.steady = req[g].steady /\ n.key = req[g].key /\ n.ready = y
  <2>1. req[g] \in RequestType
    BY <1>1
  <2>2. QED
    BY <2>1 DEF RequestType
<1>3. /\ r \in [Handlers -> RequestType]
      /\ \A g \in Handlers :
           /\ r[g].pc = req[g].pc /\ r[g].token = req[g].token
           /\ r[g].force = req[g].force /\ r[g].steady = req[g].steady
           /\ r[g].key = req[g].key
           /\ r[g].ready = (req[g].ready /\ Holds(keys', req[g].token))
  <2>1. \A g \in Handlers : (req[g].ready /\ Holds(keys', req[g].token)) \in BOOLEAN
    OBVIOUS
  <2>2. QED
    BY <1>2, <2>1
<1>4. ~r[h].ready
  <2>1. ~req[h].ready
    BY <1>1 DEF IndInv, Ready
  <2>2. QED
    BY <1>3, <2>1
<1>5. IF req[h].token.kid \in DOMAIN keys'
      THEN Found(r, h, keys'[req[h].token.kid]) ELSE KeyForFails(r, h, "unknown")
  BY DEF FetchDone
<1>6. /\ doc \in Documents /\ keys' = UsableKeys(doc)
      /\ \A kid \in DOMAIN keys' : keys'[kid] \in Keys
  <2>1. doc \in Documents /\ keys' = UsableKeys(doc)
    BY <1>1, FreeNew DEF IndInv, Holder, FetchDone
  <2>2. QED
    BY <2>1, UsableFacts, TimedFacts
<1> HIDE DEF r
<1>7. CASE req[h].token.kid \in DOMAIN keys'
  <2> DEFINE n == [NoReq EXCEPT !.pc = "verify", !.key = keys'[req[h].token.kid],
                     !.token = r[h].token]
  <2>1. req' = [r EXCEPT ![h] = n]
    BY <1>5, <1>7 DEF Found
  <2>2. keys'[req[h].token.kid] \in Keys /\ r[h].token \in Credentials \cup {NoKey}
    BY <1>3, <1>6, <1>7 DEF RequestType
  <2>3. /\ n \in RequestType /\ n.pc = "verify" /\ n.key = keys'[req[h].token.kid]
        /\ n.steady = FALSE /\ n.ready = FALSE
    BY <2>2, FoundRequest
  <2> HIDE DEF n
  <2>4. /\ req' \in [Handlers -> RequestType] /\ req'[h] = n
        /\ \A g \in Handlers \ {h} : req'[g] = r[g]
    BY <1>3, <2>1, <2>3
  <2>5. QED
    BY <1>3, <1>7, <2>3, <2>4
<1>8. CASE req[h].token.kid \notin DOMAIN keys'
  <2>1. KeyForFails(r, h, "unknown")
    BY <1>5, <1>8
  <2>2. /\ req' \in [Handlers -> RequestType]
        /\ \A g \in Handlers \ {h} : req'[g] = r[g]
        /\ req'[h].pc \in {"lookup", "unknown"}
        /\ req'[h].steady => /\ req'[h].pc = "lookup" /\ r[h].steady
                             /\ req'[h].token = r[h].token
        /\ req'[h].ready => r[h].ready
    BY <1>3, <2>1, FailedRequest
  <2>3. QED
    BY <1>3, <1>4, <1>8, <2>2
<1>9. QED
  BY <1>7, <1>8

\* The document that arrives is no older than the fetch, and fills the cache.
LEMMA FetchDoneInv ==
    ASSUME IndInv, NEW h \in Handlers, FetchDone(h)
    PROVE  IndInv'
<1>1. /\ UNCHANGED <<now, back, published, age>>
      /\ req[h].pc = "fetch" /\ Unlock /\ DOMAIN UsableKeys(doc) # {}
      /\ keys' = UsableKeys(doc) /\ fetchedAt' = now
  BY DEF FetchDone, idp
<1>2. mu # Free /\ doc \in Documents /\ now \in Nat /\ elapsed \in 0 .. FetchTimeout
  BY <1>1, FreeNew DEF IndInv, Holder, CacheType
<1>3. \A kid \in DOMAIN keys' : keys'[kid] = doc[kid] /\ <<kid, keys'[kid]>> \in Timed
  BY <1>1, <1>2, UsableFacts
<1>4. CacheYoung'
  <2>1. ASSUME NEW kid \in DOMAIN keys'
        PROVE  age[<<kid, keys'[kid]>>] <= FetchTimeout
    <3> DEFINE p == <<kid, keys'[kid]>>
    <3>1. p \in Timed /\ doc[p[1]] = p[2]
      BY <1>3
    <3> HIDE DEF p
    <3>2. age[p] <= elapsed /\ age[p] \in Nat
      BY <1>2, <3>1, TimeFacts DEF IndInv, DocYoung, CacheType
    <3>3. age[p] <= FetchTimeout
      BY <1>2, <3>2, TimeFacts
    <3>4. QED
      BY <3>3 DEF p
  <2>2. fetchedAt' = now /\ now' = now /\ now - now = 0 /\ now <= now
    BY <1>1, <1>2
  <2>3. FetchTimeout + (now' - fetchedAt') = FetchTimeout
    BY <1>2, <2>2, TimeFacts
  <2>4. QED
    BY <1>1, <2>1, <2>2, <2>3 DEF CacheYoung
<1>5. CacheFresh'
  <2>1. keys' # Unset
    BY <1>1 DEF Unset
  <2>2. now' - fetchedAt' < CacheTTL
    BY <1>1, <1>2, TimeFacts
  <2>3. QED
    BY <2>1, <2>2 DEF CacheFresh
<1>6. /\ req' \in [Handlers -> RequestType]
      /\ req'[h].pc # "fetch" /\ ~req'[h].ready
      /\ req'[h].steady => /\ req'[h].pc = "lookup" /\ req[h].steady
                           /\ req'[h].token = req[h].token
  BY DeliveredRequests
<1>7. \A g \in Handlers \ {h} :
        /\ req'[g].pc = req[g].pc /\ req'[g].token = req[g].token
        /\ req'[g].force = req[g].force /\ req'[g].steady = req[g].steady
        /\ req'[g].ready => req[g].ready /\ CacheFresh' /\ Holds(keys, req[g].token)'
  <2>1. \A g \in Handlers \ {h} :
          /\ req'[g].pc = req[g].pc /\ req'[g].token = req[g].token
          /\ req'[g].force = req[g].force /\ req'[g].steady = req[g].steady
          /\ req'[g].ready => req[g].ready /\ Holds(keys', req[g].token)
    BY DeliveredRequests
  <2>2. QED
    BY <1>5, <2>1 DEF Holds
<1>8. fetchedAt' \in Nat /\ \A kid \in DOMAIN keys' : <<kid, keys'[kid]>> \in Timed
  BY <1>1, <1>2, <1>3
<1>9. QED
  BY <1>1, <1>4, <1>6, <1>7, <1>8, Released

\* Every step preserves the invariant.
LEMMA IndInvNext == IndInv /\ [Next]_vars => IndInv'
<1> SUFFICES ASSUME IndInv, [Next]_vars PROVE IndInv'
  OBVIOUS
<1>1. CASE Tick \/ SetClock
  BY <1>1, ClockInv
<1>2. CASE Rotate
  BY <1>2, RotateInv
<1>3. CASE \E h \in Handlers : \/ Receive(h) \/ LookupCached(h) \/ LookupFetch(h) \/ Verify(h)
  BY <1>3, ReceiveInv, LookupCachedInv, LookupFetchInv, FetchDoneInv, FetchFailsInv,
     CheckInv DEF Verify
<1>4. CASE UNCHANGED vars
  BY <1>4 DEF vars, idp, cache, fetch, IndInv, CacheType, Holder, PublishedYoung,
     DocYoung, CacheYoung, Steady, Ready, Genuine, CacheFresh, Holds
<1>5. QED
  BY <1>1, <1>2, <1>3, <1>4 DEF Next

\* The mutex is held by exactly the request that fetches; every cached key is
\* usable and was published one fetch before it was cached.
THEOREM Invariance == Spec => []IndInv
  BY IndInvInit, IndInvNext, PTL DEF Spec

-----------------------------------------------------------------------------
\* Only its own steps move a request.
LEMMA OwnSteps ==
    ASSUME IndInv, [Next]_vars, NEW h \in Handlers, req'[h].pc # req[h].pc
    PROVE  \/ Receive(h) \/ LookupCached(h) \/ LookupFetch(h)
           \/ FetchDone(h) \/ FetchFails(h) \/ Check(h)
<1>1. req \in [Handlers -> RequestType]
  BY DEF IndInv, CacheType
<1>2. CASE Tick \/ SetClock
  <2>1. req' = [g \in Handlers |-> [req[g] EXCEPT !.ready = req[g].ready /\ CacheFresh']]
    BY <1>2 DEF Tick, SetClock
  <2>2. CacheFresh' \in BOOLEAN /\ CacheType
    BY DEF CacheFresh, IndInv
  <2>3. QED
    BY <2>1, <2>2, ReadyHistory
<1>3. CASE Rotate
  <2>1. PICK kid \in Kids :
          req' = [g \in Handlers |->
               IF req[g].pc \notin Ended /\ req[g].token.kid = kid
               THEN [req[g] EXCEPT !.steady = FALSE, !.ready = FALSE] ELSE req[g]]
    BY <1>3 DEF Rotate
  <2>2. req[h] \in RequestType
    BY <1>1
  <2>3. [req[h] EXCEPT !.steady = FALSE, !.ready = FALSE].pc = req[h].pc
    BY <2>2 DEF RequestType
  <2>4. QED
    BY <2>1, <2>3
<1>4. CASE UNCHANGED vars
  BY <1>4 DEF vars
<1>5. ASSUME NEW g \in Handlers, g # h,
             \/ Receive(g) \/ LookupCached(g) \/ LookupFetch(g) \/ Verify(g)
      PROVE  FALSE
  <2>1. CASE Receive(g)
    BY <1>1, <1>5, <2>1 DEF Receive, End
  <2>2. CASE LookupCached(g)
    BY <1>1, <1>5, <2>2 DEF LookupCached, Found
  <2>3. CASE LookupFetch(g)
    BY <1>1, <1>5, <2>3 DEF LookupFetch
  <2>4. CASE FetchDone(g)
    BY <1>5, <2>4, DeliveredRequests
  <2>5. CASE FetchFails(g)
    BY <1>1, <1>5, <2>5 DEF FetchFails, KeyForFails
  <2>6. CASE Check(g)
    BY <1>1, <1>5, <2>6 DEF Check, End
  <2>7. QED
    BY <1>5, <2>1, <2>2, <2>3, <2>4, <2>5, <2>6 DEF Verify
<1>6. QED
  BY <1>2, <1>3, <1>4, <1>5 DEF Next, Verify

\* Where its own steps move a request.
LEMMA Moves ==
    ASSUME IndInv, NEW h \in Handlers
    PROVE  /\ Receive(h) => req[h].pc \in Ended /\ req'[h].pc \in {"lookup", "denied"}
           /\ LookupCached(h) => /\ req[h].pc = "lookup" /\ req'[h].pc = "verify"
                                 /\ req'[h].key = keys[req[h].token.kid]
           /\ LookupFetch(h) => req[h].pc = "lookup" /\ req'[h].pc = "fetch"
           /\ FetchFails(h) => req[h].pc = "fetch" /\ req'[h].pc \in {"lookup", "unfetched"}
           /\ Check(h) => /\ req[h].pc = "verify"
                          /\ req'[h].pc \in {"accepted", "denied", "forged"}
<1>1. req \in [Handlers -> RequestType] /\ req[h] \in RequestType
  BY DEF IndInv, CacheType
<1>2. ASSUME Receive(h)
      PROVE  req[h].pc \in Ended /\ req'[h].pc \in {"lookup", "denied"}
  <2> DEFINE n(t) == [NoReq EXCEPT !.pc = "lookup", !.token = t, !.steady = Genuine(t),
                        !.ready = Genuine(t) /\ CacheFresh /\ Holds(keys, t)]
             d    == [NoReq EXCEPT !.pc = "denied"]
  <2>1. PICK t \in Tokens[h] : req' = [req EXCEPT ![h] = n(t)] \/ req' = [req EXCEPT ![h] = d]
    BY <1>2 DEF Receive, End
  <2>2. n(t).pc = "lookup" /\ d.pc = "denied"
    BY DEF NoReq
  <2> HIDE DEF n, d
  <2>3. req'[h].pc \in {"lookup", "denied"}
    BY <1>1, <2>1, <2>2
  <2>4. QED
    BY <1>2, <2>3 DEF Receive
<1>3. ASSUME LookupCached(h)
      PROVE  /\ req[h].pc = "lookup" /\ req'[h].pc = "verify"
             /\ req'[h].key = keys[req[h].token.kid]
  <2>1. \A k, t : LET n == [NoReq EXCEPT !.pc = "verify", !.key = k, !.token = t]
                  IN  n.pc = "verify" /\ n.key = k
    BY DEF NoReq
  <2>2. QED
    BY <1>1, <1>3, <2>1 DEF LookupCached, Found
<1>4. ASSUME LookupFetch(h) PROVE req[h].pc = "lookup" /\ req'[h].pc = "fetch"
  <2>1. [req[h] EXCEPT !.pc = "fetch"].pc = "fetch"
    BY <1>1 DEF RequestType
  <2>2. QED
    BY <1>1, <1>4, <2>1 DEF LookupFetch
<1>5. ASSUME FetchFails(h)
      PROVE  req[h].pc = "fetch" /\ req'[h].pc \in {"lookup", "unfetched"}
  BY <1>1, <1>5, FailedRequest DEF FetchFails
<1>6. ASSUME Check(h)
      PROVE  /\ req[h].pc = "verify"
             /\ req'[h].pc \in {"accepted", "denied", "forged"}
  <2>1. PICK outcome \in {"accepted", "denied", "forged"} :
          req' = [req EXCEPT ![h] = [NoReq EXCEPT !.pc = outcome]]
    BY <1>6 DEF Check, End
  <2>2. [NoReq EXCEPT !.pc = outcome].pc = outcome
    BY DEF NoReq
  <2>3. QED
    BY <1>1, <1>6, <2>1, <2>2 DEF Check
<1>7. QED
  BY <1>2, <1>3, <1>4, <1>5, <1>6

\* Unless the wall clock was set back, a key that keyFor hands out was still
\* published less than CacheTTL and one fetch before: WithdrawnKeyExpires.
THEOREM WithdrawnKeys == Spec => WithdrawnKeyExpires
<1>1. ASSUME IndInv, [Next]_vars, NEW h \in Handlers,
             req[h].pc # "verify", req'[h].pc = "verify", ~back
      PROVE  age[<<req[h].token.kid, req'[h].key>>] < Horizon
  <2>1. CASE LookupCached(h)
    <3> DEFINE kid == req[h].token.kid
               p   == <<kid, keys[kid]>>
    <3>1. kid \in DOMAIN keys /\ now - fetchedAt < CacheTTL /\ req'[h].key = keys[kid]
      BY <1>1, <2>1, Moves DEF LookupCached, CacheFresh
    <3>2. p \in Timed /\ age[p] <= FetchTimeout + (now - fetchedAt)
      BY <1>1, <3>1 DEF IndInv, CacheType, CacheYoung
    <3>3. req'[h].key = keys[kid]
      BY <3>1
    <3> HIDE DEF p
    <3>4. age[p] < Horizon
      BY <1>1, <3>1, <3>2, TimeFacts DEF IndInv, CacheType
    <3>5. QED
      BY <3>3, <3>4 DEF p
  <2>2. CASE FetchDone(h)
    <3> DEFINE kid == req[h].token.kid
               p   == <<kid, keys'[kid]>>
    <3>1. kid \in DOMAIN keys' /\ req'[h].key = keys'[kid]
      BY <1>1, <2>2, DeliveredRequests
    <3>2. doc \in Documents /\ mu # Free /\ keys' = UsableKeys(doc)
      BY <1>1, <2>2, FreeNew DEF IndInv, Holder, FetchDone
    <3>3. p \in Timed /\ doc[p[1]] = p[2]
      BY <3>1, <3>2, UsableFacts
    <3> HIDE DEF p
    <3>4. age[p] <= elapsed
      BY <1>1, <3>2, <3>3 DEF IndInv, DocYoung
    <3>5. age[p] < Horizon
      BY <1>1, <3>3, <3>4, TimeFacts DEF IndInv, CacheType
    <3>6. QED
      BY <3>1, <3>5 DEF p
  <2>3. QED
    BY <1>1, <2>1, <2>2, OwnSteps, Moves DEF Ended
<1>2. IndInv /\ [Next]_vars =>
        [\A h \in Handlers :
           req[h].pc # "verify" /\ req'[h].pc = "verify" /\ ~back =>
              age[req[h].token.kid, req'[h].key] < Horizon]_vars
  BY <1>1
<1>3. QED
  BY <1>2, Invariance, PTL DEF Spec, WithdrawnKeyExpires

\* A request whose key was published from its arrival on is not told that its
\* kid is unknown: PublishedKeyKnown.
THEOREM PublishedKeys == Spec => PublishedKeyKnown
<1>1. ASSUME IndInv, [Next]_vars, NEW h \in Handlers, Ends(h), req[h].steady
      PROVE  req'[h].pc # "unknown"
  <2>1. CASE FetchDone(h)
    <3> DEFINE t == req[h].token
    <3>1. /\ t.kid \in Kids /\ Usable(t.kid, t.key) /\ doc[t.kid] = t.key
      BY <1>1, <2>1 DEF IndInv, Steady, Genuine, FetchDone
    <3>2. doc \in Documents /\ keys' = UsableKeys(doc)
      BY <1>1, <2>1, FreeNew DEF IndInv, Holder, FetchDone
    <3>3. t.kid \in DOMAIN keys'
      BY <3>1, <3>2, UsableFacts
    <3>4. QED
      BY <1>1, <2>1, <3>3, DeliveredRequests
  <2>2. QED
    BY <1>1, <2>1, OwnSteps, Moves DEF Ends
<1>2. IndInv /\ [Next]_vars =>
        [\A h \in Handlers : Ends(h) /\ req[h].steady => req'[h].pc # "unknown"]_vars
  BY <1>1
<1>3. QED
  BY <1>2, Invariance, PTL DEF Spec, PublishedKeyKnown

\* A request whose key stays in an unexpired cache is never refused for want
\* of it, whatever fetches fail meanwhile: CachedKeySurvivesOutage.
THEOREM CachedKeys == Spec => CachedKeySurvivesOutage
<1>1. ASSUME IndInv, [Next]_vars, NEW h \in Handlers, Ends(h), req[h].ready
      PROVE  req'[h].pc \notin {"unfetched", "unknown"}
  <2>1. req[h].pc = "lookup"
    BY <1>1 DEF IndInv, Ready
  <2>2. ~FetchDone(h)
    BY <2>1 DEF FetchDone
  <2>3. QED
    BY <1>1, <2>1, <2>2, OwnSteps, Moves DEF Ends, Ended
<1>2. IndInv /\ [Next]_vars =>
        [\A h \in Handlers : Ends(h) /\ req[h].ready =>
           req'[h].pc \notin {"unfetched", "unknown"}]_vars
  BY <1>1
<1>3. QED
  BY <1>2, Invariance, PTL DEF Spec, CachedKeySurvivesOutage

-----------------------------------------------------------------------------
(* Type correctness: the invariant with the bounds of the model.           *)

Bounded ==
    /\ now \in 1 .. MaxTime /\ fetchedAt \in 0 .. MaxTime
    /\ rotations \in 0 .. MaxRotations
    /\ keys \in Caches /\ doc \in Documents \cup {Unset}
    /\ \A h \in Handlers : req[h].pc = "verify" => req[h].key \in Keys

\* What refreshKeysLocked makes of a document is a cache.
LEMMA UsableCaches ==
    ASSUME NEW d \in Documents
    PROVE  UsableKeys(d) \in Caches
<1> DEFINE K == {kid \in DOMAIN d : Usable(kid, d[kid])}
<1>1. K \in SUBSET Kids /\ \A kid \in K : d[kid] \in Keys
  <2>1. DOMAIN d = Kids /\ \A kid \in Kids : d[kid] \in Keys \cup {NoKey}
    BY DEF Documents
  <2>2. \A kid : Usable(kid, d[kid]) => d[kid] # NoKey
    BY Zenon DEF Usable
  <2>3. QED
    BY <2>1, <2>2
<1>2. UsableKeys(d) \in [K -> Keys]
  BY <1>1 DEF UsableKeys
<1> HIDE DEF K
<1>3. QED
  BY <1>1, <1>2 DEF Caches

\* A request is given a key from the cache only.
LEMMA KeysGiven ==
    ASSUME IndInv, Bounded, [Next]_vars, keys' \in Caches, NEW h \in Handlers,
           req'[h].pc = "verify"
    PROVE  req'[h].key \in Keys
<1>1. req \in [Handlers -> RequestType] /\ CacheType
  BY DEF IndInv, CacheType
<1>2. \A kid \in DOMAIN keys' : keys'[kid] \in Keys
  BY DEF Caches
<1>3. \A kid \in DOMAIN keys : keys[kid] \in Keys
  BY DEF Caches, Bounded
<1>4. CASE req[h].pc # "verify"
  <2>1. \/ Receive(h) \/ LookupCached(h) \/ LookupFetch(h)
        \/ FetchDone(h) \/ FetchFails(h) \/ Check(h)
    BY <1>4, OwnSteps
  <2>2. LookupCached(h) \/ FetchDone(h)
    BY <1>4, <2>1, Moves
  <2>3. CASE LookupCached(h)
    BY <1>3, <2>3, Moves DEF LookupCached
  <2>4. CASE FetchDone(h)
    BY <1>2, <2>4, DeliveredRequests
  <2>5. QED
    BY <2>2, <2>3, <2>4
<1>5. CASE req[h].pc = "verify"
  <2> SUFFICES req'[h].key = req[h].key
    BY <1>5 DEF Bounded
  <2>1. ~Receive(h) /\ ~LookupCached(h) /\ ~LookupFetch(h)
        /\ ~FetchDone(h) /\ ~FetchFails(h) /\ ~Check(h)
    <3>1. FetchDone(h) => req[h].pc = "fetch"
      BY DEF FetchDone
    <3>2. "verify" \notin Ended
      BY DEF Ended
    <3>3. QED
      BY <1>5, <3>1, <3>2, Moves
  <2>2. CASE Tick \/ SetClock
    <3>1. req' = [g \in Handlers |-> [req[g] EXCEPT !.ready = req[g].ready /\ CacheFresh']]
      BY <2>2 DEF Tick, SetClock
    <3>2. CacheFresh' \in BOOLEAN
      BY DEF CacheFresh
    <3>3. QED
      BY <1>1, <3>1, <3>2, ReadyHistory
  <2>3. CASE Rotate
    <3>1. PICK kid \in Kids :
            req' = [g \in Handlers |->
               IF req[g].pc \notin Ended /\ req[g].token.kid = kid
               THEN [req[g] EXCEPT !.steady = FALSE, !.ready = FALSE] ELSE req[g]]
      BY <2>3 DEF Rotate
    <3>2. [req[h] EXCEPT !.steady = FALSE, !.ready = FALSE].key = req[h].key
      BY <1>1 DEF RequestType
    <3>3. QED
      BY <3>1, <3>2
  <2>4. ASSUME NEW g \in Handlers \ {h},
               Receive(g) \/ LookupCached(g) \/ LookupFetch(g) \/ Check(g)
        PROVE  req'[h].key = req[h].key
    <3>1. CASE Receive(g)
      BY <1>1, <3>1 DEF Receive, End
    <3>2. CASE LookupCached(g)
      BY <1>1, <3>2 DEF LookupCached, Found
    <3>3. CASE LookupFetch(g)
      BY <1>1, <3>3 DEF LookupFetch
    <3>4. CASE Check(g)
      BY <1>1, <3>4 DEF Check, End
    <3>5. QED
      BY <2>4, <3>1, <3>2, <3>3, <3>4
  <2>5. ASSUME NEW g \in Handlers \ {h}, FetchFails(g)
        PROVE  req'[h].key = req[h].key
    BY <1>1, <2>5 DEF FetchFails, KeyForFails
  <2>6. ASSUME NEW g \in Handlers \ {h}, FetchDone(g)
        PROVE  req'[h].key = req[h].key
    BY <2>6, DeliveredRequests
  <2>7. CASE UNCHANGED vars
    BY <2>7 DEF vars
  <2>8. QED
    BY <2>1, <2>2, <2>3, <2>4, <2>5, <2>6, <2>7 DEF Next, Verify
<1>6. QED
  BY <1>4, <1>5

\* What each step does to the parts that Bounded is about.
LEMMA BoundedParts ==
    ASSUME [Next]_vars
    PROVE  /\ now' = now \/ now' \in 1 .. MaxTime \/ (now < MaxTime /\ now' = now + 1)
           /\ rotations' = rotations \/ (rotations < MaxRotations /\ rotations' = rotations + 1)
           /\ doc' \in {doc, published, Unset}
           /\ \/ UNCHANGED cache
              \/ \E h \in Handlers : /\ req[h].pc = "fetch"
                                      /\ keys' = UsableKeys(doc) /\ fetchedAt' = now
<1>1. CASE Tick
  BY <1>1 DEF Tick, cache
<1>2. CASE SetClock
  BY <1>2 DEF SetClock, cache, idp, fetch
<1>3. CASE Rotate
  BY <1>3 DEF Rotate, cache, fetch
<1>4. ASSUME NEW h \in Handlers,
             \/ Receive(h) \/ LookupCached(h) \/ LookupFetch(h)
             \/ FetchFails(h) \/ Check(h)
      PROVE  /\ now' = now /\ rotations' = rotations /\ UNCHANGED cache
             /\ doc' \in {doc, published, Unset}
  <2>1. CASE Receive(h) \/ LookupCached(h) \/ Check(h)
    BY <2>1 DEF Receive, LookupCached, Check, idp, fetch
  <2>2. CASE LookupFetch(h)
    BY <2>2 DEF LookupFetch, idp
  <2>3. CASE FetchFails(h)
    BY <2>3 DEF FetchFails, Unlock, idp
  <2>4. QED
    BY <1>4, <2>1, <2>2, <2>3
<1>5. ASSUME NEW h \in Handlers, FetchDone(h)
      PROVE  /\ now' = now /\ rotations' = rotations /\ doc' = Unset
             /\ req[h].pc = "fetch" /\ keys' = UsableKeys(doc) /\ fetchedAt' = now
  BY <1>5 DEF FetchDone, Unlock, idp
<1>6. CASE UNCHANGED vars
  BY <1>6 DEF vars, idp, cache, fetch
<1>7. QED
  BY <1>1, <1>2, <1>3, <1>4, <1>5, <1>6 DEF Next, Verify

LEMMA BoundedNext ==
    ASSUME IndInv, IndInv', Bounded, [Next]_vars
    PROVE  Bounded'
<1>1. now' \in 1 .. MaxTime
  BY BoundedParts, TimesType DEF Bounded
<1>2. rotations' \in 0 .. MaxRotations
  BY BoundedParts, TimesType DEF Bounded
<1>3. keys' \in Caches /\ fetchedAt' \in 0 .. MaxTime
  <2>1. (\E h \in Handlers : req[h].pc = "fetch") => doc \in Documents
    BY FreeNew DEF IndInv, Holder
  <2>2. now \in 0 .. MaxTime
    BY TimesType DEF Bounded
  <2>3. QED
    BY <2>1, <2>2, BoundedParts, UsableCaches DEF Bounded, cache
<1>4. doc' \in Documents \cup {Unset}
  BY BoundedParts DEF Bounded, IndInv, CacheType
<1>5. \A h \in Handlers : req'[h].pc = "verify" => req'[h].key \in Keys
  BY <1>3, KeysGiven
<1>6. QED
  BY <1>1, <1>2, <1>3, <1>4, <1>5 DEF Bounded

\* The mutex is held by exactly the request that fetches, and only usable keys
\* are cached and handed out: TypeOK.
THEOREM CacheTypes == Spec => []TypeOK
<1>1. Init => Bounded
  <2>1. Unset \in [{} -> Keys] /\ {} \in SUBSET Kids
    BY DEF Unset
  <2>2. Unset \in Caches
    BY <2>1 DEF Caches
  <2>3. QED
    BY <2>2, TimesType DEF Init, Bounded, NoReq
<1>2. IndInv /\ Bounded => TypeOK
  <2> SUFFICES ASSUME IndInv, Bounded PROVE TypeOK
    OBVIOUS
  <2>1. \A kid \in DOMAIN keys : Usable(kid, keys[kid])
    BY DEF IndInv, CacheType, Timed
  <2>2. {h \in Handlers : req[h].pc = "fetch"} = {mu} \ {Free}
    BY FreeNew DEF IndInv, Holder
  <2>3. age \in [DOMAIN age -> 0 .. Horizon]
    BY DEF IndInv, CacheType
  <2>4. QED
    BY <2>1, <2>2, <2>3 DEF TypeOK, Bounded, IndInv, CacheType
<1>3. QED
  BY <1>1, <1>2, BoundedNext, IndInvInit, IndInvNext, PTL DEF Spec
=============================================================================
