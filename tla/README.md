# GoreeCloud Mesh: TLA+ verification

TLA+ models of the Mesh server (`cmd/mesh`, `internal/`), TLC configurations
that check them on small instances, and TLAPS proofs of every safety property
that the passing configurations check, for every value of the constants. Paths
below are relative to the repository root.

## The system

Mesh is one Go process behind one HTTP server. Every request runs in a
goroutine of its own; the only shared state is the five stores below and the
event bus, each behind one `sync.RWMutex`. A store's mutex is held while its
file is written. There is no transaction across stores.

| Component | State | Operations | Source |
|---|---|---|---|
| API gate | none | `requireScope`, on every mutating route and every evidence read | `internal/api/auth.go`, `internal/trust/trust.go` |
| Envelope registry | `envelopes` by id, write once; one file | `recordAt`, `List`, `CountsAt`, load | `internal/contracts/evidence_envelope*.go` |
| Runtime evidence | latest `Evidence` per mandatory platform; one file | `Record`, `StableEligible`, `IntegrationStatuses`, load | `internal/contracts/contracts.go`, `runtime_evidence_persistence.go`, `integration.go` |
| Source attestations | latest attestation per platform; one file | `Record`, `AllValidated`, load | `internal/contracts/source_attestation*.go` |
| Recovery evidence | latest evidence per recovery dimension; one file | `Record`, `Ready`, `List`, load | `internal/governance/` |
| Service store and policy | services, relationships; one file | `RegisterService`, `AddRelationship`, `Evaluate`, load | `internal/mesh/mesh.go`, `internal/store/store.go` |
| Event bus | event counter, subscriber channels | `publish`, `Subscribe`, `cancel` | `internal/mesh/mesh.go` |
| Discovery, impact | none (one snapshot) | `Discover`, `Impact` | `internal/mesh/mesh.go` |
| Identity verifier | JWKS cache behind a mutex | `Verify`, `keyFor` | `internal/trust/identity_jwt.go` |
| Refresh contracts | none | intent, response and hand-off validation | `internal/contracts/evidence_refresh*.go` |
| Manifests, adapters | none | pure validation | `internal/contracts/manifest.go`, `internal/adapters` |
| Startup | none | loads the five files in turn, exits on the first error | `cmd/mesh/main.go` |

What is hard about it:

* **Validation before locking.** Every `Record` validates against the clock
  before it takes the mutex, so two requests are validated against a state that
  neither may find.
* **Change first, persist after.** The map is changed, then written; a failed
  write has to be taken back. The four evidence registries take it back, the
  service store does not.
* **Crashes.** A write is `WriteFile(tmp)` and `Rename(tmp, path)`; the process
  may die inside the first, between the two, or before the response.
* **Time.** Evidence has validity windows; the clock moves between validation,
  storage, evaluation and the validation at the next load, and may be set back.
* **Several reads, one answer.** `StableEligible`, `AllValidated`, `Evaluate`,
  `AddRelationship`, the evidence status and the recovery reports read a store
  several times and release the mutex in between.
* **Channels.** Publishing, cancelling and lagging subscribers race.
* **Calls under a lock.** The JWKS is fetched with the verifier's mutex held,
  while keys are rotated, fetches fail and the cache ages on the wall clock.
* **Messages.** Refresh intents, responses and evidence travel separately and
  may be delayed, repeated or set against the wrong request.

The line at which each of these bites, and the properties that would notice it
going wrong, are listed under `hazards` in `PROJECT.json`.

## Modules

| Module | Models | Built on |
|---|---|---|
| `Access` | `requireScope` and the principal | |
| `EvidenceEnvelope` | the envelope, its authority tables, `normalizeEvidenceEnvelope`, `FreshAt` | |
| `ImmutableStore` | abstract: a write-once map with receipts | |
| `EnvelopeRegistry` | POST `/v1/evidence/envelopes`, GET `/v1/evidence/status`, registry, file, crash, restart | `EvidenceEnvelope`, `Access`; implements `ImmutableStore` |
| `EnvelopeRegistryProofs` | its theorems | `EnvelopeRegistry` |
| `DurableMap` | abstract: a map whose writers hear of their own writes | |
| `LatestRegistry` | the registry three components share line for line, with validation as a parameter | `Access`; implements `DurableMap` |
| `LatestRegistryProofs` | lemmas about it, used by the two proof modules below | `LatestRegistry` |
| `PlatformGate` | the registry plus reports: an evaluation that reads one platform at a time, then the listing beside it | `LatestRegistry` |
| `PlatformGateProofs` | theorems for runtime evidence and source attestations | `PlatformGate`, `LatestRegistryProofs`; `RuntimeContracts` for one |
| `RuntimeContracts` | runtime evidence, `StableEligible`, `IntegrationStatuses`, `List` | `PlatformGate` |
| `SourceAttestations` | attestations, `AllValidated` | `PlatformGate` |
| `RecoveryEvidence` | recovery evidence and readiness reports | `LatestRegistry` |
| `RecoveryEvidenceProofs` | its theorems | `RecoveryEvidence`, `LatestRegistryProofs` |
| `MeshStore` | service store, `AddRelationship`, `Evaluate` | `Access` |
| `MeshQueries` | `Discover` and the clients that act on what it found; `Impact` and its handler, turn by turn; both beside the writers and evaluations of `MeshStore` | `MeshStore` |
| `MeshStoreProofs` | theorems about the store, the evaluations, discovery and `Impact` | `MeshQueries` |
| `MeshEvents` | event bus | |
| `MeshEventsProofs` | its theorems | `MeshEvents` |
| `IdentityVerifier` | `Verify`, `keyFor` with mutex, cache and fetch, claim checks, key rotation | `Access` |
| `IdentityVerifierProofs` | its theorems | `IdentityVerifier` |
| `EvidenceRefresh` | validation of intents, responses and hand-offs, as an exchange over an unreliable transport | `EvidenceEnvelope`; stores into `ImmutableStore` |
| `SubjectView` | readers of the evidence list and the subject view, turn by turn, beside the exchange of `EvidenceRefresh` | `EvidenceRefresh` |
| `EvidenceRefreshProofs` | theorems about the exchange and its readers | `SubjectView` |
| `MC*` | instances for TLC | |

### How state and actions correspond to the code

A handler is a small state machine: `pc[h]` says how far its goroutine has
come. One action is one stretch of code that no other goroutine can see inside:

* `Receive`: gate, decoding, producer check and validation, with one reading of
  the clock. They look at no shared state. The outcome is the status of the
  first check that fails, or the normalised record.
* `Acquire` (`Put` in `MeshStore`): lock, look up, change the map. The mutex
  stays held.
* `OpenTmp`, `WriteTmp`, `Rename`: the steps of `persistLocked` a crash can
  separate. After `OpenTmp` the temporary file is `Torn`. `PersistFails` is an
  error from any of them, with the error path of the caller.
* `Reply`: the response, after the mutex is released.
* `Crash` loses memory, mutex and running requests, and keeps both files.
  `Start` is the loading constructor: it accepts the file (`Loadable`) or the
  process exits (`status = "refused"`), and may be started again.
* `Tick` and `StepBack` are the wall clock. `high` is the highest time shown;
  properties that only hold on a clock never set back say `now = high`.

Three components are built differently:

* A report of `PlatformGate` reads platform by platform (`ScanGet`), then lists
  the records with one read each (`ListEach`, `IntegrationStatuses`) or one for
  all (`ListAll`, `List`), each read under the mutex for itself.
* In `IdentityVerifier`, `LookupFetch` takes the verifier's mutex and
  `FetchDone` or `FetchFails` releases it; in between time passes, keys are
  rotated and other requests wait. The document is the one served when the
  fetch began, the oldest it can return. The wall clock (cache age, claims) can
  be set; the HTTP timeout runs on real time.
* In `EvidenceRefresh` the validations are the code's. No code in the repository
  sends the messages, so `Observe`, `Request` and `Respond` are external; a
  message once sent can be used at any later time, any number of times or never,
  which covers delay, repetition, reordering and loss.

White space is part of the data where the code's treatment of it differs: in
`MeshStore` the constant `Padded` gives texts with white space around them and the
text inside, and `TrimSpace` is applied where the code applies it: to ids and ends
of what is registered, to the names in a policy request, to the capabilities and
dependencies of a service and to the capability that discovery is asked for. It is
not applied to the capability of a relationship or of a policy request. Elsewhere
trimming comes first in a validation and everything after it sees the trimmed text
only, so bodies are given trimmed; whether an envelope arrived in another textual
form than it is stored in is its `form`.

In `MeshQueries` each handler serves one client, whose last answer from discovery
is `known`. Clients outlive the server: a crash as such leaves `known` alone. It is a
history variable in that an answer is forgotten once the store holds something
else, because a write became visible or a crash lost what only memory held; and a
request for an impact analysis comes from another client, which has no answer yet.

The loops that compute an answer from one snapshot (`Impact`, the evidence list,
`buildEvidenceSubjectView`) have one action per turn, and their result is compared
with a declarative definition (`Affected`, `Newest`) when they end. `Impact` takes
any member of its queue next, since the code fills the queue in the order of two
map iterations; the other two visit the envelopes in the order of `List`. The
subject view reads the registry and then the clock (`SubjectList`,
`SubjectClock`), the list the clock and then the registry (`EnvelopesClock`,
`EnvelopesList`); envelopes may arrive and time may pass in between.

Readers take the mutex for reading, so their steps require `lock = Free`. An
empty or absent file loads as the empty map; the model does not tell them apart.

Data is reduced to what the properties distinguish. An envelope keeps identity,
producer, repository, contract, domain, window and textual form; the rest is
`content`, with one Boolean for the syntactic checks and one for the
minimisation checks. A contract path is represented by its prefix. Runtime,
source and recovery records are reduced the same way. Times are natural
numbers, 0 is Go's zero time.

History variables, which the code does not have and no guard reads: `high`,
`acked`, `created`, and in evaluations, reports and channels the fields
`start`, `touched`, `available`, `related`, `got`, `missed` and `base`, in
reports `seen`, in impact analyses `want` and `turns`, in the readers of the
evidence `all`; the forgetting of `known`; in `IdentityVerifier` `back`, `age`,
`steady` and `ready`, in `EvidenceRefresh` `back` and the intents' `before`.

Definitions commented `Mutant:` are not used by any specification. Each is a
plausible mistake in the definition that follows; replacing the definition by
it must make a named property fail, which shows that the property can fail.

## Runs

All passing runs finish within three minutes on two cores.

| Run | Config | Shows |
|---|---|---|
| `envelope_registry` | `MCEnvelopeRegistry.cfg` | types and an untorn file; what is visible is durable; a receipt is for ever; one 201 per id; only the named producer writes; a retry is refused only outside its window; expiry never blocks a restart; status totals never fall below the per-producer counts, though read separately; the registry implements `ImmutableStore` |
| `runtime_gate` | `RuntimeGate.cfg` | an evaluation is exact when undisturbed, rests on stored evidence always, and agrees with the listing beside it unless a record was written meanwhile; reports end and writers are answered; why a restart may be refused |
| `source_attestations` | `SourceAttestations.cfg` | the registry shared with runtime and recovery evidence: rollback restores exactly what was there and it implements `DurableMap`; `AllValidated` is exact when undisturbed, rests on stored attestations always and agrees with the list beside it |
| `recovery_readiness` | `RecoveryReadiness.cfg` | reports are consistent; only writes turn readiness on; expiry does not block a restart |
| `mesh_registration` | `MeshRegistration.cfg` | relationships stay anchored and registrations durable although the store does not roll back |
| `mesh_queries` | `MeshQueries.cfg` | until the store's content changes, and across restarts that bring it back, policy decides by relationship alone about the services a client discovered and refuses the others; whatever is written, a request is allowed only on grounds that each held, and never for a capability with white space around it; `Impact` ends after at most one turn per registered service and finds exactly the transitive dependents, on circles too |
| `mesh_events` | `MeshEvents.cfg` | no panic, no duplicate, no lost news for a subscriber that keeps up; publishing never waits |
| `identity_verifier` | `IdentityVerifier.cfg` | a withdrawn key is handed out for less than the cache lifetime and one fetch; a published key is known at once; a cached one survives outages; every request is answered |
| `evidence_refresh` | `EvidenceRefresh.cfg` | a hand-off establishes evidence made for the request, settles one request only and stands until the evidence expires; the list and the subject view, made while envelopes arrive and the clock runs, are exact, and a view shows what was established |

Three runs are expected to fail. Each states what a document of the repository
says, and TLC shows the code doing otherwise:

| Run | Says | Does |
|---|---|---|
| `runtime_expiry` | `README.md:44` "normal expiry must not prevent restart" | expired runtime evidence fails validation at load and the server exits |
| `envelope_retry` | `docs/evidence-delivery.md:56` an exact retry "returns HTTP `200` with `replayed: true`" | freshness is checked first: after expiry the retry is 400 |
| `integration_gate` | `docs/runtime-evidence-freshness.md:7` "fails closed after expiration" | `stable_gate_satisfied` looks at the state only |

What `VerdictRestsOnStored` and `AllowedOnGrounds` do not say: that the grounds
of a positive answer held at one moment. `StableEligible` and `Evaluate` read
them one after the other, and writes in between can make an answer true of no
single moment. The documents do not promise more.

What `WithdrawnKeyExpires` and `PublishedKeyKnown` do not say: a wall clock set
back makes the cache look younger and prolongs a withdrawn key; a document that
was in flight may replace a newer cache; and when a kid is published again with
other key material, tokens signed with the new key are refused until the cache
expires, because only a missing kid, not a failed signature, forces a fetch.

What `DiscoveryForetells` does not say: that discovery and policy understand the
same text alike. They do not: `Discover` trims what it is asked for (`mesh.go:65`),
`Evaluate` compares the capability as sent (`mesh.go:123`), and `AddRelationship`
stores one as sent. `PaddedIsRefused` says that the difference is on the safe side.
A relationship stored with a padded capability authorizes nothing, though it was
answered with 201. No document says otherwise.

Observations without a run:

* `catalog.go:19` names Glaze UI's repository `GoreeCloud/glaze-ui`,
  `evidence_envelope.go:70` names it `GoreeCloud/goreecloud-glaze-ui`.
* `-identity-issuer` configures the verifier only; `auth.go:39` compares with a
  constant.
* A subject view asked for without a scope counts envelopes of every scope and
  reports the scope of the newest envelope that has one (part of `ViewExact`).
* `docs/api.md:177` says that `transport.state` is `available`; the code returns
  `current`, `stale-only` or `empty`.

### Bounds

* Two handlers per registry reach every race over one mutex: a holder and a
  waiter whose request was validated before. `runtime_gate` and `mesh_queries`
  pair one writer with one reader that reads several times, `source_attestations`
  two writers with one reader.
* Two envelope ids, two contents, two textual forms: replay, conflict,
  independent ids; one body outside its system's authority, three principals.
* `MaxTime` 3: before, inside, at the end of and after a window; the clock can
  be set back at any moment. `MaxTime` 2 in `source_attestations`, where no
  property depends on the end of a window.
* Two platforms in `RuntimeContracts` and `SourceAttestations` (the code has
  four): a first and a last read, between which either changes. Two dimensions
  in `RecoveryEvidence` (the code has five).
* `mesh_registration`: two services and two relationships, both ends of a
  relationship in both directions, and one id that is never registered.
  `mesh_queries`: three services whose dependencies and relationships form a
  circle, of which one is reached over two turns, and one name that is never
  registered; one client, a target that becomes unavailable and comes back, and
  its capability registered, asked for and requested padded and trimmed. The
  relationship comes enabled for every capability and disabled with a padded one;
  that an enabled one with a padded capability authorizes nothing is left to the
  theorem `PaddedRefused`, since a third body makes the run too long.
* `MaxPuts` 2 changes, two publishers, two subscribers, channels of one and
  two events: overtaking, a full channel, a close during publishing.
* `identity_verifier`: two requests, `CacheTTL` and `FetchTimeout` of one tick in
  three ticks of time, two rotations (`MaxRotations`: a key is withdrawn and comes
  back, or one replaces another). The clock is set back at most once, after which
  `WithdrawnKeyExpires` says nothing and the other properties still hold; forward
  any number of times.
* `evidence_refresh`: two intents (`MaxIntents`) that share an id, one response
  (`MaxResponses`) to set against both, one new envelope, valid for one tick,
  beside one stored at the start that has a scope and is valid to the end. One
  reader that asks for the list or for a view without a scope: the envelopes
  share a group, in two scopes, and either may be the newer, fresh or not.
  Several groups, views with a scope and larger registries are left to the proof. The exchange may come to an end, so deadlock is not checked there.

Crashes, restarts, failing writes, failing fetches and requests are unbounded.

### Fairness

The specifications with fairness assume that a goroutine that can run does run (weak fairness of
`Persist`, `Reply`, `Publish`), and that `sync.RWMutex` eventually grants a lock
that is free again and again (strong fairness of `Acquire`, `ScanGet`,
`StatusCount`): Go's RWMutex queues writers and lets waiting readers in after
each writer. `IdentityVerifier` assumes the same of its requests (weak fairness of
`Verify`) and its `sync.Mutex` (strong fairness of the two lookups); that a fetch
returns is the HTTP client's timeout. `ListEach` and `ListAll` are reads under
the RWMutex like `ScanGet`. Nothing is assumed of clients, subscribers, the clock, restarts or
the success of writes; file operations are assumed to return.

## Proofs

Each theorem holds for every value of the constants: any number of handlers,
readers, records, keys and any bound on time. It uses the named assumptions of
its module and nothing else. Most of them give constants their types and keep
sentinels apart from values. Those that say more are:

| Assumption | Says | Because |
|---|---|---|
| `QualifyingIsReported` (`PlatformGate`) | what satisfies the gate is listed as validated | both gates require the state `validated`, and the listing reports that state |
| `RecoveryRegistry`, `RecoveryTimes` (`RecoveryEvidence`), `UsesRuntimeEvidence` (`RuntimeContracts`), `UsesSourceAttestations` (`SourceAttestations`) | what the component puts into the shared registry | its `Record` and its loader; TLC evaluates them on every run |
| `TokensType` (`IdentityVerifier`) | `Kids` has every key id that is asked for | it is the set of all of them |
| `StoredType` (`EvidenceRefresh`) | what is stored at the start is finite, was observed by then and is in normal form | `recordAt` refuses an observation in the future and stores the normalised record |
| `TargetsType` (`EvidenceRefresh`) | targets name producers, and the names in the authority tables are strings | the targets of the contracts are producer ids; the second is true of the literals, which the provers do not type |
| `IdsOrdered` (`SubjectView`) | envelope ids are numbers | they stand for strings in their order, by which `List` breaks ties |
| `QueriesType` (`SubjectView`) | the list has no parameter for the scope, the view none for freshness | the query parameters the two handlers read |

No property is inductive alone. Every module therefore has an `IndInv`, proved
with one lemma per action (or group of actions) in `Invariance`; the theorems
below follow from it in one step, or, for the action properties, by an argument
over one step. Every `IndInv` was also checked with TLC on the small instances.

### Envelope registry (`EnvelopeRegistryProofs`)

| Theorem | Property |
|---|---|
| `TypeCorrect` | `TypeOK`: the file is never torn |
| `MutexOwned` | `LockOwner`: no path of `recordAt` leaks the mutex |
| `Visibility` | `VisibleIsDurable` |
| `Durability` | `AckedDurable` |
| `Provenance` | `ProducerOnlyWrites` |
| `Restart` | `RefusedOnlyAfterStepBack` |
| `Retry` | `RefusedRetryOutsideWindow` |
| `SingleCreation` | `OneCreation` |
| `StatusTotals` | `StatusTotalsCoverProducers` |
| `Refinement` | `ImplementsImmutableStore` |

`IndInv` adds what the code relies on silently:

* `LockOwner`: a handler that is persisting holds the mutex, and only one does;
* `OnlyPending`: while the mutex is held, memory and file differ exactly in the
  holder's own id, which the file does not have;
* `TmpComplete`: before the rename, the temporary file is the map in memory;
* `Vetted`: what a handler carries past the screen was checked, belongs to its
  caller, and would load from disk now and later;
* `ReceiptDue`: a handler about to answer 200 or 201 has its envelope in the file;
* `StoredValid`: what is in the file would load at the highest time shown;
* `DownIdle`: nothing runs while the process is down.

`OnlyPending` is why deleting the entry after a failed write restores exactly
the file's content, `StoredValid` with the lemma `LaterStillLoads` is why expiry
is harmless at restart, and `ReceiptDue` is what makes receipts durable.
`Refinement` maps the file to the abstract map and shows that only a rename
binds. Two theorems need an invariant on top of `IndInv`: `SingleCreation` that
at most one handler is creating an id, and none once a 201 was sent
(`CreationInv`); `StatusTotals` that the registry holds finitely many envelopes
and keeps what a reader listed until it counts (`ViewInv`).

### Runtime evidence, source attestations (`PlatformGateProofs`)

| Theorem | Property |
|---|---|
| `Durable` | `VisibleIsDurable` |
| `QuietVerdicts`, `StoredVerdicts`, `QuietReports` | `QuietVerdictExact`, `VerdictRestsOnStored`, `QuietReportAgrees` |
| `SoundReports` | `ReportsSound`, the three together |
| `RuntimeRestarts` | `RefusedOnlyByClockOrExpiry`, for a registry that holds runtime evidence |
| `AttestationRestarts` | a registry that holds source attestations never refuses to start |
| `Refinement` | `ImplementsDurableMap` |

The registry's part, `RegInv`, is proved once in `LatestRegistryProofs` for any
validity rule, along the argument of the envelope registry. Here `OnlyPending`
says that memory and file differ in the holder's key only and that the holder
remembers what the file has there, and `StoredAdmitted` that each stored record
was accepted at a time the clock has shown. `ScanInv` adds what a report knows
between reads: the platforms read so far qualified on disk and, as long as
nothing was written, still do. `RuntimeRestarts` rests on `OnlyExpiryRefuses`:
of the checks of `normalizeEvidenceAt`, only the one on `validUntil` can fail
for a record that passed them earlier. `ValidateSourceAttestation` does not look
at the clock, hence `AttestationRestarts`. Both theorems have as hypothesis what
the component puts into the shared registry; TLC evaluates it on the runs.

### Recovery evidence (`RecoveryEvidenceProofs`)

| Theorem | Property |
|---|---|
| `ConsistentReports` | `ReportConsistent` |
| `ReadinessNeedsWrite` | `ReadyNeedsWrite` |
| `RestartsAllowed` | `RecoveryRestarts` |

From `RegInv` and the fact that `Validate` is monotone in time: it bounds
`observed_at` from above by the clock and nothing from below. This is what
distinguishes recovery evidence, which survives a restart when expired, from
runtime evidence, which does not.

### Service store, policy, discovery, impact (`MeshStoreProofs`)

| Theorem | Property |
|---|---|
| `RelationshipsAnchored` | `AlwaysAnchored` |
| `RegistrationsDurable` | `AckedRegistered` |
| `RegistrationsStay` | `NothingUnregistered` |
| `GroundedDecisions` | `AllowedOnGrounds` |
| `DiscoveryForetold` | `DiscoveryForetells` |
| `PaddedRefused` | `PaddedIsRefused` |
| `ImpactFound` | `ImpactExact` |

The store does not take back failed writes, so memory may be ahead of the file;
`FileBehind` says it is never behind. Together with the fact that nothing leaves
memory while the process runs (lemma `PutFacts`), it gives durability, and it is
why the ends that `AddRelationship` looked up before it took the mutex are still
there when it writes (`EndsFound`). `Underway` says what an evaluation knows
between its reads.

The queries change nothing of the store, so that their steps are steps of the store
or leave it alone (`StoreSteps`). `Informed` says of a client that holds an answer
that discovery would give the same now, from memory or, after a crash, from the
file, that a target an evaluation found is still on offer, and that a decision
made since is the one the store justifies now. `PaddedRefused` rests on the fact
that stored capabilities are trimmed (`StoredTrimmed`), at every moment of an
evaluation (`OfferedTrimmed`).

`ImpactFound` rests on the invariant of the search (`Searching`): what was seen is
affected, and the dependents of everything that left the queue were seen. When
the queue is empty, what was seen is therefore closed under dependents, and it
lies within the least such set (`WantLeast`, lemma `AffectedLeast`). The search
ends because each service leaves the queue once (`turns` counts those that have
left) and only registered ones enter it, of which there are finitely many
at any time, although the set of ids may be infinite; since nothing leaves memory
while the process runs, they stay registered while the search goes on.

### Event bus (`MeshEventsProofs`)

| Theorem | Property |
|---|---|
| `BusNeverPanics` | `NeverPanics` |
| `PublisherOrder` | `LogInPublisherOrder` |
| `NewsComplete` | `QuietNewsComplete` |
| `BusTypes` | `TypeOK` of `MeshEvents` |

`Visiting`: a publisher in its loop holds the read lock and has yet to visit
registered, hence open, channels only. `Ahead`: an event on its way to a channel
is newer than all its publisher sent there and has a number of its own. `News`:
what a subscriber that missed nothing was not told is on its way to it. `BusTypes`
adds a count (`Counted`): the numbers given out and the events waiting for one
together never exceed the changes made.

### Identity verifier (`IdentityVerifierProofs`)

| Theorem | Property |
|---|---|
| `WithdrawnKeys` | `WithdrawnKeyExpires` |
| `PublishedKeys` | `PublishedKeyKnown` |
| `CachedKeys` | `CachedKeySurvivesOutage` |
| `CacheTypes` | `TypeOK` of `IdentityVerifier`: only usable keys are cached and handed out, and the mutex is held by exactly the request that fetches |

The bound on withdrawn keys adds up two times: a key in flight was withdrawn no
longer ago than the fetch runs (`DocYoung`); once cached it ages no faster than
the clock moves away from `fetchedAt` (`CacheYoung`), unless that is set back.
`Steady` and `Ready` follow one request to the lookup that answers it.

### Refresh contracts (`EvidenceRefreshProofs`)

| Theorem | Property |
|---|---|
| `NewEvidence` | `NewEvidenceEstablished` |
| `OneRequest` | `OneRequestPerResponse` |
| `RepeatedHandoffs` | `RepeatedHandoffStands` |
| `RefreshTypes` | `TypeOK` of `EvidenceRefresh`, and that the registry is finite and in normal form |
| `ReadersDisturbNothing` | `ViewSpec` implements `Spec`, so that the theorems above hold with readers as well |
| `ViewInvariance` | the invariant of the readers' loops |
| `ViewsExact` | `ViewExact` |
| `EstablishedShown` | `EstablishedIsShown` |

A hand-off looks at names and times only. That this keeps old evidence out rests
on two facts no validation sees: a new envelope has a new id, and what existed
when Mesh asked was observed by then (`Earlier`). Answers stand because the
validation, once passed, passes until the evidence expires (`AcceptedLater`).

A reader's loop keeps (`Looping`): the counts and buckets are those of the
envelopes visited so far, and these come before all that are left. So a bucket
that has an envelope never meets a newer one, and comparing `ObservedAt` alone,
as the code does, finds the newest with the least id among equals. The first
scope a view meets is that of the newest envelope with one, for the same reason.
`EstablishedShown` follows from the exact counts and buckets: the established
envelope is among those visited, and fresh by the clock reading of the view,
because the registry holds it in normal form.

### Only model-checked

* Liveness, which the prover does not support: `AllAnswered`, `PublishEnds`,
  `VerificationEnds`.
* That a component puts into the shared registry what the `Uses...` and
  `RecoveryRegistry` assumptions say; TLC evaluates them on the instances.

The loops would need induction over data if they were operators; as actions, one
per turn, they need an invariant only. No run but `envelope_registry` lists a
`TypeOK`, since each says less than the properties beside it; all of them are
proved, those of the registries and of `MeshStore` as part of the invariants.
`PlatformGate` and `RecoveryEvidence` type their reports in the proofs
(`ReportType`) and have no separate `TypeOK` for them.

## Not modelled

* Power failure: the code does not call `fsync`; a crash here is the death of
  the process.
* The JSON text of files and bodies; decoding either succeeds or is a 400.
* Persistence switched off (an empty path), under which nothing is durable.
* The bytes of a JWT: base64, JSON and RSA are reduced to whether the key found is
  the key that signed. Outside `IdentityVerifier`, what a verifier yields is the
  constant `Principals`.
* `internal/contracts/manifest.go`, `internal/adapters` and
  `PrivacyRecord.Validate`: pure checks of single documents, without state, that
  unit tests reach as well.
* Read-only routes that return one snapshot, list filters other than `current`
  and the subject, the order of groups in a subject view, graceful shutdown,
  flags, logging, the public-site scripts.
* The five loads as one startup: each is the `Start` of its module, they share no
  state, and the first error exits.

## Plan

The safety properties that the passing runs check are proved. What is left:

1. Manifests and adapters, should the server begin to keep them: at present they
   are pure checks of single documents.
2. The carrier of the refresh contracts, once the repository has one: `Observe`,
   `Request` and `Respond` are the actions to replace by its code.
3. The five loads as one startup, if they come to share state.
