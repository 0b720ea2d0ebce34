CONSTANTS
    NoEnvelope = NoEnvelope
    EnvelopeIds = {1, 2}
    Contents <- MCContents
    Targets <- MCTargets
    IntentIds = {"i"}
    AtStart <- MCAtStart
    Readers = {q1}
    Queries <- MCQueries
    Lifetimes = {1}
    NewIds = {1}
    MaxTime = 3
    MaxIntents = 2
    MaxResponses = 1
SPECIFICATION ViewSpec
INVARIANT NewEvidenceEstablished
INVARIANT OneRequestPerResponse
INVARIANT RepeatedHandoffStands
INVARIANT ViewExact
INVARIANT EstablishedIsShown
CHECK_DEADLOCK FALSE
