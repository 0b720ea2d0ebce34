CONSTANTS
    Mandatory <- MCMandatory
    Keys <- Platforms
    Records <- StoredEvidence
    KeyOf <- PlatformOf
    Accept <- EvidenceAcceptable
    Normalize <- NormalizedEvidence
    Reload <- EvidenceAcceptable
    Scope <- ScopeContractsWrite
    Qualifies <- EvidenceFreshAt
    Reported <- StableGateSatisfied
    Listings <- RuntimeListings
    Inputs <- MCSubmissions
    Principals <- MCPrincipals
    Writers = {w1}
    Readers = {r1}
    MaxTime = 3
    NoRecord = NoRecord
    Free = Free
    Torn = Torn
SPECIFICATION FairSpec
INVARIANT QuietVerdictExact
INVARIANT VerdictRestsOnStored
INVARIANT QuietReportAgrees
PROPERTY RefusedOnlyByClockOrExpiry
PROPERTY AllAnswered
