CONSTANTS
    Mandatory <- MCMandatory
    Keys <- Platforms
    Records <- StoredEvidence
    KeyOf <- PlatformOf
    Accept <- EvidenceAcceptable
    Normalize <- NormalizedEvidence
    Reload <- EvidenceAcceptable
    Scope <- ScopeContractsWrite
    Qualifies <- EvidenceFreshAt
    Reported <- StableGateSatisfied
    Listings <- RuntimeListings
    Inputs <- MCSound
    Principals <- OnePrincipal
    Writers = {w1}
    Readers = {}
    MaxTime = 3
    NoRecord = NoRecord
    Free = Free
    Torn = Torn
SPECIFICATION FairSpec
PROPERTY RefusedOnlyAfterStepBack
