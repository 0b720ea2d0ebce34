CONSTANTS
    Mandatory <- MCMandatory
    Keys <- MCKeys
    Inputs <- MCSubmissions
    Records <- StoredAttestations
    KeyOf <- PlatformOf
    Accept <- ValidateSourceAttestation
    Normalize <- AsGiven
    Reload <- ValidateSourceAttestation
    Scope <- ScopeAttestationsWrite
    Qualifies <- AttestationValidated
    Reported <- AttestationShown
    Listings = {"all"}
    Principals <- MCPrincipals
    Writers = {w1, w2}
    Readers = {r1}
    MaxTime = 2
    NoRecord = NoRecord
    Free = Free
    Torn = Torn
SPECIFICATION Spec
INVARIANT VisibleIsDurable
INVARIANT ReportsSound
PROPERTY ImplementsDurableMap
