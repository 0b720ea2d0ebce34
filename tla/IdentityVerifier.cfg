CONSTANTS
    h1 = h1  h2 = h2  NoKey = NoKey
    Handlers <- MCHandlers
    Kids <- MCKids
    Keys <- MCKeys
    Offers <- MCOffers
    AtStart <- MCAtStart
    Tokens <- MCTokens
    Issuer = "goreecloud-identity"
    Audience = "goreecloud-mesh"
    Scope = "write"
    CacheTTL = 1
    FetchTimeout = 1
    ClockSkew = 0
    MaxLifetime = 1
    MaxTime = 3
    MaxRotations = 2
SPECIFICATION Spec
PROPERTY WithdrawnKeyExpires
PROPERTY PublishedKeyKnown
PROPERTY CachedKeySurvivesOutage
PROPERTY VerificationEnds
