CONSTANTS
    i1 = i1  i2 = i2  c1 = c1  c2 = c2  h1 = h1  h2 = h2
    EnvelopeIds <- MCIds
    Contents <- MCContents
    Handlers <- MCHandlers
    Readers = {}
    Submissions <- Sound
    Principals <- MCPrincipals
    MaxTime = 3
    NoEnvelope = NoEnvelope
    NoPrincipal = NoPrincipal
    Free = Free
    Torn = Torn
SPECIFICATION FairSpec
PROPERTY ExactRetryReplays
