CONSTANTS
    ServiceIds <- QueryServiceIds
    RelationshipIds <- QueryRelationshipIds
    Services <- FewServices
    Relationships <- FewRelationships
    PolicyRequests <- QueryRequests
    Principals <- OnePrincipal
    Padded <- MCPadded
    Writers = {w1}
    Evaluators = {e1}
    Capabilities <- MCCapabilities
    None = None
    Nothing = Nothing
    Free = Free
    Torn = Torn
SPECIFICATION QuerySpec
INVARIANT AllowedOnGrounds
INVARIANT DiscoveryForetells
INVARIANT PaddedIsRefused
INVARIANT ImpactExact
