CONSTANTS
    ServiceIds <- MCServiceIds
    RelationshipIds <- MCRelationshipIds
    Services <- ManyServices
    Relationships <- ManyRelationships
    PolicyRequests <- MCRequests
    Principals <- MCPrincipals
    Padded <- MCPadded
    Writers = {w1, w2}
    Evaluators = {}
    Capabilities <- MCCapabilities
    None = None
    Nothing = Nothing
    Free = Free
    Torn = Torn
SPECIFICATION QuerySpec
INVARIANT AlwaysAnchored
INVARIANT AckedRegistered
PROPERTY NothingUnregistered
