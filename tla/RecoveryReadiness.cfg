CONSTANTS
    Keys <- MCDimensions
    Inputs <- MCSubmissions
    Records <- StoredRecovery
    KeyOf <- DimensionOf
    Accept <- ValidRecovery
    Normalize <- AsGiven
    Reload <- ValidRecovery
    Scope <- ScopeRecoveryWrite
    Principals <- MCPrincipals
    Writers = {w1, w2}
    Readers = {r1}
    MaxTime = 3
    NoRecord = NoRecord
    Free = Free
    Torn = Torn
SPECIFICATION Spec
INVARIANT ReportConsistent
PROPERTY ReadyNeedsWrite
PROPERTY RecoveryRestarts
