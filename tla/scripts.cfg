\* The four built-in scripts, each on its own key.
SPECIFICATION Spec
CONSTANTS
    Zones <- MCZones
    TPS = 4
    MaxTime = 10
INVARIANTS
    TypeOK
    StoredWithinLimits
    WithinEnvelope
    RepliesInContract
    PeekAgrees
    RetryAfterSuffices
    WindowRetrySuffices
    ExpiryForgetsNothing
