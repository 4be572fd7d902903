SPECIFICATION DriftSpec
CONSTANTS
    None = None
    Ids = {i1, i2}
    Workers = {w1}
    ReconcileLimit = 2
    DeliveryLimit = 1
    MaxUpsets = 3
CHECK_DEADLOCK FALSE
INVARIANTS
    OneAccount
PROPERTIES
    ReleaseIsEvidence
    Converges
    JobsSettle
