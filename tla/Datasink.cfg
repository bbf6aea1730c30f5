SPECIFICATION Spec
CONSTANTS
    t1 = t1
    t2 = t2
    Tasks = {t1, t2}
    Callers <- MCCallers
    Bundles <- MCBundles
    Schemas = {"s", "r", "bad"}
    Accepted = {"s", "r"}
    Rows = 2
    Filtered = {0, 1}
    Reports = {"success", "publish_timeout", "failed", "ambiguous"}
    RayDefaultRetries = 1
    MaxWrites = 2
    MaxAttempts = 2
    MaxBatches = 2
INVARIANTS
    ResultIsDorisAccount
    NeverReplayed
    StopsAtFirstFailure
    OneValidSchemaIsSent
PROPERTY
    WritesEnd
