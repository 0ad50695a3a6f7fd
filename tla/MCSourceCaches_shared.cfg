CONSTANTS
    Workers = {w1, w2}
    Caches = {c1, c2}
    Prepared <- MCPrepared
    MaxHot = 1
    MaxBytes = 4
    DedupEnabled = TRUE
    InMemoryOnly = FALSE
    CleanupOnDrop = TRUE
    MaxClock = 1
    MaxCalls = 3
    MaxRestarts = 1
SPECIFICATION CachesSpec
SYMMETRY Symmetric
CHECK_DEADLOCK FALSE
INVARIANTS
    ResolvedIsExact
    AloneIsSound
