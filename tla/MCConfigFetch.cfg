CONSTANTS
    None = None
    Broken = Broken
    origin = origin
    mirror = mirror
    Sites = {origin, mirror}
    Deployments <- Agents
    MaxVersion = 3
    MaxFailures = 7
SPECIFICATION FetchFairSpec
INVARIANTS BackoffDocumented OfflineStillConfigured
PROPERTIES ReachableSourceApplied NoRollback AppliedWhole NodeConfigKept
