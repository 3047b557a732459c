CONSTANTS
    None = None
    Broken = Broken
    origin = origin
    mirror = mirror
    Sites = {origin, mirror}
    Deployments <- Mirrored
    MaxVersion = 2
    MaxFailures = 7
SPECIFICATION FetchFairSpec
PROPERTY ReachableSourceApplied
