SPECIFICATION FairSpec
CONSTANTS
    c1 = c1  c2 = c2  c3 = c3  m1 = m1  x = x
    None = None
    Size <- MCSize
    BundleId <- MCBundleId
    LeaseTicks = 1
    RetryTicks = 1
    Objects = {c1, c2, c3}
    Manifests = {m1, m2}
    Chunks <- MCChunks
    Producers = {p1}
    Workers = {w1, w2}
    Limits <- TightLimits
    MaxArchive = 3
    MaxJobs = 2
    Tokens = {k1, k2, k3}
    MaxFaults = 1
INVARIANTS
    JobsAreSound
PROPERTIES
    BundlesSpec ReturnedBundleIsSafe EventuallyPublished
