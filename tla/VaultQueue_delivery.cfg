SPECIFICATION Spec
SYMMETRY Symmetry
CONSTANTS
    w1 = w1  w2 = w2  p1 = p1  p2 = p2  i1 = i1  i2 = i2
    a = a  a2 = a2  k1 = k1  k2 = k2  k3 = k3  t1 = t1  t2 = t2
    None = None  NoFile = NoFile  Damaged = Damaged
    Ids = {i1, i2}
    Objects = {a, a2}
    Hash <- MCHash
    Size <- MCSize
    Targets = {t1, t2}
    Workers = {w1, w2}
    Producers = {p1, p2}
    Config <- MCConfig
    Limits <- PairLimits
    MaxArchive = 2
    LeaseTicks = 2
    RetryBase = 1
    RetryCap = 2
    MaxAttempts = 2
    MaxFaults = 1
    Tokens = {k1, k2, k3}
INVARIANTS
    PendingHasBody WithinStoredLimits
PROPERTIES
    OnlyHolderEndsLease ReturnedIsSafe DeliverySpec
