SPECIFICATION FairReadersSpec
CONSTANTS
    a = a  b = b  t1 = t1
    None = None  NoFile = NoFile  Damaged = Damaged
    Ids = {i1, i2}
    Objects = {a, b}
    Hash <- MCHash
    Size <- MCSize
    Targets = {t1}
    Workers = {w1}
    Producers = {p1}
    Config <- MCConfig
    Limits <- MCLimits
    MaxArchive = 2
    LeaseTicks = 1
    RetryBase = 1
    RetryCap = 2
    MaxAttempts = 2
    MaxFaults = 1
    Tokens = {k1, k2}
    Batch = 1
PROPERTIES
    ExportComplete EventuallySent
