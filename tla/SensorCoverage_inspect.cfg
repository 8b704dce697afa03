SPECIFICATION FairCoverageSpec
CONSTANTS
    Interval = 1
    MinStale = 3
    MaxScan = 1
    Values <- MCValues
INVARIANT LossIsShown
PROPERTY CalmIsHealthy
