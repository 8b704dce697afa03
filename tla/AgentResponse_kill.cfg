CONSTANTS
    Policies <- MCPolicies
    MaxTime = 2
    MaxInstances = 2
SPECIFICATION ResponseSpec
INVARIANTS KillsOnlyTheObserved LapseStopsResponse ResultsAreTrue
