SPECIFICATION FairSpec
CONSTANTS
    Paths = {p1, p2}
    Hashes = {h1}
    Operators = {o1}
    Approvals = {a1}
    Agent = Agent
    None = None
    Keep = 0
    Capacity = 1
    DelayCap = 1
    MaxDelay = 1
    MaxVersions = 2
    MaxDetections = 1
    MaxTime = 1
    MaxFaults = 1
INVARIANTS
    CompletedIsPinned
PROPERTIES
    HeldUntilApproved EventuallyPinned
CHECK_DEADLOCK FALSE
