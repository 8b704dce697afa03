SPECIFICATION FairReportsSpec
CONSTANTS
    MaxDetections = 2
    MaxFaults = 3
    MaxFlips = 1
    RetryCap = 3
PROPERTIES
    LogSpec AllReported HealthShown
