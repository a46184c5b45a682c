SPECIFICATION Spec
CONSTANTS
    Job = {j1}
    Stages = 2
    Batches = 2
    Reports <- ContractReports
    Headless = TRUE
    MaxFaults = 0
    MaxCrashes = 0

PROPERTY SettledWorldStands
CHECK_DEADLOCK FALSE
