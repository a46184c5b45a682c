SPECIFICATION Spec
CONSTANTS
    Job = {j1}
    Stages = 2
    Batches = 2
    Reports <- TransferReports
    Headless = FALSE
    MaxFaults = 0
    MaxCrashes = 0
INVARIANT OutcomeCoversWorld
CHECK_DEADLOCK FALSE
