SPECIFICATION FairSpec
CONSTANTS
    Job = {j1}
    Stages = 2
    Batches = 2
    Reports <- ContractReports
    Headless = TRUE
    MaxFaults = 1
    MaxCrashes = 1
INVARIANTS OutcomeCoversWorld BoundariesAreReal UnrecordedWorkIsFlagged NotExecutedIsTrue
PROPERTIES TerminalIsFinal EveryJobEnds
CHECK_DEADLOCK FALSE
