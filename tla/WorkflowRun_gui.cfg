SPECIFICATION CoordinatorSpec
CONSTANTS
    MaxRuns = 2
    N = 2
    MaxUser = 0
    MaxInputs = 2
    Skippable = {2}
    Structured = {}
    Validated = {1}
    Consensus = {}
    Host = "gui"
INVARIANT OutcomeIsRecorded
PROPERTY InterruptedRunsEnd
PROPERTY RunsEnd
CHECK_DEADLOCK FALSE
