SPECIFICATION Spec
CONSTANTS
    MaxRuns = 2
    N = 2
    MaxUser = 1
    MaxInputs = 2
    Skippable = {2}
    Structured = {2}
    Validated = {1}
    Consensus = {2}
    Host = "tui"
INVARIANT RunnerAgreesWithRef
INVARIANT ContextFollowsRun
INVARIANT StepsInOrder
INVARIANT NoticeIffRejected
PROPERTY RetiredRunsAreSilent
CHECK_DEADLOCK FALSE
