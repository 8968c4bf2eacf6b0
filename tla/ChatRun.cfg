SPECIFICATION LiveSpec
CONSTANTS
    s1 = s1
    s2 = s2
    d1 = d1
    c1 = c1
    w1 = w1
    Sessions = {s1, s2}
    Actions = {d1, c1}
    Home <- MCHome
    Commands = {c1}
    Workflows = {c1}
    None = None
    MaxTries <- MCPromptTwice
INVARIANT AppliedOnce
INVARIANT NoStuckPending
INVARIANT DedicatedRunsOwnTheirSession
PROPERTY StoppedRunsSendNothing
PROPERTY Released
PROPERTY StopReleases
CHECK_DEADLOCK FALSE
