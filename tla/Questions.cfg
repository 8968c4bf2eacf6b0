SPECIFICATION LiveSpec
CONSTANTS
    s1 = s1
    c1 = c1
    k1 = k1
    Sessions = {s1, s2}
    Chats = {c1}
    Tools = {t1, t2}
    Home <- MCHome
    Calls = {k1, k2}
    Of <- MCOf
    Workflows = {c1}
    Unrecorded = {t2}
    None = None
    MaxTries <- MCTries
INVARIANT StoppedRunsWaitForNobody
INVARIANT ToolRunsOnce
INVARIANT ToolsKeepOutOfRuns
PROPERTY StoppedRunsEnd
PROPERTY AnsweredRunsEnd
CHECK_DEADLOCK FALSE
