SPECIFICATION LiveSpec
CONSTANTS
    Direct = {d}
    Transformed = {w}
    MaxTries = 2
    MaxStarts = 2
    MaxSwitches = 2
INVARIANT NotRepeated
INVARIANT RunsHoldTheirLock
PROPERTY ForwardsAreAnswered
CHECK_DEADLOCK FALSE
