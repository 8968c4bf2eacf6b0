SPECIFICATION Spec
CONSTANTS
  Rules = {1, 2}
  HistoryRules = {2}
  InitRules = {1}
  InitSeen = 0
  Runners = {gui, mon}
  Monitors = {mon}
  Checkers = {gui}
  Values = {0, 2}
  Threshold = 1
  Cooldown = 1
  Ttl = 1
  BucketTicks = 3
  None = None
  MaxNow = 1
  MaxChecks = 3
  MaxEdits = 1
CHECK_DEADLOCK FALSE
INVARIANTS OneTriggerPerArming
PROPERTIES ArmingSpec UntouchedCrossingFires
