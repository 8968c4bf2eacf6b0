SPECIFICATION AutomationSpec
CONSTANTS
  Runners = {gui, mon}
  Monitors = {mon}
  Ttl = 1
  Day = 1
  Grace = 0
  MaxPerCall = 1
  Poison = {1}
  None = None
  MaxNow = 1
  MaxCheckRuns = 1
  MaxFailures = 1
  MaxManual = 1
  MaxRestarts = 1
CHECK_DEADLOCK FALSE
INVARIANT OneReportPerSlot
PROPERTIES DueReportIsMade RunsAreNotRunningForEver NotificationsAreDelivered
