SPECIFICATION Spec
CONSTANTS
  Procs = {p, q}
  None = None
  Names = {"Default", "Other"}
  Default = "Default"
  Oldest = 2
  Rebuild = 3
  Current = 4
  Starts = {0, 1, 2}
  MaxCalls = 4
CHECK_DEADLOCK FALSE
INVARIANTS SavedRowsSurvive AddedWhereAsked
