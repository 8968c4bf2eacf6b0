SPECIFICATION Spec
CONSTANTS
  Reads = {b}
  Tools = {t}
  Edits = {e}
  Runs = {r}
  Empty = FALSE
  MaxAsks = 3
  Faults = {"stop", "reload", "failure", "timeout", "import"}
  MaxFaults = 2
CHECK_DEADLOCK FALSE
INVARIANTS ChangesAreSaved PaidOnce
PROPERTY RequestsEnd
