SPECIFICATION TabsSpec
CONSTANTS
  Tabs = {a, b, c}
  None = None
  First = a
  Accidents = {"dispose", "crash", "freeze", "timeout", "failure"}
  MaxOps = 1
  MaxAccidents = 1
CHECK_DEADLOCK FALSE
PROPERTIES OperationsEnd TabsImplementOwnership
