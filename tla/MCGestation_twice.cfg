\* A pass whose status is refused delivers again.
CONSTANTS
  Planned = 1
  AutoRollback = TRUE
  Conceived = 0
  Fault = {"race"}
  User = {"conceive", "apply", "deliver", "screen"}
  Template = {1}
  MaxReplicas = 2
  MaxGest = 1
  MaxUid = 1
  MaxScreens = 1
  MaxFaults = 0
  MaxMoves = 5
  MaxAge = 8
SPECIFICATION Spec
INVARIANTS PlusOne
