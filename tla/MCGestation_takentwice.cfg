\* A discharge whose status was not written takes a second replica.
CONSTANTS
  Planned = 2
  AutoRollback = TRUE
  Conceived = 0
  Fault = {"error"}
  User = {"conceive", "apply", "deliver", "name"}
  Template = {1}
  MaxReplicas = 3
  MaxGest = 1
  MaxUid = 1
  MaxScreens = 1
  MaxFaults = 1
  MaxMoves = 5
  MaxAge = 8
SPECIFICATION Spec
INVARIANTS TakenOnce
