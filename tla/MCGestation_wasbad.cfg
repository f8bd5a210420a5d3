\* A second delivery goes back to what the first one was rolled back from.
CONSTANTS
  Planned = 1
  AutoRollback = TRUE
  Conceived = 0
  Fault = {}
  User = {"conceive", "apply", "deliver", "rollout", "again"}
  Template = {1, 2}
  MaxReplicas = 2
  MaxGest = 1
  MaxUid = 1
  MaxScreens = 1
  MaxFaults = 0
  MaxMoves = 5
  MaxAge = 8
SPECIFICATION Spec
PROPERTIES BackWhereItWasWell
