\* The informer has not seen the Deployment that was born.
CONSTANTS
  Planned = 1
  AutoRollback = TRUE
  Conceived = 0
  Fault = {"lag"}
  User = {"conceive", "apply", "deliver"}
  Template = {1}
  MaxReplicas = 2
  MaxGest = 1
  MaxUid = 1
  MaxScreens = 1
  MaxFaults = 0
  MaxMoves = 5
  MaxAge = 8
SPECIFICATION Spec
INVARIANTS RecordOfTheLiving
