\* Users, controllers and the garbage collector act between any two calls of a pass, and the controller restarts; calls that fail or whose answer is lost are in MCGestation_faults.
CONSTANTS
  Planned = 1
  AutoRollback = TRUE
  Conceived = 3
  Fault = {"crash", "race"}
  User = {"conceive", "apply", "name", "deliver", "remove", "progress"}
  Template = {1}
  MaxReplicas = 2
  MaxGest = 1
  MaxUid = 1
  MaxScreens = 1
  MaxFaults = 1
  MaxMoves = 5
  MaxAge = 8
SPECIFICATION Spec
INVARIANTS RoomReleased
PROPERTIES BornProtected GoesHomeNamed
