\* Calls fail, answers are lost, the controller restarts, and informers lag, over two Gestations of one name.
CONSTANTS
  Planned = 1
  AutoRollback = TRUE
  Conceived = 3
  Fault = {"error", "lost", "crash", "lag"}
  User = {"conceive", "apply", "scale", "name", "deliver", "end", "screen"}
  Template = {1}
  MaxReplicas = 2
  MaxGest = 2
  MaxUid = 1
  MaxScreens = 1
  MaxFaults = 1
  MaxMoves = 4
  MaxAge = 8
SPECIFICATION Spec
INVARIANTS TypeOK RoomReleased
PROPERTIES BornProtected GoesHomeNamed
