\* A rollback undoes a rollout that came after the birth.
CONSTANTS
  Planned = 1
  AutoRollback = TRUE
  Conceived = 0
  Fault = {}
  User = {"conceive", "apply", "deliver", "rollout"}
  Template = {1, 2, 3}
  MaxReplicas = 2
  MaxGest = 1
  MaxUid = 1
  MaxScreens = 1
  MaxFaults = 0
  MaxMoves = 5
  MaxAge = 8
SPECIFICATION Spec
PROPERTIES UndoesLikeRollout
