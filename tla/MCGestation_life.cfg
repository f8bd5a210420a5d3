\* Users act only between passes and nothing fails: a service is born, kept, sent home or back, and born again.
CONSTANTS
  Planned = 1
  AutoRollback = TRUE
  Conceived = 0
  Fault = {}
  User = {"conceive", "apply", "remove", "rollout", "name", "deliver", "again", "pdb", "hpa"}
  Template = {1, 2, 3}
  MaxReplicas = 2
  MaxGest = 1
  MaxUid = 2
  MaxScreens = 1
  MaxFaults = 0
  MaxMoves = 6
  MaxAge = 8
SPECIFICATION Spec
INVARIANTS StatusTells OneExtra BudgetInCare RecordOfTheLiving
PROPERTIES ImplementsServiceLife
