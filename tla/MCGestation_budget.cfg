\* A pass whose birth is refused finds its own budget.
CONSTANTS
  Planned = 1
  AutoRollback = TRUE
  Conceived = 0
  Fault = {"race"}
  User = {"conceive", "apply", "deliver", "name", "progress"}
  Template = {1}
  MaxReplicas = 2
  MaxGest = 1
  MaxUid = 1
  MaxScreens = 1
  MaxFaults = 0
  MaxMoves = 5
  MaxAge = 8
SPECIFICATION Spec
INVARIANTS BudgetUndone
