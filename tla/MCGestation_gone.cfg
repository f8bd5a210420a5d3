\* What departed and deleted services leave behind is closed and removed.
CONSTANTS
  Planned = 1
  AutoRollback = TRUE
  Conceived = 0
  Fault = {"error", "lag"}
  User = {"conceive", "apply", "deliver", "remove", "end", "screen"}
  Template = {1}
  MaxReplicas = 2
  MaxGest = 1
  MaxUid = 2
  MaxScreens = 1
  MaxFaults = 1
  MaxMoves = 5
  MaxAge = 1
SPECIFICATION FairSpec
PROPERTIES GoneIsClosed EntryGoes
