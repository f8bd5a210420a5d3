\* Launches that were asked for happen and newborns with caregivers go home.
CONSTANTS
  Planned = 1
  AutoRollback = TRUE
  Conceived = 0
  Fault = {"error", "lost", "crash"}
  User = {"conceive", "apply", "deliver", "prenamed", "name", "scale"}
  Template = {1}
  MaxReplicas = 0
  MaxGest = 1
  MaxUid = 1
  MaxScreens = 1
  MaxFaults = 1
  MaxMoves = 4
  MaxAge = 8
SPECIFICATION FairSpec
INVARIANT TypeOK
PROPERTIES AskedIsBorn NamedGoesHome
