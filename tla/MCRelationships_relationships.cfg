\* One service and two workloads, users who edit, hold or remove what the controller keeps.
CONSTANTS
  Absent = Absent
  Edited = Edited
  Service <- MCService
  Workload <- MCWorkload
  Selectors <- MCSelectors
  Templates <- MCTemplates
  MaxMoves = 2
  MaxTrouble = 1
SPECIFICATION Spec
INVARIANT OneTieEach
PROPERTIES EditsSurvive UnmovedKept EventuallyGraph
