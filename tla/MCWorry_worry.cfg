\* Two resources of one node around both thresholds, patches that fail, a node that leaves and joins, restarts.
CONSTANTS
  Absent = Absent
  Node = {"n1"}
  Res = {"cpu", "memory"}
  Levels = {0, 64, 65, 69, 70}
  MaxMoves = 5
  MaxTrouble = 2
SPECIFICATION Spec
PROPERTIES NoFlapping EventuallySaid
