\* A process dies between an event and the patch that saves it: violates NeverToldTwice.
CONSTANTS
  Absent = Absent
  Node = {"n1"}
  Res = {"cpu"}
  Levels = {0, 64, 65, 69, 70}
  MaxMoves = 2
  MaxTrouble = 1
SPECIFICATION Spec
PROPERTIES NeverToldTwice
