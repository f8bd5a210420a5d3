\* One container and power losses: the first choice lasts.
CONSTANTS
  Wrapper = {a}
  Apiserver = {a}
  Pin = {}
  XpMinorKnown = TRUE
  BootIdKnown = TRUE
  EscapeCrashes = 2
  EscapeWindow = 1
  Cooldown = 2
  Fault = {"power"}
  NoOne = NoOne
  MaxClock = 2
  MaxBoot = 3
  MaxCrashes = 4
  MaxEdits = 0
SPECIFICATION Spec
INVARIANTS OneLineage
