\* A second starter trusts a choice nobody synced.
CONSTANTS
  Wrapper = {a, b}
  Apiserver = {a, b}
  Pin = {}
  XpMinorKnown = TRUE
  BootIdKnown = TRUE
  EscapeCrashes = 2
  EscapeWindow = 1
  Cooldown = 2
  Fault = {"power"}
  NoOne = NoOne
  MaxClock = 0
  MaxBoot = 2
  MaxCrashes = 0
  MaxEdits = 0
SPECIFICATION Spec
INVARIANTS OneLineage
