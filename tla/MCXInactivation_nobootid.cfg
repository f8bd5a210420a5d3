\* A kernel without boot id: only the cooldown separates escapes.
CONSTANTS
  Wrapper = {a}
  Apiserver = {a}
  Pin = {}
  XpMinorKnown = TRUE
  BootIdKnown = FALSE
  EscapeCrashes = 2
  EscapeWindow = 1
  Cooldown = 2
  Fault = {}
  NoOne = NoOne
  MaxClock = 4
  MaxBoot = 2
  MaxCrashes = 4
  MaxEdits = 0
SPECIFICATION Spec
INVARIANTS CoolsDown
