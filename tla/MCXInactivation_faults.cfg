\* Every fault at once, pinned manifests and a controller manager beside an apiserver whose image does not tell the minor to emulate.
CONSTANTS
  Wrapper = {a, b}
  Apiserver = {a}
  Pin = {"Xm", "Xp"}
  XpMinorKnown = FALSE
  BootIdKnown = TRUE
  EscapeCrashes = 2
  EscapeWindow = 1
  Cooldown = 2
  Fault = {"io", "kill", "power", "clock", "operator"}
  NoOne = NoOne
  MaxClock = 1
  MaxBoot = 2
  MaxCrashes = 2
  MaxEdits = 1
SPECIFICATION Spec
PROPERTIES OnlyEscapesSwitch
