\* The flag of the operator cannot be read while a crash is judged.
CONSTANTS
  Wrapper = {a}
  Apiserver = {a}
  Pin = {}
  XpMinorKnown = TRUE
  BootIdKnown = TRUE
  EscapeCrashes = 2
  EscapeWindow = 1
  Cooldown = 2
  Fault = {"io"}
  NoOne = NoOne
  MaxClock = 0
  MaxBoot = 1
  MaxCrashes = 2
  MaxEdits = 0
SPECIFICATION Spec
INVARIANTS UpgradeBlocksEscape
