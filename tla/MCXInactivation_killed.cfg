\* A container killed between the switch and its stamp.
CONSTANTS
  Wrapper = {a}
  Apiserver = {a}
  Pin = {}
  XpMinorKnown = TRUE
  BootIdKnown = TRUE
  EscapeCrashes = 2
  EscapeWindow = 1
  Cooldown = 2
  Fault = {"kill"}
  NoOne = NoOne
  MaxClock = 0
  MaxBoot = 1
  MaxCrashes = 4
  MaxEdits = 0
SPECIFICATION Spec
INVARIANTS OncePerBoot
