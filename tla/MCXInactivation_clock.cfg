\* One apiserver container, and a clock that is stepped back.
CONSTANTS
  Wrapper = {a}
  Apiserver = {a}
  Pin = {}
  XpMinorKnown = TRUE
  BootIdKnown = TRUE
  EscapeCrashes = 2
  EscapeWindow = 2
  Cooldown = 2
  Fault = {"clock"}
  NoOne = NoOne
  MaxClock = 3
  MaxBoot = 3
  MaxCrashes = 4
  MaxEdits = 0
SPECIFICATION Spec
INVARIANTS OncePerBoot PureEvidence
