\* Two containers killed at any step and power losses at any step; wrappers whose timers fire follow a switch.
CONSTANTS
  Wrapper = {a, b}
  Apiserver = {a, b}
  Pin = {}
  XpMinorKnown = TRUE
  BootIdKnown = TRUE
  EscapeCrashes = 2
  EscapeWindow = 1
  Cooldown = 2
  Fault = {"kill", "power"}
  NoOne = NoOne
  MaxClock = 0
  MaxBoot = 2
  MaxCrashes = 2
  MaxEdits = 0
SPECIFICATION FairSpec
INVARIANTS HistoryComplete UpgradeBlocksEscape
PROPERTY FollowsSwitch
