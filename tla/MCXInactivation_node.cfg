\* Two apiserver containers on a node whose disk and processes never fail.
CONSTANTS
  Wrapper = {a, b}
  Apiserver = {a, b}
  Pin = {}
  XpMinorKnown = TRUE
  BootIdKnown = TRUE
  EscapeCrashes = 2
  EscapeWindow = 1
  Cooldown = 2
  Fault = {}
  NoOne = NoOne
  MaxClock = 3
  MaxBoot = 2
  MaxCrashes = 4
  MaxEdits = 0
SPECIFICATION Spec
SYMMETRY Symmetry
INVARIANTS OneRecorder EscapeEvidence OncePerBoot OneLineage
PROPERTY ImplementsNodeAllele
