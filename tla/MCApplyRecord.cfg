\* Two recipes, host crashes and aborted cycles; one process at a time.
SPECIFICATION Spec
CONSTANTS
  a = a
  b = b
  Recipes = {a, b}
  MaxVersion = 2
  MaxConfig = 2
  Marked <- MarkedVersions
  Gated <- GatedVersions
  Labelled <- LabelledConfigs
  Faults = {"crash", "noexe"}
SYMMETRY Symmetry
INVARIANTS
  TypeOK
  SkipIsSound
PROPERTIES
  OneAlertPerFailure
