\* One recipe, every fault, orphans of restarted agents included.
SPECIFICATION FairSpec
CONSTANTS
  a = a
  b = b
  Recipes = {a}
  MaxVersion = 3
  MaxConfig = 3
  Marked <- MarkedVersions
  Gated <- GatedVersions
  Labelled <- LabelledConfigs
  Faults = {"restart", "crash", "noexe", "nosave", "drift"}
PROPERTIES
  NoRepeatedAlert
  Converges
