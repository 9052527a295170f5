SPECIFICATION Spec
CONSTANTS
  Blob = {"small", "middle", "large"}
  Size <- MCSize
  Run = {"ours", "operators"}
  Overlap = FALSE
  MaxKills = 3
PROPERTIES BinaryIsAtomic RunsInstall
