SPECIFICATION Spec
CONSTANTS
  Recipes <- MCRecipes
  Disks <- MCDisks
  Privileges = {"sudo", "none"}
  Inside <- MCInside
  MaxUpsets = 2
  NoDisk = NoDisk
  Part <- MCPart
  UserUnit <- MCUserUnit
  SystemUnit = {"exo-system"}
  Running <- MCRunning
  Offered <- MCOffered
  InPip = {"pyfiglet"}
  Globs <- MCGlobs
  Blobs = {"v1", "v2", "stub"}
  Stub = "stub"
  Address = {"self", "peer"}
  Old = {"self", "peer"}
  MaxFaults = 1
  Self = "self"
  Peers = {"peer"}
  Service <- MCService
  UserLines <- MCUserLines
  Edits <- MCEdits
CONSTRAINT Relevant
INVARIANTS TypeOK GoalsMet RestartTakesHold WordIsCurrent
PROPERTIES RepeatChangesNothing UserLinesKept RunsRecover OutageClosed
CHECK_DEADLOCK FALSE
