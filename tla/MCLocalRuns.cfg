\* A CLI that runs recipes and a daemon that tests, every pair of writes racing.
SPECIFICATION Spec
CONSTANTS
  child = child
  cli = cli
  daemon = daemon
  tester = tester
  Process = {child, cli, daemon, tester}
  Attr <- Attrs
  Value = {"yes", "no"}
  Unset = "unset"
  Runner = {cli, child}
  NodeLabels <- Labels
  Lower <- LowerCase
  RecipeFile <- Recipes
  Listing <- RecipeOrder
  Falsy = {"no"}
  Codes = {0, 3}
  MaxRuns = 2
  Tester = {daemon, tester}
  Daemon = daemon
  Module <- TestModules
  TestListing <- TestOrder
  Checks <- Verified
  Test <- Tests
  Yes = "yes"
  No = "no"
  MaxSuites = 2
  MaxStarts = 2
SYMMETRY Symmetry
INVARIANTS
  TypeOK
  NothingForgotten
  SweepAccounts
  OperatorKnows
PROPERTIES
  AttrsReachStore
  StoreSpec
CHECK_DEADLOCK FALSE
