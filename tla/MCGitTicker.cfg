\* The ticker alone, which starts once start-up has submitted; every fault.
SPECIFICATION FairSpec
CONSTANTS
  u1 = u1
  u2 = u2
  c1 = c1
  c2 = c2
  e1 = e1
  Upstream = {u1}
  Self = {c1}
  NodeFile = {}
  LegacyEntry = TRUE
  Edits = {e1}
  Conflicts <- Clashes
  Ticker = ticker
  Handlers = {}
  Boot = boot
  Recipes = {}
  Faults = {"offline", "nocreds", "restart", "crash"}
INVARIANTS
  TypeOK
  PullUnwedges
  BranchNotLost
PROPERTIES
  OkMeansAtUpstream
  ConvergenceResumes
  NotStranded
