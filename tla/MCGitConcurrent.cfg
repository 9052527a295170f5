\* A tick, a requested pull and a recipe submission overlap.
SPECIFICATION Spec
CONSTANTS
  u1 = u1
  u2 = u2
  c1 = c1
  c2 = c2
  e1 = e1
  Upstream = {u1}
  Self = {c1}
  NodeFile = {c1}
  LegacyEntry = FALSE
  Edits = {}
  Conflicts <- Clashes
  Ticker = ticker
  Handlers = {h1}
  Boot = boot
  Recipes = {r1}
  Faults = {"crash"}
PROPERTIES
  UpstreamKept
