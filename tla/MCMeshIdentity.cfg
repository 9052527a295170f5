CONSTANTS
  laptop = laptop
  tower = tower
  Machine <- MCMachine
  Name = {1, 2, 3}
  Id <- MCId
  NoId = "none"
  BuiltIn <- MCBuiltIn
  Dongle = {"usb"}
  Dock = {"dock"}
  NameOf <- MCNameOf
  Legacy <- MCLegacy
  NoEntry = NoEntry
  NoNode = NoNode
  Down = Down
  MaxStarts = 3
  MaxChanges = 2
SPECIFICATION Spec
CHECK_DEADLOCK FALSE
INVARIANTS TypeOK SingleWriter OneEntryPerMachine RunsAsListed DeclaredIsPortableByName
