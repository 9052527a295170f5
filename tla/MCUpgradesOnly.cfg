\* An unpinned node follows a branch whose VERSION goes back a release.
SPECIFICATION Spec
CONSTANTS
  Latest = Latest
  Unset = Unset
  Releases <- TwoReleases
  First <- v079
  Policies <- OnlyUnpinned
  Labels <- NodeLabels
  Faults = {}
PROPERTIES
  UpgradesOnly
