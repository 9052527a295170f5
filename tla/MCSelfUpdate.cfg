\* Every policy and fault, while releases are published.
SPECIFICATION FairSpec
CONSTANTS
  Latest = Latest
  Unset = Unset
  Releases <- AllReleases
  First <- v079
  Policies <- AllPolicies
  Labels <- NodeLabels
  Faults = {"crash", "exec", "readonly", "cli"}
INVARIANTS
  TypeOK
  RestartsSettle
PROPERTIES
  ReachesTarget
