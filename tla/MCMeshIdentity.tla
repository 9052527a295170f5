--------------------------- MODULE MCMeshIdentity ---------------------------
(* Two machines with machine-ids, a name each and one to be renamed to; the  *)
(* first has a legacy entry without an id.                                   *)
EXTENDS MeshIdentity

CONSTANTS laptop, tower

MCMachine == {laptop, tower}
MCId      == [m \in MCMachine |-> IF m = laptop THEN "id1" ELSE "id2"]
MCBuiltIn == [m \in MCMachine |-> IF m = laptop THEN {"m1"} ELSE {"m2"}]
MCNameOf  == [m \in MCMachine |-> IF m = laptop THEN {1, 3} ELSE {2}]
MCLegacy  == [h \in 1..3 |->
  IF h = 1 THEN [id |-> NoId, macs |-> {"m1"}, portable |-> {}] ELSE NoEntry]

\* The theorems' hypotheses hold of this fleet.
ASSUME FleetKept == MachinesDiffer /\ LegacyIsKnown

=============================================================================
