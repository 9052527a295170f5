----------------------------- MODULE MCApplyLoop ----------------------------
(***************************************************************************)
(* Instances of ApplyLoop.  Version 1 of a recipe runs everywhere, version *)
(* 2 only where the labels are, version 3 is not marked auto_apply; the    *)
(* first and third config lack the labels, the second has them.            *)
(***************************************************************************)
EXTENDS ApplyLoop, TLC

CONSTANTS a, b

MarkedVersions  == {1, 2}
GatedVersions   == {2}
LabelledConfigs == {2}
Symmetry        == Permutations({a, b})

=============================================================================
