---------------------------- MODULE MCSelfUpdate ----------------------------
(***************************************************************************)
(* Instances of SelfUpdate: three releases whose patch numbers fall where  *)
(* the minor number rises, and policies of every kind of source.           *)
(***************************************************************************)
EXTENDS SelfUpdate

v079 == <<0, 7, 9>>
v080 == <<0, 8, 0>>
v090 == <<0, 9, 0>>   \* never released
v100 == <<1, 0, 0>>

AllReleases == {v079, v080, v100}
TwoReleases == {v079, v080}
NodeLabels  == <<"gpu", "nas">>

NoGroup == [gpu |-> Unset, nas |-> Unset]
Unpinned == [readable |-> TRUE, node |-> Unset, group |-> NoGroup,
             global |-> Latest, recipes |-> <<>>]

AllPolicies ==
  { Unpinned,
    [Unpinned EXCEPT !.readable = FALSE, !.global = v079],
    [Unpinned EXCEPT !.global = v080, !.node = Latest],
    [Unpinned EXCEPT !.global = v090],
    [Unpinned EXCEPT !.group = [gpu |-> v080, nas |-> v079]],
    [Unpinned EXCEPT !.node = v079, !.recipes = <<Latest, v080>>] }

OnlyUnpinned == { Unpinned }

=============================================================================
