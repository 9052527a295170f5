----------------------------- MODULE AtomicFile -----------------------------
(***************************************************************************)
(* What an installed file promises those who execute it: it is missing, or *)
(* it is one of the whole contents it may have, and from one it goes to    *)
(* another in one step.                                                    *)
(***************************************************************************)
CONSTANTS Whole, Missing
VARIABLE content

Init == content \in Whole \cup {Missing}
Next == content' \in Whole
Spec == Init /\ [][Next]_content

=============================================================================
