---------------------------- MODULE MCDashboard -----------------------------
(* One host with a current daemon and a stranded old one, and a static peer. *)
EXTENDS Dashboard

MCHostOf  == [a \in {"new", "old", "peer"} |-> IF a = "peer" THEN "h2" ELSE "h1"]
MCStatic  == [h \in {"h1", "h2"} |-> IF h = "h2" THEN "peer" ELSE "none"]

=============================================================================
