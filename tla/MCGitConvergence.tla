-------------------------- MODULE MCGitConvergence --------------------------
(***************************************************************************)
(* Instances of GitConvergence: the self change c1 and the operator's edit *)
(* e1 both clash with the upstream commit u1, and u2 clashes with nothing, *)
(* so that gitPull meets clean pulls, clean rebases and conflicts.  A      *)
(* second self change, c2, clashes with nothing.                           *)
(***************************************************************************)
EXTENDS GitConvergence

CONSTANTS u1, u2, c1, c2, e1

Clashes == {{c1, u1}, {e1, u1}}

=============================================================================
