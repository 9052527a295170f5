------------------------------- MODULE Parts --------------------------------
(***************************************************************************)
(* The parts of one machine that the agent checks and recipes act on:      *)
(* units, containers, ports and processes that work or do not.             *)
(***************************************************************************)
CONSTANT Part
VARIABLE works   \* the parts that work

=============================================================================
