----------------------------- MODULE LocalRuns ------------------------------
(***************************************************************************)
(* A node's recipe runs and test suites, each its own process or goroutine, *)
(* sharing the device attribute store.                                     *)
(***************************************************************************)
EXTENDS RecipeRun, TestSuite

CONSTANT MaxStarts   \* bound: recipe runs and suites together

ASSUME SeparateProcesses == Runner \cap Tester = {}

vars == <<storeVars, recipeVars, suiteVars>>

TypeOK == StoreTypeOK /\ RunTypeOK /\ SuiteTypeOK

Init == StoreInit /\ RunInit /\ SuiteInit

Next ==
  /\ \/ RunNext /\ UNCHANGED suiteVars
     \/ SuiteNext /\ UNCHANGED recipeVars
  /\ launched' + started' <= MaxStarts

Spec == Init /\ [][Next]_vars

=============================================================================
