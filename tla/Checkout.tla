------------------------------ MODULE Checkout -------------------------------
(***************************************************************************)
(* What a node finds in its checkout (cmd/gogitops/main.go): the recipes   *)
(* run-all sweeps, the test modules a suite takes, the script behind a     *)
(* step, and whether labels let a recipe or a step run here.               *)
(***************************************************************************)
EXTENDS Sequences

CONSTANTS
  NodeLabels,   \* the labels of nodes/<hostname>.yaml
  Lower,        \* Lower[l]: the label l in lower case
  RecipeFile,   \* RecipeFile[f]: a YAML file under recipes/
  Listing,      \* those files, in the order of their paths
  Module,       \* Module[m]: a test module file
  TestListing   \* those files, in directory order

ASSUME FilesKnown ==
  Listing \in Seq(DOMAIN RecipeFile) /\ TestListing \in Seq(DOMAIN Module)

\* labelsMatch ignores case: all of required, none of exclude.
LabelsMatch(have, required, exclude) ==
  LET Folded(labels) == {Lower[l] : l \in labels}
  IN  /\ Folded(required) \subseteq Folded(have)
      /\ Folded(exclude) \cap Folded(have) = {}

\* resolveScriptPath over the places that hold a file of the script's name: a
\* reserved set is never looked for in the recipe or the fleet library.
ScriptFound(script) ==
  \/ "as named" \in script.at
  \/ "embedded" \in script.at
  \/ (~script.reserved /\ script.at \cap {"recipe", "library"} # {})

\* What a step calls exists: its script, its native function, or bash itself.
Available(call) ==
  /\ call.kind = "script" => ScriptFound(call)
  /\ call.kind = "func"   => call.known

\* discoverRecipes: recipes/<name>/<name>.yaml and recipes/*.yaml, without the
\* test modules.
DiscoverRecipes ==
  LET Swept(f) == RecipeFile[f].at \in {"own dir", "flat"}
                  /\ ~RecipeFile[f].test_module
  IN  SelectSeq(Listing, Swept)

\* discoverTestModules: test_modules/* and recipes/<r>/tests/*.
DiscoverTestModules ==
  LET Listed(m) == Module[m].at \in {"test_modules", "tests"}
  IN  SelectSeq(TestListing, Listed)

\* selectFleetModules: common, docker and this OS's file always, the others by
\* their labels, which here are compared with their case.
SelectFleetModules ==
  LET Selected(m) == Module[m].named
                     \/ (Module[m].test_module /\ Module[m].labels \subseteq NodeLabels)
  IN  SelectSeq(DiscoverTestModules, Selected)

\* Of the files selected, those that say test_module: true.
TestModulesOf(files) == SelectSeq(files, LAMBDA m : Module[m].test_module)

\* SelectSeq picks files from the listings, whatever it selects by.
ASSUME FilesSelected ==
  /\ DiscoverRecipes \in Seq(DOMAIN RecipeFile)
  /\ {DiscoverTestModules, TestModulesOf(DiscoverTestModules),
      SelectFleetModules, TestModulesOf(SelectFleetModules)} \subseteq Seq(DOMAIN Module)

=============================================================================
