---------------------------- MODULE MCLocalRuns -----------------------------
(***************************************************************************)
(* Instances of LocalRuns: recipes that between them take every path of a  *)
(* run, and test modules that set an attribute the recipes test.           *)
(***************************************************************************)
EXTENDS LocalRuns, TLC

CONSTANTS child, cli, daemon, tester

Symmetry == Permutations({child, cli})

Bash           == [kind |-> "command"]
Func(known)    == [kind |-> "func", known |-> known]
Script(at)     == [kind |-> "script", at |-> at, reserved |-> FALSE]
Shadowed       == [kind |-> "script", at |-> {"recipe", "library"}, reserved |-> TRUE]

NoAttr == "no attribute"

Step(call, excluded, guarded, cond, retries, exit, expect, fails, output) ==
  [call |-> call, here |-> TRUE, labels_required |-> {"NAS"},
   labels_exclude |-> excluded, guarded |-> guarded, cond |-> cond,
   retries |-> retries, expect_exit |-> exit, expect |-> expect,
   on_failure |-> fails, output |-> output, asserts |-> {}, captures |-> {}]

Always    == [op |-> "none"]
Truthy(a) == [op |-> "truthy", attr |-> a]
Green     == [op |-> "tests.fail == 0"]

Recipe(steps) ==
  [at |-> "own dir", test_module |-> FALSE, needs |-> FALSE, labels |-> {},
   steps |-> steps]

\* gather sets k and what a pattern finds, retried until the text is there, and
\* aborts when it fails; act has a guarded step with an assertion, one whose
\* function is unknown and its labels exclude, one with a negative number of
\* retries, and one its labels exclude.  A script of a reserved set that only the
\* repository holds is not found.
AllRecipes ==
  [gather |-> Recipe(<<
      [Step(Script({"library"}), {}, FALSE, Always, 2, AnyExit, TRUE, "abort", {"k"})
         EXCEPT !.captures = {"found"}],
      Step(Shadowed, {}, FALSE, Always, 0, AnyExit, FALSE, "abort", {})>>),
   act    |-> Recipe(<<
      [Step(Bash, {}, TRUE, Truthy("k"), 0, 3, FALSE, "abort", {}) EXCEPT !.asserts = {"found"}],
      Step(Func(FALSE), {"nas"}, FALSE, Always, 0, AnyExit, FALSE, "continue", {}),
      Step(Func(TRUE), {}, FALSE, Green, -1, AnyExit, FALSE, "continue", {"k"}),
      Step(Bash, {"nas"}, FALSE, Always, 0, AnyExit, FALSE, "abort", {"k"})>>),
   empty  |-> Recipe(<< >>),
   other  |-> [Recipe(<<Step(Bash, {"nas"}, FALSE, Always, 0, AnyExit, FALSE,
                             "abort", {})>>) EXCEPT !.labels = {"mac"}],
   asks   |-> [Recipe(<<Step(Bash, {}, FALSE, Always, 0, AnyExit, FALSE,
                             "abort", {"k"})>>) EXCEPT !.needs = TRUE],
   tests  |-> [Recipe(<< >>) EXCEPT !.at = "flat", !.test_module = TRUE]]

\* empty is in a directory of another name, where only a path reaches it.
Recipes      == [AllRecipes EXCEPT !["empty"].at = "elsewhere"]
RecipeOrder  == <<"asks", "empty", "gather", "other", "act", "tests">>
Labels       == {"nas"}
LowerCase    == [l \in {"nas", "NAS", "mac"} |-> IF l = "NAS" THEN "nas" ELSE l]

TestOf(test, call, guarded, needs, sets) ==
  [test |-> test, call |-> call, applies |-> TRUE, guarded |-> guarded,
   needs |-> needs, sets |-> sets]

TestFile(steps) ==
  [at |-> "test_modules", test_module |-> TRUE, named |-> FALSE, labels |-> {},
   steps |-> steps]

TestModules ==
  [common |-> [TestFile(<<TestOf("up", Bash, TRUE, NoAttr, "k")>>)
                 EXCEPT !.named = TRUE],
   disks  |-> [TestFile(<<TestOf("free", Script({}), FALSE, "k", NoAttr)>>)
                 EXCEPT !.at = "tests", !.labels = Labels],
   extra  |-> [TestFile(<<TestOf("up", Func(FALSE), FALSE, NoAttr, NoAttr)>>)
                 EXCEPT !.labels = {"NAS"}]]

TestOrder  == <<"common", "disks", "extra">>
Verified   == {[test |-> "validate:act", attr |-> "act.valid"]}
Tests      == {"up", "free", "validate:act"}
Attrs      == {"k", "found", "act.valid"}

=============================================================================
