----------------------------- MODULE RecipeRun ------------------------------
(***************************************************************************)
(* gogitops recipe run and recipe run-all (recipeRun and recipeRunAll of   *)
(* cmd/gogitops/main.go): a process loads a recipe, reads the device       *)
(* attributes, walks the steps through their filters, retries what fails,  *)
(* gathers attributes, and persists them on the way out.  A single run     *)
(* leaves through os.Exit, which skips deferred calls; a sweep goes on to  *)
(* the next recipe.                                                        *)
(*                                                                         *)
(* A recipe file is a constant record.  What a command does is chosen when *)
(* it runs: an exit code, and whether its output holds the text expected.  *)
(***************************************************************************)
EXTENDS AttrStore, Checkout, Integers

CONSTANTS
  Runner,     \* processes that run recipes
  Falsy,      \* values a truthy condition takes for false
  Codes,      \* exit codes a command may end with
  MaxRuns     \* bound: runs launched

ASSUME RunnersPersist ==
  Runner \subseteq Process /\ Falsy \subseteq Value /\ MaxRuns \in Nat

VARIABLES
  run,        \* each runner's process
  launched    \* runs launched so far

recipeVars == <<run, launched>>

NoRecipe == "no recipe"
AnyExit  == -1   \* no expect_exit:

\* What the parser makes of a file: a list of steps, each with the attributes of
\* its assert:, its set_attr: and its attr_prefix:.
ASSUME RecipesParsed ==
  /\ NoRecipe \notin DOMAIN RecipeFile
  /\ \A f \in DOMAIN RecipeFile :
       LET steps == RecipeFile[f].steps IN
         /\ steps \in Seq({steps[i] : i \in DOMAIN steps})
         /\ \A i \in DOMAIN steps :
              steps[i].asserts \cup steps[i].output \cup steps[i].captures \subseteq Attr

Stages == {"idle", "load", "step", "leave", "write", "exit"}
\* The exit code, 0 or 1; "refused" is an os.Exit(1) before a recipe's end.
Exits  == {"ok", "failed", "refused"}

Idle ==
  [stage |-> "idle", sweep |-> FALSE, dry |-> FALSE, todo |-> << >>,
   recipe |-> NoRecipe, step |-> 0, attempt |-> 0, attrs |-> NoAttrs,
   seen |-> NoSummary, set |-> NoAttrs, bad |-> 0, keep |-> FALSE,
   ok |-> 0, failed |-> 0, skipped |-> 0, failedAt |-> NoRecipe, exit |-> "ok",
   \* history: the recipes run-all was given, and of these the ones it cannot
   \* give parameters to
   given |-> 0, manual |-> 0]

RunTypeOK ==
  /\ launched \in 0..MaxRuns
  /\ DOMAIN run = Runner
  /\ \A p \in Runner :
       /\ DOMAIN run[p] = DOMAIN Idle
       /\ run[p].stage \in Stages /\ run[p].exit \in Exits
       /\ run[p].recipe \in DOMAIN RecipeFile \cup {NoRecipe}
       /\ run[p].attrs \in Map /\ run[p].set \in Map
       /\ \A a \in Given(run[p].set) : run[p].attrs[a] = run[p].set[a]
       /\ run[p].stage \in {"step", "leave", "write"} =>
            run[p].step \in 0..Len(RecipeFile[run[p].recipe].steps) + 1

RunInit == run = [p \in Runner |-> Idle] /\ launched = 0

At(p, stage) == run[p].stage = stage /\ io[p].at = "out"
CurRecipe(p) == RecipeFile[run[p].recipe]
CurStep(p)   == CurRecipe(p).steps[run[p].step]
InSteps(p)   == At(p, "step") /\ run[p].step <= Len(CurRecipe(p).steps)

Become(p, r) == run' = [run EXCEPT ![p] = r]

(***************************************************************************)
(* Starting, and the ways out.                                             *)
(***************************************************************************)
\* The process has left a recipe: run-all takes the next or sums up, a single
\* run ends with the code it has.
Returned(r) ==
  LET out == [r EXCEPT !.recipe = NoRecipe, !.step = 0, !.attempt = 0,
                       !.attrs = NoAttrs, !.seen = NoSummary, !.set = NoAttrs,
                       !.bad = 0, !.keep = FALSE]
  IN  IF r.sweep /\ r.todo # << >>
      THEN [out EXCEPT !.stage = "load"]
      ELSE [out EXCEPT !.stage = "exit",
                       !.exit = IF r.sweep /\ r.failedAt # NoRecipe
                                THEN "failed" ELSE @]

\* os.Exit(1), whatever the run was doing.
Exited(r) == [Idle EXCEPT !.stage = "exit", !.exit = "refused"]

\* recipe run <name> [--dry-run], or run-all over what discoverRecipes lists.
Launch(p) ==
  /\ At(p, "idle") /\ launched < MaxRuns
  /\ launched' = launched + 1
  /\ \E dry \in BOOLEAN :
       LET loading == [Idle EXCEPT !.stage = "load", !.dry = dry] IN
       \/ \E r \in DOMAIN RecipeFile : Become(p, [loading EXCEPT !.todo = <<r>>])
       \/ Become(p, IF DiscoverRecipes = << >> THEN Exited(Idle)
                    ELSE [loading EXCEPT !.todo = DiscoverRecipes, !.sweep = TRUE,
                                         !.given = Len(DiscoverRecipes)])
  /\ UNCHANGED storeVars

\* The process leaves the recipe with the store's write still to come when it
\* set something; a dry run registers none.
Leaving(r) ==
  [r EXCEPT !.stage = "leave", !.keep = ~r.dry /\ Given(r.set) # {}]

\* Mutant of AbortOnExit: a single run calls os.Exit(1) without the explicit
\* persistRecipeAttrs, which the deferred one does not make up for.
AbortOnExitForgets(r) ==
  IF r.sweep
  THEN Leaving([r EXCEPT !.failed = @ + 1, !.failedAt = r.recipe])
  ELSE [Leaving([r EXCEPT !.exit = "failed"]) EXCEPT !.keep = FALSE]

\* A step failed with on_failure: abort, after it ran.
AbortOnExit(r) ==
  IF r.sweep
  THEN Leaving([r EXCEPT !.failed = @ + 1, !.failedAt = r.recipe])
  ELSE Leaving([r EXCEPT !.exit = "failed"])

\* Mutant of AbortMissing: the sweep's counters are not told.
AbortMissingUncounted(r) ==
  IF r.sweep THEN Leaving([r EXCEPT !.failedAt = r.recipe]) ELSE Exited(r)

\* A step's script or function does not exist, and its on_failure is abort:
\* the single run's os.Exit(1) persists nothing.
AbortMissing(r) ==
  IF r.sweep
  THEN Leaving([r EXCEPT !.failed = @ + 1, !.failedAt = r.recipe])
  ELSE Exited(r)

(***************************************************************************)
(* recipeRun up to its first step.                                         *)
(***************************************************************************)
Taking(r) == [r EXCEPT !.recipe = Head(r.todo), !.todo = Tail(@)]

\* run-all passes over a recipe with required parameters.
SkipParametrized(p) ==
  /\ At(p, "load") /\ run[p].sweep
  /\ LET r == Taking(run[p]) IN
       /\ RecipeFile[r.recipe].needs
       /\ Become(p, Returned([r EXCEPT !.manual = @ + 1]))
  /\ UNCHANGED <<storeVars, launched>>

\* A file that has no name or no steps, or a single run without the --var it
\* needs: os.Exit(1), which ends a whole sweep.
Refuse(p) ==
  /\ At(p, "load")
  /\ LET r == Taking(run[p]) IN
       /\ \/ ~RecipeFile[r.recipe].needs /\ RecipeFile[r.recipe].steps = << >>
          \/ RecipeFile[r.recipe].needs /\ ~r.sweep
       /\ Become(p, Exited(r))
  /\ UNCHANGED <<storeVars, launched>>

\* hydrateDeviceAttrs, then the recipe's own labels: a node without them
\* leaves at once.
Hydrate(p) ==
  /\ At(p, "load")
  /\ LET r == [Taking(run[p]) EXCEPT !.attrs = ReadDeviceAttrs.attrs,
                                   !.seen = ReadDeviceAttrs.tests] IN
       /\ ~RecipeFile[r.recipe].needs /\ RecipeFile[r.recipe].steps # << >>
       /\ IF LabelsMatch(NodeLabels, RecipeFile[r.recipe].labels, {})
          THEN Become(p, [r EXCEPT !.stage = "step", !.step = 1])
          ELSE Become(p, Leaving([r EXCEPT !.skipped = @ + 1]))
  /\ UNCHANGED <<storeVars, launched>>

(***************************************************************************)
(* One step.                                                               *)
(***************************************************************************)
\* evalAttrCondition, over the attributes as hydrated and set so far.
EvalAttrCondition(c, r) ==
  CASE c.op = "none"   -> TRUE
    [] c.op = "truthy" -> r.attrs[c.attr] \notin Falsy \cup {Unset}
    [] c.op = "=="     -> r.attrs[c.attr] = c.value
    [] c.op = "!="     -> r.attrs[c.attr] # c.value
    [] c.op = "tests.fail == 0" -> r.seen.scope # "none" /\ ~r.seen.fail

\* The step is done, without failing.
StepOver(r) == [r EXCEPT !.step = @ + 1, !.attempt = 0]

\* The script or function is looked up before any filter, in a dry run too.
MissingScript(p) ==
  /\ InSteps(p) /\ run[p].attempt = 0
  /\ LET r == run[p] IN
       /\ ~Available(CurStep(p).call)
       /\ Become(p, IF CurStep(p).on_failure = "abort" THEN AbortMissing(r)
                    ELSE StepOver([r EXCEPT !.bad = @ + 1]))
  /\ UNCHANGED <<storeVars, launched>>

\* os: and arch: name this machine, or nothing; the labels agree.
Applies(s) == s.here /\ LabelsMatch(NodeLabels, s.labels_required, s.labels_exclude)

\* The filters, then the shell guards when: and only_if:, whose verdict is the
\* machine's, then the attribute conditions.
SkipStep(p) ==
  /\ InSteps(p) /\ run[p].attempt = 0
  /\ Available(CurStep(p).call)
  /\ \/ ~Applies(CurStep(p))
     \/ CurStep(p).guarded
     \/ ~EvalAttrCondition(CurStep(p).cond, run[p])
  /\ Become(p, StepOver(run[p]))
  /\ UNCHANGED <<storeVars, launched>>

Runs(p) ==
  /\ InSteps(p)
  /\ Available(CurStep(p).call) /\ Applies(CurStep(p))
  /\ run[p].attempt > 0 \/ EvalAttrCondition(CurStep(p).cond, run[p])

\* A dry run prints the command and counts the step as passed.
DryStep(p) ==
  /\ Runs(p) /\ run[p].dry
  /\ Become(p, StepOver(run[p]))
  /\ UNCHANGED <<storeVars, launched>>

\* What is checked after an attempt to decide on a retry.
Satisfied(s, code, match) ==
  /\ s.expect => match
  /\ code = (IF s.expect_exit = AnyExit THEN 0 ELSE s.expect_exit)

\* What decides the step once the attempts are over: the exit code alone.
\* 0 passes even when another code was expected, and the text is not looked at.
Passed(s, code) == code = 0 \/ code = s.expect_exit

\* What a step may gather: assert: whether it held, set_attr: its trimmed output,
\* attr_prefix: the groups of a pattern that matches, or nothing.
Gathers(s) ==
  [s.asserts \cup s.output -> Value] \cup [s.asserts \cup s.output \cup s.captures -> Value]

Noted(g, m) == [a \in Attr |-> IF a \in DOMAIN g THEN g[a] ELSE m[a]]

\* Mutant of Gathered: the keys are marked for the store, the values are not kept.
GatheredUnseen(r, g) == [r EXCEPT !.set = Noted(g, @)]

\* What was gathered is there for the next steps, and marked for the store.
Gathered(r, g) == [r EXCEPT !.attrs = Noted(g, @), !.set = Noted(g, @)]

\* The last attempt's outcome: attributes first, then the verdict.
Finished(r, s, code, g) ==
  LET q == Gathered(r, g)
  IN  IF Passed(s, code) THEN StepOver(q)
      ELSE IF s.on_failure = "abort" THEN AbortOnExit([q EXCEPT !.bad = @ + 1])
      ELSE StepOver([q EXCEPT !.bad = @ + 1])

\* retries: 0 is one attempt; a negative number is none at all.
MaxRetries(s) == IF s.retries = 0 THEN 1 ELSE s.retries

\* An attempt: bash -c, or the native function.
Attempt(p) ==
  /\ Runs(p) /\ ~run[p].dry
  /\ run[p].attempt < MaxRetries(CurStep(p))
  /\ LET r == run[p]
         s == CurStep(p)
     IN  \E code \in Codes, match \in BOOLEAN, g \in Gathers(s) :
           IF Satisfied(s, code, match) \/ r.attempt + 1 = MaxRetries(s)
           THEN Become(p, Finished(r, s, code, g))
           ELSE Become(p, [r EXCEPT !.attempt = @ + 1])
  /\ UNCHANGED <<storeVars, launched>>

\* retries: -1 never enters the loop: the exit code is still 0 and the step
\* passes, with an empty output for set_attr: and nothing for a pattern to match.
NoAttempt(p) ==
  /\ Runs(p) /\ ~run[p].dry
  /\ MaxRetries(CurStep(p)) < 0
  /\ LET s == CurStep(p)
     IN  \E g \in [s.asserts \cup s.output -> Value] :
           /\ \A a \in s.output : g[a] \in Falsy
           /\ Become(p, Finished(run[p], s, 0, g))
  /\ UNCHANGED <<storeVars, launched>>

(***************************************************************************)
(* The end of a recipe.                                                    *)
(***************************************************************************)
\* run-all counts the recipe; a single run exits 0 even with failed steps.
Tallied(r) ==
  IF r.bad = 0 THEN [r EXCEPT !.ok = @ + 1]
  ELSE [r EXCEPT !.failed = @ + 1,
                 !.failedAt = IF @ = NoRecipe THEN r.recipe ELSE @]

EndOfRecipe(p) ==
  /\ At(p, "step") /\ run[p].step > Len(CurRecipe(p).steps)
  /\ Become(p, Leaving(IF run[p].sweep THEN Tallied(run[p]) ELSE run[p]))
  /\ UNCHANGED <<storeVars, launched>>

\* persistRecipeAttrs, deferred or called before os.Exit.
PersistRecipe(p) ==
  /\ At(p, "leave") /\ run[p].keep
  /\ PersistRead(p, run[p].set, ReadDeviceAttrs.tests)
  /\ Become(p, [run[p] EXCEPT !.stage = "write"])
  /\ UNCHANGED launched

OpenRecipe(p) ==
  /\ run[p].stage = "write" /\ OpenStore(p) /\ UNCHANGED recipeVars

\* The write is over, or failed; the run goes on.
WriteRecipe(p) ==
  /\ run[p].stage = "write" /\ (EncodeStore(p) \/ OpenFails(p))
  /\ Become(p, Returned(run[p])) /\ UNCHANGED launched

\* Nothing to persist.
LeaveRecipe(p) ==
  /\ At(p, "leave") /\ ~run[p].keep
  /\ Become(p, Returned(run[p]))
  /\ UNCHANGED <<storeVars, launched>>

\* The process is gone.
Exit(p) ==
  /\ At(p, "exit")
  /\ Become(p, Idle)
  /\ UNCHANGED <<storeVars, launched>>

\* The process is killed: a signal, the daemon's restart, the host.
KillRun(p) ==
  /\ run[p].stage \notin {"idle", "exit"}
  /\ DieWriting(p)
  /\ Become(p, Idle) /\ UNCHANGED launched

RunStep(p) ==
  \/ Launch(p) \/ SkipParametrized(p) \/ Refuse(p) \/ Hydrate(p)
  \/ MissingScript(p) \/ SkipStep(p) \/ DryStep(p) \/ Attempt(p)
  \/ NoAttempt(p) \/ EndOfRecipe(p)
  \/ PersistRecipe(p) \/ OpenRecipe(p) \/ WriteRecipe(p) \/ LeaveRecipe(p)
  \/ Exit(p) \/ KillRun(p)

RunNext == \E p \in Runner : RunStep(p)

(***************************************************************************)
(* Properties.                                                             *)
(***************************************************************************)
\* The process leaves a recipe on its own: by the end of its steps, by a skip
\* or by an abort, but not killed, and not for want of a script.
Leaves(p) ==
  /\ run[p].stage \in {"leave", "write"} /\ run'[p].stage \in {"load", "exit"}

LeavesStored ==
  \A p \in Runner :
    Leaves(p) /\ ~run[p].dry /\ ~disturbed' =>
      \A a \in Given(run[p].set) : ReadDeviceAttrs'.attrs[a] = run[p].set[a]

\* What a run set is in the store when it leaves the recipe, aborted or not,
\* unless it was a dry run, was killed, or another write got in the way: the
\* deferred persist, and the explicit one before os.Exit.
AttrsReachStore == [][LeavesStored]_<<storeVars, recipeVars>>

\* A sweep that reaches its end accounts for every recipe it was given, once,
\* and exits 1 exactly when one of them failed, whatever way it failed.
SweepAccounts ==
  \A p \in Runner :
    run[p].stage = "exit" /\ run[p].sweep =>
      /\ run[p].ok + run[p].failed + run[p].skipped + run[p].manual = run[p].given
      /\ (run[p].exit = "failed") <=> (run[p].failed > 0)

=============================================================================
