----------------------------- MODULE ApplyLoop ------------------------------
(***************************************************************************)
(* The daemon's recipe convergence: runRecipeApplyLoop and                 *)
(* recipeApplyCycle (cmd/gogitops/apply.go).  One cycle loads the tracked  *)
(* state, walks the discovered recipes, runs in a child process those that *)
(* are new, changed, failed or due for a sweep, saves the state, and then  *)
(* alerts.  Meanwhile the checkout's recipes and the node's config move    *)
(* (gitPull runs in another goroutine), the agent is restarted in place    *)
(* while its child lives on, the host dies, and the machine drifts.        *)
(*                                                                         *)
(* A recipe file is its version; two versions never share a hash and no    *)
(* version comes back.  The same holds of nodes/<host>.yaml.  A recipe is  *)
(* idempotent: run again, it leaves a machine it has converged alone.      *)
(***************************************************************************)
EXTENDS Naturals

CONSTANTS
  Recipes,      \* the recipes discoverRecipes finds
  MaxVersion,   \* bound: versions of a recipe file
  MaxConfig,    \* bound: versions of the node's config
  Marked,       \* the versions that say auto_apply: true
  Gated,        \* the versions whose labels: not every node has
  Labelled,     \* the config versions that give the node those labels
  Faults        \* among "restart", "crash", "noexe", "nosave" and "drift"

Versions == 1..MaxVersion
Configs  == 1..MaxConfig

ASSUME BoundsPositive ==
  MaxVersion \in Nat \ {0} /\ MaxConfig \in Nat \ {0}
ASSUME FaultsKnown ==
  Faults \subseteq {"restart", "crash", "noexe", "nosave", "drift"}

VARIABLES
  file,      \* recipes/<name>.yaml in the checkout
  cfg,       \* nodes/<host>.yaml in the checkout
  host,      \* what a run of the recipe meets on this machine
  applied,   \* the version whose state the machine is in
  orphans,   \* children that outlived the process that started them
  disk,      \* apply-state.json
  mem,       \* the cycle's copy of it (st)
  pc,        \* where the cycle is
  full,      \* fullSweep
  seen,      \* nodeCfgHash
  labels,    \* nodeLabels holds the gate's labels
  todo,      \* recipes the cycle has not come to yet
  cur,       \* the recipe at hand (f, key)
  hash,      \* its hash (h)
  newFails, newSudoBlocks,
  alerted,   \* history: recipes whose failure on record has been alerted
  told       \* history: recipes alerted and not seen in another state since

inputs  == <<file, cfg, host>>
machine == <<applied, orphans>>
history == <<alerted, told>>
locals  == <<full, seen, labels, todo, cur, hash, newFails, newSudoBlocks>>
vars    == <<file, cfg, host, applied, orphans, disk, mem, pc, full, seen,
             labels, todo, cur, hash, newFails, newSudoBlocks, alerted, told>>

None     == 0
NoRecipe == "no recipe"
Entry    == [hash : Versions \cup {None}, status : {"none", "ok", "failed", "na"},
             sudo : BOOLEAN]
NoEntry  == [hash |-> None, status |-> "none", sudo |-> FALSE]
State    == [recipes : [Recipes -> Entry], sweep : {"never", "old", "recent"},
             config : Configs \cup {None}]
Fresh    == [recipes |-> [r \in Recipes |-> NoEntry], sweep |-> "never",
             config |-> None]
Steps    == {"idle", "labels", "next", "parse", "exec", "alert", "dm"}
Meets    == {"fine", "broken", "needs-sudo"}

TypeOK ==
  /\ file \in [Recipes -> Versions]
  /\ cfg \in Configs
  /\ host \in [Recipes -> Meets]
  /\ applied \in [Recipes -> Versions \cup {None}]
  /\ orphans \subseteq Recipes \X Versions
  /\ disk \in State /\ mem \in State
  /\ pc \in Steps
  /\ full \in BOOLEAN /\ labels \in BOOLEAN
  /\ seen \in Configs \cup {None}
  /\ todo \subseteq Recipes
  /\ cur \in Recipes \cup {NoRecipe}
  /\ pc \in {"parse", "exec"} => cur \in Recipes
  /\ hash \in Versions \cup {None}
  /\ newFails \subseteq Recipes /\ newSudoBlocks \subseteq newFails
  /\ alerted \subseteq Recipes /\ told \subseteq Recipes

Init ==
  /\ file = [r \in Recipes |-> 1] /\ cfg = 1
  /\ host \in [Recipes -> Meets]
  /\ applied = [r \in Recipes |-> None] /\ orphans = {}
  /\ disk = Fresh /\ mem = Fresh /\ pc = "idle"
  /\ full = FALSE /\ seen = None /\ labels = FALSE /\ todo = {}
  /\ cur = NoRecipe /\ hash = None /\ newFails = {} /\ newSudoBlocks = {}
  /\ alerted = {} /\ told = {}

\* The cycle is over, and its locals with it.
CycleOver ==
  /\ mem' = Fresh /\ pc' = "idle"
  /\ full' = FALSE /\ seen' = None /\ labels' = FALSE /\ todo' = {}
  /\ cur' = NoRecipe /\ hash' = None /\ newFails' = {} /\ newSudoBlocks' = {}

\* Version v passes the recipe's label filters under config c.
Applies(v, c) == v \in Gated => c \in Labelled

(***************************************************************************)
(* recipeApplyCycle.                                                       *)
(***************************************************************************)
\* Mutant of LoadState: no sweep for age, only for a changed config.
LoadStateAgeless ==
  /\ pc = "idle"
  /\ mem' = disk
  /\ seen' = cfg
  /\ full' = (disk.sweep = "never" \/ disk.config # cfg)
  /\ pc' = "labels"
  /\ UNCHANGED <<inputs, machine, disk, labels, todo, cur, hash, newFails,
                 newSudoBlocks, history>>

\* loadApplyState, the config's hash, and whether a full sweep is due.
LoadState ==
  /\ pc = "idle"
  /\ mem' = disk
  /\ seen' = cfg
  /\ full' = (disk.sweep # "recent" \/ disk.config # cfg)
  /\ pc' = "labels"
  /\ UNCHANGED <<inputs, machine, disk, labels, todo, cur, hash, newFails,
                 newSudoBlocks, history>>

\* Mutant of LoadLabels: the config is hashed after its labels are read, from
\* a file that may have changed in between.
LabelsOfOldConfig ==
  /\ pc = "labels"
  /\ labels' = (seen \in Labelled)
  /\ seen' = cfg
  /\ todo' = Recipes
  /\ pc' = "next"
  /\ UNCHANGED <<inputs, machine, disk, mem, full, cur, hash, newFails,
                 newSudoBlocks, history>>

\* nodeLabelsFor reads the config again; discoverRecipes lists the files.
LoadLabels ==
  /\ pc = "labels"
  /\ labels' = (cfg \in Labelled)
  /\ todo' = Recipes
  /\ pc' = "next"
  /\ UNCHANGED <<inputs, machine, disk, mem, full, seen, cur, hash, newFails,
                 newSudoBlocks, history>>

\* An unchanged recipe is skipped unless it failed or a sweep is due.
Unchanged(r) ==
  /\ ~full
  /\ mem.recipes[r].status \in {"ok", "na"}
  /\ mem.recipes[r].hash = file[r]

\* The next recipe: its hash, and the skip of an unchanged one.
HashRecipe(r) ==
  /\ pc = "next" /\ r \in todo
  /\ todo' = todo \ {r}
  /\ IF Unchanged(r)
     THEN UNCHANGED <<pc, cur, hash>>
     ELSE pc' = "parse" /\ cur' = r /\ hash' = file[r]
  /\ UNCHANGED <<inputs, machine, disk, mem, full, seen, labels, newFails,
                 newSudoBlocks, history>>

Put(r, status, sudo) ==
  [mem EXCEPT !.recipes[r] = [hash |-> hash, status |-> status, sudo |-> sudo]]

\* The recipe at hand is seen as something else than failed.
NotFailed == told' = told \ {cur} /\ UNCHANGED alerted

\* ReadFile and parseRecipe: an unmarked recipe is left alone, and one whose
\* labels this node lacks is recorded as not applicable.
ParseRecipe ==
  /\ pc = "parse"
  /\ IF file[cur] \in Marked /\ (file[cur] \in Gated => labels)
     THEN pc' = "exec" /\ UNCHANGED <<mem, history>>
     ELSE /\ pc' = "next"
          /\ IF file[cur] \in Marked
             THEN mem' = Put(cur, "na", FALSE) /\ NotFailed
             ELSE UNCHANGED <<mem, history>>
  /\ UNCHANGED <<inputs, machine, disk, locals>>

\* What a run of version v of r may leave when it fails or is cut short.
Partly(r, v) == {applied[r], IF applied[r] = v THEN v ELSE None}

\* The child, recipe run <file>, reads the file and the node's labels anew
\* and exits 0 when its label filters skip it.
ChildSkips == ~Applies(file[cur], cfg)

ChildSucceeds ==
  /\ pc = "exec"
  /\ ChildSkips \/ host[cur] = "fine"
  /\ applied' = IF ChildSkips THEN applied ELSE [applied EXCEPT ![cur] = file[cur]]
  /\ mem' = Put(cur, "ok", FALSE) /\ NotFailed
  /\ pc' = "next"
  /\ UNCHANGED <<inputs, orphans, disk, locals>>

\* The child exits non-zero; fresh and blocked say whether cur joins newFails
\* and newSudoBlocks.
ChildFailsAs(fresh, blocked) ==
  /\ pc = "exec"
  /\ ~ChildSkips /\ host[cur] # "fine"
  /\ \E left \in Partly(cur, file[cur]) : applied' = [applied EXCEPT ![cur] = left]
  /\ mem' = Put(cur, "failed", host[cur] = "needs-sudo")
  /\ newFails' = newFails \cup {r \in {cur} : fresh}
  /\ newSudoBlocks' = newSudoBlocks \cup {r \in {cur} : blocked}
  /\ pc' = "next"
  /\ UNCHANGED <<inputs, orphans, disk, full, seen, labels, todo, cur, hash,
                 history>>

\* Mutant of ChildFails: a failure on record is put up for the alert again.
ChildFailsAlways == ChildFailsAs(TRUE, host[cur] = "needs-sudo")

\* A failure is new unless one is on record.
NewFailure == mem.recipes[cur].status # "failed"

\* Mutant of ChildFails: every sudo block is put up for the DM.
ChildFailsDMsEach == ChildFailsAs(NewFailure, host[cur] = "needs-sudo")

\* A sudo block is new only as part of a new failure.
ChildFails ==
  ChildFailsAs(NewFailure, NewFailure /\ host[cur] = "needs-sudo")

\* What saveApplyState writes, beside the old file and renamed over it.
Save(state) ==
  /\ pc = "next" /\ todo = {}
  /\ disk' = state
  /\ alerted' = {r \in alerted : state.recipes[r].status = "failed"}
  /\ pc' = "alert"
  /\ UNCHANGED <<inputs, machine, mem, locals, told>>

Swept == IF full THEN [mem EXCEPT !.sweep = "recent", !.config = seen] ELSE mem

\* Mutant of SaveState: an uneventful cycle is not worth a write.
SaveSweepsOnly == Save(IF full THEN Swept ELSE disk)

\* saveApplyState; a directory, write or rename that fails goes unnoticed, and
\* leaves the old file as it was.
SaveState ==
  \/ Save(Swept)
  \/ "nosave" \in Faults /\ Save(disk)

\* The webhook, tried once: a send that fails is only logged.
SendAlert ==
  /\ pc = "alert"
  /\ \/ /\ alerted' = alerted \cup
                        {r \in newFails : disk.recipes[r].status = "failed"}
        /\ told' = told \cup newFails
     \/ UNCHANGED history
  /\ pc' = "dm"
  /\ UNCHANGED <<inputs, machine, disk, mem, locals>>

\* The sudo-block DM, and the end of the cycle.
SendDM ==
  /\ pc = "dm"
  /\ CycleOver
  /\ UNCHANGED <<inputs, machine, disk, history>>

Cycle ==
  \/ LoadState \/ LoadLabels
  \/ \E r \in Recipes : HashRecipe(r)
  \/ ParseRecipe \/ ChildSucceeds \/ ChildFails
  \/ SaveState \/ SendAlert \/ SendDM

(***************************************************************************)
(* Faults and time.                                                        *)
(***************************************************************************)
\* os.Executable fails: the cycle returns, and nothing is saved.
NoExecutable ==
  /\ "noexe" \in Faults
  /\ pc = "exec"
  /\ CycleOver
  /\ UNCHANGED <<inputs, machine, disk, history>>

\* The agent's process image is replaced; a running child lives on.
Restart ==
  /\ "restart" \in Faults
  /\ CycleOver
  /\ \/ orphans' = orphans
     \/ /\ pc = "exec" /\ ~ChildSkips
        /\ orphans' = orphans \cup {<<cur, file[cur]>>}
  /\ UNCHANGED <<inputs, applied, disk, history>>

\* An orphan completes its recipe, or ends at its next write to the pipe that
\* nobody reads any more.
OrphanEnds(r, v) ==
  /\ <<r, v>> \in orphans
  /\ orphans' = orphans \ {<<r, v>>}
  /\ \E left \in Partly(r, v) \cup {v} : applied' = [applied EXCEPT ![r] = left]
  /\ UNCHANGED <<inputs, disk, mem, pc, locals, history>>

\* The host goes down, in the middle of a child's work perhaps.
Crash ==
  /\ "crash" \in Faults
  /\ CycleOver
  /\ orphans' = {}
  /\ \/ applied' = applied
     \/ /\ pc = "exec" /\ ~ChildSkips
        /\ \E left \in Partly(cur, file[cur]) \cup {file[cur]} :
             applied' = [applied EXCEPT ![cur] = left]
  /\ UNCHANGED <<inputs, disk, history>>

\* Someone or something changes the machine behind the recipe's back.
Drift(r) ==
  /\ "drift" \in Faults
  /\ applied[r] # None
  /\ applied' = [applied EXCEPT ![r] = None]
  /\ UNCHANGED <<inputs, orphans, disk, mem, pc, locals, history>>

\* Twenty-four hours have passed since the sweep on record.
Day ==
  /\ disk.sweep = "recent"
  /\ disk' = [disk EXCEPT !.sweep = "old"]
  /\ mem' = [mem EXCEPT !.sweep = IF @ = "recent" THEN "old" ELSE @]
  /\ UNCHANGED <<inputs, machine, pc, locals, history>>

(***************************************************************************)
(* The checkout and the machine.                                           *)
(***************************************************************************)
RecipeChange(r) ==
  /\ file[r] < MaxVersion
  /\ file' = [file EXCEPT ![r] = @ + 1]
  /\ UNCHANGED <<cfg, host, machine, disk, mem, pc, locals, history>>

ConfigChange ==
  /\ cfg < MaxConfig
  /\ cfg' = cfg + 1
  /\ UNCHANGED <<file, host, machine, disk, mem, pc, locals, history>>

HostChange(r) ==
  /\ \E m \in Meets \ {host[r]} : host' = [host EXCEPT ![r] = m]
  /\ UNCHANGED <<file, cfg, machine, disk, mem, pc, locals, history>>

Disturbance ==
  \/ NoExecutable \/ Restart \/ Crash
  \/ \E r \in Recipes : Drift(r)

Next ==
  \/ Cycle
  \/ Disturbance
  \/ \E r \in Recipes, v \in Versions : OrphanEnds(r, v)
  \/ Day
  \/ \E r \in Recipes : RecipeChange(r) \/ HostChange(r)
  \/ ConfigChange

Spec == Init /\ [][Next]_vars

(***************************************************************************)
(* Fairness: the ticker starts a cycle and the cycle goes on (one child at *)
(* a time, each of which ends), a day passes, an orphan ends.              *)
(***************************************************************************)
Fairness ==
  /\ WF_vars(Cycle)
  /\ WF_vars(Day)
  /\ \A r \in Recipes, v \in Versions : WF_vars(OrphanEnds(r, v))

FairSpec == Spec /\ Fairness

(***************************************************************************)
(* Properties.                                                             *)
(***************************************************************************)
\* What a cycle may skip needs no run: with the config unchanged since the
\* last full sweep, a recipe on record as ok or not applicable under its
\* current hash is either not for this node or in place on the machine.  The
\* hash, the parse, the child and the labels each read a file of their own
\* moment; a skip that trusts a mix of them would last until the next sweep.
SkipIsSound ==
  pc = "idle" /\ disk.config = cfg =>
    \A r \in Recipes :
      /\ disk.recipes[r].status \in {"ok", "na"}
      /\ disk.recipes[r].hash = file[r]
      /\ file[r] \in Marked /\ Applies(file[r], cfg)
      => applied[r] = file[r]

\* A failure on record is not alerted again: once the alert went out and the
\* failure was saved, no later cycle alerts it before a state that has the
\* recipe recovered (or not applicable) was saved, whatever cycles are cut short
\* and whatever saves fail (apply.go, "failed recipes retry silently").
NoRepeatedAlert == [][SendAlert => newFails \cap alerted = {}]_vars

\* One alert per failure: a recipe that was alerted is not alerted again before
\* a cycle found it in another state (apply.go: "one alert per new failure, not
\* one per cycle").
OneAlertPerFailure == [][SendAlert => newFails \cap told = {}]_vars

\* From some point on no restart, no crash and no drift, and runs succeed.  (A
\* restart before the DM is no different from the end of the cycle.)
Settled ==
  /\ <>[][Disturbance => Cycle]_vars
  /\ <>[](\A r \in Recipes : host[r] = "fine")

\* The machine converges and stays so: once disturbances stop, every recipe
\* that is marked and meant for this node gets applied in its last version,
\* drift and the late work of orphans included ("that's the drift heal").
Converges ==
  Settled =>
    \A r \in Recipes :
      <>[](file[r] \in Marked /\ Applies(file[r], cfg) => applied[r] = file[r])

=============================================================================
