--------------------------- MODULE ApplyLoopProofs ---------------------------
(***************************************************************************)
(* Theorems about ApplyLoop: its type invariant; that no failure on record *)
(* is alerted again, whatever the faults, and none at all while saves      *)
(* succeed; and that what a cycle may skip is in place, on a host where no *)
(* child outlives its agent and nothing but the recipes touches the        *)
(* machine.                                                                *)
(***************************************************************************)
EXTENDS ApplyLoop, TLAPS

(***************************************************************************)
(* Type correctness.                                                       *)
(***************************************************************************)
\* What loadApplyState returns without a file is a state.
LEMMA FreshType == Fresh \in State
BY DEF Fresh, State, NoEntry, Entry, None

\* Noting a recipe's outcome keeps the state a state.
LEMMA PutType ==
  ASSUME mem \in State, hash \in Versions \cup {None},
         NEW r \in Recipes, NEW status \in {"none", "ok", "failed", "na"},
         NEW sudo \in BOOLEAN
  PROVE  Put(r, status, sudo) \in State
BY DEF Put, State, Entry

\* The agent starts with every recipe unknown.
LEMMA InitType == Init => TypeOK
<1> SUFFICES ASSUME Init PROVE TypeOK
  OBVIOUS
<1>1. 1 \in Versions /\ 1 \in Configs
  BY BoundsPositive DEF Versions, Configs
<1>2. /\ file \in [Recipes -> Versions]
      /\ applied \in [Recipes -> Versions \cup {None}]
  BY <1>1 DEF Init
<1> QED
  BY <1>1, <1>2, FreshType DEF Init, TypeOK, Steps

\* The end of a cycle forgets its locals.
LEMMA CycleOverType ==
  ASSUME CycleOver
  PROVE  /\ mem' \in State /\ pc' \in Steps /\ full' \in BOOLEAN
         /\ labels' \in BOOLEAN /\ seen' \in Configs \cup {None}
         /\ todo' \subseteq Recipes /\ cur' \in Recipes \cup {NoRecipe}
         /\ (pc' \in {"parse", "exec"} => cur' \in Recipes)
         /\ hash' \in Versions \cup {None}
         /\ newFails' \subseteq Recipes /\ newSudoBlocks' \subseteq newFails'
BY FreshType DEF CycleOver, Steps

\* The cycle's own steps keep the types.
LEMMA CycleType ==
  ASSUME TypeOK, Cycle
  PROVE  TypeOK'
<1> USE DEF TypeOK, Steps, inputs, machine, locals, history
<1>1. CASE LoadState
  BY <1>1 DEF LoadState, State
<1>2. CASE LoadLabels
  BY <1>2 DEF LoadLabels
<1>3. ASSUME NEW r \in Recipes, HashRecipe(r) PROVE TypeOK'
  BY <1>3 DEF HashRecipe
<1>4. CASE ParseRecipe
  <2>1. Put(cur, "na", FALSE) \in State
    BY <1>4, PutType DEF ParseRecipe
  <2> QED
    BY <1>4, <2>1 DEF ParseRecipe, NotFailed
<1>5. CASE ChildSucceeds
  <2>1. Put(cur, "ok", FALSE) \in State
    BY <1>5, PutType DEF ChildSucceeds
  <2> QED
    BY <1>5, <2>1 DEF ChildSucceeds, NotFailed
<1>6. CASE ChildFails
  <2>1. Put(cur, "failed", host[cur] = "needs-sudo") \in State
    BY <1>6, PutType DEF ChildFails, ChildFailsAs
  <2>2. applied' \in [Recipes -> Versions \cup {None}]
    BY <1>6 DEF ChildFails, ChildFailsAs, Partly
  <2> QED
    BY <1>6, <2>1, <2>2 DEF ChildFails, ChildFailsAs, NewFailure
<1>7. CASE SaveState
  <2>1. [mem EXCEPT !.sweep = "recent", !.config = seen] \in State
    BY DEF State
  <2> QED
    BY <1>7, <2>1 DEF SaveState, Save, Swept
<1>8. CASE SendAlert
  BY <1>8 DEF SendAlert
<1>9. CASE SendDM
  BY <1>9, CycleOverType DEF SendDM
<1> QED
  BY <1>1, <1>2, <1>3, <1>4, <1>5, <1>6, <1>7, <1>8, <1>9 DEF Cycle

\* So do faults, time and the environment.
LEMMA OtherType ==
  ASSUME TypeOK, [Next]_vars, ~Cycle
  PROVE  TypeOK'
<1> USE DEF TypeOK, Steps, inputs, machine, locals, history
<1>1. CASE NoExecutable
  BY <1>1, CycleOverType DEF NoExecutable
<1>2. CASE Restart
  BY <1>2, CycleOverType DEF Restart
<1>3. CASE Crash
  <2>1. applied' \in [Recipes -> Versions \cup {None}]
    BY <1>3 DEF Crash, Partly
  <2> QED
    BY <1>3, <2>1, CycleOverType DEF Crash
<1>4. ASSUME NEW r \in Recipes, Drift(r) PROVE TypeOK'
  BY <1>4 DEF Drift
<1>5. ASSUME NEW r \in Recipes, NEW v \in Versions, OrphanEnds(r, v)
      PROVE  TypeOK'
  BY <1>5 DEF OrphanEnds, Partly
<1>6. CASE Day
  <2>1. /\ [disk EXCEPT !.sweep = "old"] \in State
        /\ [mem EXCEPT !.sweep = IF @ = "recent" THEN "old" ELSE @] \in State
    BY DEF State
  <2> QED
    BY <1>6, <2>1 DEF Day
<1>7. ASSUME NEW r \in Recipes, RecipeChange(r) PROVE TypeOK'
  BY <1>7, BoundsPositive DEF RecipeChange, Versions
<1>8. ASSUME NEW r \in Recipes, HostChange(r) PROVE TypeOK'
  BY <1>8 DEF HostChange
<1>9. CASE ConfigChange
  BY <1>9, BoundsPositive DEF ConfigChange, Configs
<1>10. CASE UNCHANGED vars
  BY <1>10 DEF vars
<1> QED
  BY <1>1, <1>2, <1>3, <1>4, <1>5, <1>6, <1>7, <1>8, <1>9, <1>10
     DEF Next, Disturbance

\* Every reachable state is well typed; a sudo block put up for the DM is
\* always one of the cycle's new failures.
THEOREM TypeCorrect == Spec => []TypeOK
<1>1. TypeOK /\ [Next]_vars => TypeOK'
  BY CycleType, OtherType
<1> QED
  BY <1>1, InitType, PTL DEF Spec

(***************************************************************************)
(* No failure is alerted twice.                                            *)
(***************************************************************************)
Failed(state) == {r \in Recipes : state.recipes[r].status = "failed"}
Walking       == pc \in {"next", "parse", "exec"}

\* The recipes whose outcome the cycle has still to note.
Pending == todo \cup {r \in {cur} : pc \in {"parse", "exec"}}

\* Only a failure on disk counts as alerted, a new failure is one the disk does
\* not have until SaveState, and the cycle's copy differs from the disk only in
\* what the cycle has come past.  A save that fails changes none of this.
AlertInv ==
  /\ alerted \subseteq Failed(disk)
  /\ pc \in {"idle", "labels"} => newFails = {}
  /\ pc = "labels" => mem.recipes = disk.recipes
  /\ pc \in {"parse", "exec"} => cur \notin todo
  /\ Walking =>
       /\ \A r \in Pending : mem.recipes[r] = disk.recipes[r]
       /\ newFails \subseteq Recipes \ Pending
       /\ newFails \cap Failed(disk) = {}
  /\ pc = "alert" => newFails \subseteq Recipes /\ newFails \cap alerted = {}

\* The cycle's steps keep AlertInv.
LEMMA AlertCycle ==
  ASSUME TypeOK, AlertInv, Cycle
  PROVE  AlertInv'
<1> USE DEF AlertInv, Failed, Walking, Pending, inputs, machine, locals,
           history
<1>1. CASE LoadState
  BY <1>1 DEF LoadState
<1>2. CASE LoadLabels
  BY <1>2 DEF LoadLabels
<1>3. ASSUME NEW r \in Recipes, HashRecipe(r) PROVE AlertInv'
  BY <1>3 DEF HashRecipe
<1>4. CASE ParseRecipe
  BY <1>4 DEF ParseRecipe, NotFailed, Put, TypeOK, State
<1>5. CASE ChildSucceeds
  BY <1>5 DEF ChildSucceeds, NotFailed, Put, TypeOK, State
<1>6. CASE ChildFails
  BY <1>6 DEF ChildFails, ChildFailsAs, NewFailure, Put, TypeOK, State, Entry
<1>7. CASE SaveState
  BY <1>7 DEF SaveState, Save, Swept, TypeOK, State
<1>8. CASE SendAlert
  BY <1>8 DEF SendAlert
<1>9. CASE SendDM
  BY <1>9 DEF SendDM, CycleOver
<1> QED
  BY <1>1, <1>2, <1>3, <1>4, <1>5, <1>6, <1>7, <1>8, <1>9 DEF Cycle

\* So does everything else: a cycle cut short forgets its new failures.
LEMMA AlertOther ==
  ASSUME TypeOK, AlertInv, [Next]_vars, ~Cycle
  PROVE  AlertInv'
<1> USE DEF AlertInv, Failed, Walking, Pending, inputs, machine, locals,
           history
<1>1. CASE NoExecutable \/ Restart \/ Crash
  BY <1>1 DEF NoExecutable, Restart, Crash, CycleOver
<1>2. CASE \E r \in Recipes : Drift(r)
  BY <1>2 DEF Drift
<1>3. CASE \E r \in Recipes, v \in Versions : OrphanEnds(r, v)
  BY <1>3 DEF OrphanEnds
<1>4. CASE Day
  BY <1>4 DEF Day, TypeOK, State
<1>5. CASE \E r \in Recipes : RecipeChange(r) \/ HostChange(r)
  BY <1>5 DEF RecipeChange, HostChange
<1>6. CASE ConfigChange
  BY <1>6 DEF ConfigChange
<1>7. CASE UNCHANGED vars
  BY <1>7 DEF vars
<1> QED
  BY <1>1, <1>2, <1>3, <1>4, <1>5, <1>6, <1>7 DEF Next, Disturbance

\* A failure on record is not alerted again before a recovery was saved, whatever
\* restarts, crashes, aborted cycles and failed saves come in between.
THEOREM AlertedOnce == Spec => NoRepeatedAlert
<1>1. Init => AlertInv
  BY DEF Init, AlertInv, Failed, Walking, Fresh, NoEntry
<1>2. TypeOK /\ AlertInv /\ [Next]_vars => AlertInv'
  BY AlertCycle, AlertOther
<1>3. AlertInv => [SendAlert => newFails \cap alerted = {}]_vars
  BY DEF AlertInv, SendAlert
<1> QED
  BY <1>1, <1>2, <1>3, TypeCorrect, PTL DEF Spec, NoRepeatedAlert

\* While saves succeed, a recipe that was told is on record as failed, and has
\* failed for the cycle at work until that finds it otherwise.
ToldInv ==
  /\ told \subseteq Failed(disk)
  /\ Walking => told \subseteq Failed(mem) /\ newFails \subseteq Failed(mem)
  /\ pc = "alert" => newFails \subseteq Failed(disk) /\ newFails \cap told = {}

\* The cycle's steps keep ToldInv when SaveState cannot fail.
LEMMA ToldCycle ==
  ASSUME "nosave" \notin Faults, TypeOK, AlertInv, ToldInv, Cycle
  PROVE  ToldInv'
<1> USE DEF AlertInv, ToldInv, Failed, Walking, Pending, inputs, machine,
            locals, history
<1>1. CASE LoadState
  BY <1>1 DEF LoadState
<1>2. CASE LoadLabels
  BY <1>2 DEF LoadLabels
<1>3. ASSUME NEW r \in Recipes, HashRecipe(r) PROVE ToldInv'
  BY <1>3 DEF HashRecipe
<1>4. CASE ParseRecipe
  BY <1>4 DEF ParseRecipe, NotFailed, Put, TypeOK, State
<1>5. CASE ChildSucceeds
  BY <1>5 DEF ChildSucceeds, NotFailed, Put, TypeOK, State
<1>6. CASE ChildFails
  BY <1>6 DEF ChildFails, ChildFailsAs, NewFailure, Put, TypeOK, State, Entry
<1>7. CASE SaveState
  <2>1. Save(Swept)
    BY <1>7 DEF SaveState
  <2>2. Swept.recipes = mem.recipes
    BY DEF Swept, TypeOK, State
  <2>3. disk' = Swept /\ pc' = "alert" /\ Walking /\ UNCHANGED <<told, newFails>>
    BY <2>1 DEF Save
  <2> QED
    BY <2>2, <2>3 DEF TypeOK
<1>8. CASE SendAlert
  BY <1>8 DEF SendAlert
<1>9. CASE SendDM
  BY <1>9 DEF SendDM, CycleOver
<1> QED
  BY <1>1, <1>2, <1>3, <1>4, <1>5, <1>6, <1>7, <1>8, <1>9 DEF Cycle

\* Nothing else tells anybody anything, or saves.
LEMMA ToldOther ==
  ASSUME TypeOK, ToldInv, [Next]_vars, ~Cycle
  PROVE  ToldInv'
<1> USE DEF ToldInv, Failed, Walking, inputs, machine, locals, history
<1>1. CASE NoExecutable \/ Restart \/ Crash
  BY <1>1 DEF NoExecutable, Restart, Crash, CycleOver
<1>2. CASE \/ \E r \in Recipes : Drift(r)
           \/ \E r \in Recipes, v \in Versions : OrphanEnds(r, v)
  BY <1>2 DEF Drift, OrphanEnds
<1>3. CASE Day
  BY <1>3 DEF Day, TypeOK, State
<1>4. CASE \E r \in Recipes : RecipeChange(r) \/ HostChange(r)
  BY <1>4 DEF RecipeChange, HostChange
<1>5. CASE ConfigChange
  BY <1>5 DEF ConfigChange
<1>6. CASE UNCHANGED vars
  BY <1>6 DEF vars
<1> QED
  BY <1>1, <1>2, <1>3, <1>4, <1>5, <1>6 DEF Next, Disturbance

\* On a host where the state file can be written, one alert per failure is the
\* rule: a recipe is alerted again only after a cycle has found it otherwise,
\* whatever restarts, crashes and aborted cycles come in between.
THEOREM OneAlertWhenSaved ==
  ASSUME "nosave" \notin Faults
  PROVE  Spec => OneAlertPerFailure
<1>1. Init => AlertInv /\ ToldInv
  BY DEF Init, AlertInv, ToldInv, Failed, Walking, Fresh, NoEntry
<1>2. TypeOK /\ AlertInv /\ [Next]_vars => AlertInv'
  BY AlertCycle, AlertOther
<1>3. TypeOK /\ AlertInv /\ ToldInv /\ [Next]_vars => ToldInv'
  BY ToldCycle, ToldOther
<1>4. ToldInv => [SendAlert => newFails \cap told = {}]_vars
  BY DEF ToldInv, SendAlert
<1> QED
  BY <1>1, <1>2, <1>3, <1>4, TypeCorrect, PTL DEF Spec, OneAlertPerFailure

(***************************************************************************)
(* What may be skipped is in place.                                        *)
(***************************************************************************)
\* No child outlives its agent, and only the recipes change the machine.
Undisturbed == Faults \cap {"restart", "drift"} = {}

InCycle == pc \in {"labels", "next", "parse", "exec"}

\* Hashes and configs on record are of files seen before: since no version
\* comes back, one that differs now never fits again.
Older ==
  /\ \A r \in Recipes : disk.recipes[r].hash <= file[r]
  /\ disk.config <= cfg
  /\ InCycle => seen <= cfg /\ \A r \in Recipes : mem.recipes[r].hash <= file[r]
  /\ pc \in {"parse", "exec"} => hash <= file[cur]

\* The cycle's copy differs from the disk in what the cycle has come past, and
\* one that is not a full sweep found the config on record.
Copied ==
  /\ InCycle /\ ~full => disk.config = seen /\ mem.config = seen
  /\ pc = "labels" => mem.recipes = disk.recipes
  /\ pc \in {"parse", "exec"} => cur \notin todo
  /\ Walking => \A r \in Pending : mem.recipes[r] = disk.recipes[r]

\* The cycle read the labels of the config it hashed, unless that changed.
Labels == Walking /\ seen = cfg => (labels <=> cfg \in Labelled)

\* The record of a recipe lets a cycle skip its version v, one to be applied
\* under config c.
Skippable(entry, v, c) ==
  /\ entry.status \in {"ok", "na"} /\ entry.hash = v
  /\ v \in Marked /\ Applies(v, c)

\* What the disk lets a cycle skip is in place, under the config it names; ...
DiskTruth ==
  disk.config = cfg =>
    \A r \in Recipes :
      Skippable(disk.recipes[r], file[r], cfg) => applied[r] = file[r]

\* ... and so is what the cycle came past, if it noted it under that config.
MemTruth ==
  Walking /\ seen = cfg =>
    \A r \in Recipes \ Pending :
      Skippable(mem.recipes[r], file[r], cfg) => applied[r] = file[r]

\* No child outlives its agent.
NoOrphans == orphans = {}

\* The inductive invariant behind SkipIsSound.
SkipInv == Older /\ Copied /\ Labels /\ NoOrphans /\ DiskTruth /\ MemTruth

\* Nothing on record is of a version still to come.
LEMMA OlderStep ==
  ASSUME TypeOK, Copied, Older, [Next]_vars
  PROVE  Older'
<1> USE DEF Older, InCycle, inputs, machine, locals
<1>0. /\ \A r \in Recipes : file[r] \in Nat
      /\ cfg \in Nat /\ disk.config \in Nat
      /\ \A r \in Recipes : /\ disk.recipes[r].hash \in Nat
                            /\ mem.recipes[r].hash \in Nat
  BY DEF TypeOK, State, Entry, Versions, Configs, None
<1>1. CASE LoadState
  BY <1>0, <1>1 DEF LoadState
<1>2. CASE LoadLabels
  BY <1>2 DEF LoadLabels
<1>3. ASSUME NEW r \in Recipes, HashRecipe(r) PROVE Older'
  BY <1>0, <1>3 DEF HashRecipe
<1>4. CASE ParseRecipe
  BY <1>4 DEF ParseRecipe, Put, TypeOK, State
<1>5. CASE ChildSucceeds
  BY <1>5 DEF ChildSucceeds, Put, TypeOK, State
<1>6. CASE ChildFails
  BY <1>6 DEF ChildFails, ChildFailsAs, Put, TypeOK, State
<1>7. CASE SaveState
  <2>1. ~full => mem.config = disk.config
    BY <1>7 DEF SaveState, Save, Swept, Copied
  <2> QED
    BY <1>7, <2>1 DEF SaveState, Save, Swept, TypeOK, State
<1>8. CASE SendAlert \/ SendDM
  BY <1>8 DEF SendAlert, SendDM, CycleOver
<1>9. CASE NoExecutable \/ Restart \/ Crash
  BY <1>9 DEF NoExecutable, Restart, Crash, CycleOver
<1>10. CASE \/ \E r \in Recipes : Drift(r)
            \/ \E r \in Recipes, v \in Versions : OrphanEnds(r, v)
  BY <1>10 DEF Drift, OrphanEnds
<1>11. CASE Day
  BY <1>11 DEF Day, TypeOK, State
<1>12. ASSUME NEW r \in Recipes, RecipeChange(r) PROVE Older'
  <2>1. /\ file' \in [Recipes -> Nat]
        /\ \A q \in Recipes : \A n \in Nat : n <= file[q] => n <= file'[q]
    BY <1>0, <1>12 DEF RecipeChange, TypeOK
  <2>2. pc \in {"parse", "exec"} => cur \in Recipes /\ hash \in Nat
    BY DEF TypeOK, Versions, None
  <2> QED
    BY <1>0, <1>12, <2>1, <2>2 DEF RecipeChange
<1>13. CASE \E r \in Recipes : HostChange(r)
  BY <1>13 DEF HostChange
<1>14. CASE ConfigChange
  <2>1. InCycle => seen \in Nat
    BY DEF TypeOK, Configs, None
  <2> QED
    BY <1>0, <1>14, <2>1 DEF ConfigChange
<1>15. CASE UNCHANGED vars
  BY <1>15 DEF vars
<1> QED
  BY <1>1, <1>2, <1>3, <1>4, <1>5, <1>6, <1>7, <1>8, <1>9, <1>10, <1>11, <1>12,
     <1>13, <1>14, <1>15 DEF Next, Cycle, Disturbance

\* The cycle's copy is the disk's but for what it came past.
LEMMA CopiedStep ==
  ASSUME TypeOK, Copied, [Next]_vars
  PROVE  Copied'
<1> USE DEF Copied, InCycle, Walking, Pending, inputs, machine, locals,
           history
<1>1. CASE LoadState
  BY <1>1 DEF LoadState
<1>2. CASE LoadLabels
  BY <1>2 DEF LoadLabels
<1>3. ASSUME NEW r \in Recipes, HashRecipe(r) PROVE Copied'
  BY <1>3 DEF HashRecipe
<1>4. CASE ParseRecipe
  BY <1>4 DEF ParseRecipe, Put, TypeOK, State
<1>5. CASE ChildSucceeds
  BY <1>5 DEF ChildSucceeds, Put, TypeOK, State
<1>6. CASE ChildFails
  BY <1>6 DEF ChildFails, ChildFailsAs, Put, TypeOK, State
<1>7. CASE SaveState \/ SendAlert \/ SendDM
  BY <1>7 DEF SaveState, Save, Swept, SendAlert, SendDM, CycleOver
<1>8. CASE NoExecutable \/ Restart \/ Crash
  BY <1>8 DEF NoExecutable, Restart, Crash, CycleOver
<1>9. CASE \/ \E r \in Recipes : Drift(r)
           \/ \E r \in Recipes, v \in Versions : OrphanEnds(r, v)
  BY <1>9 DEF Drift, OrphanEnds
<1>10. CASE Day
  BY <1>10 DEF Day, TypeOK, State
<1>11. CASE \E r \in Recipes : RecipeChange(r) \/ HostChange(r)
  BY <1>11 DEF RecipeChange, HostChange
<1>12. CASE ConfigChange
  BY <1>12 DEF ConfigChange
<1>13. CASE UNCHANGED vars
  BY <1>13 DEF vars
<1> QED
  BY <1>1, <1>2, <1>3, <1>4, <1>5, <1>6, <1>7, <1>8, <1>9, <1>10, <1>11, <1>12,
     <1>13 DEF Next, Cycle, Disturbance

\* The labels in hand are those of the config hashed, or the config moved on.
LEMMA LabelsStep ==
  ASSUME TypeOK, Older, Labels, [Next]_vars
  PROVE  Labels'
<1> USE DEF Labels, Walking, inputs, machine, locals
<1>1. CASE LoadState
  BY <1>1 DEF LoadState
<1>2. CASE LoadLabels
  BY <1>2 DEF LoadLabels
<1>3. CASE \E r \in Recipes : HashRecipe(r)
  BY <1>3 DEF HashRecipe
<1>4. CASE ParseRecipe
  BY <1>4 DEF ParseRecipe
<1>5. CASE ChildSucceeds \/ ChildFails
  BY <1>5 DEF ChildSucceeds, ChildFails, ChildFailsAs
<1>6. CASE SaveState \/ SendAlert \/ SendDM
  BY <1>6 DEF SaveState, Save, Swept, SendAlert, SendDM, CycleOver
<1>7. CASE NoExecutable \/ Restart \/ Crash
  BY <1>7 DEF NoExecutable, Restart, Crash, CycleOver
<1>8. CASE \/ \E r \in Recipes : Drift(r)
           \/ \E r \in Recipes, v \in Versions : OrphanEnds(r, v)
           \/ Day
  BY <1>8 DEF Drift, OrphanEnds, Day
<1>9. CASE \E r \in Recipes : RecipeChange(r) \/ HostChange(r)
  BY <1>9 DEF RecipeChange, HostChange
<1>10. CASE ConfigChange
  <2>1. Walking => seen # cfg'
    BY <1>10 DEF ConfigChange, Older, InCycle, TypeOK, Configs, None
  <2> QED
    BY <1>10, <2>1 DEF ConfigChange
<1>11. CASE UNCHANGED vars
  BY <1>11 DEF vars
<1> QED
  BY <1>1, <1>2, <1>3, <1>4, <1>5, <1>6, <1>7, <1>8, <1>9, <1>10, <1>11
     DEF Next, Cycle, Disturbance

\* Without restarts in place every child dies with its agent.
LEMMA NoOrphansStep ==
  ASSUME Undisturbed, NoOrphans, [Next]_vars
  PROVE  NoOrphans'
BY DEF Undisturbed, NoOrphans, Next, Cycle, Disturbance, LoadState, LoadLabels,
       HashRecipe, ParseRecipe, ChildSucceeds, ChildFails, ChildFailsAs,
       SaveState, Save, SendAlert, SendDM, NoExecutable, Restart, OrphanEnds, Crash,
       Drift, Day, RecipeChange, ConfigChange, HostChange, vars, inputs,
       machine, locals

\* A run of a recipe that is in place, complete or not, leaves it there.
LEMMA InPlaceStays ==
  ASSUME TypeOK, Undisturbed, NoOrphans, [Next]_vars,
         NEW r \in Recipes, applied[r] = file[r], file'[r] = file[r]
  PROVE  applied'[r] = file'[r]
<1> USE DEF TypeOK, inputs, machine, locals
<1>1. CASE Cycle
  BY <1>1 DEF Cycle, LoadState, LoadLabels, HashRecipe, ParseRecipe,
     ChildSucceeds, ChildFails, ChildFailsAs, Partly, SaveState, Save, SendAlert, SendDM
<1>2. CASE Disturbance
  BY <1>2 DEF Disturbance, NoExecutable, Restart, Crash, Partly, Drift, Undisturbed
<1>3. CASE ~Cycle /\ ~Disturbance
  BY <1>3 DEF Next, OrphanEnds, NoOrphans, Day, RecipeChange, HostChange,
     ConfigChange, vars
<1> QED
  BY <1>1, <1>2, <1>3

\* A recipe that a record lets a cycle skip after a step was the same file
\* under the same config before it: neither has a version that comes back.
LEMMA SkippableBefore ==
  ASSUME TypeOK, [Next]_vars, NEW r \in Recipes, NEW entry \in Entry,
         entry.hash <= file[r], Skippable(entry, file'[r], cfg'), cfg' = cfg
  PROVE  file'[r] = file[r]
<1>1. file'[r] = file[r] \/ file'[r] = file[r] + 1
  BY DEF TypeOK, Next, Cycle, Disturbance, LoadState, LoadLabels,
     HashRecipe, ParseRecipe, ChildSucceeds, ChildFails, ChildFailsAs,
     SaveState, Save, SendAlert, SendDM, NoExecutable, Restart, OrphanEnds, Crash,
     Drift, Day, RecipeChange, ConfigChange, HostChange, vars, inputs
<1>2. file[r] \in Nat /\ entry.hash \in Nat
  BY DEF TypeOK, Entry, Versions, None
<1> QED
  BY <1>1, <1>2 DEF Skippable

\* The config is the same, or one version on.
LEMMA ConfigForward == [Next]_vars => cfg' = cfg \/ cfg' = cfg + 1
BY DEF Next, Cycle, Disturbance, LoadState, LoadLabels,
   HashRecipe, ParseRecipe, ChildSucceeds, ChildFails, ChildFailsAs,
   SaveState, Save, SendAlert, SendDM, NoExecutable, Restart, OrphanEnds, Crash,
   Drift, Day, RecipeChange, ConfigChange, HostChange, vars, inputs

\* Only a save changes what the disk says of a recipe or of the config, and
\* one that fails does not.
LEMMA DiskKept ==
  ASSUME TypeOK, [Next]_vars, ~Save(Swept)
  PROVE  disk'.recipes = disk.recipes /\ disk'.config = disk.config
<1>1. CASE SaveState
  BY <1>1 DEF SaveState, Save
<1>2. CASE ~SaveState
  BY <1>2 DEF TypeOK, State, Next, Cycle, Disturbance, LoadState, LoadLabels,
   HashRecipe, ParseRecipe, ChildSucceeds, ChildFails, ChildFailsAs,
   SendAlert, SendDM, NoExecutable, Restart, OrphanEnds, Crash,
   Drift, Day, RecipeChange, ConfigChange, HostChange, vars, machine, locals
<1> QED
  BY <1>1, <1>2

\* What the disk lets a cycle skip stays in place.
LEMMA DiskTruthStep ==
  ASSUME TypeOK, Undisturbed, NoOrphans, Older, Copied, DiskTruth, MemTruth,
         [Next]_vars
  PROVE  DiskTruth'
<1>1. CASE Save(Swept)
  <2>1. Walking /\ Pending = {}
    BY <1>1 DEF Save, Walking, Pending
  <2>2. disk'.config = seen /\ disk'.recipes = mem.recipes
    BY <1>1 DEF Save, Swept, Copied, InCycle, TypeOK, State
  <2>3. UNCHANGED <<file, cfg, applied>>
    BY <1>1 DEF Save, inputs, machine
  <2> QED
    BY <2>1, <2>2, <2>3 DEF DiskTruth, MemTruth, Skippable, Applies
<1>2. CASE ~Save(Swept)
  <2> SUFFICES ASSUME disk'.config = cfg', NEW r \in Recipes,
                      Skippable(disk'.recipes[r], file'[r], cfg')
               PROVE  applied'[r] = file'[r]
    BY DEF DiskTruth, Skippable, Applies
  <2>1. disk'.recipes[r] = disk.recipes[r] /\ disk'.config = disk.config
    BY <1>2, DiskKept
  <2>2. cfg' = cfg /\ disk.config = cfg
    BY <2>1, ConfigForward DEF Older, TypeOK, State, Configs, None
  <2>3. disk.recipes[r] \in Entry /\ disk.recipes[r].hash <= file[r]
    BY DEF TypeOK, State, Older
  <2>4. Skippable(disk.recipes[r], file'[r], cfg')
    BY <2>1 DEF Skippable, Applies
  <2>5. Skippable(disk.recipes[r], file[r], cfg) /\ file'[r] = file[r]
    BY <2>2, <2>3, <2>4, SkippableBefore
  <2>6. applied[r] = file[r]
    BY <2>2, <2>5 DEF DiskTruth
  <2> QED
    BY <2>5, <2>6, InPlaceStays
<1> QED
  BY <1>1, <1>2

\* What the cycle came past lets a later cycle skip only what is in place.
LEMMA MemTruthStep ==
  ASSUME TypeOK, Undisturbed, NoOrphans, Older, Copied, Labels, DiskTruth,
         MemTruth, [Next]_vars
  PROVE  MemTruth'
<1> SUFFICES ASSUME Walking', seen' = cfg', NEW r \in Recipes \ Pending',
                    Skippable(mem'.recipes[r], file'[r], cfg')
             PROVE  applied'[r] = file'[r]
  BY DEF MemTruth, Skippable, Applies
<1> USE DEF Walking, Pending, inputs, machine, locals,
           history
<1>1. ASSUME NEW q \in Recipes, HashRecipe(q) PROVE applied'[r] = file'[r]
  <2>1. UNCHANGED <<file, cfg, applied, mem, seen, full>> /\ Walking
    BY <1>1 DEF HashRecipe
  <2>2. Skippable(mem.recipes[r], file[r], cfg)
    BY <2>1 DEF Skippable, Applies
  <2>3. CASE r \notin Pending
    BY <2>1, <2>2, <2>3 DEF MemTruth
  <2>4. CASE r \in Pending
    <3>1. r = q /\ Unchanged(q)
      BY <1>1, <2>4 DEF HashRecipe
    <3>2. disk.config = cfg /\ mem.recipes[r] = disk.recipes[r]
      BY <2>1, <2>4, <3>1 DEF Unchanged, Copied, InCycle
    <3> QED
      BY <2>1, <2>2, <3>2 DEF DiskTruth
  <2> QED
    BY <2>3, <2>4
<1>2. CASE ParseRecipe
  <2>1. UNCHANGED <<file, cfg, applied, seen>> /\ Walking
    BY <1>2 DEF ParseRecipe
  <2>2. CASE r = cur
    <3>1. ~(file[cur] \in Marked /\ (file[cur] \in Gated => labels))
      <4>1. cur \notin Pending'
        BY <2>2
      <4>2. cur' = cur /\ pc' # "exec"
        BY <1>2, <4>1 DEF ParseRecipe
      <4> QED
        BY <1>2, <4>2, Zenon DEF ParseRecipe
    <3>2. ~(file[cur] \in Marked /\ Applies(file[cur], cfg))
      <4>1. seen = cfg
        BY <2>1
      <4>2. labels <=> cfg \in Labelled
        BY <2>1, <4>1, Zenon DEF Labels
      <4> QED
        BY <3>1, <4>2, Zenon DEF Applies
    <3> QED
      BY <2>1, <2>2, <3>2 DEF Skippable, Applies
  <2>3. CASE r # cur
    <3>1. r \in Recipes \ Pending /\ mem'.recipes[r] = mem.recipes[r]
      BY <1>2, <2>3 DEF ParseRecipe, Put, TypeOK, State
    <3> QED
      BY <2>1, <3>1 DEF MemTruth, Skippable, Applies
  <2> QED
    BY <2>2, <2>3
<1>3. CASE ChildSucceeds \/ ChildFails
  <2>1. UNCHANGED <<file, cfg, seen>> /\ Walking
    BY <1>3 DEF ChildSucceeds, ChildFails, ChildFailsAs
  <2>2. CASE r = cur
    <3>1. CASE ChildSucceeds
      <4>1. CASE ChildSkips
        BY <2>1, <2>2, <4>1 DEF Skippable, Applies, ChildSkips
      <4>2. CASE ~ChildSkips
        BY <2>1, <2>2, <3>1, <4>2 DEF ChildSucceeds, TypeOK
      <4> QED
        BY <4>1, <4>2
    <3>2. CASE ChildFails
      BY <2>2, <3>2 DEF ChildFails, ChildFailsAs, Put, Skippable, TypeOK, State
    <3> QED
      BY <1>3, <3>1, <3>2
  <2>3. CASE r # cur
    <3>1. /\ r \in Recipes \ Pending /\ mem'.recipes[r] = mem.recipes[r]
          /\ applied'[r] = applied[r]
      BY <1>3, <2>3 DEF ChildSucceeds, ChildFails, ChildFailsAs, Put, TypeOK, State
    <3> QED
      BY <2>1, <3>1 DEF MemTruth, Skippable, Applies
  <2> QED
    BY <2>2, <2>3
<1>4. CASE \/ LoadState \/ LoadLabels \/ SaveState \/ SendAlert \/ SendDM
           \/ NoExecutable \/ Restart \/ Crash
  BY <1>4 DEF LoadState, LoadLabels, SaveState, Save, SendAlert, SendDM, NoExecutable,
              Restart, Crash, CycleOver
<1>5. CASE \/ \E q \in Recipes : Drift(q) \/ RecipeChange(q) \/ HostChange(q)
           \/ \E q \in Recipes, v \in Versions : OrphanEnds(q, v)
           \/ Day \/ ConfigChange \/ UNCHANGED vars
  <2>1. /\ UNCHANGED <<pc, seen, todo, cur>>
        /\ mem'.recipes = mem.recipes
    BY <1>5 DEF Drift, RecipeChange, HostChange, OrphanEnds, Day, ConfigChange,
                vars, TypeOK, State
  <2>2. cfg' = cfg
    BY <2>1, ConfigForward DEF Older, InCycle, TypeOK, Configs, None
  <2>3. mem.recipes[r] \in Entry /\ mem.recipes[r].hash <= file[r]
    BY <2>1 DEF TypeOK, State, Older, InCycle
  <2>4. Skippable(mem.recipes[r], file'[r], cfg')
    BY <2>1 DEF Skippable, Applies
  <2>5. Skippable(mem.recipes[r], file[r], cfg) /\ file'[r] = file[r]
    BY <2>2, <2>3, <2>4, SkippableBefore
  <2>6. applied[r] = file[r]
    BY <2>1, <2>2, <2>5 DEF MemTruth
  <2> QED
    BY <2>5, <2>6, InPlaceStays
<1> QED
  BY <1>1, <1>2, <1>3, <1>4, <1>5 DEF Next, Cycle, Disturbance

\* On a host whose agent is not restarted in place and whose machine does not
\* drift, a recipe that a cycle may skip is in place: no mix of hashes, labels
\* and child runs of different moments outlives the cycle that made it.
THEOREM SkipSound ==
  ASSUME Undisturbed
  PROVE  Spec => []SkipIsSound
<1>1. Init => SkipInv
  BY DEF Init, Older, Copied, Labels, NoOrphans, DiskTruth, MemTruth, Skippable,
         SkipInv, Walking, InCycle, Fresh, NoEntry, None
<1>2. TypeOK /\ SkipInv /\ [Next]_vars => SkipInv'
  BY OlderStep, CopiedStep, LabelsStep, NoOrphansStep, DiskTruthStep, MemTruthStep
     DEF SkipInv
<1>3. SkipInv => SkipIsSound
  <2> SUFFICES ASSUME SkipInv, disk.config = cfg, NEW r \in Recipes,
                      disk.recipes[r].status \in {"ok", "na"},
                      disk.recipes[r].hash = file[r],
                      file[r] \in Marked, Applies(file[r], cfg)
               PROVE  applied[r] = file[r]
    BY DEF SkipIsSound
  <2> QED
    BY DEF SkipInv, DiskTruth, Skippable
<1> QED
  BY <1>1, <1>2, <1>3, TypeCorrect, PTL DEF Spec

=============================================================================
