-------------------------- MODULE LocalRunsProofs ---------------------------
(***************************************************************************)
(* Theorems about a node's recipe runs and test suites over the shared     *)
(* store, for any processes, recipes, test modules, labels and attributes. *)
(* First the store's own invariant; then what each operator of RecipeRun   *)
(* makes of a process, and the invariant of a run; then the suites; then   *)
(* Inv, which joins them all with what a run that is writing writes.       *)
(***************************************************************************)
EXTENDS LocalRuns, TLAPS

(***************************************************************************)
(* The attribute store: as long as whoever persists drops nothing it read, *)
(* writes that neither overlap nor are cut short forget nothing.           *)
(***************************************************************************)
\* While nothing has gone wrong at most one process is persisting; all that was
\* stored is in the file, or with the process that has truncated it.
Carried ==
  ~disturbed =>
    /\ \A p, q \in Process : io[p].at # "out" /\ io[q].at # "out" => p = q
    /\ \A p \in Process : io[p].at = "open" => file.body = "empty"
    /\ \A p \in Process : io[p].at # "out" => kept \subseteq Given(io[p].map.attrs)
    /\ AtRest => kept \subseteq Given(file.map.attrs)

StoreInv == StoreTypeOK /\ Carried

LEMMA EmptyContent == NoContent \in Content
BY DEF NoContent, Content, NoAttrs, Map, NoSummary, Summary

LEMMA StoreInvInit == StoreInit => StoreInv
<1> SUFFICES ASSUME StoreInit PROVE StoreInv
  OBVIOUS
<1>1. StoreTypeOK
  BY EmptyContent DEF StoreInit, StoreTypeOK, Body
<1>2. Carried
  BY DEF StoreInit, Carried
<1> QED
  BY <1>1, <1>2 DEF StoreInv

\* The reads and writes of one process keep the types.
LEMMA StoreTypeStep == StoreTypeOK /\ [StoreNext]_storeVars => StoreTypeOK'
<1> SUFFICES ASSUME StoreTypeOK, [StoreNext]_storeVars PROVE StoreTypeOK'
  OBVIOUS
<1> USE EmptyContent DEF StoreTypeOK
<1>1. ASSUME NEW p \in Process, Persists(p) PROVE StoreTypeOK'
  <2>1. PICK m \in Content : io' = [io EXCEPT ![p] = [at |-> "merged", map |-> m]]
    BY <1>1 DEF Persists
  <2>2. disturbed' \in BOOLEAN
    BY <1>1 DEF Persists
  <2> QED
    BY <1>1, <2>1, <2>2 DEF Persists
<1>2. ASSUME NEW p \in Process, OpenStore(p) PROVE StoreTypeOK'
  BY <1>2 DEF OpenStore, Body
<1>3. ASSUME NEW p \in Process, OpenFails(p) \/ DieWriting(p) PROVE StoreTypeOK'
  <2>1. io' = [io EXCEPT ![p] = [at |-> "out", map |-> NoContent]] /\ UNCHANGED <<file, kept>>
    BY <1>3 DEF OpenFails, DieWriting
  <2>2. disturbed' \in BOOLEAN
    BY <1>3 DEF OpenFails, DieWriting
  <2> QED
    BY <2>1, <2>2
<1>4. ASSUME NEW p \in Process, EncodeStore(p) PROVE StoreTypeOK'
  <2>1. file' \in [body : Body, map : Content] /\ (file'.body # "whole" => file'.map = NoContent)
    BY <1>4 DEF EncodeStore, Body
  <2>2. kept' \subseteq Attr
    BY <1>4 DEF EncodeStore, Given
  <2> QED
    BY <1>4, <2>1, <2>2 DEF EncodeStore
<1>5. CASE UNCHANGED storeVars
  BY <1>5 DEF storeVars
<1> QED
  BY <1>1, <1>2, <1>3, <1>4, <1>5 DEF StoreNext

\* Nothing is lost on the way through a process.
LEMMA CarriedStep == StoreInv /\ [StoreNext]_storeVars => Carried'
<1> SUFFICES ASSUME StoreTypeOK, Carried, [StoreNext]_storeVars, ~disturbed' PROVE Carried'
  BY DEF StoreInv, Carried
<1> USE DEF StoreTypeOK, Carried, AtRest
<1>1. ASSUME NEW p \in Process, Persists(p) PROVE Carried'
  <2>1. \A q \in Process \ {p} : io[q].at = "out" /\ io'[q] = io[q]
    BY <1>1 DEF Persists
  <2>2. kept \subseteq Given(file.map.attrs) /\ kept' = kept /\ file' = file /\ AtRest'
    BY <1>1, <2>1 DEF Persists
  <2>3. io'[p].at = "merged" /\ kept \subseteq Given(io'[p].map.attrs)
    BY <1>1, <2>2 DEF Persists, ReadDeviceAttrs
  <2> QED
    BY <2>1, <2>2, <2>3
<1>2. ASSUME NEW p \in Process, OpenStore(p) PROVE Carried'
  BY <1>2 DEF OpenStore
<1>3. ASSUME NEW p \in Process, DieWriting(p) PROVE Carried'
  BY <1>3 DEF DieWriting
<1>4. ASSUME NEW p \in Process, EncodeStore(p) PROVE Carried'
  <2>1. \A q \in Process : io'[q].at = "out"
    BY <1>4 DEF EncodeStore
  <2>2. file'.map = io[p].map /\ kept' = kept \cup Given(io[p].map.attrs)
    BY <1>4 DEF EncodeStore
  <2> QED
    BY <1>4, <2>1, <2>2 DEF EncodeStore
<1>5. ASSUME NEW p \in Process, OpenFails(p) PROVE FALSE
  BY <1>5 DEF OpenFails
<1>6. CASE UNCHANGED storeVars
  BY <1>6 DEF storeVars, Given
<1> QED
  BY <1>1, <1>2, <1>3, <1>4, <1>5, <1>6 DEF StoreNext

\* The store's own promise: once a finished write has stored an attribute, every
\* reader finds it, unless two writes overlapped or one was cut short
\* (persistTestAttrs and persistRecipeAttrs merge into the live store).
THEOREM StoreForgetsNothing == StoreSpec => [](StoreTypeOK /\ NothingForgotten)
<1>1. StoreInv /\ [StoreNext]_storeVars => StoreInv'
  BY StoreTypeStep, CarriedStep DEF StoreInv
<1>2. StoreInv => StoreTypeOK /\ NothingForgotten
  BY DEF StoreInv, Carried, NothingForgotten, ReadDeviceAttrs
<1> QED
  BY StoreInvInit, <1>1, <1>2, PTL DEF StoreSpec

(***************************************************************************)
(* A recipe's run.                                                         *)
(***************************************************************************)
File   == DOMAIN RecipeFile
Steps(r) == RecipeFile[r.recipe].steps

RunState ==
  [stage : Stages, sweep : BOOLEAN, dry : BOOLEAN, todo : Seq(File),
   recipe : File \cup {NoRecipe}, step : Nat, attempt : Nat, attrs : Map,
   seen : Summary, set : Map, bad : Nat, keep : BOOLEAN, ok : Nat,
   failed : Nat, skipped : Nat, failedAt : File \cup {NoRecipe}, exit : Exits,
   given : Nat, manual : Nat]

\* Where a process is: a file still to take, or a recipe and one of its steps.
Placed(r) ==
  /\ r.stage = "load" => r.todo # << >> /\ r.step = 0 /\ r.set = NoAttrs
  /\ r.stage \in {"step", "leave", "write"} =>
       r.recipe \in File /\ r.step <= Len(Steps(r)) + 1
  /\ r.stage = "step" => r.step >= 1

\* What it holds: every attribute it set, and nothing to persist when it leaves
\* without.
Holding(r) ==
  /\ \A a \in Given(r.set) : r.attrs[a] = r.set[a]
  /\ r.stage = "leave" => r.keep \/ r.dry \/ Given(r.set) = {}

\* What a sweep has counted: every recipe it was given but those still to come
\* and the one it is in.
Tally(r) == r.ok + r.failed + r.skipped + r.manual
Counted(r) ==
  r.sweep =>
    /\ r.stage \in {"load", "leave", "write", "exit"} => Tally(r) + Len(r.todo) = r.given
    /\ r.stage = "step" => Tally(r) + Len(r.todo) + 1 = r.given
    /\ r.failedAt = NoRecipe <=> r.failed = 0
    /\ r.stage # "exit" => r.exit = "ok"
    /\ r.stage = "exit" => r.todo = << >> /\ (r.exit = "failed" <=> r.failed > 0)

RunOK(r) == r \in RunState /\ Placed(r) /\ Holding(r) /\ Counted(r)

\* With no write of the store begun.
Settled(r) == RunOK(r) /\ r.stage # "write"

LEMMA NoAttrsGiven == NoAttrs \in Map /\ Given(NoAttrs) = {} /\ NoSummary \in Summary
BY DEF NoAttrs, Map, Given, NoSummary, Summary

LEMMA StepsOfFile ==
  ASSUME NEW f \in File
  PROVE  /\ Len(RecipeFile[f].steps) \in Nat
         /\ DOMAIN RecipeFile[f].steps = 1..Len(RecipeFile[f].steps)
BY RecipesParsed DEF File

LEMMA IdleOK == RunOK(Idle)
BY NoAttrsGiven, RecipesParsed DEF Idle, RunOK, RunState, Placed, Holding, Counted, Stages, Exits, File

(***************************************************************************)
(* What the operators make of a process.                                   *)
(***************************************************************************)
\* A process inside a recipe, and the counters of a sweep that has counted the
\* recipe it is in.
Inside(r) ==
  /\ r \in RunState /\ r.recipe \in File /\ r.step <= Len(Steps(r)) + 1
  /\ \A a \in Given(r.set) : r.attrs[a] = r.set[a]

CountedHere(r) ==
  r.sweep => /\ Tally(r) + Len(r.todo) = r.given
             /\ r.failedAt = NoRecipe <=> r.failed = 0
             /\ r.exit = "ok"

\* It leaves with what it set, and keeps its counters.
LEMMA LeavingOK ==
  ASSUME NEW r, Inside(r), CountedHere(r)
  PROVE  Settled(Leaving(r))
<1>1. Leaving(r) \in RunState
  BY DEF Inside, Leaving, RunState, Stages
<1>2. /\ Leaving(r).stage = "leave" /\ Leaving(r).recipe = r.recipe
      /\ Leaving(r).step = r.step /\ Leaving(r).set = r.set /\ Leaving(r).attrs = r.attrs
      /\ Leaving(r).dry = r.dry /\ Leaving(r).keep = (~r.dry /\ Given(r.set) # {})
      /\ Leaving(r).sweep = r.sweep /\ Leaving(r).todo = r.todo /\ Leaving(r).ok = r.ok
      /\ Leaving(r).failed = r.failed /\ Leaving(r).skipped = r.skipped
      /\ Leaving(r).manual = r.manual /\ Leaving(r).given = r.given
      /\ Leaving(r).failedAt = r.failedAt /\ Leaving(r).exit = r.exit
  BY DEF Inside, Leaving, RunState
<1>3. Placed(Leaving(r))
  BY <1>2 DEF Inside, Placed, Steps
<1>4. Holding(Leaving(r))
  BY <1>2 DEF Inside, Holding
<1>5. Counted(Leaving(r))
  BY <1>2 DEF CountedHere, Counted, Tally
<1> QED
  BY <1>1, <1>2, <1>3, <1>4, <1>5 DEF RunOK, Settled

\* After a step it is at the next, or behind the last.
LEMMA StepOverOK ==
  ASSUME NEW r, RunOK(r), r.stage = "step", r.step <= Len(Steps(r))
  PROVE  Settled(StepOver(r))
<1>1. r.step + 1 <= Len(Steps(r)) + 1 /\ r.step + 1 >= 1 /\ r.step + 1 \in Nat
  <2>1. r.recipe \in File /\ r.step \in Nat /\ r.step >= 1
    BY DEF RunOK, Placed, RunState
  <2>2. Len(Steps(r)) \in Nat
    BY <2>1, StepsOfFile DEF Steps
  <2> QED
    BY <2>1, <2>2
<1>2. StepOver(r) \in RunState
  BY <1>1 DEF RunOK, StepOver, RunState
<1>3. /\ StepOver(r).stage = "step" /\ StepOver(r).recipe = r.recipe
      /\ StepOver(r).step = r.step + 1 /\ StepOver(r).set = r.set
      /\ StepOver(r).attrs = r.attrs
      /\ StepOver(r).sweep = r.sweep /\ StepOver(r).todo = r.todo
      /\ StepOver(r).ok = r.ok /\ StepOver(r).failed = r.failed
      /\ StepOver(r).skipped = r.skipped /\ StepOver(r).manual = r.manual
      /\ StepOver(r).given = r.given /\ StepOver(r).failedAt = r.failedAt
      /\ StepOver(r).exit = r.exit
  BY DEF RunOK, StepOver, RunState
<1>4. Placed(StepOver(r))
  BY <1>1, <1>3 DEF RunOK, Placed, Steps
<1>5. Holding(StepOver(r))
  BY <1>3 DEF RunOK, Holding
<1>6. Counted(StepOver(r))
  BY <1>3 DEF RunOK, Counted, Tally
<1> QED
  BY <1>2, <1>3, <1>4, <1>5, <1>6 DEF RunOK, Settled

\* Still in its step.
InStep(r)     == RunOK(r) /\ r.stage = "step" /\ r.step <= Len(Steps(r))
SameStep(q, r) == q.stage = r.stage /\ q.recipe = r.recipe /\ q.step = r.step

LEMMA SameStepIn ==
  ASSUME NEW q, NEW r, RunOK(q), SameStep(q, r), InStep(r)
  PROVE  InStep(q)
BY DEF SameStep, InStep, Steps

LEMMA BadOK ==
  ASSUME NEW r, InStep(r)
  PROVE  InStep([r EXCEPT !.bad = @ + 1])
<1> DEFINE q == [r EXCEPT !.bad = @ + 1]
<1>0. r \in RunState /\ r.bad + 1 \in Nat
  <2>1. r \in RunState
    BY DEF InStep, RunOK
  <2>2. r.bad \in Nat
    BY <2>1 DEF RunState
  <2> QED
    BY <2>1, <2>2
<1>1. q \in RunState
  BY <1>0 DEF RunState
<1>2. /\ SameStep(q, r) /\ q.set = r.set /\ q.attrs = r.attrs /\ q.dry = r.dry
      /\ q.keep = r.keep /\ q.sweep = r.sweep /\ q.todo = r.todo /\ q.ok = r.ok
      /\ q.failed = r.failed /\ q.skipped = r.skipped /\ q.manual = r.manual
      /\ q.given = r.given /\ q.failedAt = r.failedAt /\ q.exit = r.exit
  BY DEF InStep, RunOK, RunState, SameStep
<1>3. Placed(q)
  BY <1>2 DEF InStep, RunOK, Placed, Steps, SameStep
<1>4. Holding(q)
  BY <1>2 DEF InStep, RunOK, Holding, SameStep
<1>5. Counted(q)
  BY <1>2 DEF InStep, RunOK, Counted, Tally, SameStep
<1>6. RunOK(q)
  BY <1>1, <1>3, <1>4, <1>5 DEF RunOK
<1> HIDE DEF q
<1> QED
  BY <1>2, <1>6, SameStepIn DEF q

\* What a step gathers is a value for some attributes.
Gathering(g) == DOMAIN g \subseteq Attr /\ \A a \in DOMAIN g : g[a] \in Value

LEMMA GathersValues ==
  ASSUME NEW s, s.asserts \cup s.output \cup s.captures \subseteq Attr,
         NEW g \in Gathers(s) \cup [s.asserts \cup s.output -> Value]
  PROVE  Gathering(g)
<1>1. PICK A \in SUBSET Attr : g \in [A -> Value]
  BY DEF Gathers
<1> QED
  BY <1>1 DEF Gathering

\* It is both kept and marked for the store.
LEMMA GatheredOK ==
  ASSUME NEW r, InStep(r), NEW g, Gathering(g)
  PROVE  InStep(Gathered(r, g))
<1> DEFINE m == Noted(g, r.attrs)
           k == Noted(g, r.set)
           q == [r EXCEPT !.attrs = m, !.set = k]
<1>0. r \in RunState /\ r.attrs \in Map /\ r.set \in Map
  BY DEF InStep, RunOK, RunState
<1>1. m \in Map /\ k \in Map
  BY <1>0 DEF Map, Noted, Gathering
<1>2. \A a \in Attr : m[a] = k[a] \/ (m[a] = r.attrs[a] /\ k[a] = r.set[a])
  BY DEF Noted
<1>3. Gathered(r, g) = q
  BY <1>0 DEF Gathered, RunState
<1> HIDE DEF m, k
<1>4. q \in RunState
  BY <1>0, <1>1 DEF RunState
<1>5. /\ SameStep(q, r) /\ q.sweep = r.sweep /\ q.todo = r.todo /\ q.ok = r.ok
      /\ q.failed = r.failed /\ q.skipped = r.skipped /\ q.manual = r.manual
      /\ q.given = r.given /\ q.failedAt = r.failedAt /\ q.exit = r.exit
      /\ q.attrs = m /\ q.set = k
  BY <1>0 DEF RunState, SameStep
<1> HIDE DEF q
<1>6. Placed(q)
  BY <1>5 DEF InStep, RunOK, Placed, Steps, SameStep
<1>7. Holding(q)
  <2>1. \A a \in Given(r.set) : r.attrs[a] = r.set[a]
    BY DEF InStep, RunOK, Holding
  <2>2. \A a \in Given(q.set) : q.attrs[a] = q.set[a]
    BY <1>2, <1>5, <2>1 DEF Given
  <2>3. q.stage = "step"
    BY <1>5 DEF SameStep, InStep
  <2> QED
    BY <2>2, <2>3 DEF Holding
<1>8. Counted(q)
  BY <1>5 DEF InStep, RunOK, Counted, Tally, SameStep
<1>9. RunOK(q)
  BY <1>4, <1>6, <1>7, <1>8 DEF RunOK
<1> QED
  BY <1>3, <1>5, <1>9, SameStepIn

\* An abort in a sweep: the recipe is counted as failed, and named.
LEMMA AbortSweepOK ==
  ASSUME NEW r, InStep(r), r.sweep
  PROVE  Settled(Leaving([r EXCEPT !.failed = @ + 1, !.failedAt = r.recipe]))
<1> DEFINE q == [r EXCEPT !.failed = @ + 1, !.failedAt = r.recipe]
<1>1. r \in RunState /\ r.recipe \in File /\ r.step <= Len(Steps(r)) + 1
  BY DEF InStep, RunOK, Placed
<1>2. r.failed \in Nat /\ r.ok \in Nat /\ r.skipped \in Nat /\ r.manual \in Nat
  BY <1>1 DEF RunState
<1>3. Tally(r) + Len(r.todo) + 1 = r.given /\ r.exit = "ok"
  BY DEF InStep, RunOK, Counted
<1>4. r.failed + 1 \in Nat /\ r.failed + 1 # 0
  BY <1>2
<1>5. q \in RunState
  BY <1>1, <1>4 DEF RunState
<1>6. /\ q.set = r.set /\ q.attrs = r.attrs /\ q.recipe = r.recipe /\ q.step = r.step
      /\ q.sweep = r.sweep /\ q.todo = r.todo /\ q.ok = r.ok /\ q.failed = r.failed + 1
      /\ q.skipped = r.skipped /\ q.manual = r.manual /\ q.given = r.given
      /\ q.failedAt = r.recipe /\ q.exit = r.exit
  BY <1>1 DEF RunState
<1> HIDE DEF q
<1>7. Inside(q)
  BY <1>1, <1>5, <1>6 DEF Inside, Steps, InStep, RunOK, Holding
<1>8. Tally(q) + Len(q.todo) = q.given
  <2> DEFINE l == Len(r.todo)
             t == r.ok + r.failed + r.skipped + r.manual
  <2>1. l \in Nat
    BY <1>1 DEF RunState
  <2>2. t \in Nat /\ r.ok + (r.failed + 1) + r.skipped + r.manual = t + 1
    BY <1>2
  <2>3. Tally(q) = t + 1 /\ Tally(r) = t
    BY <1>6, <2>2 DEF Tally
  <2>4. q.given = t + l + 1 /\ Len(q.todo) = l
    BY <1>3, <1>6, <2>3
  <2> HIDE DEF l, t
  <2>5. (t + 1) + l = t + l + 1
    BY <2>1, <2>2
  <2> QED
    BY <2>3, <2>4, <2>5
<1>9. q.failedAt # NoRecipe /\ q.failed # 0
  BY <1>1, <1>4, <1>6, RecipesParsed DEF File
<1>10. CountedHere(q)
  BY <1>3, <1>6, <1>8, <1>9 DEF CountedHere
<1> QED
  BY <1>7, <1>10, LeavingOK DEF q

\* A single run's, with exit code 1.
LEMMA AbortSingleOK ==
  ASSUME NEW r, InStep(r), ~r.sweep
  PROVE  Settled(Leaving([r EXCEPT !.exit = "failed"]))
<1> DEFINE q == [r EXCEPT !.exit = "failed"]
<1>1. r \in RunState /\ r.recipe \in File /\ r.step <= Len(Steps(r)) + 1
  BY DEF InStep, RunOK, Placed
<1>2. q \in RunState
  BY <1>1 DEF RunState, Exits
<1>3. /\ q.set = r.set /\ q.attrs = r.attrs /\ q.recipe = r.recipe /\ q.step = r.step
      /\ q.sweep = r.sweep
  BY <1>1 DEF RunState
<1> HIDE DEF q
<1>4. Inside(q)
  BY <1>1, <1>2, <1>3 DEF Inside, Steps, InStep, RunOK, Holding
<1>5. CountedHere(q)
  BY <1>3 DEF CountedHere
<1> QED
  BY <1>4, <1>5, LeavingOK DEF q

LEMMA AbortOnExitOK ==
  ASSUME NEW r, InStep(r)
  PROVE  Settled(AbortOnExit(r))
BY AbortSweepOK, AbortSingleOK DEF AbortOnExit

LEMMA ExitedOK ==
  ASSUME NEW r
  PROVE  Settled(Exited(r))
<1> DEFINE q == [Idle EXCEPT !.stage = "exit", !.exit = "refused"]
<1>1. Idle \in RunState
  BY IdleOK DEF RunOK
<1>2. q \in RunState
  BY <1>1 DEF RunState, Stages, Exits
<1>3. q.stage = "exit" /\ q.exit = "refused" /\ q.sweep = Idle.sweep /\ q.set = Idle.set
  BY <1>1 DEF RunState
<1>4. ~Idle.sweep /\ Idle.set = NoAttrs
  BY DEF Idle
<1> HIDE DEF q
<1>5. Placed(q) /\ Holding(q) /\ Counted(q)
  BY <1>3, <1>4, NoAttrsGiven DEF Placed, Holding, Counted
<1> QED
  BY <1>2, <1>3, <1>5 DEF RunOK, Settled, Exited, q

LEMMA AbortMissingOK ==
  ASSUME NEW r, InStep(r)
  PROVE  Settled(AbortMissing(r))
BY AbortSweepOK, ExitedOK DEF AbortMissing

\* Whatever the last attempt's outcome, the process stays one of these.
LEMMA FinishedOK ==
  ASSUME NEW r, InStep(r), NEW s, NEW g, Gathering(g), NEW code
  PROVE  Settled(Finished(r, s, code, g))
<1> DEFINE q == Gathered(r, g)
           b == [q EXCEPT !.bad = @ + 1]
<1>1. InStep(q) /\ InStep(b)
  BY GatheredOK, BadOK
<1> HIDE DEF q, b
<1>2. Settled(StepOver(q)) /\ Settled(StepOver(b)) /\ Settled(AbortOnExit(b))
  BY <1>1, StepOverOK, AbortOnExitOK DEF InStep
<1> QED
  BY <1>2 DEF Finished, q, b

\* The end of the steps, counted by a sweep.
LEMMA EndOK ==
  ASSUME NEW r, RunOK(r), r.stage = "step"
  PROVE  Settled(Leaving(IF r.sweep THEN Tallied(r) ELSE r))
<1>1. r \in RunState /\ Inside(r)
  BY DEF RunOK, Placed, Holding, Inside
<1>2. CASE ~r.sweep
  <2>1. CountedHere(r)
    BY <1>2 DEF CountedHere
  <2> QED
    BY <1>1, <1>2, <2>1, LeavingOK
<1>3. CASE r.sweep
  <2>0. r.failed \in Nat /\ r.ok \in Nat /\ r.skipped \in Nat /\ r.manual \in Nat
    BY <1>1 DEF RunState
  <2>1. r.ok + 1 \in Nat /\ r.failed + 1 \in Nat /\ r.failed + 1 # 0
    BY <2>0
  <2>2. /\ r.exit = "ok" /\ (r.failedAt = NoRecipe <=> r.failed = 0)
        /\ Tally(r) + Len(r.todo) + 1 = r.given
    BY <1>3 DEF RunOK, Counted
  <2>3. /\ (r.ok + 1) + r.failed + r.skipped + r.manual + Len(r.todo) = r.given
        /\ r.ok + (r.failed + 1) + r.skipped + r.manual + Len(r.todo) = r.given
    <3> DEFINE l == Len(r.todo)
               t == r.ok + r.failed + r.skipped + r.manual
    <3>1. l \in Nat
      BY <1>1 DEF RunState
    <3>2. /\ t \in Nat /\ r.ok + (r.failed + 1) + r.skipped + r.manual = t + 1
          /\ (r.ok + 1) + r.failed + r.skipped + r.manual = t + 1
      BY <2>0
    <3>3. Tally(r) = t
      BY DEF Tally
    <3> HIDE DEF l, t
    <3>4. (t + 1) + l = t + l + 1
      BY <3>1, <3>2
    <3>5. t + l + 1 = r.given
      BY <2>2, <3>3 DEF l
    <3> QED
      BY <3>2, <3>4, <3>5 DEF l
  <2>4. CASE r.bad = 0
    <3> DEFINE q == [r EXCEPT !.ok = @ + 1]
    <3>1. q \in RunState
      BY <1>1, <2>1 DEF RunState
    <3>2. /\ q.set = r.set /\ q.attrs = r.attrs /\ q.recipe = r.recipe /\ q.step = r.step
          /\ q.todo = r.todo /\ q.ok = r.ok + 1 /\ q.failed = r.failed
          /\ q.skipped = r.skipped /\ q.manual = r.manual /\ q.given = r.given
          /\ q.failedAt = r.failedAt /\ q.exit = r.exit
      BY <1>1 DEF RunState
    <3>3. Tallied(r) = q
      BY <2>4 DEF Tallied
    <3> HIDE DEF q
    <3>4. Inside(q)
      BY <1>1, <3>1, <3>2 DEF Inside, Steps
    <3>5. Tally(q) + Len(q.todo) = q.given
      BY <2>3, <3>2 DEF Tally
    <3>6. CountedHere(q)
      BY <2>2, <3>2, <3>5 DEF CountedHere
    <3> QED
      BY <1>3, <3>3, <3>4, <3>6, LeavingOK
  <2>5. CASE r.bad # 0
    <3> DEFINE q == [r EXCEPT !.failed = @ + 1,
                       !.failedAt = IF @ = NoRecipe THEN r.recipe ELSE @]
    <3>0. r.recipe \in File /\ r.recipe # NoRecipe
      BY <1>1, RecipesParsed DEF Inside, File
    <3>1. q \in RunState
      BY <1>1, <2>1, <3>0 DEF RunState
    <3>2. /\ q.set = r.set /\ q.attrs = r.attrs /\ q.recipe = r.recipe /\ q.step = r.step
          /\ q.todo = r.todo /\ q.ok = r.ok /\ q.failed = r.failed + 1
          /\ q.skipped = r.skipped /\ q.manual = r.manual /\ q.given = r.given
          /\ q.failedAt = (IF r.failedAt = NoRecipe THEN r.recipe ELSE r.failedAt)
          /\ q.exit = r.exit
      BY <1>1 DEF RunState
    <3>3. Tallied(r) = q
      BY <2>5 DEF Tallied
    <3> HIDE DEF q
    <3>4. Inside(q)
      BY <1>1, <3>1, <3>2 DEF Inside, Steps
    <3>5. q.failedAt # NoRecipe /\ q.failed # 0
      BY <2>1, <3>0, <3>2
    <3>6. Tally(q) + Len(q.todo) = q.given
      BY <2>3, <3>2 DEF Tally
    <3>7. CountedHere(q)
      BY <2>2, <3>2, <3>5, <3>6 DEF CountedHere
    <3> QED
      BY <1>3, <3>3, <3>4, <3>7, LeavingOK
  <2> QED
    BY <2>4, <2>5
<1> QED
  BY <1>2, <1>3

\* Out of a recipe, to the next one or to the exit.
Closed(r) ==
  /\ r \in RunState
  /\ r.sweep => /\ Tally(r) + Len(r.todo) = r.given
                /\ r.failedAt = NoRecipe <=> r.failed = 0
                /\ r.exit = "ok"

LEMMA ReturnedOK ==
  ASSUME NEW r, Closed(r)
  PROVE  Settled(Returned(r))
<1> DEFINE out == [r EXCEPT !.recipe = NoRecipe, !.step = 0, !.attempt = 0,
                       !.attrs = NoAttrs, !.seen = NoSummary, !.set = NoAttrs,
                       !.bad = 0, !.keep = FALSE]
<1>1. r \in RunState
  BY DEF Closed
<1>2. out \in RunState
  BY <1>1, NoAttrsGiven DEF RunState
<1>3. /\ out.recipe = NoRecipe /\ out.step = 0 /\ out.set = NoAttrs /\ out.attrs = NoAttrs
      /\ out.sweep = r.sweep /\ out.todo = r.todo /\ out.ok = r.ok
      /\ out.failed = r.failed /\ out.skipped = r.skipped /\ out.manual = r.manual
      /\ out.given = r.given /\ out.failedAt = r.failedAt /\ out.exit = r.exit
  BY <1>1 DEF RunState
<1>4. Tally(out) = Tally(r)
  BY <1>3 DEF Tally
<1>5. Returned(r) = IF r.sweep /\ r.todo # << >>
                    THEN [out EXCEPT !.stage = "load"]
                    ELSE [out EXCEPT !.stage = "exit",
                            !.exit = IF r.sweep /\ r.failedAt # NoRecipe
                                     THEN "failed" ELSE @]
  BY DEF Returned
<1> HIDE DEF out
<1>6. CASE r.sweep /\ r.todo # << >>
  <2> DEFINE q == [out EXCEPT !.stage = "load"]
  <2>1. q \in RunState
    BY <1>2 DEF RunState, Stages
  <2>2. /\ q.stage = "load" /\ q.step = 0 /\ q.set = NoAttrs /\ q.attrs = NoAttrs
        /\ q.todo = r.todo /\ q.ok = out.ok /\ q.failed = r.failed
        /\ q.skipped = out.skipped /\ q.manual = out.manual /\ out.failed = r.failed
        /\ q.given = r.given /\ q.failedAt = r.failedAt /\ q.exit = r.exit
    BY <1>2, <1>3 DEF RunState
  <2> HIDE DEF q
  <2>3. Tally(q) = Tally(r)
    BY <1>4, <2>2 DEF Tally
  <2>4. Placed(q) /\ Holding(q)
    BY <1>6, <2>2, NoAttrsGiven DEF Placed, Holding
  <2>5. Counted(q)
    BY <1>6, <2>2, <2>3 DEF Counted, Closed
  <2> QED
    BY <1>5, <1>6, <2>1, <2>2, <2>4, <2>5 DEF RunOK, Settled, q
<1>7. CASE ~(r.sweep /\ r.todo # << >>)
  <2> DEFINE q == [out EXCEPT !.stage = "exit",
                     !.exit = IF r.sweep /\ r.failedAt # NoRecipe THEN "failed" ELSE @]
  <2>1. q \in RunState
    BY <1>2 DEF RunState, Stages, Exits
  <2>2. /\ q.stage = "exit" /\ q.set = NoAttrs /\ q.attrs = NoAttrs /\ q.sweep = r.sweep
        /\ q.todo = r.todo /\ q.ok = out.ok /\ q.failed = r.failed
        /\ q.skipped = out.skipped /\ q.manual = out.manual /\ out.failed = r.failed
        /\ q.given = r.given /\ q.failedAt = r.failedAt
        /\ q.exit = (IF r.sweep /\ r.failedAt # NoRecipe THEN "failed" ELSE r.exit)
    BY <1>2, <1>3 DEF RunState
  <2> HIDE DEF q
  <2>3. Tally(q) = Tally(r)
    BY <1>4, <2>2 DEF Tally
  <2>4. Placed(q) /\ Holding(q)
    BY <2>2, NoAttrsGiven DEF Placed, Holding
  <2>5. r.failed \in Nat
    BY <1>1 DEF RunState
  <2>6. r.failed > 0 <=> r.failed # 0
    BY <2>5
  <2>7. Counted(q)
    BY <1>7, <2>2, <2>3, <2>6 DEF Counted, Closed
  <2> QED
    BY <1>5, <1>7, <2>1, <2>2, <2>4, <2>7 DEF RunOK, Settled, q
<1> QED
  BY <1>6, <1>7

\* The next recipe of the list is taken off it.
LEMMA TakingOK ==
  ASSUME NEW r, RunOK(r), r.stage = "load"
  PROVE  /\ Taking(r) \in RunState
         /\ Taking(r).recipe \in File /\ Taking(r).step = 0
         /\ Taking(r).set = NoAttrs /\ Taking(r).sweep = r.sweep
         /\ r.sweep => /\ Tally(Taking(r)) + Len(Taking(r).todo) + 1 = Taking(r).given
                       /\ Taking(r).failedAt = NoRecipe <=> Taking(r).failed = 0
                       /\ Taking(r).exit = "ok"
<1> DEFINE q == [r EXCEPT !.recipe = Head(r.todo), !.todo = Tail(@)]
<1>1. r \in RunState /\ r.todo \in Seq(File) /\ r.todo # << >> /\ r.step = 0 /\ r.set = NoAttrs
  BY DEF RunOK, RunState, Placed
<1>2. /\ Head(r.todo) \in File /\ Tail(r.todo) \in Seq(File)
      /\ Len(Tail(r.todo)) + 1 = Len(r.todo) /\ Len(Tail(r.todo)) \in Nat
  BY <1>1
<1>3. q \in RunState
  BY <1>1, <1>2 DEF RunState
<1>4. /\ q.recipe = Head(r.todo) /\ q.todo = Tail(r.todo) /\ q.step = r.step /\ q.set = r.set
      /\ q.sweep = r.sweep /\ q.ok = r.ok /\ q.failed = r.failed /\ q.skipped = r.skipped
      /\ q.manual = r.manual /\ q.given = r.given /\ q.failedAt = r.failedAt
      /\ q.exit = r.exit
  BY <1>1 DEF RunState
<1>5. Taking(r) = q
  BY DEF Taking
<1> HIDE DEF q
<1>6. Tally(q) = Tally(r)
  BY <1>4 DEF Tally
<1>7. Tally(r) \in Nat
  <2>1. r.failed \in Nat /\ r.ok \in Nat /\ r.skipped \in Nat /\ r.manual \in Nat
    BY <1>1 DEF RunState
  <2> QED
    BY <2>1 DEF Tally
<1>8. ASSUME r.sweep PROVE Tally(q) + Len(q.todo) + 1 = q.given
  <2>1. Tally(r) + Len(r.todo) = r.given
    BY <1>8 DEF RunOK, Counted
  <2> QED
    BY <1>2, <1>4, <1>6, <1>7, <2>1
<1> QED
  BY <1>1, <1>2, <1>3, <1>4, <1>5, <1>8 DEF RunOK, Counted

(***************************************************************************)
(* The steps of the runners.                                               *)
(***************************************************************************)
RunInv ==
  /\ run = [p \in Runner |-> run[p]]
  /\ \A p \in Runner : RunOK(run[p])
  /\ launched \in 0..MaxRuns

LEMMA BecomeOK ==
  ASSUME RunInv, NEW p \in Runner, NEW r, RunOK(r), Become(p, r), launched' \in 0..MaxRuns
  PROVE  RunInv' /\ run'[p] = r
BY DEF RunInv, Become

LEMMA RunInvInit == RunInit => RunInv
BY IdleOK, RunnersPersist DEF RunInit, RunInv

LEMMA LaunchOK ==
  ASSUME RunInv, NEW p \in Runner, Launch(p)
  PROVE  RunInv' /\ run'[p].stage # "write"
<1>0. launched' \in 0..MaxRuns
  <2>1. launched \in 0..MaxRuns /\ MaxRuns \in Nat /\ launched < MaxRuns /\ launched' = launched + 1
    BY RunnersPersist DEF Launch, RunInv
  <2> QED
    BY <2>1
<1>1. Idle \in RunState
  BY IdleOK DEF RunOK
<1>2. ASSUME NEW dry \in BOOLEAN, NEW f \in File
      PROVE  Settled([[Idle EXCEPT !.stage = "load", !.dry = dry] EXCEPT !.todo = <<f>>])
  <2> DEFINE q == [[Idle EXCEPT !.stage = "load", !.dry = dry] EXCEPT !.todo = <<f>>]
  <2>0. <<f>> \in Seq(File)
    OBVIOUS
  <2>1. q \in RunState
    BY <1>1, <2>0 DEF RunState, Stages
  <2>2. /\ q.stage = "load" /\ q.todo = <<f>> /\ q.step = 0 /\ q.set = NoAttrs
        /\ q.attrs = NoAttrs /\ q.sweep = FALSE
    BY DEF Idle
  <2>3. <<f>> # << >>
    OBVIOUS
  <2> HIDE DEF q
  <2>4. Placed(q) /\ Holding(q) /\ Counted(q)
    BY <2>2, <2>3, NoAttrsGiven DEF Placed, Holding, Counted
  <2> QED
    BY <2>1, <2>2, <2>4 DEF RunOK, Settled, q
<1>3. ASSUME NEW dry \in BOOLEAN, DiscoverRecipes # << >>
      PROVE  Settled([[Idle EXCEPT !.stage = "load", !.dry = dry]
                     EXCEPT !.todo = DiscoverRecipes, !.sweep = TRUE,
                            !.given = Len(DiscoverRecipes)])
  <2> DEFINE q == [[Idle EXCEPT !.stage = "load", !.dry = dry]
                    EXCEPT !.todo = DiscoverRecipes, !.sweep = TRUE,
                           !.given = Len(DiscoverRecipes)]
  <2>0. DiscoverRecipes \in Seq(File) /\ Len(DiscoverRecipes) \in Nat
    BY FilesSelected DEF File
  <2>1. q \in RunState
    BY <1>1, <2>0 DEF RunState, Stages
  <2>2. /\ q.stage = "load" /\ q.todo = DiscoverRecipes /\ q.step = 0 /\ q.set = NoAttrs
        /\ q.attrs = NoAttrs /\ q.given = Len(DiscoverRecipes) /\ q.exit = "ok"
        /\ q.ok = 0 /\ q.failed = 0 /\ q.skipped = 0 /\ q.manual = 0 /\ q.failedAt = NoRecipe
    BY DEF Idle
  <2> HIDE DEF q
  <2>3. Tally(q) + Len(q.todo) = q.given
    BY <2>0, <2>2 DEF Tally
  <2>4. Placed(q) /\ Holding(q) /\ Counted(q)
    BY <1>3, <2>2, <2>3, NoAttrsGiven DEF Placed, Holding, Counted
  <2> QED
    BY <2>1, <2>2, <2>4 DEF RunOK, Settled, q
<1>4. PICK r : Become(p, r) /\ Settled(r)
  BY <1>2, <1>3, ExitedOK DEF Launch, File
<1> QED
  BY <1>0, <1>4, BecomeOK DEF Settled

LEMMA SkipParametrizedOK ==
  ASSUME RunInv, NEW p \in Runner, SkipParametrized(p)
  PROVE  RunInv' /\ run'[p].stage # "write"
<1> DEFINE r == Taking(run[p])
           q == [r EXCEPT !.manual = @ + 1]
<1>1. RunOK(run[p]) /\ run[p].stage = "load" /\ run[p].sweep
  BY DEF RunInv, SkipParametrized, At
<1>2. r \in RunState /\ r.sweep /\ Tally(r) + Len(r.todo) + 1 = r.given
      /\ (r.failedAt = NoRecipe <=> r.failed = 0) /\ r.exit = "ok"
  BY <1>1, TakingOK
<1>3. Become(p, Returned(q)) /\ launched' = launched
  BY DEF SkipParametrized
<1> HIDE DEF r
<1>4. r.failed \in Nat /\ r.ok \in Nat /\ r.skipped \in Nat /\ r.manual \in Nat
  BY <1>2 DEF RunState
<1>5. r.manual + 1 \in Nat /\ Len(r.todo) \in Nat
  BY <1>2, <1>4 DEF RunState
<1>6. q \in RunState
  BY <1>2, <1>5 DEF RunState
<1>7. /\ q.todo = r.todo /\ q.ok = r.ok /\ q.failed = r.failed /\ q.skipped = r.skipped
      /\ q.manual = r.manual + 1 /\ q.given = r.given /\ q.failedAt = r.failedAt
      /\ q.exit = r.exit
  BY <1>2 DEF RunState
<1> HIDE DEF q
<1>8. Tally(q) + Len(q.todo) = q.given
  <2> DEFINE t == r.ok + r.failed + r.skipped + r.manual
  <2>1. t \in Nat /\ r.ok + r.failed + r.skipped + (r.manual + 1) = t + 1
    BY <1>4
  <2>2. Tally(q) = t + 1 /\ Tally(r) = t
    BY <1>7, <2>1 DEF Tally
  <2>3. Len(q.todo) = Len(r.todo) /\ q.given = t + Len(r.todo) + 1
    BY <1>2, <1>7, <2>2
  <2> HIDE DEF t
  <2>4. (t + 1) + Len(r.todo) = t + Len(r.todo) + 1
    <3> DEFINE l == Len(r.todo)
    <3>1. t \in Nat /\ l \in Nat
      BY <1>5, <2>1
    <3> HIDE DEF l
    <3>2. (t + 1) + l = t + l + 1
      BY <3>1
    <3> QED
      BY <3>2 DEF l
  <2> QED
    BY <2>2, <2>3, <2>4
<1>9. Settled(Returned(q))
  BY <1>2, <1>6, <1>7, <1>8, ReturnedOK DEF Closed
<1> QED
  BY <1>3, <1>9, BecomeOK DEF RunInv, Settled

LEMMA HydrateOK ==
  ASSUME StoreTypeOK, RunInv, NEW p \in Runner, Hydrate(p)
  PROVE  RunInv' /\ run'[p].stage # "write"
<1> DEFINE t == Taking(run[p])
           r == [t EXCEPT !.attrs = ReadDeviceAttrs.attrs, !.seen = ReadDeviceAttrs.tests]
           in == [r EXCEPT !.stage = "step", !.step = 1]
           past == [r EXCEPT !.skipped = @ + 1]
<1>1. RunOK(run[p]) /\ run[p].stage = "load" /\ launched' = launched
  BY DEF RunInv, Hydrate, At
<1>2. /\ t \in RunState /\ t.recipe \in File /\ t.step = 0 /\ t.set = NoAttrs
      /\ t.sweep => /\ Tally(t) + Len(t.todo) + 1 = t.given
                    /\ t.failedAt = NoRecipe <=> t.failed = 0
                    /\ t.exit = "ok"
  BY <1>1, TakingOK
<1>3. Become(p, in) \/ Become(p, Leaving(past))
  BY DEF Hydrate
<1> HIDE DEF t
<1>4. r \in RunState
  BY <1>2 DEF RunState, StoreTypeOK, ReadDeviceAttrs, Content
<1>5. /\ r.recipe = t.recipe /\ r.step = t.step /\ r.set = t.set /\ r.sweep = t.sweep
      /\ r.todo = t.todo /\ r.ok = t.ok /\ r.failed = t.failed /\ r.skipped = t.skipped
      /\ r.manual = t.manual /\ r.given = t.given /\ r.failedAt = t.failedAt
      /\ r.exit = t.exit
  BY <1>2 DEF RunState
<1>6. Tally(r) = Tally(t)
  BY <1>5 DEF Tally
<1> HIDE DEF r
<1>7. Len(Steps(r)) \in Nat
  BY <1>2, <1>5, StepsOfFile DEF Steps
<1>8. Settled(in)
  <2>1. in \in RunState
    BY <1>4 DEF RunState, Stages
  <2>2. /\ in.stage = "step" /\ in.step = 1 /\ in.recipe = r.recipe /\ in.set = r.set
        /\ in.sweep = r.sweep /\ in.todo = r.todo /\ in.ok = r.ok /\ in.failed = r.failed
        /\ in.skipped = r.skipped /\ in.manual = r.manual /\ in.given = r.given
        /\ in.failedAt = r.failedAt /\ in.exit = r.exit
    BY <1>4 DEF RunState
  <2>3. Tally(in) = Tally(r)
    BY <2>2 DEF Tally
  <2> HIDE DEF in
  <2>4. 1 <= Len(Steps(r)) + 1
    BY <1>7
  <2>5. Placed(in)
    BY <1>2, <1>5, <2>2, <2>4 DEF Placed, Steps
  <2>6. Holding(in)
    BY <1>2, <1>5, <2>2, NoAttrsGiven DEF Holding
  <2>7. Counted(in)
    BY <1>2, <1>5, <1>6, <2>2, <2>3 DEF Counted
  <2> QED
    BY <2>1, <2>2, <2>5, <2>6, <2>7 DEF RunOK, Settled
<1>9. Settled(Leaving(past))
  <2>1. r.failed \in Nat /\ r.ok \in Nat /\ r.skipped \in Nat /\ r.manual \in Nat
    BY <1>4 DEF RunState
  <2>2. r.skipped + 1 \in Nat /\ Len(r.todo) \in Nat
    BY <1>4, <2>1 DEF RunState
  <2>3. past \in RunState
    BY <1>4, <2>2 DEF RunState
  <2>4. /\ past.step = r.step /\ past.recipe = r.recipe /\ past.set = r.set
        /\ past.sweep = r.sweep /\ past.todo = r.todo /\ past.ok = r.ok
        /\ past.failed = r.failed /\ past.skipped = r.skipped + 1 /\ past.manual = r.manual
        /\ past.given = r.given /\ past.failedAt = r.failedAt /\ past.exit = r.exit
    BY <1>4 DEF RunState
  <2> HIDE DEF past
  <2>5. 0 <= Len(Steps(r)) + 1
    BY <1>7
  <2>6. Inside(past)
    BY <1>2, <1>5, <2>3, <2>4, <2>5, NoAttrsGiven DEF Inside, Steps
  <2>7. ASSUME r.sweep PROVE Tally(past) + Len(past.todo) = past.given
    <3> DEFINE n == r.ok + r.failed + r.skipped + r.manual
    <3>1. n \in Nat /\ r.ok + r.failed + (r.skipped + 1) + r.manual = n + 1
      BY <2>1
    <3>2. Tally(past) = n + 1 /\ Tally(t) = n
      BY <1>6, <2>4, <3>1 DEF Tally
    <3>3. Len(past.todo) = Len(r.todo) /\ past.given = n + Len(r.todo) + 1
      BY <1>2, <1>5, <2>4, <2>7, <3>2
    <3> HIDE DEF n
    <3>4. (n + 1) + Len(r.todo) = n + Len(r.todo) + 1
      <4> DEFINE l == Len(r.todo)
      <4>1. n \in Nat /\ l \in Nat
        BY <2>2, <3>1
      <4> HIDE DEF l
      <4>2. (n + 1) + l = n + l + 1
        BY <4>1
      <4> QED
        BY <4>2 DEF l
    <3> QED
      BY <3>2, <3>3, <3>4
  <2>8. CountedHere(past)
    BY <1>2, <1>5, <2>4, <2>7 DEF CountedHere
  <2> QED
    BY <2>6, <2>8, LeavingOK
<1> HIDE DEF in, past
<1> QED
  BY <1>1, <1>3, <1>8, <1>9, BecomeOK DEF RunInv, Settled

\* A process in a step of its recipe.
LEMMA InStepsOK ==
  ASSUME RunInv, NEW p \in Runner, InSteps(p)
  PROVE  /\ InStep(run[p])
         /\ CurStep(p).asserts \cup CurStep(p).output \cup CurStep(p).captures \subseteq Attr
<1>1. RunOK(run[p]) /\ run[p].stage = "step" /\ run[p].step <= Len(Steps(run[p]))
  BY DEF RunInv, InSteps, At, CurRecipe, Steps
<1>2. run[p].recipe \in File /\ run[p].step \in Nat /\ run[p].step >= 1
  BY <1>1 DEF RunOK, RunState, Placed
<1>3. run[p].step \in DOMAIN Steps(run[p])
  BY <1>1, <1>2, StepsOfFile DEF Steps
<1>4. LET s == Steps(run[p])[run[p].step] IN s.asserts \cup s.output \cup s.captures \subseteq Attr
  BY <1>2, <1>3, RecipesParsed DEF Steps, File
<1> QED
  BY <1>1, <1>4 DEF InStep, CurStep, CurRecipe, Steps

LEMMA StepActionsOK ==
  ASSUME RunInv, NEW p \in Runner,
         MissingScript(p) \/ SkipStep(p) \/ DryStep(p) \/ Attempt(p) \/ NoAttempt(p)
  PROVE  RunInv' /\ run'[p].stage # "write"
<1>0. launched' \in 0..MaxRuns
  BY DEF RunInv, MissingScript, SkipStep, DryStep, Attempt, NoAttempt
<1>1. /\ InStep(run[p])
      /\ CurStep(p).asserts \cup CurStep(p).output \cup CurStep(p).captures \subseteq Attr
  BY InStepsOK DEF MissingScript, SkipStep, DryStep, Attempt, NoAttempt, Runs
<1>2. Settled(StepOver(run[p]))
  BY <1>1, StepOverOK DEF InStep
<1>3. CASE MissingScript(p)
  <2>1. Settled(AbortMissing(run[p])) /\ Settled(StepOver([run[p] EXCEPT !.bad = @ + 1]))
    BY <1>1, AbortMissingOK, BadOK, StepOverOK DEF InStep
  <2> QED
    BY <1>0, <1>3, <2>1, BecomeOK DEF MissingScript, Settled
<1>4. CASE SkipStep(p) \/ DryStep(p)
  BY <1>0, <1>2, <1>4, BecomeOK DEF SkipStep, DryStep, Settled
<1>5. CASE Attempt(p)
  <2>1. Settled([run[p] EXCEPT !.attempt = @ + 1])
    <3> DEFINE r == run[p]
               q == [r EXCEPT !.attempt = @ + 1]
    <3>1. r \in RunState
      BY <1>1 DEF InStep, RunOK
    <3>2. r.attempt \in Nat
      BY <3>1 DEF RunState
    <3>3. r.attempt + 1 \in Nat
      BY <3>2
    <3>4. InStep(r)
      BY <1>1
    <3> HIDE DEF r
    <3>5. q \in RunState
      BY <3>1, <3>3 DEF RunState
    <3>6. /\ q.stage = r.stage /\ q.step = r.step /\ q.recipe = r.recipe /\ q.set = r.set
          /\ q.attrs = r.attrs /\ q.dry = r.dry /\ q.keep = r.keep /\ q.sweep = r.sweep
          /\ q.todo = r.todo /\ q.ok = r.ok /\ q.failed = r.failed
          /\ q.skipped = r.skipped /\ q.manual = r.manual /\ q.given = r.given
          /\ q.failedAt = r.failedAt /\ q.exit = r.exit
      BY <3>1 DEF RunState
    <3> HIDE DEF q
    <3>7. Placed(q) /\ Holding(q)
      BY <3>4, <3>6 DEF InStep, RunOK, Placed, Holding, Steps
    <3>8. Counted(q)
      BY <3>4, <3>6 DEF InStep, RunOK, Counted, Tally
    <3> QED
      BY <3>4, <3>5, <3>6, <3>7, <3>8 DEF RunOK, Settled, InStep, q, r
  <2>2. PICK code \in Codes, match \in BOOLEAN, g \in Gathers(CurStep(p)) :
          \/ Become(p, Finished(run[p], CurStep(p), code, g))
          \/ Become(p, [run[p] EXCEPT !.attempt = @ + 1])
    BY <1>5 DEF Attempt
  <2>3. Settled(Finished(run[p], CurStep(p), code, g))
    BY <1>1, GathersValues, FinishedOK
  <2> QED
    BY <1>0, <2>1, <2>2, <2>3, BecomeOK DEF Settled
<1>6. CASE NoAttempt(p)
  <2>1. PICK g \in [CurStep(p).asserts \cup CurStep(p).output -> Value] :
          Become(p, Finished(run[p], CurStep(p), 0, g))
    BY <1>6 DEF NoAttempt
  <2>2. Settled(Finished(run[p], CurStep(p), 0, g))
    BY <1>1, GathersValues, FinishedOK
  <2> QED
    BY <1>0, <2>1, <2>2, BecomeOK DEF Settled
<1> QED
  BY <1>3, <1>4, <1>5, <1>6

\* Out of a recipe: from its end, or with nothing more to write.
LEMMA OutOK ==
  ASSUME RunInv, NEW p \in Runner, run[p].stage \in {"leave", "write"}
  PROVE  Settled(Returned(run[p]))
<1>1. Closed(run[p])
  BY DEF RunInv, RunOK, Counted, Closed
<1> QED
  BY <1>1, ReturnedOK

\* Between the read of its write and the write.
LEMMA WritingOK ==
  ASSUME RunInv, NEW p \in Runner, PersistRecipe(p)
  PROVE  RunInv'
<1> DEFINE r == run[p]
           q == [r EXCEPT !.stage = "write"]
<1>1. r \in RunState /\ RunOK(r) /\ r.stage = "leave" /\ Become(p, q) /\ launched' = launched
  BY DEF RunInv, RunOK, PersistRecipe, At
<1> HIDE DEF r
<1>2. q \in RunState
  BY <1>1 DEF RunState, Stages
<1>3. /\ q.stage = "write" /\ q.step = r.step /\ q.recipe = r.recipe /\ q.set = r.set
      /\ q.attrs = r.attrs /\ q.sweep = r.sweep
      /\ q.todo = r.todo /\ q.ok = r.ok /\ q.failed = r.failed
      /\ q.skipped = r.skipped /\ q.manual = r.manual /\ q.given = r.given
      /\ q.failedAt = r.failedAt /\ q.exit = r.exit
  BY <1>1 DEF RunState
<1> HIDE DEF q
<1>4. Placed(q) /\ Holding(q)
  BY <1>1, <1>3 DEF RunOK, Placed, Holding, Steps
<1>5. Counted(q)
  BY <1>1, <1>3 DEF RunOK, Counted, Tally
<1> QED
  BY <1>1, <1>2, <1>4, <1>5, BecomeOK DEF RunOK, RunInv

LEMMA RunStepOK ==
  ASSUME StoreTypeOK, RunInv, NEW p \in Runner, RunStep(p)
  PROVE  /\ RunInv'
         /\ run'[p].stage = "write" => PersistRecipe(p) \/ OpenRecipe(p)
<1>0. launched \in 0..MaxRuns
  BY DEF RunInv
<1>1. CASE Refuse(p)
  BY <1>0, <1>1, ExitedOK, BecomeOK DEF Refuse, Settled
<1>2. CASE EndOfRecipe(p)
  <2>1. RunOK(run[p]) /\ run[p].stage = "step"
    BY <1>2 DEF RunInv, EndOfRecipe, At
  <2> QED
    BY <1>0, <1>2, <2>1, EndOK, BecomeOK DEF EndOfRecipe, Settled
<1>3. CASE OpenRecipe(p)
  BY <1>3 DEF OpenRecipe, recipeVars, RunInv
<1>4. CASE WriteRecipe(p)
  BY <1>0, <1>4, OutOK, BecomeOK DEF WriteRecipe, Settled
<1>5. CASE LeaveRecipe(p)
  BY <1>0, <1>5, OutOK, BecomeOK DEF LeaveRecipe, At, Settled
<1>6. CASE Exit(p)
  BY <1>0, <1>6, IdleOK, BecomeOK DEF Exit, Idle
<1>7. CASE KillRun(p)
  BY <1>0, <1>7, IdleOK, BecomeOK DEF KillRun, Idle
<1> QED
  BY <1>1, <1>2, <1>3, <1>4, <1>5, <1>6, <1>7, LaunchOK, SkipParametrizedOK, HydrateOK,
     StepActionsOK, WritingOK DEF RunStep

\* The invariant says all that RunTypeOK and SweepAccounts do.
LEMMA RunInvTypes == RunInv => RunTypeOK
<1> SUFFICES ASSUME RunInv PROVE RunTypeOK
  OBVIOUS
<1>1. ASSUME NEW p \in Runner
      PROVE  /\ DOMAIN run[p] = DOMAIN Idle
             /\ run[p].stage \in Stages /\ run[p].exit \in Exits
             /\ run[p].recipe \in File \cup {NoRecipe}
             /\ run[p].attrs \in Map /\ run[p].set \in Map /\ run[p].step \in Nat
  <2>1. run[p] \in RunState /\ Idle \in RunState
    BY IdleOK DEF RunInv, RunOK
  <2> QED
    BY <2>1 DEF RunState
<1>2. ASSUME NEW p \in Runner, run[p].stage \in {"step", "leave", "write"}
      PROVE  run[p].step \in 0..Len(RecipeFile[run[p].recipe].steps) + 1
  <2>1. run[p].recipe \in File /\ run[p].step <= Len(Steps(run[p])) + 1
    BY <1>2 DEF RunInv, RunOK, Placed
  <2>2. Len(RecipeFile[run[p].recipe].steps) \in Nat
    BY <2>1, StepsOfFile
  <2> QED
    BY <1>1, <2>1, <2>2 DEF Steps
<1>3. \A p \in Runner : \A a \in Given(run[p].set) : run[p].attrs[a] = run[p].set[a]
  BY DEF RunInv, RunOK, Holding
<1>4. DOMAIN run = Runner /\ launched \in 0..MaxRuns
  BY DEF RunInv
<1> QED
  BY <1>1, <1>2, <1>3, <1>4 DEF RunTypeOK, File

LEMMA RunInvAccounts == RunInv => SweepAccounts
<1> SUFFICES ASSUME RunInv, NEW p \in Runner, run[p].stage = "exit", run[p].sweep
             PROVE  /\ run[p].ok + run[p].failed + run[p].skipped + run[p].manual = run[p].given
                    /\ (run[p].exit = "failed") <=> (run[p].failed > 0)
  BY DEF SweepAccounts
<1>1. /\ Tally(run[p]) + Len(run[p].todo) = run[p].given /\ run[p].todo = << >>
      /\ (run[p].exit = "failed") <=> (run[p].failed > 0)
  BY DEF RunInv, RunOK, Counted
<1>2. Tally(run[p]) \in Nat
  <2>1. run[p] \in RunState
    BY DEF RunInv, RunOK
  <2>2. /\ run[p].failed \in Nat /\ run[p].ok \in Nat /\ run[p].skipped \in Nat
        /\ run[p].manual \in Nat
    BY <2>1 DEF RunState
  <2> QED
    BY <2>2 DEF Tally
<1> QED
  BY <1>1, <1>2 DEF Tally

(***************************************************************************)
(* The suites.                                                             *)
(***************************************************************************)
Scopes == {"none", "suite", "module", "recipe-verification"}

SuiteState ==
  [stage : {"idle", "modules", "step", "persist", "write", "publish"},
   scope : Scopes, todo : Seq(DOMAIN Module), module : DOMAIN Module \cup {"none"},
   step : Nat, attrs : Map, set : SUBSET Attr, merged : Map,
   mergedSet : SUBSET Attr, failing : SUBSET Test]

\* The keys a suite set have values, and in a step it is at or behind one.
SuiteOK(s) ==
  /\ s \in SuiteState
  /\ s.set \subseteq Given(s.attrs) /\ s.mergedSet \subseteq Given(s.merged)
  /\ s.stage = "step" => s.module \in DOMAIN Module /\ s.step >= 1

SuiteInv ==
  /\ suite = [p \in Tester |-> suite[p]]
  /\ \A p \in Tester : SuiteOK(suite[p])
  /\ fleet \subseteq Test /\ told \subseteq Test
  /\ deaf \in BOOLEAN /\ forgot \in BOOLEAN
  /\ started \in 0..MaxSuites

LEMMA RestingOK == SuiteOK(Resting) /\ Resting \in SuiteState
BY NoAttrsGiven DEF Resting, SuiteOK, SuiteState, Scopes

LEMMA SuiteInvInit == SuiteInit => SuiteInv
<1>1. 0 \in 0..MaxSuites
  BY TestersPersist
<1> QED
  BY <1>1, RestingOK DEF SuiteInit, SuiteInv

LEMMA TurnOK ==
  ASSUME SuiteInv, NEW p \in Tester, NEW s, SuiteOK(s), Turn(p, s),
         fleet' \subseteq Test, told' \subseteq Test,
         deaf' \in BOOLEAN, forgot' \in BOOLEAN, started' \in 0..MaxSuites
  PROVE  SuiteInv'
BY DEF SuiteInv, Turn

\* Most steps send no alert.
LEMMA SilentOK ==
  ASSUME SuiteInv, NEW p \in Tester, NEW s, SuiteOK(s), Turn(p, s), Silent,
         started' \in 0..MaxSuites
  PROVE  SuiteInv'
BY TurnOK DEF SuiteInv, Silent

LEMMA MergedGiven ==
  ASSUME NEW m \in Map, NEW old \in Map
  PROVE  MergedWith(m, old) \in Map /\ Given(MergedWith(m, old)) = Given(m) \cup Given(old)
BY DEF MergedWith, Map, Given

\* The merge keeps the keys set in the module and before it.
LEMMA MergeModuleOK ==
  ASSUME NEW s \in SuiteState, s.set \subseteq Given(s.attrs), s.mergedSet \subseteq Given(s.merged)
  PROVE  /\ MergeModule(s) \in SuiteState
         /\ MergeModule(s).mergedSet \subseteq Given(MergeModule(s).merged)
<1> DEFINE m == MergedWith(s.attrs, s.merged)
           k == s.mergedSet \cup s.set
<1>1. s.attrs \in Map /\ s.merged \in Map /\ s.mergedSet \in SUBSET Attr /\ s.set \in SUBSET Attr
  BY DEF SuiteState
<1>2. m \in Map /\ k \in SUBSET Attr /\ k \subseteq Given(m)
  BY <1>1, MergedGiven
<1>3. MergeModule(s) = [s EXCEPT !.merged = m, !.mergedSet = k]
  BY DEF MergeModule
<1> HIDE DEF m, k
<1>4. [s EXCEPT !.merged = m, !.mergedSet = k] \in SuiteState
  BY <1>2 DEF SuiteState
<1>5. /\ [s EXCEPT !.merged = m, !.mergedSet = k].merged = m
      /\ [s EXCEPT !.merged = m, !.mergedSet = k].mergedSet = k
  BY DEF SuiteState
<1> QED
  BY <1>2, <1>3, <1>4, <1>5

\* Between two modules: what it has merged, and nothing of a module.
LEMMA OutOfModuleOK ==
  ASSUME NEW s \in SuiteState, s.mergedSet \subseteq Given(s.merged),
         NEW stage \in {"modules", "persist"}
  PROVE  /\ SuiteOK([s EXCEPT !.stage = stage, !.step = 0, !.module = "none",
                               !.attrs = NoAttrs, !.set = {}])
         /\ s.stage = stage => SuiteOK([s EXCEPT !.attrs = NoAttrs, !.set = {}])
<1>1. SuiteOK([s EXCEPT !.stage = stage, !.step = 0, !.module = "none",
                        !.attrs = NoAttrs, !.set = {}])
  <2> DEFINE q == [s EXCEPT !.stage = stage, !.step = 0, !.module = "none",
                            !.attrs = NoAttrs, !.set = {}]
  <2>1. q \in SuiteState
    BY NoAttrsGiven DEF SuiteState
  <2>2. q.set = {} /\ q.mergedSet = s.mergedSet /\ q.merged = s.merged /\ q.stage = stage
    BY DEF SuiteState
  <2> HIDE DEF q
  <2>3. SuiteOK(q)
    BY <2>1, <2>2 DEF SuiteOK
  <2> QED
    BY <2>3 DEF q
<1>2. ASSUME s.stage = stage PROVE SuiteOK([s EXCEPT !.attrs = NoAttrs, !.set = {}])
  <2> DEFINE q == [s EXCEPT !.attrs = NoAttrs, !.set = {}]
  <2>1. q \in SuiteState
    BY NoAttrsGiven DEF SuiteState
  <2>2. q.set = {} /\ q.mergedSet = s.mergedSet /\ q.merged = s.merged /\ q.stage = stage
    BY <1>2 DEF SuiteState
  <2> HIDE DEF q
  <2>3. SuiteOK(q)
    BY <2>1, <2>2 DEF SuiteOK
  <2> QED
    BY <2>3 DEF q
<1> QED
  BY <1>1, <1>2

LEMMA StartSuiteOK ==
  ASSUME SuiteInv, NEW p \in Tester, StartSuite(p)
  PROVE  SuiteInv'
<1>1. started' \in 0..MaxSuites
  <2>1. started \in 0..MaxSuites /\ MaxSuites \in Nat /\ started < MaxSuites /\ started' = started + 1
    BY TestersPersist DEF StartSuite, SuiteInv
  <2> QED
    BY <2>1
<1>2. ASSUME NEW scope \in Scopes, NEW todo \in Seq(DOMAIN Module)
      PROVE  SuiteOK([Resting EXCEPT !.stage = "modules", !.scope = scope, !.todo = todo])
  <2> DEFINE q == [Resting EXCEPT !.stage = "modules", !.scope = scope, !.todo = todo]
  <2>1. q \in SuiteState
    BY RestingOK DEF SuiteState
  <2>2. q.stage = "modules" /\ q.set = {} /\ q.mergedSet = {}
    BY DEF Resting
  <2> HIDE DEF q
  <2>3. SuiteOK(q)
    BY <2>1, <2>2 DEF SuiteOK
  <2> QED
    BY <2>3 DEF q
<1>3. /\ \A m \in DOMAIN Module : <<m>> \in Seq(DOMAIN Module)
      /\ << >> \in Seq(DOMAIN Module)
      /\ TestModulesOf(DiscoverTestModules) \in Seq(DOMAIN Module)
      /\ TestModulesOf(SelectFleetModules) \in Seq(DOMAIN Module)
  BY FilesSelected
<1>4. PICK scope \in Scopes, todo \in Seq(DOMAIN Module) :
        Turn(p, [Resting EXCEPT !.stage = "modules", !.scope = scope, !.todo = todo])
  BY <1>3 DEF StartSuite, Scopes
<1> QED
  BY <1>1, <1>2, <1>4, SilentOK DEF StartSuite

LEMMA HeadTail ==
  ASSUME NEW S, NEW q \in Seq(S), q # << >>
  PROVE  Head(q) \in S /\ Tail(q) \in Seq(S)
OBVIOUS

LEMMA NextModuleOK ==
  ASSUME StoreTypeOK, SuiteInv, NEW p \in Tester, NextModule(p)
  PROVE  SuiteInv'
<1> DEFINE s == suite[p]
           q == [s EXCEPT !.stage = "step", !.step = 1, !.module = Head(s.todo),
                          !.todo = Tail(s.todo), !.attrs = file.map.attrs, !.set = {}]
<1>1. s \in SuiteState /\ s.todo # << >> /\ Turn(p, q) /\ s.mergedSet \subseteq Given(s.merged)
  BY DEF NextModule, SuiteInv, SuiteOK, ReadDeviceAttrs
<1> HIDE DEF s
<1>2. Head(s.todo) \in DOMAIN Module /\ Tail(s.todo) \in Seq(DOMAIN Module)
  <2>1. s.todo \in Seq(DOMAIN Module)
    BY <1>1 DEF SuiteState
  <2> QED
    BY <1>1, <2>1, HeadTail
<1>3. file.map.attrs \in Map
  BY DEF StoreTypeOK, Content
<1>4. q \in SuiteState
  BY <1>1, <1>2, <1>3 DEF SuiteState
<1>5. /\ q.set = {} /\ q.mergedSet = s.mergedSet /\ q.merged = s.merged
      /\ q.module = Head(s.todo) /\ q.step = 1
  BY <1>1 DEF SuiteState
<1> HIDE DEF q
<1>6. SuiteOK(q)
  BY <1>1, <1>2, <1>4, <1>5 DEF SuiteOK
<1> QED
  BY <1>1, <1>6, SilentOK DEF NextModule, SuiteInv

LEMMA RunTestStepOK ==
  ASSUME SuiteInv, NEW p \in Tester, RunTestStep(p)
  PROVE  SuiteInv'
<1> DEFINE s == suite[p]
           t == TestStep(p)
<1>1. /\ s \in SuiteState /\ s.set \subseteq Given(s.attrs)
      /\ s.mergedSet \subseteq Given(s.merged) /\ s.stage = "step"
      /\ s.module \in DOMAIN Module /\ s.step >= 1
      /\ s.step <= Len(Module[s.module].steps)
  BY DEF RunTestStep, SuiteInv, SuiteOK, During
<1>2. s.step \in Nat /\ Len(Module[s.module].steps) \in Nat
      /\ DOMAIN Module[s.module].steps = 1..Len(Module[s.module].steps)
  BY <1>1, ModulesParsed DEF SuiteState
<1>3. s.step \in DOMAIN Module[s.module].steps /\ s.step + 1 \in Nat /\ s.step + 1 >= 1
  BY <1>1, <1>2
<1>4. t.test \in Test
  BY <1>1, <1>3, ModulesParsed DEF TestStep
<1>5. PICK fails \in SUBSET Test, v \in Value :
        \/ Turn(p, [s EXCEPT !.step = s.step + 1, !.failing = fails])
        \/ /\ t.sets \in Attr
           /\ Turn(p, Sets(p, [s EXCEPT !.step = s.step + 1, !.failing = fails], t.sets, v))
  <2>1. s.failing \in SUBSET Test /\ s.failing \cup {t.test} \in SUBSET Test
    BY <1>1, <1>4 DEF SuiteState
  <2>2. PICK verdict \in Verdicts(t, p), v \in Value :
          LET done == [s EXCEPT !.step = @ + 1,
                                !.failing = IF verdict = "fail" THEN @ \cup {t.test} ELSE @]
          IN  Turn(p, IF verdict # "skip" /\ ~Missing(t.call) /\ t.sets \in Attr
                      THEN Sets(p, done, t.sets, v) ELSE done)
    BY DEF RunTestStep
  <2> DEFINE f == IF verdict = "fail" THEN s.failing \cup {t.test} ELSE s.failing
             done == [s EXCEPT !.step = s.step + 1, !.failing = f]
  <2>3. f \in SUBSET Test
    BY <2>1
  <2>4. Turn(p, done) \/ (t.sets \in Attr /\ Turn(p, Sets(p, done, t.sets, v)))
    BY <2>2
  <2> HIDE DEF s, t, f
  <2> QED
    BY <2>2, <2>3, <2>4
<1> DEFINE q == [s EXCEPT !.step = s.step + 1, !.failing = fails]
<1>6. Silent /\ started' = started
  BY DEF RunTestStep
<1> HIDE DEF s, t
<1>7. q \in SuiteState
  BY <1>1, <1>3 DEF SuiteState
<1>8. /\ q.set = s.set /\ q.attrs = s.attrs /\ q.merged = s.merged
      /\ q.mergedSet = s.mergedSet /\ q.module = s.module /\ q.step = s.step + 1
  BY <1>1 DEF SuiteState
<1>9. Turn(p, q) \/ (t.sets \in Attr /\ Turn(p, Sets(p, q, t.sets, v)))
  BY <1>5
<1> HIDE DEF q
<1>10. SuiteOK(q)
  BY <1>1, <1>3, <1>7, <1>8 DEF SuiteOK
<1>11. ASSUME t.sets \in Attr PROVE SuiteOK(Sets(p, q, t.sets, v))
  <2> DEFINE m == [q.attrs EXCEPT ![t.sets] = v]
             k == q.set \cup {t.sets}
             w == [q EXCEPT !.attrs = m, !.set = k]
  <2>1. q.attrs \in Map /\ q.set \in SUBSET Attr /\ q.set \subseteq Given(q.attrs)
    BY <1>7, <1>10 DEF SuiteState, SuiteOK
  <2>2. m \in Map /\ k \in SUBSET Attr
    BY <1>11, <2>1 DEF Map
  <2>3. k \subseteq Given(m)
    BY <1>11, <2>1, UnsetIsNoValue DEF Map, Given
  <2>4. Sets(p, q, t.sets, v) = w
    BY <1>7 DEF Sets, SuiteState
  <2> HIDE DEF m, k
  <2>5. w \in SuiteState
    BY <1>7, <2>2 DEF SuiteState
  <2>6. /\ w.set = k /\ w.attrs = m /\ w.merged = q.merged /\ w.mergedSet = q.mergedSet
        /\ w.module = q.module /\ w.step = q.step
    BY <1>7 DEF SuiteState
  <2> HIDE DEF w
  <2>7. SuiteOK(w)
    BY <1>1, <1>3, <1>8, <2>3, <2>5, <2>6 DEF SuiteOK
  <2> QED
    BY <2>4, <2>7
<1> QED
  BY <1>6, <1>9, <1>10, <1>11, SilentOK DEF SuiteInv

LEMMA EndOfModuleOK ==
  ASSUME SuiteInv, NEW p \in Tester, EndOfModule(p)
  PROVE  SuiteInv'
<1>1. SuiteOK(suite[p])
  BY DEF SuiteInv
<1>2. MergeModule(suite[p]) \in SuiteState
      /\ MergeModule(suite[p]).mergedSet \subseteq Given(MergeModule(suite[p]).merged)
  BY <1>1, MergeModuleOK DEF SuiteOK
<1>3. SuiteOK([MergeModule(suite[p]) EXCEPT !.stage = "modules", !.step = 0,
                 !.module = "none", !.attrs = NoAttrs, !.set = {}])
  BY <1>2, OutOfModuleOK
<1> QED
  BY <1>3, SilentOK DEF EndOfModule, SuiteInv

\* Every recipe verified has an attribute, and it has a value.
LEMMA VerifyOK ==
  ASSUME SuiteInv, NEW p \in Tester, VerifyRepoRecipes(p)
  PROVE  SuiteInv'
<1>1. SuiteOK(suite[p]) /\ suite[p] \in SuiteState
  BY DEF SuiteInv, SuiteOK
<1>2. PICK valid \in SUBSET Checks :
        LET verdict(a) == IF \E c \in valid : c.attr = a THEN Yes ELSE No
            s == [suite[p] EXCEPT
                    !.stage = "persist",
                    !.attrs = [a \in Attr |-> IF \E c \in Checks : c.attr = a
                                              THEN verdict(a) ELSE Unset],
                    !.set = {c.attr : c \in Checks},
                    !.failing = @ \cup {c.test : c \in Checks \ valid}]
        IN  Turn(p, [MergeModule(s) EXCEPT !.attrs = NoAttrs, !.set = {}])
  BY DEF VerifyRepoRecipes
<1> DEFINE verdict(a) == IF \E c \in valid : c.attr = a THEN Yes ELSE No
           m == [a \in Attr |-> IF \E c \in Checks : c.attr = a THEN verdict(a) ELSE Unset]
           k == {c.attr : c \in Checks}
           f == suite[p].failing \cup {c.test : c \in Checks \ valid}
           s == [suite[p] EXCEPT !.stage = "persist", !.attrs = m, !.set = k, !.failing = f]
<1>3. m \in Map /\ k \subseteq Given(m) /\ k \in SUBSET Attr
  BY TestersPersist, ModulesParsed, UnsetIsNoValue DEF Map, Given
<1>4. f \in SUBSET Test
  <2>1. suite[p].failing \in SUBSET Test
    BY <1>1 DEF SuiteState
  <2> QED
    BY <2>1, ModulesParsed
<1>5. Turn(p, [MergeModule(s) EXCEPT !.attrs = NoAttrs, !.set = {}])
  BY <1>2
<1> HIDE DEF m, k, f
<1>6. s \in SuiteState
  BY <1>1, <1>3, <1>4 DEF SuiteState
<1>7. /\ s.set = k /\ s.attrs = m /\ s.mergedSet = suite[p].mergedSet
      /\ s.merged = suite[p].merged /\ s.stage = "persist"
  BY <1>1 DEF SuiteState
<1> HIDE DEF s
<1>8. /\ MergeModule(s) \in SuiteState
      /\ MergeModule(s).mergedSet \subseteq Given(MergeModule(s).merged)
  BY <1>1, <1>3, <1>6, <1>7, MergeModuleOK DEF SuiteOK
<1>9. MergeModule(s).stage = "persist"
  BY <1>6, <1>7 DEF MergeModule, SuiteState
<1>10. SuiteOK([MergeModule(s) EXCEPT !.attrs = NoAttrs, !.set = {}])
  BY <1>8, <1>9, OutOfModuleOK
<1> QED
  BY <1>5, <1>10, SilentOK DEF VerifyRepoRecipes, SuiteInv

\* From its modules to the store, a suite only moves on.
LEMMA MovesOnOK ==
  ASSUME SuiteInv, NEW p \in Tester, NEW stage \in {"persist", "write"},
         Turn(p, [suite[p] EXCEPT !.stage = stage]), Silent, started' = started
  PROVE  SuiteInv'
<1> DEFINE s == suite[p]
           q == [s EXCEPT !.stage = stage]
<1>1. s \in SuiteState /\ SuiteOK(s)
  BY DEF SuiteInv, SuiteOK
<1>2. Turn(p, q)
  OBVIOUS
<1> HIDE DEF s
<1>3. q \in SuiteState
  BY <1>1 DEF SuiteState
<1>4. /\ q.set = s.set /\ q.attrs = s.attrs /\ q.merged = s.merged
      /\ q.mergedSet = s.mergedSet /\ q.stage = stage
  BY <1>1 DEF SuiteState
<1> HIDE DEF q
<1>5. SuiteOK(q)
  BY <1>1, <1>3, <1>4 DEF SuiteOK
<1> QED
  BY <1>2, <1>5, SilentOK DEF SuiteInv

LEMMA WriteTestsOK ==
  ASSUME SuiteInv, NEW p \in Tester, WriteTests(p)
  PROVE  SuiteInv'
<1> DEFINE q == [Resting EXCEPT !.stage = "publish", !.failing = suite[p].failing]
<1>1. suite[p].failing \in SUBSET Test
  BY DEF SuiteInv, SuiteOK, SuiteState
<1>2. q \in SuiteState
  BY <1>1, RestingOK DEF SuiteState
<1>3. q.set = {} /\ q.mergedSet = {} /\ q.stage = "publish"
  BY DEF Resting
<1>4. Turn(p, q) \/ Turn(p, Resting)
  BY DEF WriteTests
<1> HIDE DEF q
<1>5. SuiteOK(q)
  BY <1>2, <1>3 DEF SuiteOK
<1> QED
  BY <1>4, <1>5, RestingOK, SilentOK DEF WriteTests, SuiteInv

LEMMA PublishOK ==
  ASSUME SuiteInv, PublishFleetTests
  PROVE  SuiteInv'
<1>1. Daemon \in Tester /\ suite[Daemon].failing \in SUBSET Test /\ fleet \subseteq Test
      /\ told \subseteq Test
  BY TestersPersist DEF SuiteInv, SuiteOK, SuiteState
<1>2. fleet' \subseteq Test /\ told' \subseteq Test
  BY <1>1 DEF PublishFleetTests, PrevFailing
<1>3. deaf' \in BOOLEAN
  BY DEF PublishFleetTests, SuiteInv
<1> QED
  BY <1>1, <1>2, <1>3, RestingOK, TurnOK DEF PublishFleetTests, SuiteInv

LEMMA SuiteStepOK ==
  ASSUME StoreTypeOK, SuiteInv, NEW p \in Tester, SuiteStep(p)
  PROVE  SuiteInv'
<1>1. CASE NoVerification(p) \/ PersistTests(p)
  BY <1>1, MovesOnOK DEF NoVerification, PersistTests
<1>2. CASE OpenTests(p)
  BY <1>2 DEF OpenTests, suiteVars, SuiteInv
<1>3. CASE KillTester(p)
  <2>1. fleet' \subseteq Test /\ forgot' \in BOOLEAN
    BY <1>3 DEF KillTester, SuiteInv
  <2> QED
    BY <1>3, <2>1, RestingOK, TurnOK DEF KillTester, SuiteInv
<1> QED
  BY <1>1, <1>2, <1>3, StartSuiteOK, NextModuleOK, RunTestStepOK, EndOfModuleOK, VerifyOK,
     WriteTestsOK DEF SuiteStep

LEMMA SuiteInvTypes == SuiteInv => SuiteTypeOK
<1> SUFFICES ASSUME SuiteInv PROVE SuiteTypeOK
  OBVIOUS
<1>1. ASSUME NEW p \in Tester
      PROVE  /\ DOMAIN suite[p] = DOMAIN Resting
             /\ suite[p].stage \in {"idle", "modules", "step", "persist", "write", "publish"}
             /\ suite[p].attrs \in Map /\ suite[p].merged \in Map
             /\ suite[p].failing \subseteq Test
  BY RestingOK DEF SuiteInv, SuiteOK, SuiteState
<1> QED
  BY <1>1 DEF SuiteTypeOK, SuiteInv, SuiteOK

(***************************************************************************)
(* Runs and suites over the store.                                         *)
(***************************************************************************)
\* What a run is writing holds all it set.
Writing ==
  \A p \in Runner :
    run[p].stage = "write" =>
      /\ io[p].at # "out"
      /\ \A a \in Given(run[p].set) : io[p].map.attrs[a] = run[p].set[a]

Inv == StoreInv /\ RunInv /\ SuiteInv /\ Writing

LEMMA InvInit == Init => Inv
<1> SUFFICES ASSUME Init PROVE Inv
  OBVIOUS
<1>1. StoreInv /\ RunInv /\ SuiteInv
  BY StoreInvInit, RunInvInit, SuiteInvInit DEF Init
<1>2. Writing
  BY DEF Init, RunInit, Idle, Writing
<1> QED
  BY <1>1, <1>2 DEF Inv

\* A read and merge drops nothing the store held.
LEMMA MergeKeeps ==
  ASSUME StoreTypeOK, NEW p \in Process, NEW m \in Map, NEW tests \in Summary,
         PersistRead(p, m, tests)
  PROVE  Persists(p) /\ io'[p].map.attrs = MergedWith(m, file.map.attrs)
<1>1. file.map.attrs \in Map
  BY DEF StoreTypeOK, Content
<1>2. MergeInto(m, tests) \in Content
      /\ Given(file.map.attrs) \subseteq Given(MergeInto(m, tests).attrs)
      /\ MergeInto(m, tests).attrs = MergedWith(m, file.map.attrs)
  <2>1. MergedWith(m, file.map.attrs) \in Map
        /\ Given(MergedWith(m, file.map.attrs)) = Given(m) \cup Given(file.map.attrs)
    BY <1>1 DEF MergedWith, Map, Given
  <2> QED
    BY <2>1 DEF MergeInto, Content, ReadDeviceAttrs
<1>3. io'[p].map = MergeInto(m, tests)
  BY DEF PersistRead, StoreTypeOK
<1> QED
  BY <1>2, <1>3 DEF PersistRead, Persists, ReadDeviceAttrs

LEMMA RunOnStore ==
  ASSUME Inv, NEW p \in Runner, RunStep(p)
  PROVE  [StoreNext]_storeVars
<1>0. p \in Process /\ StoreTypeOK /\ file.map.tests \in Summary
  BY RunnersPersist DEF Inv, StoreInv, StoreTypeOK, Content
<1>1. CASE PersistRecipe(p)
  <2>1. run[p].set \in Map
    BY DEF Inv, RunInv, RunOK, RunState
  <2>2. Persists(p)
    BY <1>0, <1>1, <2>1, MergeKeeps DEF PersistRecipe, ReadDeviceAttrs
  <2> QED
    BY <1>0, <2>2 DEF StoreNext
<1>2. CASE OpenRecipe(p) \/ WriteRecipe(p) \/ KillRun(p)
  BY <1>0, <1>2 DEF OpenRecipe, WriteRecipe, KillRun, StoreNext
<1>3. CASE Launch(p) \/ SkipParametrized(p) \/ Refuse(p) \/ Hydrate(p) \/ MissingScript(p)
           \/ SkipStep(p) \/ DryStep(p) \/ Attempt(p) \/ NoAttempt(p) \/ EndOfRecipe(p)
           \/ LeaveRecipe(p) \/ Exit(p)
  BY <1>3 DEF Launch, SkipParametrized, Refuse, Hydrate, MissingScript, SkipStep, DryStep,
              Attempt, NoAttempt, EndOfRecipe, LeaveRecipe, Exit
<1> QED
  BY <1>1, <1>2, <1>3 DEF RunStep

LEMMA SuiteOnStore ==
  ASSUME Inv, SuiteNext
  PROVE  [StoreNext]_storeVars
<1>1. CASE PublishFleetTests
  BY <1>1 DEF PublishFleetTests
<1>2. ASSUME NEW p \in Tester, SuiteStep(p) PROVE [StoreNext]_storeVars
  <2>0. p \in Process /\ StoreTypeOK /\ suite[p] \in SuiteState
    BY TestersPersist DEF Inv, StoreInv, SuiteInv, SuiteOK
  <2>1. CASE PersistTests(p)
    <3> DEFINE m == [a \in Attr |-> IF a \in suite[p].mergedSet THEN suite[p].merged[a] ELSE Unset]
               t == [scope |-> suite[p].scope, fail |-> suite[p].failing # {}]
    <3>1. suite[p].merged \in Map /\ suite[p].scope \in Scopes
      BY <2>0 DEF SuiteState
    <3>2. m \in Map /\ t \in Summary
      BY <3>1 DEF Map, Summary, Scopes
    <3>3. PersistRead(p, m, t)
      BY <2>1 DEF PersistTests
    <3> HIDE DEF m, t
    <3>4. Persists(p)
      BY <2>0, <3>2, <3>3, MergeKeeps
    <3> QED
      BY <2>0, <3>4 DEF StoreNext
  <2>2. CASE OpenTests(p) \/ WriteTests(p) \/ KillTester(p)
    BY <2>0, <2>2 DEF OpenTests, WriteTests, KillTester, StoreNext
  <2>3. CASE StartSuite(p) \/ NextModule(p) \/ RunTestStep(p) \/ EndOfModule(p)
             \/ VerifyRepoRecipes(p) \/ NoVerification(p)
    BY <2>3 DEF StartSuite, NextModule, RunTestStep, EndOfModule, VerifyRepoRecipes,
                NoVerification
  <2> QED
    BY <1>2, <2>1, <2>2, <2>3 DEF SuiteStep
<1> QED
  BY <1>1, <1>2 DEF SuiteNext

\* One process's step leaves the writes of the others alone.
LEMMA OthersWrite ==
  ASSUME StoreTypeOK, NEW p \in Process, NEW q \in Process \ {p},
         \/ \E m, t : PersistRead(p, m, t)
         \/ OpenStore(p) \/ OpenFails(p) \/ EncodeStore(p) \/ DieWriting(p)
         \/ UNCHANGED storeVars
  PROVE  io'[q] = io[q]
BY DEF StoreTypeOK, PersistRead, OpenStore, OpenFails, EncodeStore, DieWriting, storeVars

LEMMA RunLeavesOthers ==
  ASSUME StoreTypeOK, RunInv, NEW p \in Runner, RunStep(p), NEW q \in Runner \ {p}
  PROVE  io'[q] = io[q] /\ run'[q] = run[q]
<1>1. \/ \E m, t : PersistRead(p, m, t)
      \/ OpenStore(p) \/ OpenFails(p) \/ EncodeStore(p) \/ DieWriting(p)
      \/ UNCHANGED storeVars
  BY DEF RunStep, Launch, SkipParametrized, Refuse, Hydrate, MissingScript, SkipStep, DryStep,
         Attempt, NoAttempt, EndOfRecipe, PersistRecipe, OpenRecipe, WriteRecipe, LeaveRecipe,
         Exit, KillRun
<1>2. run' = run \/ \E r : Become(p, r)
  BY DEF RunStep, Launch, SkipParametrized, Refuse, Hydrate, MissingScript, SkipStep, DryStep,
         Attempt, NoAttempt, EndOfRecipe, PersistRecipe, OpenRecipe, WriteRecipe, LeaveRecipe,
         Exit, KillRun, recipeVars
<1>3. io'[q] = io[q]
  BY <1>1, OthersWrite, RunnersPersist
<1>4. run'[q] = run[q]
  BY <1>2 DEF Become, RunInv
<1> QED
  BY <1>3, <1>4

LEMMA SuiteLeavesRuns ==
  ASSUME StoreTypeOK, SuiteNext, NEW q \in Runner
  PROVE  io'[q] = io[q]
<1>1. CASE PublishFleetTests
  BY <1>1 DEF PublishFleetTests, storeVars
<1>2. ASSUME NEW p \in Tester, SuiteStep(p) PROVE io'[q] = io[q]
  <2>1. \/ \E m, t : PersistRead(p, m, t)
        \/ OpenStore(p) \/ OpenFails(p) \/ EncodeStore(p) \/ DieWriting(p)
        \/ UNCHANGED storeVars
    BY <1>2 DEF SuiteStep, StartSuite, NextModule, RunTestStep, EndOfModule, VerifyRepoRecipes,
                NoVerification, PersistTests, OpenTests, WriteTests, KillTester
  <2>2. q # p
    BY SeparateProcesses
  <2> QED
    BY <2>1, <2>2, OthersWrite, RunnersPersist, TestersPersist
<1> QED
  BY <1>1, <1>2 DEF SuiteNext

\* What a run merges is what it set, and stays so until it is written.
LEMMA WritingStep == Inv /\ [Next]_vars => Writing'
<1> SUFFICES ASSUME Inv, [Next]_vars PROVE Writing'
  OBVIOUS
<1>0. StoreTypeOK /\ RunInv /\ Writing
  BY DEF Inv, StoreInv
<1>1. ASSUME NEW p \in Runner, RunStep(p), NEW q \in Runner, run'[q].stage = "write"
      PROVE  /\ io'[q].at # "out"
             /\ \A a \in Given(run'[q].set) : io'[q].map.attrs[a] = run'[q].set[a]
  <2>1. CASE q # p
    BY <1>0, <1>1, <2>1, RunLeavesOthers DEF Writing
  <2>2. CASE q = p /\ PersistRecipe(p)
    <3>1. run[p] \in RunState /\ run[p].set \in Map /\ p \in Process
          /\ file.map.tests \in Summary /\ file.map.attrs \in Map
      BY <1>0, RunnersPersist DEF RunInv, RunOK, RunState, StoreTypeOK, Content
    <3>2. run'[p].set = run[p].set
      BY <1>0, <2>2, <3>1 DEF PersistRecipe, Become, RunInv, RunState
    <3>3. io'[p].map.attrs = MergedWith(run[p].set, file.map.attrs)
      BY <1>0, <2>2, <3>1, MergeKeeps DEF PersistRecipe, ReadDeviceAttrs
    <3>4. io'[p].at = "merged"
      BY <1>0, <2>2, <3>1 DEF PersistRecipe, PersistRead, StoreTypeOK
    <3> QED
      BY <2>2, <3>2, <3>3, <3>4 DEF MergedWith, Given
  <2>3. CASE q = p /\ OpenRecipe(p)
    <3>1. run' = run /\ p \in Process /\ OpenStore(p)
      BY <2>3, RunnersPersist DEF OpenRecipe, recipeVars
    <3>2. io'[p].at = "open" /\ io'[p].map = io[p].map
      BY <1>0, <3>1 DEF OpenStore, StoreTypeOK
    <3> QED
      BY <1>0, <1>1, <2>3, <3>1, <3>2 DEF Writing
  <2> QED
    BY <1>0, <1>1, <2>1, <2>2, <2>3, RunStepOK
<1>2. CASE SuiteNext /\ UNCHANGED recipeVars
  BY <1>0, <1>2, SuiteLeavesRuns DEF Writing, recipeVars
<1>3. CASE UNCHANGED vars
  BY <1>0, <1>3 DEF Writing, vars, storeVars, recipeVars
<1> QED
  BY <1>1, <1>2, <1>3 DEF Next, RunNext, Writing

LEMMA InvStep == Inv /\ [Next]_vars => Inv' /\ [StoreNext]_storeVars
<1> SUFFICES ASSUME Inv, [Next]_vars PROVE Inv' /\ [StoreNext]_storeVars
  OBVIOUS
<1>0. StoreTypeOK /\ RunInv /\ SuiteInv
  BY DEF Inv, StoreInv
<1>1. [StoreNext]_storeVars
  BY RunOnStore, SuiteOnStore DEF Next, RunNext, vars
<1>2. StoreInv'
  BY <1>1, StoreTypeStep, CarriedStep DEF Inv, StoreInv
<1>3. RunInv'
  <2>1. CASE UNCHANGED recipeVars
    BY <1>0, <2>1 DEF recipeVars, RunInv
  <2> QED
    BY <1>0, <2>1, RunStepOK DEF Next, RunNext, vars
<1>4. SuiteInv'
  <2>1. CASE UNCHANGED suiteVars
    BY <1>0, <2>1 DEF suiteVars, SuiteInv
  <2> QED
    BY <1>0, <2>1, SuiteStepOK, PublishOK DEF Next, SuiteNext, vars
<1> QED
  BY <1>1, <1>2, <1>3, <1>4, WritingStep DEF Inv

(***************************************************************************)
(* What follows.                                                           *)
(***************************************************************************)
\* The types of the store, the runs and the suites (main.go's recipe runner,
\* test modules and attrs.json).
THEOREM LocalRunsTypes == Spec => []TypeOK
<1>1. Inv => TypeOK
  BY RunInvTypes, SuiteInvTypes DEF Inv, StoreInv, TypeOK
<1> QED
  BY <1>1, InvInit, InvStep, PTL DEF Spec

\* Every process that persists does what the store asks: it drops nothing it
\* read (persistRecipeAttrs, persistTestAttrs).
THEOREM RunsImplementStore == Spec => StoreSpec
<1>1. Init => StoreInit
  BY DEF Init
<1> QED
  BY <1>1, InvInit, InvStep, PTL DEF Spec, StoreSpec

\* And so nothing that was stored is forgotten, unless two writes overlapped
\* or one was cut short.
THEOREM RunsForgetNothing == Spec => []NothingForgotten
BY RunsImplementStore, StoreForgetsNothing, PTL

\* run-all accounts for every recipe it was given, and exits 1 exactly when one
\* failed (recipeRunAll).
THEOREM SweepsAccount == Spec => []SweepAccounts
<1>1. Inv => SweepAccounts
  BY RunInvAccounts DEF Inv
<1> QED
  BY <1>1, InvInit, InvStep, PTL DEF Spec

\* While alerts arrive the operator knows what fails (runFleetTests).
THEOREM OperatorIsTold == Spec => []OperatorKnows
<1>1. Init => OperatorKnows
  BY DEF Init, SuiteInit, OperatorKnows
<1>2. OperatorKnows /\ [Next]_vars => OperatorKnows'
  <2> SUFFICES ASSUME OperatorKnows, [Next]_vars PROVE OperatorKnows'
    OBVIOUS
  <2>1. CASE UNCHANGED <<fleet, told, deaf, forgot>>
    BY <2>1 DEF OperatorKnows
  <2>2. CASE PublishFleetTests
    BY <2>2 DEF PublishFleetTests, PrevFailing, OperatorKnows
  <2>3. ASSUME NEW p \in Tester, KillTester(p) PROVE OperatorKnows'
    BY <2>3 DEF KillTester, OperatorKnows
  <2>4. ASSUME NEW p \in Tester, SuiteStep(p), ~KillTester(p)
        PROVE  UNCHANGED <<fleet, told, deaf, forgot>>
    BY <2>4 DEF SuiteStep, StartSuite, NextModule, RunTestStep, EndOfModule, VerifyRepoRecipes,
                NoVerification, PersistTests, OpenTests, WriteTests, Silent, suiteVars
  <2> QED
    BY <2>1, <2>2, <2>3, <2>4 DEF Next, SuiteNext, vars, suiteVars
<1> QED
  BY <1>1, <1>2, PTL DEF Spec

\* A run that leaves a recipe by itself, and whose write nothing disturbed,
\* leaves what it set in the store (the deferred persistRecipeAttrs, and the
\* explicit one before os.Exit).
THEOREM AttrsArrive == Spec => AttrsReachStore
<1>1. Inv /\ [Next]_vars => [LeavesStored]_<<storeVars, recipeVars>>
  <2> SUFFICES ASSUME Inv, [Next]_vars, NEW p \in Runner, Leaves(p), ~run[p].dry, ~disturbed',
                      NEW a \in Given(run[p].set)
               PROVE  file'.map.attrs[a] = run[p].set[a]
    BY DEF LeavesStored, ReadDeviceAttrs
  <2>0. StoreTypeOK /\ RunInv /\ Carried /\ Writing
    BY DEF Inv, StoreInv
  <2>1. run'[p] # run[p]
    BY DEF Leaves
  <2>2. PICK q \in Runner : RunStep(q)
    BY <2>1 DEF Next, RunNext, vars, recipeVars
  <2>3. RunStep(p)
    BY <2>0, <2>1, <2>2, RunLeavesOthers
  <2>4. CASE WriteRecipe(p)
    <3>1. EncodeStore(p) /\ ~disturbed
      BY <2>4 DEF WriteRecipe, OpenFails, EncodeStore
    <3>2. file.body = "empty" /\ p \in Process
      BY <2>0, <3>1, RunnersPersist DEF Carried, EncodeStore
    <3>3. file'.map = io[p].map
      BY <3>1, <3>2 DEF EncodeStore
    <3> QED
      BY <2>0, <2>4, <3>3 DEF WriteRecipe, Writing
  <2>5. CASE LeaveRecipe(p)
    BY <2>0, <2>5 DEF LeaveRecipe, At, RunInv, RunOK, Holding
  <2>6. ~PersistRecipe(p) /\ ~OpenRecipe(p) /\ ~KillRun(p)
    <3>1. run = [q1 \in Runner |-> run[q1]] /\ run[p] \in RunState
      BY <2>0 DEF RunInv, RunOK
    <3>2. PersistRecipe(p) => run'[p].stage = "write"
      BY <3>1 DEF PersistRecipe, Become, RunState
    <3>3. OpenRecipe(p) => run' = run
      BY DEF OpenRecipe, recipeVars
    <3>4. KillRun(p) => run'[p].stage = "idle"
      BY <3>1 DEF KillRun, Become, Idle
    <3> QED
      BY <2>1, <3>2, <3>3, <3>4 DEF Leaves
  <2>7. run[p].stage \in {"leave", "write"}
    BY DEF Leaves
  <2>8. WriteRecipe(p) \/ LeaveRecipe(p)
    BY <2>3, <2>6, <2>7 DEF RunStep, Launch, SkipParametrized, Refuse, Hydrate, InSteps, Runs,
       MissingScript, SkipStep, DryStep, Attempt, NoAttempt, EndOfRecipe, Exit, At
  <2> QED
    BY <2>4, <2>5, <2>8
<1> QED
  BY <1>1, InvInit, InvStep, PTL DEF Spec, AttrsReachStore

=============================================================================
