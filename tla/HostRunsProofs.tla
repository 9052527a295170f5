--------------------------- MODULE HostRunsProofs ---------------------------
(***************************************************************************)
(* Theorems about a machine, for any recipes, files, units, services and   *)
(* peers: what the agent says of its services and peers is current, and    *)
(* what recipes make of the files leaves the user's lines in them.         *)
(***************************************************************************)
EXTENDS HostRuns, FiniteSetTheorems, WellFoundedInduction, TLAPS

(***************************************************************************)
(* The check cycle.                                                        *)
(***************************************************************************)
\* What a daemon remembers it found in a cycle of its own.
CycleInv ==
  /\ WordIsCurrent
  /\ \A s \in Services : /\ last[s] = "unknown" => s \notin ran
                         /\ last[s] = "running" => s \in ran
  /\ lastPeers \subseteq ran

LEMMA CycleInvInit == CycleInit => CycleInv
BY DEF CycleInit, CycleInv, WordIsCurrent, Forgotten, Nothing, Services

LEMMA ForgetCycleOK == ForgetCycle => CycleInv'
BY DEF ForgetCycle, CycleInv, WordIsCurrent, Forgotten, Nothing, Services

LEMMA CycleOK == CycleInv /\ Cycle => CycleInv'
<1> SUFFICES ASSUME CycleInv, Cycle PROVE CycleInv'
  OBVIOUS
<1>1. PICK late \in SUBSET {p \in Peers : Answers(p)}, slow \in SUBSET {s \in Services : Timed(s)} :
        /\ said' = AlertOnChange(RunAllChecks(slow), PingAll(late))
        /\ last' = RunAllChecks(slow) /\ lastPeers' = PingAll(late)
        /\ ran' = ran \cup {s \in Services : RunAllChecks(slow)[s] = "running"} \cup PingAll(late)
  BY DEF Cycle, Remembered
<1> DEFINE now == RunAllChecks(slow)
           reached == PingAll(late)
<1>2. \A s \in Services : now[s] # "unknown"
  BY DEF RunAllChecks, CheckService
<1>3. \A s \in Services : s \in ran' <=> s \in ran \/ now[s] = "running"
  BY <1>1, <1>2, NamesDiffer DEF PingAll, Services
<1>4. \A p \in Peers : p \in ran' <=> p \in ran \/ p \in reached
  BY <1>1, NamesDiffer DEF Services
<1>5. \A s \in Services :
        said'[s] = IF ServiceAlert(last[s], now[s]) = "nothing" THEN said[s]
                   ELSE ServiceAlert(last[s], now[s])
  BY <1>1 DEF AlertOnChange
<1>6. \A p \in Peers :
        said'[p] = IF PeerAlert(p, reached) = "nothing" THEN said[p] ELSE PeerAlert(p, reached)
  BY <1>1, NamesDiffer DEF AlertOnChange, Services
<1> HIDE DEF now, reached
<1>7. last' = now /\ lastPeers' = reached /\ reached \subseteq Peers
  BY <1>1 DEF now, reached, PingAll
<1>8. ASSUME NEW s \in Services
      PROVE  /\ said'[s] # "nothing" => s \in ran'
             /\ CASE said'[s] = "DOWN" -> last'[s] # "running"
                  [] said'[s] = "RECOVERED" -> last'[s] = "running"
                  [] OTHER -> s \in ran' => last'[s] = "running"
             /\ last'[s] = "unknown" => s \notin ran'
             /\ last'[s] = "running" => s \in ran'
  <2>1. /\ said[s] # "nothing" => s \in ran
        /\ said[s] = "DOWN" => last[s] # "running"
        /\ said[s] = "RECOVERED" => last[s] = "running"
        /\ said[s] \notin {"DOWN", "RECOVERED"} => (s \in ran => last[s] = "running")
        /\ last[s] = "unknown" => s \notin ran
        /\ last[s] = "running" => s \in ran
    BY DEF CycleInv, WordIsCurrent
  <2> QED
    BY <1>2, <1>3, <1>5, <1>7, <2>1 DEF ServiceAlert
<1>9. ASSUME NEW p \in Peers
      PROVE  /\ said'[p] # "nothing" => p \in ran'
             /\ p \in ran' \ lastPeers' => said'[p] = "UNREACHABLE"
  <2>1. /\ said[p] # "nothing" => p \in ran
        /\ p \in ran \ lastPeers => said[p] = "UNREACHABLE"
        /\ p \in lastPeers => p \in ran
    BY DEF CycleInv, WordIsCurrent
  <2> QED
    BY <1>4, <1>6, <1>7, <2>1 DEF PeerAlert
<1>10. lastPeers' \subseteq ran'
  BY <1>4, <1>7
<1> QED
  BY <1>8, <1>9, <1>10 DEF CycleInv, WordIsCurrent

LEMMA CycleInvStep == CycleInv /\ [Next]_vars => CycleInv'
<1> SUFFICES ASSUME CycleInv, [Next]_vars PROVE CycleInv'
  OBVIOUS
<1>1. CASE UNCHANGED cycleVars
  BY <1>1 DEF cycleVars, CycleInv, WordIsCurrent
<1>2. UNCHANGED cycleVars \/ Cycle \/ ForgetCycle
  BY DEF Next, agentVars, vars, Crashes, StartedByHand, Break, Repair, Watch
<1> QED
  BY <1>1, <1>2, CycleOK, ForgetCycleOK

\* An operator who reads a daemon's alerts in order knows of every service and
\* peer that a cycle found up and that is not any more, and is not left with DOWN
\* for a service that runs; that a peer is back is not said (alertOnChange).
THEOREM AlertsAreCurrent == Spec => []WordIsCurrent
<1>1. Init => CycleInv
  BY CycleInvInit DEF Init
<1>2. CycleInv => WordIsCurrent
  BY DEF CycleInv
<1> QED
  BY <1>1, <1>2, CycleInvStep, PTL DEF Spec

(***************************************************************************)
(* The run of a recipe, and the files it writes.                           *)
(***************************************************************************)
Calm    == {"begin", "enable", "arm", "rc", "next", "show", "root", "mount"}
Writing == {"write", "fill", "install"}   \* what a file shall hold is made
Stages  == Calm \cup Writing

\* The functions that make the content of a file.
Writers == {"rc-export", "schedule", "tags", "unit-repoint", "user-unit", "login-trigger",
            "gnome-keyring", "git-extract", "mount-share"}

\* A write that is under way is of a file of the step.
FilesInv ==
  /\ recipe \in Recipes /\ at \in 0..Len(recipe) /\ nth \in Nat \ {0}
  /\ upsets \in 0..MaxUpsets /\ clean \in BOOLEAN /\ (settled => clean)
  /\ stage \in Stages
  /\ stage \in Writing <=> held # NoWrite
  /\ at = 0 => stage = "begin" /\ nth = 1 /\ clean /\ before = NoDisk
  /\ stage \in Writing => /\ Step.fn \in Writers /\ held.path \in Touches(Step)
                          /\ held.next \in Calm \cup {"done"}

\* What is no file of P stays as it is.
Kept(P) == \A q : q \notin P => Read(q)' = Read(q)

LEMMA PutReads ==
  ASSUME NEW p, NEW c, disk' = Put(p, c)
  PROVE  Read(p)' = c /\ Kept({p})
BY DEF Kept, Put, Read, Exists

LEMMA DiskKept ==
  ASSUME disk' = disk
  PROVE  Kept({})
BY DEF Kept, Read, Exists

LEMMA KeptMore ==
  ASSUME NEW P, NEW Q, Kept(P), P \subseteq Q
  PROVE  Kept(Q)
BY DEF Kept

\* The step being run is one of a recipe's.
LEMMA StepKnown ==
  ASSUME FilesInv, at # 0
  PROVE  /\ recipe \in Seq(ToSet(recipe)) /\ at \in DOMAIN recipe
         /\ StepIsTyped(Step)
<1>1. recipe \in Recipes /\ at \in 0..Len(recipe)
  BY DEF FilesInv
<1>2. recipe \in Seq(ToSet(recipe)) /\ \A i \in DOMAIN recipe : StepIsTyped(recipe[i])
  BY <1>1, RecipesAreTyped
<1>3. at \in DOMAIN recipe
  BY <1>1, <1>2
<1> QED
  BY <1>1, <1>2, <1>3 DEF Step

LEMMA RecipeLen ==
  ASSUME recipe \in Recipes
  PROVE  Len(recipe) \in Nat \ {0} /\ DOMAIN recipe = 1..Len(recipe)
<1>1. recipe \in Seq(ToSet(recipe)) /\ recipe # <<>>
  BY RecipesAreTyped
<1> QED
  BY <1>1

LEMMA StepEndsOK ==
  ASSUME FilesInv, at # 0, NEW ok, StepEnds(ok)
  PROVE  FilesInv'
<1>1. recipe' = recipe /\ recipe \in Recipes /\ Len(recipe) \in Nat
  BY RecipeLen DEF StepEnds, FilesInv
<1>2. at \in 0..Len(recipe) /\ (at' = 0 \/ (at < Len(recipe) /\ at' = at + 1))
  BY DEF StepEnds, FilesInv
<1>3. at' \in 0..Len(recipe)
  BY <1>1, <1>2
<1>4. \/ at' # 0 /\ UNCHANGED <<clean, settled, before>>
      \/ at' = 0 /\ clean' = TRUE /\ before' = NoDisk
  <2>1. CASE ok /\ at < Len(recipe)
    <3>1. at' = at + 1 /\ UNCHANGED <<clean, settled, before>>
      BY <2>1 DEF StepEnds
    <3>2. at + 1 # 0
      BY <1>1, <1>2
    <3> QED
      BY <3>1, <3>2
  <2>2. CASE ~(ok /\ at < Len(recipe))
    BY <2>2 DEF StepEnds
  <2> QED
    BY <2>1, <2>2
<1>5. stage' = "begin" /\ nth' = 1 /\ held' = NoWrite /\ UNCHANGED upsets
  BY DEF StepEnds
<1>6. clean' \in BOOLEAN /\ (settled' => clean')
  <2>1. clean \in BOOLEAN /\ (settled => clean)
    BY DEF FilesInv
  <2>2. CASE UNCHANGED <<clean, settled, before>>
    BY <2>1, <2>2
  <2>3. CASE clean' = TRUE
    BY <2>3
  <2> QED
    BY <1>4, <2>2, <2>3
<1>7. 1 \in Nat \ {0} /\ upsets' \in 0..MaxUpsets
  BY <1>5 DEF FilesInv
<1> QED
  BY <1>1, <1>3, <1>4, <1>5, <1>6, <1>7 DEF FilesInv, Stages, Calm, Writing

LEMMA GoOK ==
  ASSUME FilesInv, at # 0, stage \in Calm, NEW s \in Calm, Go(s)
  PROVE  FilesInv'
BY DEF FilesInv, Stages, Calm, Writing, Go, runVars

LEMMA GoNthOK ==
  ASSUME FilesInv, at # 0, stage \in Calm, NEW s \in Calm, GoNth(s, nth + 1)
  PROVE  FilesInv'
<1>1. nth + 1 \in Nat \ {0}
  <2>1. nth \in Nat
    BY DEF FilesInv
  <2> QED
    BY <2>1
<1> DEFINE n == nth + 1
<1>2. nth' = n
  BY DEF GoNth
<1> HIDE DEF n
<1> QED
  BY <1>1, <1>2 DEF FilesInv, Stages, Calm, Writing, GoNth, n

LEMMA HoldingOK ==
  ASSUME FilesInv, at # 0, Step.fn \in Writers, NEW p \in Touches(Step), NEW c,
         NEW next \in Calm \cup {"done"}, NEW s \in Writing, Holding(p, c, next, s)
  PROVE  FilesInv'
<1>1. held' = [path |-> p, content |-> c, next |-> next] /\ UNCHANGED runVars /\ stage' = s
  BY DEF Holding
<1>2. held'.path = p /\ held'.next = next
  BY <1>1
<1>3. held' # NoWrite
  BY <1>2 DEF NoWrite, Calm
<1>4. Step' = Step
  BY <1>1 DEF Step, runVars
<1>5. Touches(Step)' = Touches(Step)
  BY <1>4 DEF Touches, ShareUnits
<1>6. stage' \in Stages /\ stage' \in Writing
  BY <1>1 DEF Stages
<1> QED
  BY <1>1, <1>2, <1>3, <1>4, <1>5, <1>6 DEF FilesInv, runVars

\* os.WriteFile and atomicWrite both begin so.
LEMMA WritesHold ==
  ASSUME NEW p, NEW c, NEW next, WriteFile(p, c, next) \/ AtomicWrite(p, c, next)
  PROVE  \E s \in Writing : Holding(p, c, next, s)
BY DEF WriteFile, AtomicWrite, Writing

LEMMA AppendsOK ==
  ASSUME NEW p, NEW l, Appends(p, l)
  PROVE  Read(p)' = Append(Read(p), l) /\ Kept({p})
BY PutReads DEF Appends

LEMMA TruncateOK ==
  ASSUME FilesInv, Truncate
  PROVE  FilesInv' /\ at # 0 /\ Kept({held.path})
<1>1. at # 0 /\ held # NoWrite /\ stage \in Writing
  BY DEF Truncate, FilesInv, Writing
<1>2. Kept({held.path})
  BY PutReads DEF Truncate
<1>3. stage' = "fill" /\ UNCHANGED <<held, runVars>>
  BY DEF Truncate
<1>4. Step' = Step
  BY <1>3 DEF Step, runVars
<1>5. Touches(Step)' = Touches(Step)
  BY <1>4 DEF Touches, ShareUnits
<1>6. stage' \in Stages /\ stage' \in Writing
  BY <1>3 DEF Stages, Writing
<1> QED
  BY <1>1, <1>2, <1>3, <1>4, <1>5, <1>6 DEF FilesInv, runVars

LEMMA FillOK ==
  ASSUME FilesInv, Fill
  PROVE  /\ FilesInv' /\ at # 0 /\ Kept({held.path})
         /\ \A q : q = held.path => Read(q)' = held.content
<1>1. at # 0 /\ held.next \in Calm \cup {"done"} /\ disk' = Put(held.path, held.content)
  BY DEF Fill, FilesInv, Writing
<1> DEFINE p == held.path
<1>2. disk' = Put(p, held.content)
  BY <1>1
<1> HIDE DEF p
<1>3. Kept({p}) /\ (\A q : q = p => Read(q)' = held.content)
  BY <1>2, PutReads DEF Kept, Put, Read, Exists
<1>4. ASSUME StepEnds(TRUE) PROVE FilesInv'
  BY <1>1, <1>4, StepEndsOK
<1>5. ASSUME stage' = held.next, held.next # "done", held' = NoWrite, UNCHANGED runVars
      PROVE  FilesInv'
  <2>1. held.next \in Calm /\ held.next \notin Writing
    BY <1>1, <1>5 DEF Calm, Writing
  <2> QED
    BY <1>1, <1>5, <2>1 DEF FilesInv, runVars, Stages
<1> QED
  BY <1>1, <1>3, <1>4, <1>5 DEF Fill, p

\* What is true of every step that a run takes: it keeps FilesInv and leaves every
\* file alone that its recipe step does not name.
Tidy == FilesInv' /\ Kept(Touches(Step))

LEMMA TidyEnds ==
  ASSUME FilesInv, at # 0, UNCHANGED disk, \E ok : StepEnds(ok)
  PROVE  Tidy
BY DiskKept, KeptMore, StepEndsOK DEF Tidy

LEMMA TidyGo ==
  ASSUME FilesInv, at # 0, stage \in Calm, UNCHANGED disk,
         \/ \E s \in Calm : Go(s)
         \/ \E s \in Calm : GoNth(s, nth + 1)
  PROVE  Tidy
BY DiskKept, KeptMore, GoOK, GoNthOK DEF Tidy

LEMMA TidyWrite ==
  ASSUME FilesInv, at # 0, Step.fn \in Writers, NEW p \in Touches(Step), NEW c,
         NEW next \in Calm \cup {"done"}, WriteFile(p, c, next) \/ AtomicWrite(p, c, next)
  PROVE  Tidy
<1>1. PICK s \in Writing : Holding(p, c, next, s)
  BY WritesHold
<1>2. UNCHANGED disk
  BY <1>1 DEF Holding
<1> QED
  BY <1>1, <1>2, HoldingOK, DiskKept, KeptMore DEF Tidy

LEMMA RcExportsOK ==
  ASSUME FilesInv, at # 0, stage \in Calm, Step.fn \in Writers, NEW p \in Touches(Step),
         NEW var, NEW val, NEW next \in Calm \cup {"done"}, RcExports(p, var, val, next)
  PROVE  Tidy
<1>1. CASE WriteFile(p, Exported(Read(p), var, val), next)
  BY <1>1, TidyWrite
<1>2. CASE Appends(p, Line("", var, val)) /\ IF next = "done" THEN StepEnds(TRUE) ELSE Go(next)
  <2>1. Kept({p})
    BY <1>2, AppendsOK
  <2>2. Kept(Touches(Step))
    BY <2>1, KeptMore
  <2> QED
    BY <1>2, <2>2, StepEndsOK, GoOK DEF Tidy
<1> QED
  BY <1>1, <1>2 DEF RcExports

LEMMA RcStepOK ==
  ASSUME FilesInv, RcStep
  PROVE  Tidy
<1>1. CASE RcLine
  <2>1. at # 0 /\ Touches(Step) = {Step.file} /\ StepEnds(TRUE)
    BY <1>1 DEF RcLine, On, Touches
  <2>2. Kept(Touches(Step))
    BY <1>1, <2>1, AppendsOK, DiskKept, KeptMore DEF RcLine
  <2> QED
    BY <2>1, <2>2, StepEndsOK DEF Tidy
<1>2. CASE RcExport
  <2>1. at # 0 /\ stage \in Calm /\ Step.fn \in Writers /\ Step.file \in Touches(Step)
    BY <1>2 DEF RcExport, On, Touches, Writers, Calm
  <2> QED
    BY <1>2, <2>1, RcExportsOK DEF RcExport, Calm
<1>3. CASE Schedule
  <2>1. at # 0 /\ Step.fn \in Writers /\ "crontab" \in Touches(Step)
    BY <1>3 DEF Schedule, On, Touches, Writers
  <2>2. \E c : AtomicWrite("crontab", c, "done")
    BY <1>3 DEF Schedule
  <2> QED
    BY <2>1, <2>2, TidyWrite
<1>4. CASE ApplySelfTags
  <2>1. at # 0 /\ Step.fn \in Writers /\ "node.yaml" \in Touches(Step)
    BY <1>4 DEF ApplySelfTags, On, Touches, Writers
  <2>2. \/ (\E ok : StepEnds(ok)) /\ UNCHANGED disk
        \/ \E c : WriteFile("node.yaml", c, "done")
    BY <1>4 DEF ApplySelfTags
  <2> QED
    BY <2>1, <2>2, TidyEnds, TidyWrite
<1> QED
  BY <1>1, <1>2, <1>3, <1>4 DEF RcStep

LEMMA UnitStepOK ==
  ASSUME FilesInv, UnitStep
  PROVE  Tidy
<1>1. CASE UnitRestart \/ RepointEnds \/ ArmUserUnit \/ ArmLoginTrigger \/ GnomeEnds
  <2>1. at # 0 /\ UNCHANGED disk /\ \E ok : StepEnds(ok)
    BY <1>1 DEF UnitRestart, RepointEnds, ArmUserUnit, ArmLoginTrigger, GnomeEnds, On
  <2> QED
    BY <2>1, TidyEnds
<1>2. CASE RepointUnit
  <2>1. at # 0 /\ stage \in Calm /\ Step.fn = "unit-repoint" /\ nth <= Len(Step.units)
    BY <1>2 DEF RepointUnit, On, Calm
  <2>2. Step.units[nth] \in Touches(Step)
    <3>1. Step.units \in Seq(UserUnit) /\ nth \in Nat \ {0}
      BY <2>1, StepKnown DEF StepIsTyped, FilesInv
    <3>2. nth \in DOMAIN Step.units
      BY <2>1, <3>1
    <3> QED
      BY <2>1, <3>2 DEF Touches, ToSet
  <2>3. \/ \E c : AtomicWrite(Step.units[nth], c, "enable")
        \/ Go("enable") /\ UNCHANGED disk
    BY <1>2 DEF RepointUnit
  <2>4. CASE \E c : AtomicWrite(Step.units[nth], c, "enable")
    <3>1. Step.fn \in Writers /\ "enable" \in Calm
      BY <2>1 DEF Writers, Calm
    <3> QED
      BY <2>1, <2>2, <2>4, <3>1, TidyWrite
  <2> QED
    BY <2>1, <2>3, <2>4, TidyGo DEF Calm, Stages
<1>3. CASE RepointEnable \/ GnomeNextFile
  <2>1. at # 0 /\ stage \in Calm /\ UNCHANGED disk /\ \E s \in Calm : GoNth(s, nth + 1)
    BY <1>3 DEF RepointEnable, GnomeNextFile, On, Calm, Stages
  <2> QED
    BY <2>1, TidyGo
<1>4. CASE WriteUserUnit
  <2>1. at # 0 /\ stage \in Calm /\ Step.fn \in Writers /\ Step.name \in Touches(Step)
    BY <1>4 DEF WriteUserUnit, On, Touches, Writers, Calm
  <2>2. Tidy
    <3>1. \/ \E s \in {"arm", "done"} : WriteFile(Step.name, Step.unit, s)
          \/ UNCHANGED disk /\ (Go("arm") \/ StepEnds(TRUE))
      BY <1>4 DEF WriteUserUnit
    <3>2. {"arm", "done"} \subseteq Calm \cup {"done"} /\ "arm" \in Calm
      BY DEF Calm
    <3>3. \A s \in {"arm", "done"} : WriteFile(Step.name, Step.unit, s) => Tidy
      BY <2>1, <3>2, TidyWrite
    <3>4. UNCHANGED disk /\ (Go("arm") \/ StepEnds(TRUE)) => Tidy
      BY <2>1, <3>2, TidyGo, TidyEnds
    <3> QED
      BY <3>1, <3>3, <3>4
  <2> QED
    BY <2>2
<1>5. CASE WriteLoginTrigger
  <2>1. at # 0 /\ stage \in Calm /\ Step.fn \in Writers /\ Step.name \in Touches(Step)
    BY <1>5 DEF WriteLoginTrigger, On, Touches, Writers, Calm
  <2> QED
    BY <1>5, <2>1, TidyWrite DEF WriteLoginTrigger, Calm, Stages
<1>6. CASE GnomeUnits
  <2>1. at # 0 /\ stage \in Calm /\ UNCHANGED disk /\ Go("rc")
    BY <1>6 DEF GnomeUnits, On, Calm
  <2> QED
    BY <2>1, TidyGo DEF Calm, Stages
<1>7. CASE GnomeRcFile
  <2>1. at # 0 /\ stage \in Calm /\ Step.fn = "gnome-keyring" /\ nth <= Len(Step.rcfiles)
    BY <1>7 DEF GnomeRcFile, On, Calm
  <2>2. Step.rcfiles[nth] \in Touches(Step)
    <3>1. Step.rcfiles \in Seq(ToSet(Step.rcfiles)) /\ nth \in Nat \ {0}
      BY <2>1, StepKnown DEF StepIsTyped, FilesInv
    <3>2. nth \in DOMAIN Step.rcfiles
      BY <2>1, <3>1
    <3> QED
      BY <2>1, <3>2 DEF Touches, ToSet
  <2> QED
    BY <1>7, <2>1, <2>2, RcExportsOK DEF GnomeRcFile, Calm, Stages, Writers
<1> QED
  BY <1>1, <1>2, <1>3, <1>4, <1>5, <1>6, <1>7 DEF UnitStep

LEMMA MountStepOK ==
  ASSUME FilesInv, MountStep
  PROVE  Tidy
<1>1. CASE MountShare
  <2>1. /\ at # 0 /\ stage \in Calm /\ Step.fn \in Writers
        /\ "smbcredentials" \in Touches(Step)
    BY <1>1 DEF MountShare, On, Touches, Writers, Calm
  <2>2. \/ (\E ok : StepEnds(ok)) /\ UNCHANGED disk
        \/ Go("root") /\ UNCHANGED disk
        \/ WriteFile("smbcredentials", Credentials, "root")
    BY <1>1 DEF MountShare
  <2> QED
    BY <2>1, <2>2, TidyEnds, TidyGo, TidyWrite DEF Calm, Stages
<1>2. CASE WriteShareUnit
  <2>1. at # 0 /\ stage \in Calm /\ Step.fn = "mount-share" /\ nth <= 2
    BY <1>2 DEF WriteShareUnit, On, Calm
  <2>2. ShareUnits[nth] \in Touches(Step)
    <3>1. nth \in {1, 2}
      BY <2>1 DEF FilesInv
    <3> QED
      BY <2>1, <3>1 DEF ShareUnits, Touches, ToSet
  <2>3. \/ (\E ok : StepEnds(ok)) /\ UNCHANGED disk
        \/ Go("next") /\ UNCHANGED disk
        \/ \E c : WriteFile(ShareUnits[nth], c, "next")
    BY <1>2 DEF WriteShareUnit
  <2> QED
    BY <2>1, <2>2, <2>3, TidyEnds, TidyGo, TidyWrite DEF Calm, Stages, Writers
<1>3. CASE NextShareUnit
  <2>1. at # 0 /\ stage \in Calm /\ UNCHANGED disk /\ \E s \in Calm : GoNth(s, nth + 1)
    BY <1>3 DEF NextShareUnit, On, Calm, Stages
  <2> QED
    BY <2>1, TidyGo
<1>4. CASE ArmShare \/ MountDeviceNow
  <2>1. at # 0 /\ UNCHANGED disk /\ \E ok : StepEnds(ok)
    BY <1>4 DEF ArmShare, SystemdArms, MountsDirectly, MountDeviceNow, On
  <2> QED
    BY <2>1, TidyEnds
<1>5. CASE MountDevice
  <2>1. at # 0 /\ stage \in Calm /\ Touches(Step) = {"fstab"}
    BY <1>5 DEF MountDevice, On, Touches, Calm
  <2>2. \/ StepEnds(FALSE) /\ UNCHANGED disk
        \/ Go("mount") /\ (UNCHANGED disk \/ \E l : Appends("fstab", l))
    BY <1>5 DEF MountDevice
  <2>3. Go("mount") => FilesInv'
    BY <2>1, GoOK DEF Calm, Stages
  <2> QED
    BY <2>1, <2>2, <2>3, TidyEnds, AppendsOK, DiskKept, KeptMore DEF Tidy
<1> QED
  BY <1>1, <1>2, <1>3, <1>4, <1>5 DEF MountStep

LEMMA InstallStepOK ==
  ASSUME FilesInv, InstallStep
  PROVE  Tidy
<1>1. CASE AptInstall \/ FlatpakInstall \/ Package
  <2>1. at # 0 /\ UNCHANGED disk /\ \E ok : StepEnds(ok)
    BY <1>1 DEF AptInstall, FlatpakInstall, Package, On
  <2> QED
    BY <2>1, TidyEnds
<1>2. CASE GitFetch
  <2>1. at # 0 /\ stage \in Calm /\ UNCHANGED disk
    BY <1>2 DEF GitFetch, On, Calm
  <2>2. Go("show") \/ StepEnds(FALSE)
    BY <1>2 DEF GitFetch
  <2> QED
    BY <2>1, <2>2, TidyEnds, TidyGo DEF Calm, Stages
<1>3. CASE GitShow
  <2>1. at # 0 /\ stage \in Calm /\ Touches(Step) = {Step.dest}
    BY <1>3 DEF GitShow, On, Touches, Calm
  <2>2. \/ StepEnds(FALSE) /\ UNCHANGED disk
        \/ \E c : AtomicWrite(Step.dest, c, "done")
    BY <1>3 DEF GitShow
  <2>3. Step.fn \in Writers
    BY <1>3 DEF GitShow, On, Writers
  <2> QED
    BY <2>1, <2>2, <2>3, TidyEnds, TidyWrite
<1> QED
  BY <1>1, <1>2, <1>3 DEF InstallStep

LEMMA TidyFill ==
  ASSUME FilesInv, Truncate \/ Fill
  PROVE  Tidy
<1>1. held.path \in Touches(Step)
  BY DEF FilesInv, Truncate, Fill, Writing
<1> QED
  BY <1>1, TruncateOK, FillOK, KeptMore DEF Tidy

LEMMA RunStartsOK ==
  ASSUME FilesInv, RunStarts
  PROVE  FilesInv' /\ UNCHANGED disk
<1>1. Len(recipe) \in Nat \ {0}
  BY RecipeLen DEF FilesInv
<1>2. 1 \in 0..Len(recipe)
  BY <1>1
<1> QED
  BY <1>2 DEF RunStarts, FilesInv, Writing

\* A run that goes on is Tidy.
LEMMA RunStepOK ==
  ASSUME FilesInv, RunStep
  PROVE  FilesInv' /\ (Tidy \/ RunStarts)
BY RunStartsOK, TidyFill, RcStepOK, UnitStepOK, InstallStepOK, MountStepOK DEF RunStep, Tidy

LEMMA DisturbedOK ==
  ASSUME FilesInv, Disturbed
  PROVE  FilesInv'
<1>1. upsets' \in 0..MaxUpsets
  BY RecipesAreTyped DEF Disturbed, Upset, FilesInv
<1>3. /\ UNCHANGED <<recipe, at, stage, nth, held>> /\ clean' = (at = 0)
      /\ settled' = FALSE /\ before' = NoDisk
  BY DEF Disturbed, Upset
<1>4. Touches(Step)' = Touches(Step) /\ Step' = Step
  BY <1>3 DEF Touches, ShareUnits, Step
<1>5. stage' \in Writing => /\ Step'.fn \in Writers /\ held'.path \in Touches(Step)'
                            /\ held'.next \in Calm \cup {"done"}
  BY <1>3, <1>4 DEF FilesInv
<1> QED
  BY <1>1, <1>3, <1>5 DEF FilesInv

LEMMA FilesInit1 == Init => FilesInv
<1> SUFFICES ASSUME Init PROVE FilesInv
  OBVIOUS
<1>1. /\ recipe \in Recipes /\ at = 0 /\ nth = 1 /\ stage = "begin" /\ held = NoWrite
      /\ upsets = 0 /\ clean = TRUE /\ settled = FALSE /\ before = NoDisk
  BY DEF Init, FilesInit
<1>2. 0 \in 0..Len(recipe)
  BY <1>1, RecipeLen
<1>3. 0 \in 0..MaxUpsets /\ 1 \in Nat \ {0}
  BY RecipesAreTyped
<1> QED
  BY <1>1, <1>2, <1>3 DEF FilesInv, Stages, Calm, Writing

LEMMA KillRunOK ==
  ASSUME FilesInv, KillRun
  PROVE  FilesInv'
<1>1. /\ recipe' = recipe /\ at' = 0 /\ stage' = "begin" /\ nth' = 1 /\ held' = NoWrite
      /\ clean' = TRUE /\ settled' = FALSE /\ before' = NoDisk
  BY DEF KillRun, Upset
<1>2. 0 \in 0..Len(recipe)
  BY RecipeLen DEF FilesInv
<1>3. upsets' \in 0..MaxUpsets /\ 1 \in Nat \ {0}
  BY RecipesAreTyped DEF KillRun, Upset, FilesInv
<1> QED
  BY <1>1, <1>2, <1>3 DEF FilesInv, Stages, Calm, Writing

\* A step of the machine, as the files see it.
LEMMA FilesSee ==
  ASSUME [Next]_vars
  PROVE  \/ UNCHANGED fileVars
         \/ RunStep \/ KillRun
         \/ Disturbed /\ UNCHANGED disk
         \/ \E e \in Edits : UserEdits(e[1], e[2])
BY DEF Next, vars, Disturbance, NetFlips, BusFlips, PushBinary, Unmount, Replug, Use, Crashes,
       StartedByHand, Watch

LEMMA FilesStep ==
  ASSUME FilesInv, [Next]_vars
  PROVE  FilesInv'
<1>1. CASE UNCHANGED fileVars
  BY <1>1 DEF fileVars, FilesInv, Touches, ShareUnits, Step, Read, Exists
<1>2. CASE RunStep
  BY <1>2, RunStepOK
<1>3. CASE KillRun
  BY <1>3, KillRunOK
<1>4. CASE Disturbed /\ UNCHANGED disk
  BY <1>4, DisturbedOK
<1>5. CASE \E e \in Edits : UserEdits(e[1], e[2])
  BY <1>5, DisturbedOK DEF UserEdits
<1> QED
  BY <1>1, <1>2, <1>3, <1>4, <1>5, FilesSee

\* What the binaries branch holds.
BlobsInv == tracked \in Blobs /\ upstream \in Blobs
Blob(b)  == <<Line("", "binary", b)>>

LEMMA BlobsStep == BlobsInv /\ [Next]_vars => BlobsInv'
<1> SUFFICES ASSUME BlobsInv, [Next]_vars PROVE BlobsInv'
  OBVIOUS
<1>1. CASE UNCHANGED installVars
  BY <1>1 DEF installVars, BlobsInv
<1>2. CASE InstallStep
  BY <1>2 DEF InstallStep, AptInstall, FlatpakInstall, Package, GitFetch, GitShow, installVars, BlobsInv
<1>3. CASE PushBinary
  BY <1>3 DEF PushBinary, BlobsInv
<1> QED
  BY <1>1, <1>2, <1>3 DEF Next, vars, RunStep, Disturbance, Crashes, StartedByHand, Use, Watch

(***************************************************************************)
(* How a run goes on.                                                      *)
(***************************************************************************)
\* Within a recipe step.
Within == at # 0 /\ UNCHANGED <<at, clean, settled, before>>

LEMMA RunShape ==
  ASSUME FilesInv, RunStep
  PROVE  /\ UNCHANGED <<recipe, net, priv, upsets>>
         /\ RunStarts \/ Within \/ (at # 0 /\ \E ok : StepEnds(ok))
<1>1. CASE RunStarts
  BY <1>1 DEF RunStarts
<1>2. CASE Truncate \/ Fill
  BY <1>2 DEF Truncate, Fill, FilesInv, Writing, StepEnds, Within, runVars
<1>3. CASE RcStep
  BY <1>3 DEF RcStep, RcLine, RcExport, Schedule, ApplySelfTags, On, RcExports, WriteFile, AtomicWrite,
       Holding, Go, StepEnds, Within, runVars
<1>4. CASE UnitStep
  BY <1>4 DEF UnitStep, UnitRestart, RepointUnit, RepointEnable, RepointEnds, WriteUserUnit,
       ArmUserUnit, WriteLoginTrigger, ArmLoginTrigger, GnomeUnits, GnomeRcFile, GnomeNextFile,
       GnomeEnds, On, RcExports, WriteFile, AtomicWrite, Holding, Go, GoNth, StepEnds, Within, runVars
<1>5. CASE InstallStep
  BY <1>5 DEF InstallStep, AptInstall, FlatpakInstall, Package, GitFetch, GitShow, On, AtomicWrite,
       Holding, Go, StepEnds, Within, runVars
<1>6. CASE MountStep
  BY <1>6 DEF MountStep, MountShare, WriteShareUnit, NextShareUnit, ArmShare, SystemdArms,
       MountsDirectly, MountDevice, MountDeviceNow, On, WriteFile, Holding, Go, GoNth, StepEnds, Within, runVars
<1> QED
  BY <1>1, <1>2, <1>3, <1>4, <1>5, <1>6 DEF RunStep

\* The actions of each function.
LEMMA RunOf ==
  ASSUME RunStep, at # 0
  PROVE  \/ Truncate \/ Fill
         \/ Step.fn = "rc-line" /\ RcLine
         \/ Step.fn = "rc-export" /\ RcExport
         \/ Step.fn = "schedule" /\ Schedule
         \/ Step.fn = "tags" /\ ApplySelfTags
         \/ Step.fn = "unit-restart" /\ UnitRestart
         \/ Step.fn = "unit-repoint" /\ (RepointUnit \/ RepointEnable \/ RepointEnds)
         \/ Step.fn = "user-unit" /\ (WriteUserUnit \/ ArmUserUnit)
         \/ Step.fn = "login-trigger" /\ (WriteLoginTrigger \/ ArmLoginTrigger)
         \/ Step.fn = "gnome-keyring" /\ (GnomeUnits \/ GnomeRcFile \/ GnomeNextFile \/ GnomeEnds)
         \/ Step.fn \in {"apt-install", "flatpak", "package", "git-extract"} /\ InstallStep
         \/ Step.fn = "mount-share" /\ (MountShare \/ WriteShareUnit \/ NextShareUnit \/ ArmShare)
         \/ Step.fn = "mount-device" /\ (MountDevice \/ MountDeviceNow)
<1>1. ~RunStarts
  BY DEF RunStarts
<1>2. CASE RcStep
  BY <1>2 DEF RcStep, RcLine, RcExport, Schedule, ApplySelfTags, On
<1>3. CASE UnitStep
  BY <1>3 DEF UnitStep, UnitRestart, RepointUnit, RepointEnable, RepointEnds, WriteUserUnit,
       ArmUserUnit, WriteLoginTrigger, ArmLoginTrigger, GnomeUnits, GnomeRcFile, GnomeNextFile,
       GnomeEnds, On
<1>4. CASE InstallStep
  BY <1>4 DEF InstallStep, AptInstall, FlatpakInstall, Package, GitFetch, GitShow, On
<1>5. CASE MountStep
  BY <1>5 DEF MountStep, MountShare, WriteShareUnit, NextShareUnit, ArmShare, MountDevice,
       MountDeviceNow, On
<1> QED
  BY <1>1, <1>2, <1>3, <1>4, <1>5 DEF RunStep

\* Of the units, only UnitStep writes.
LEMMA UnitsSee ==
  ASSUME [Next]_vars
  PROVE  \/ UNCHANGED unitVars
         \/ RunStep /\ UnitStep
         \/ BusFlips
         \/ \E u \in Part : Crashes(u) \/ StartedByHand(u)
<1>1. CASE Watch
  BY <1>1 DEF Watch, Cycle, ForgetCycle, hostVars, unitVars, cycleVars
<1> QED
  BY <1>1 DEF Next, vars, RunStep, Disturbance, Use

\* A file is a list of lines.
IsFile(c) == c \in Seq(ToSet(c))
In(l, c)  == \E i \in DOMAIN c : c[i] = l

LEMMA NothingIsFile == IsFile(Torn) /\ \A l : ~In(l, Torn)
BY DEF Torn, IsFile, In

LEMMA AppendKeeps ==
  ASSUME NEW c, IsFile(c), NEW x
  PROVE  /\ IsFile(Append(c, x)) /\ Append(c, x) # Torn
         /\ \A l : In(l, c) => In(l, Append(c, x))
<1> DEFINE d == Append(c, x)
           S == ToSet(c) \cup {x}
<1>1. c \in Seq(S)
  BY DEF IsFile
<1>2. x \in S
  OBVIOUS
<1> HIDE DEF S
<1>3. d \in Seq(S) /\ Len(d) = Len(c) + 1 /\ \A i \in 1..Len(c) : d[i] = c[i]
  BY <1>1, <1>2
<1> HIDE DEF d
<1>4. d \in Seq(ToSet(d)) /\ d # Torn
  BY <1>1, <1>3 DEF ToSet, Torn
<1>5. DOMAIN c = 1..Len(c) /\ DOMAIN d = 1..Len(d) /\ Len(c) \in Nat
  BY <1>1, <1>3
<1>6. \A l : In(l, c) => In(l, d)
  BY <1>3, <1>5 DEF In
<1> QED
  BY <1>4, <1>6 DEF IsFile, d

(***************************************************************************)
(* Types.                                                                  *)
(***************************************************************************)
\* A login trigger is started from the file this run has written, to which others
\* may have added since.
TriggerInv ==
  at # 0 /\ Step.fn = "login-trigger" =>
    /\ stage \in {"begin", "write", "fill", "arm"}
    /\ stage \in {"write", "fill"} =>
         held = [path |-> Step.name, content |-> Step.unit, next |-> "arm"]
    /\ stage = "arm" => IsFile(Read(Step.name)) /\ Read(Step.name) # Torn

LEMMA TriggerStep ==
  ASSUME FilesInv, TriggerInv, [Next]_vars
  PROVE  TriggerInv'
<1>1. CASE UNCHANGED fileVars
  BY <1>1 DEF fileVars, TriggerInv, Step, Read, Exists
<1>2. CASE KillRun
  BY <1>2 DEF KillRun, TriggerInv
<1>3. CASE Disturbed /\ UNCHANGED disk
  BY <1>3 DEF Disturbed, TriggerInv, Step, Read, Exists
<1>4. ASSUME NEW e \in Edits, UserEdits(e[1], e[2]) PROVE TriggerInv'
  <2>1. UNCHANGED <<recipe, at, stage, nth, held>> /\ Step' = Step
    BY <1>4 DEF UserEdits, Disturbed, Step
  <2>2. Read(e[1])' = Append(Read(e[1]), e[2]) /\ Kept({e[1]})
    BY <1>4, AppendsOK DEF UserEdits
  <2>3. ASSUME NEW p, IsFile(Read(p)), Read(p) # Torn
        PROVE  IsFile(Read(p)') /\ Read(p)' # Torn
    <3>1. CASE p = e[1]
      BY <2>2, <2>3, <3>1, AppendKeeps
    <3>2. CASE p # e[1]
      BY <2>2, <2>3, <3>2 DEF Kept
    <3> QED
      BY <3>1, <3>2
  <2> QED
    BY <2>1, <2>3 DEF TriggerInv, IsFile
<1>5. CASE RunStep
  <2>1. CASE RunStarts
    BY <2>1 DEF RunStarts, FilesInv, TriggerInv
  <2>2. CASE \E ok : StepEnds(ok)
    BY <2>2 DEF StepEnds, TriggerInv
  <2>3. CASE Within
    <3>1. Step' = Step /\ at' = at /\ at # 0
      BY <1>5, <2>3, RunShape DEF Within, Step
    <3>2. CASE Step.fn # "login-trigger"
      BY <3>1, <3>2 DEF TriggerInv
    <3>3. CASE Step.fn = "login-trigger"
      <4>1. Truncate \/ Fill \/ WriteLoginTrigger \/ ArmLoginTrigger
        BY <1>5, <3>1, <3>3, RunOf
      <4>2. CASE Fill
        <5>1. held.path = Step.name /\ held.content = Step.unit /\ held.next = "arm"
          BY <3>1, <3>3, <4>2 DEF TriggerInv, Fill
        <5>2. stage' = "arm"
          BY <4>2, <5>1 DEF Fill
        <5>3. Read(Step.name)' = Step.unit
          BY <3>1, <4>2, <5>1 DEF Fill, Put, Read, Exists
        <5>4. IsFile(Step.unit) /\ Step.unit # Torn
          BY <3>1, <3>3, StepKnown DEF StepIsTyped, IsFile
        <5> QED
          BY <3>1, <5>2, <5>3, <5>4 DEF TriggerInv, IsFile
      <4>3. CASE WriteLoginTrigger
        BY <3>1, <4>3 DEF WriteLoginTrigger, WriteFile, Holding, TriggerInv
      <4>4. CASE ArmLoginTrigger
        BY <2>2, <4>4 DEF ArmLoginTrigger
      <4>5. CASE Truncate
        BY <3>1, <3>3, <4>5 DEF Truncate, TriggerInv
      <4> QED
        BY <4>1, <4>2, <4>3, <4>4, <4>5
    <3> QED
      BY <3>2, <3>3
  <2> QED
    BY <1>5, <2>1, <2>2, <2>3, RunShape
<1> QED
  BY <1>1, <1>2, <1>3, <1>4, <1>5, FilesSee

\* A unit of the user's that works executes something.
UnitsInv ==
  /\ works \subseteq Part /\ enabled \subseteq UserUnit /\ masked \subseteq UserUnit
  /\ DOMAIN image = UserUnit
  /\ \A u \in works \cap UserUnit : image[u] # Torn

\* SelectInSeq finds the least index of those that satisfy the test.
LEMMA LeastIsLeast ==
  ASSUME NEW I \in SUBSET Nat, I # {}
  PROVE  Min(I) \in I /\ \A k \in I : Min(I) <= k
<1> DEFINE R == OpToRel(<, Nat)
<1>1. IsWellFoundedOn(R, Nat)
  BY NatLessThanWellFounded
<1> HIDE DEF R
<1>2. PICK h \in I : \A k \in I : ~(<<k, h>> \in R)
  BY <1>1, WFMin, Zenon
<1>3. \A k \in I : ~(k < h)
  BY <1>2 DEF R, OpToRel
<1>4. \E x \in I : \A y \in I : x <= y
  BY <1>2, <1>3
<1> QED
  BY <1>4 DEF Min

LEMMA UnitRestartOK ==
  ASSUME FilesInv, UnitRestart
  PROVE  \/ UNCHANGED <<works, image>>
         \/ \E u \in works : /\ u \in UserUnit => CanStart(u)
                             /\ works' = works
                             /\ image' = [v \in UserUnit |-> IF v = u THEN loaded[v] ELSE image[v]]
<1> DEFINE units == Step.user_units \o Step.system_units
           I     == {i \in 1..Len(units) : Restartable(units[i])}
<1>1. at # 0 /\ Step.fn = "unit-restart"
  BY DEF UnitRestart, On
<1>2. units \in Seq(UserUnit \cup SystemUnit)
  <2>1. Step.user_units \in Seq(UserUnit) /\ Step.system_units \in Seq(SystemUnit)
    BY <1>1, StepKnown DEF StepIsTyped
  <2> QED
    BY <2>1
<1>3. SelectInSeq(units, Restartable) = IF I # {} THEN Min(I) ELSE 0
  BY DEF SelectInSeq
<1>4. I \subseteq Nat
  <2> HIDE DEF units
  <2>1. Len(units) \in Nat
    BY <1>2
  <2>2. 1..Len(units) \subseteq Nat
    BY <2>1
  <2> QED
    BY <2>2
<1>5. IF SelectInSeq(units, Restartable) = 0 THEN UNCHANGED <<works, image>>
      ELSE Starts({units[SelectInSeq(units, Restartable)]})
  BY DEF UnitRestart
<1> DEFINE i == SelectInSeq(units, Restartable)
<1>6. CASE i # 0
  <2>1. i \in I
    BY <1>3, <1>4, <1>6, LeastIsLeast
  <2>2. Restartable(units[i])
    BY <2>1
  <2> DEFINE u == units[i]
  <2>3. u \in works /\ (u \in UserUnit => CanStart(u)) /\ Starts({u})
    BY <1>5, <1>6, <2>2 DEF Restartable
  <2> HIDE DEF u
  <2>4. works' = works
    BY <2>3 DEF Starts
  <2>5. image' = [v \in UserUnit |-> IF v = u THEN loaded[v] ELSE image[v]]
    BY <2>3 DEF Starts
  <2> QED
    BY <2>3, <2>4, <2>5
<1> QED
  BY <1>5, <1>6

LEMMA UnitStepTyped ==
  ASSUME FilesInv, TriggerInv, UnitsInv, UnitStep
  PROVE  UnitsInv'
<1>1. CASE UnitRestart
  <2>1. UNCHANGED <<enabled, masked>>
    BY <1>1 DEF UnitRestart
  <2>2. CASE UNCHANGED <<works, image>>
    BY <2>1, <2>2 DEF UnitsInv
  <2>3. ASSUME NEW u \in works, u \in UserUnit => CanStart(u), works' = works,
               image' = [v \in UserUnit |-> IF v = u THEN loaded[v] ELSE image[v]]
        PROVE  UnitsInv'
    BY <2>1, <2>3 DEF UnitsInv, CanStart
  <2> QED
    BY <1>1, <2>2, <2>3, UnitRestartOK
<1>2. CASE RepointUnit \/ RepointEnds \/ WriteUserUnit \/ WriteLoginTrigger \/ GnomeRcFile
           \/ GnomeNextFile \/ GnomeEnds
  BY <1>2 DEF RepointUnit, RepointEnds, WriteUserUnit, WriteLoginTrigger, GnomeRcFile,
       GnomeNextFile, GnomeEnds, unitVars, UnitsInv
<1>3. CASE RepointEnable
  <2>1. at # 0 /\ Step.fn = "unit-repoint"
    BY <1>3 DEF RepointEnable, On
  <2>2. FoundUnits \subseteq UserUnit
    <3>1. Step.units \in Seq(UserUnit)
      BY <2>1, StepKnown DEF StepIsTyped
    <3> QED
      BY <3>1 DEF FoundUnits, ToSet
  <2> QED
    BY <1>3, <2>2 DEF RepointEnable, UnitsInv
<1>4. CASE ArmUserUnit
  <2> DEFINE u == Step.name
  <2>1. u \in UserUnit /\ u \in Part
    BY <1>4, StepKnown, UnitsAreParts DEF ArmUserUnit, On, StepIsTyped
  <2>2. masked' = masked
    BY <1>4 DEF ArmUserUnit
  <2>3. CASE UNCHANGED <<works, image, enabled>>
    BY <2>2, <2>3 DEF UnitsInv
  <2>4. CASE /\ Read(u) # Torn /\ enabled' = enabled \cup {u} /\ works' = works \cup {u}
             /\ image' = [image EXCEPT ![u] = IF u \in works THEN @ ELSE Read(u)]
    <3> HIDE DEF u
    <3> QED
      BY <2>1, <2>2, <2>4 DEF UnitsInv
  <2> QED
    BY <1>4, <2>3, <2>4 DEF ArmUserUnit
<1>5. CASE ArmLoginTrigger
  <2> DEFINE u == Step.name
  <2>1. u \in UserUnit
    BY <1>5, StepKnown DEF ArmLoginTrigger, On, StepIsTyped
  <2>2. Read(u) # Torn
    BY <1>5 DEF ArmLoginTrigger, On, TriggerInv
  <2>3. UNCHANGED <<works, masked>>
    BY <1>5 DEF ArmLoginTrigger
  <2>4. CASE UNCHANGED <<enabled, image>>
    BY <2>3, <2>4 DEF UnitsInv
  <2>5. CASE enabled' = enabled \cup {u} /\ image' = [image EXCEPT ![u] = Read(u)]
    <3> HIDE DEF u
    <3> QED
      BY <2>1, <2>2, <2>3, <2>5 DEF UnitsInv
  <2> QED
    BY <1>5, <2>4, <2>5 DEF ArmLoginTrigger
<1>6. CASE GnomeUnits
  <2>1. {"gcr-ssh-agent", "gpg-agent-ssh", "ssh-agent"} \subseteq UserUnit
    BY <1>6, StepKnown DEF GnomeUnits, On, StepIsTyped
  <2>2. CASE UNCHANGED <<enabled, masked, works, image>>
    BY <2>2 DEF UnitsInv
  <2>3. CASE bus
    <3> DEFINE gone == {"gpg-agent-ssh", "ssh-agent"}
               gcr  == {u \in {"gcr-ssh-agent"} : CanStart(u)}
    <3>1. /\ enabled' = (enabled \cup gcr) \ gone /\ masked' = masked \cup {"gpg-agent-ssh"}
          /\ works' = (works \cup gcr) \ gone
          /\ image' = [u \in UserUnit |-> IF u \in gcr \ works THEN loaded[u] ELSE image[u]]
      BY <1>6, <2>3 DEF GnomeUnits
    <3>2. gcr \subseteq UserUnit /\ gcr \subseteq Part /\ \A u \in gcr : loaded[u] # Torn
      BY <2>1, UnitsAreParts DEF CanStart
    <3> HIDE DEF gcr, gone
    <3>3. enabled' \subseteq UserUnit /\ masked' \subseteq UserUnit /\ works' \subseteq Part
      BY <2>1, <3>1, <3>2 DEF UnitsInv
    <3>4. DOMAIN image' = UserUnit /\ \A u \in works' \cap UserUnit : image'[u] # Torn
      BY <3>1, <3>2 DEF UnitsInv
    <3> QED
      BY <3>3, <3>4 DEF UnitsInv
  <2> QED
    BY <1>6, <2>2, <2>3 DEF GnomeUnits
<1> QED
  BY <1>1, <1>2, <1>3, <1>4, <1>5, <1>6 DEF UnitStep

LEMMA UnitsTyped ==
  ASSUME FilesInv, TriggerInv, UnitsInv, [Next]_vars
  PROVE  UnitsInv'
<1>1. CASE UNCHANGED unitVars
  BY <1>1 DEF unitVars, UnitsInv
<1>2. CASE RunStep /\ UnitStep
  BY <1>2, UnitStepTyped
<1>3. CASE BusFlips
  BY <1>3 DEF BusFlips, UnitsInv
<1>4. ASSUME NEW u \in Part, Crashes(u)
      PROVE  UnitsInv'
  BY <1>4 DEF Crashes, Break, hostVars, UnitsInv
<1>5. ASSUME NEW u \in Part, StartedByHand(u)
      PROVE  UnitsInv'
  <2>1. /\ works' = works \cup {u} /\ UNCHANGED <<enabled, masked>>
        /\ image' = [v \in UserUnit |-> IF v = u THEN loaded[v] ELSE image[v]]
        /\ u \in UserUnit => loaded[u] # Torn
    BY <1>5 DEF StartedByHand, Repair, CanStart
  <2> QED
    BY <2>1 DEF UnitsInv
<1> QED
  BY <1>1, <1>2, <1>3, <1>4, <1>5, UnitsSee

\* What is mounted.
MountsInv ==
  /\ mounted = "autofs" => armed # "none"
  /\ systemd \in BOOLEAN /\ drive \in {"fine", "broken", "absent"}

\* The rest: blobs, channels, mounts, endpoints and the cycle.
RestInv ==
  /\ BlobsInv /\ flat \subseteq {"system", "user"}
  /\ MountsInv
  /\ EndpointTypeOK /\ CycleTypeOK

LEMMA MountsStep ==
  ASSUME FilesInv, MountsInv, [Next]_vars
  PROVE  MountsInv'
<1>1. CASE UNCHANGED mountVars
  BY <1>1 DEF mountVars, MountsInv
<1>2. CASE MountStep
  <2>1. CASE ArmShare \/ MountDeviceNow
    <3>1. Step.device \notin {"none", "autofs"}
      BY <2>1, StepKnown DEF ArmShare, MountDeviceNow, On, StepIsTyped
    <3> QED
      BY <2>1, <3>1 DEF ArmShare, SystemdArms, MountsDirectly, MountDeviceNow, MountsInv
  <2> QED
    BY <1>1, <1>2, <2>1 DEF MountStep, MountShare, WriteShareUnit, NextShareUnit, MountDevice
<1>3. CASE Use \/ Unmount \/ Replug
  BY <1>3 DEF Use, Unmount, Replug, MountsInv
<1> QED
  BY <1>1, <1>2, <1>3 DEF Next, vars, RunStep, Disturbance, Crashes, StartedByHand, Watch

LEMMA FlatStep ==
  ASSUME flat \subseteq {"system", "user"}, [Next]_vars
  PROVE  flat' \subseteq {"system", "user"}
<1>1. CASE UNCHANGED flat
  BY <1>1
<1>2. CASE InstallStep
  BY <1>2 DEF InstallStep, AptInstall, FlatpakInstall, Package, GitFetch, GitShow, installVars
<1> QED
  BY <1>1, <1>2 DEF Next, vars, RunStep, Disturbance, PushBinary, Crashes, StartedByHand, Use,
       Watch, installVars

LEMMA EndpointsStep ==
  ASSUME EndpointTypeOK, [Next]_vars
  PROVE  EndpointTypeOK'
<1>1. CASE UNCHANGED endpointVars
  BY <1>1 DEF endpointVars, EndpointTypeOK
<1>2. ASSUME NEW a \in Address, StopDaemon(a) \/ StartDaemon(a) \/ Listen(a)
      PROVE  EndpointTypeOK'
  <2>1. serving' \in [Address -> {"down", "booting", "probing", "ready"}]
    BY <1>2 DEF StopDaemon, StartDaemon, Listen, Goes, EndpointTypeOK
  <2>2. faults' \in 0..MaxFaults
    BY <1>2, FaultsAreFew DEF StopDaemon, StartDaemon, Listen, Fault, EndpointTypeOK
  <2> QED
    BY <2>1, <2>2 DEF EndpointTypeOK
<1>3. CASE Cycle
  <2>1. serving' = serving /\ (faults' = faults \/ Fault)
    BY <1>3 DEF Cycle
  <2>2. faults' \in 0..MaxFaults
    BY <2>1, FaultsAreFew DEF Fault, EndpointTypeOK
  <2> QED
    BY <2>1, <2>2 DEF EndpointTypeOK
<1>4. CASE Watch
  <2>1. Self \in Address /\ Peers \subseteq Address
    BY SelfServes
  <2> QED
    BY <1>2, <1>3, <1>4, <2>1 DEF Watch
<1> QED
  BY <1>1, <1>4 DEF Next, vars, agentVars, Crashes, StartedByHand, Break, Repair

LEMMA CycleTyped ==
  ASSUME CycleTypeOK, [Next]_vars
  PROVE  CycleTypeOK'
<1>1. CASE UNCHANGED cycleVars
  BY <1>1 DEF cycleVars, CycleTypeOK
<1>2. CASE ForgetCycle
  BY <1>2 DEF ForgetCycle, CycleTypeOK, Forgotten, Nothing, Words
<1>3. CASE Cycle
  <2>1. PICK late \in SUBSET {p \in Peers : Answers(p)}, slow \in SUBSET {s \in Services : Timed(s)} :
          /\ said' = AlertOnChange(RunAllChecks(slow), PingAll(late))
          /\ last' = RunAllChecks(slow) /\ lastPeers' = PingAll(late)
          /\ ran' = ran \cup {s \in Services : RunAllChecks(slow)[s] = "running"} \cup PingAll(late)
    BY <1>3 DEF Cycle, Remembered
  <2>2. last' \in [Services -> {"unknown", "running", "down", "not_configured", "error"}]
    BY <2>1 DEF RunAllChecks, CheckService
  <2>3. lastPeers' \subseteq Peers
    BY <2>1 DEF PingAll
  <2>4. ran' \subseteq Services \cup Peers
    BY <2>1, <2>3 DEF CycleTypeOK
  <2>5. said' \in [Services \cup Peers -> Words]
    <3>1. \A x \in Services \cup Peers : said[x] \in Words
      BY DEF CycleTypeOK
    <3>2. said' = AlertOnChange(last', lastPeers')
      BY <2>1
    <3> QED
      BY <3>1, <3>2 DEF AlertOnChange, ServiceAlert, PeerAlert, Words
  <2> QED
    BY <2>2, <2>3, <2>4, <2>5 DEF CycleTypeOK
<1>4. UNCHANGED cycleVars \/ Cycle \/ ForgetCycle
  BY DEF Next, agentVars, vars, Crashes, StartedByHand, Break, Repair, Watch
<1> QED
  BY <1>1, <1>2, <1>3, <1>4

MachineInv == FilesInv /\ TriggerInv /\ UnitsInv /\ RestInv

LEMMA MachineInit == Init => MachineInv
<1> SUFFICES ASSUME Init PROVE MachineInv
  OBVIOUS
<1>1. FilesInv /\ BlobsInv
  BY FilesInit1, StubIsABlob DEF Init, InstallsInit, BlobsInv
<1>2. TriggerInv
  BY DEF Init, FilesInit, TriggerInv
<1>3. UnitsInv
  <2>1. PICK U \in Running : works = {u \in U : u \in UserUnit => Read(u) # Torn}
    BY DEF Init, UnitsInit
  <2>2. U \subseteq Part
    BY UnitsAreParts
  <2> QED
    BY <2>1, <2>2 DEF Init, UnitsInit, UnitsInv
<1>4. flat = {} /\ MountsInv
  BY DEF Init, InstallsInit, MountsInit, MountsInv
<1>5. EndpointTypeOK
  <2>1. 0 \in 0..MaxFaults
    BY FaultsAreFew
  <2> QED
    BY <2>1 DEF Init, EndpointInit, EndpointTypeOK
<1>6. CycleTypeOK
  BY DEF Init, CycleInit, CycleTypeOK, Forgotten, Nothing, Words
<1> QED
  BY <1>1, <1>2, <1>3, <1>4, <1>5, <1>6 DEF MachineInv, RestInv

LEMMA MachineStep == MachineInv /\ [Next]_vars => MachineInv'
<1> SUFFICES ASSUME FilesInv, TriggerInv, UnitsInv, RestInv, [Next]_vars
             PROVE  MachineInv'
  BY DEF MachineInv
<1>1. RestInv'
  BY BlobsStep, FlatStep, MountsStep, EndpointsStep, CycleTyped DEF RestInv
<1> QED
  BY <1>1, FilesStep, TriggerStep, UnitsTyped DEF MachineInv

\* The model's bookkeeping holds together whatever a machine is put through: a run
\* that is over has left no write half done and remembers nothing, a unit of the
\* user's that works executes something, an idle automount has a share behind it,
\* and the agent remembers only services and peers that it has.
THEOREM MachineIsWellFormed == Spec => []TypeOK
<1>1. MachineInv => TypeOK
  <2> SUFFICES ASSUME MachineInv PROVE TypeOK
    OBVIOUS
  <2>1. (stage \in {"write", "fill", "install"}) = (held # NoWrite)
    BY DEF MachineInv, FilesInv, Writing
  <2>2. enabled \cup masked \subseteq UserUnit
    BY DEF MachineInv, UnitsInv
  <2> QED
    BY <2>1, <2>2 DEF MachineInv, FilesInv, Stages, Calm, Writing, UnitsInv, RestInv, BlobsInv,
       MountsInv, TypeOK
<1> QED
  BY <1>1, MachineInit, MachineStep, PTL DEF Spec

(***************************************************************************)
(* What a step puts into a file.                                           *)
(***************************************************************************)
\* What an export makes of a file, and tags of node.yaml.
WithExport(c, var, val) ==
  IF Some(c, LAMBDA l : l.key = var) THEN Exported(c, var, val) ELSE Append(c, Line("", var, val))

WithTags(c, k, now) ==
  IF k = "none" THEN Append(c, Line("", "labels", now))
  ELSE [i \in DOMAIN c |-> IF c[i].key = k THEN [c[i] EXCEPT !.val = now] ELSE c[i]]

\* c is what the step being run makes of file q.
NewContent(q, c) ==
  CASE Step.fn = "rc-line" ->
         /\ c = Append(Read(q), Step.line)
         /\ \A i \in DOMAIN Read(q) : ~Occurs(Step.marker, Read(q)[i])
    [] Step.fn = "rc-export" -> c = WithExport(Read(q), Step.var, Step.val)
    [] Step.fn = "schedule" ->
         c = Append(OtherJobs(Read(q), Step.name, Step.payload), Line(Step.spec, Step.name, Step.payload))
    [] Step.fn = "tags" ->
         LET k   == TagKey(Read(q))
             now == Retagged(TagsOf(Read(q), k), Step.add, Step.remove)
         IN  c = WithTags(Read(q), k, now) /\ now # TagsOf(Read(q), k)
    [] Step.fn = "unit-repoint" -> c = Patched(Read(q), Step.from, Step.to) /\ Exists(q)
    [] Step.fn = "user-unit" -> c = Step.unit /\ (Step.overwrite \/ ~Exists(q))
    [] Step.fn = "login-trigger" -> c = Step.unit
    [] Step.fn = "gnome-keyring" ->
         c = WithExport(Read(q), "SSH_AUTH_SOCK", "gcr")
    [] Step.fn = "git-extract" -> c = Blob(tracked)
    [] Step.fn = "mount-share" ->
         \/ q = "smbcredentials" /\ c = Credentials /\ mounted = "none" /\ Step.nenv /\ net
         \/ /\ q \in ToSet(ShareUnits) /\ c = ShareUnit(Step.device) /\ stage = "root"
            /\ nth = 1 => \A p \in ToSet(ShareUnits) : ~Foreign(p)
    [] Step.fn = "mount-device" ->
         /\ c = Append(Read(q), Line("gogitops", Step.device, Step.mnt))
         /\ Step.fstab /\ priv = "sudo" /\ \A i \in DOMAIN Read(q) : Read(q)[i].val # Step.mnt
    [] OTHER -> FALSE

\* A step leaves the files as they are, or makes one of its own what NewContent
\* says, at once (an append) or with a write that it begins.
AtOnce(q, c) == disk' = Put(q, c) /\ held' = NoWrite
Begins(q, c) == UNCHANGED disk /\ held' # NoWrite /\ held'.path = q /\ held'.content = c

Makes ==
  \/ UNCHANGED disk /\ held' = NoWrite
  \/ \E q \in Touches(Step) : \E c : NewContent(q, c) /\ (AtOnce(q, c) \/ Begins(q, c))

LEMMA EndsCalm ==
  ASSUME FilesInv, \/ \E ok : StepEnds(ok)
                   \/ stage \in Calm /\ \E s : Go(s)
                   \/ stage \in Calm /\ \E s, n : GoNth(s, n)
  PROVE  held' = NoWrite
BY DEF FilesInv, Calm, Writing, StepEnds, Go, GoNth

LEMMA WriteBegins ==
  ASSUME NEW q, NEW c, NEW next \in Calm \cup {"done"}, WriteFile(q, c, next) \/ AtomicWrite(q, c, next)
  PROVE  Begins(q, c) /\ held'.next = next
<1>1. held' = [path |-> q, content |-> c, next |-> next] /\ UNCHANGED disk
  BY DEF WriteFile, AtomicWrite, Holding
<1>2. held'.next = next /\ held'.path = q /\ held'.content = c
  BY <1>1
<1>3. held' # NoWrite
  BY <1>2 DEF NoWrite, Calm
<1> QED
  BY <1>1, <1>2, <1>3 DEF Begins

LEMMA ExportsMake ==
  ASSUME FilesInv, stage \in Calm, NEW q, NEW var, NEW val, NEW next \in Calm \cup {"done"},
         RcExports(q, var, val, next)
  PROVE  LET c == WithExport(Read(q), var, val) IN Begins(q, c) \/ AtOnce(q, c)
<1>1. CASE Some(Read(q), LAMBDA l : l.key = var)
  <2>1. WriteFile(q, Exported(Read(q), var, val), next)
    BY <1>1 DEF RcExports
  <2> QED
    BY <1>1, <2>1, WriteBegins DEF WithExport
<1>2. CASE ~Some(Read(q), LAMBDA l : l.key = var)
  <2>1. Appends(q, Line("", var, val)) /\ IF next = "done" THEN StepEnds(TRUE) ELSE Go(next)
    BY <1>2 DEF RcExports
  <2> QED
    BY <1>2, <2>1, EndsCalm DEF Appends, AtOnce, WithExport
<1> QED
  BY <1>1, <1>2

LEMMA RcMakes ==
  ASSUME FilesInv, RcStep
  PROVE  Makes
<1>1. CASE RcLine
  <2>1. Step.fn = "rc-line" /\ StepEnds(TRUE) /\ Touches(Step) = {Step.file}
    BY <1>1 DEF RcLine, On, Touches
  <2>2. held' = NoWrite
    BY <2>1, EndsCalm
  <2>3. CASE UNCHANGED disk
    BY <2>2, <2>3 DEF Makes
  <2>4. CASE /\ Appends(Step.file, Step.line)
             /\ ~Some(Read(Step.file), LAMBDA l : Occurs(Step.marker, l))
    <3>1. NewContent(Step.file, Append(Read(Step.file), Step.line))
      BY <2>1, <2>4 DEF NewContent, Some
    <3> QED
      BY <2>1, <2>2, <2>4, <3>1 DEF Makes, Appends, AtOnce
  <2> QED
    BY <1>1, <2>3, <2>4 DEF RcLine
<1>2. CASE RcExport
  <2>1. Step.fn = "rc-export" /\ Step.file \in Touches(Step) /\ stage \in Calm
    BY <1>2 DEF RcExport, On, Touches, Calm
  <2> DEFINE c == WithExport(Read(Step.file), Step.var, Step.val)
  <2>2. Begins(Step.file, c) \/ AtOnce(Step.file, c)
    BY <1>2, <2>1, ExportsMake DEF RcExport
  <2>3. NewContent(Step.file, c)
    BY <2>1 DEF NewContent
  <2> QED
    BY <2>1, <2>2, <2>3 DEF Makes
<1>3. CASE Schedule
  <2>1. Step.fn = "schedule" /\ "crontab" \in Touches(Step)
    BY <1>3 DEF Schedule, On, Touches
  <2> DEFINE c == Append(OtherJobs(Read("crontab"), Step.name, Step.payload),
                         Line(Step.spec, Step.name, Step.payload))
  <2>2. NewContent("crontab", c)
    BY <2>1 DEF NewContent
  <2>3. Begins("crontab", c)
    BY <1>3, WriteBegins DEF Schedule
  <2> QED
    BY <2>1, <2>2, <2>3 DEF Makes
<1>4. CASE ApplySelfTags
  <2>1. Step.fn = "tags" /\ "node.yaml" \in Touches(Step)
    BY <1>4 DEF ApplySelfTags, On, Touches
  <2> DEFINE lines  == Read("node.yaml")
             k      == TagKey(lines)
             now    == Retagged(TagsOf(lines, k), Step.add, Step.remove)
             c(n)   == WithTags(lines, k, n)
  <2>2. \/ (\E ok : StepEnds(ok)) /\ UNCHANGED disk
        \/ WriteFile("node.yaml", c(now), "done") /\ now # TagsOf(lines, k)
    BY <1>4 DEF ApplySelfTags, WithTags
  <2>3. CASE (\E ok : StepEnds(ok)) /\ UNCHANGED disk
    BY <2>3, EndsCalm DEF Makes
  <2>4. CASE WriteFile("node.yaml", c(now), "done") /\ now # TagsOf(lines, k)
    <3>1. NewContent("node.yaml", c(now))
      BY <2>1, <2>4 DEF NewContent
    <3>2. Begins("node.yaml", c(now))
      BY <2>4, WriteBegins
    <3> QED
      BY <2>1, <3>1, <3>2 DEF Makes
  <2> QED
    BY <2>2, <2>3, <2>4
<1> QED
  BY <1>1, <1>2, <1>3, <1>4 DEF RcStep

LEMMA UnitMakes ==
  ASSUME FilesInv, UnitStep
  PROVE  Makes
<1>1. CASE UnitRestart \/ RepointEnds \/ ArmUserUnit \/ ArmLoginTrigger \/ GnomeEnds
  <2>1. UNCHANGED disk /\ \E ok : StepEnds(ok)
    BY <1>1 DEF UnitRestart, RepointEnds, ArmUserUnit, ArmLoginTrigger, GnomeEnds
  <2> QED
    BY <2>1, EndsCalm DEF Makes
<1>2. CASE RepointUnit
  <2>1. at # 0 /\ stage \in Calm /\ Step.fn = "unit-repoint" /\ nth <= Len(Step.units)
    BY <1>2 DEF RepointUnit, On, Calm
  <2> DEFINE u == Step.units[nth]
             c == Patched(Read(u), Step.from, Step.to)
  <2>2. u \in Touches(Step)
    <3>1. Step.units \in Seq(UserUnit) /\ nth \in Nat \ {0}
      BY <2>1, StepKnown DEF StepIsTyped, FilesInv
    <3>2. nth \in DOMAIN Step.units
      BY <2>1, <3>1
    <3> QED
      BY <2>1, <3>2 DEF Touches, ToSet
  <2>4. CASE Go("enable") /\ UNCHANGED disk
    BY <2>1, <2>4, EndsCalm DEF Makes
  <2>5. CASE AtomicWrite(u, c, "enable") /\ Exists(u)
    <3>1. NewContent(u, c)
      BY <2>1, <2>5 DEF NewContent
    <3>2. Begins(u, c)
      BY <2>5, WriteBegins DEF Calm
    <3> QED
      BY <2>1, <2>2, <3>1, <3>2 DEF Makes
  <2> QED
    BY <1>2, <2>4, <2>5 DEF RepointUnit
<1>3. CASE RepointEnable \/ GnomeNextFile \/ GnomeUnits
  <2>1. stage \in Calm /\ UNCHANGED disk /\ ((\E s, n : GoNth(s, n)) \/ (\E s : Go(s)))
    BY <1>3 DEF RepointEnable, GnomeNextFile, GnomeUnits, On, Calm
  <2> QED
    BY <2>1, EndsCalm DEF Makes
<1>4. CASE WriteUserUnit
  <2>1. stage \in Calm /\ Step.fn = "user-unit" /\ Step.name \in Touches(Step)
    BY <1>4 DEF WriteUserUnit, On, Touches, Calm
  <2>2. CASE UNCHANGED disk /\ (Go("arm") \/ StepEnds(TRUE))
    BY <2>1, <2>2, EndsCalm DEF Makes
  <2>3. CASE /\ ~Exists(Step.name) \/ Step.overwrite
             /\ \E next \in {"arm", "done"} : WriteFile(Step.name, Step.unit, next)
    <3>1. NewContent(Step.name, Step.unit)
      BY <2>1, <2>3 DEF NewContent
    <3>2. Begins(Step.name, Step.unit)
      BY <2>3, WriteBegins DEF Calm, Stages
    <3> QED
      BY <2>1, <3>1, <3>2 DEF Makes
  <2> QED
    BY <1>4, <2>2, <2>3 DEF WriteUserUnit
<1>5. CASE WriteLoginTrigger
  <2>1. Step.fn = "login-trigger" /\ Step.name \in Touches(Step)
    BY <1>5 DEF WriteLoginTrigger, On, Touches
  <2>2. NewContent(Step.name, Step.unit)
    BY <2>1 DEF NewContent
  <2>3. Begins(Step.name, Step.unit)
    BY <1>5, WriteBegins DEF WriteLoginTrigger, Calm, Stages
  <2> QED
    BY <2>1, <2>2, <2>3 DEF Makes
<1>6. CASE GnomeRcFile
  <2>1. at # 0 /\ stage \in Calm /\ Step.fn = "gnome-keyring" /\ nth <= Len(Step.rcfiles)
    BY <1>6 DEF GnomeRcFile, On, Calm
  <2> DEFINE p == Step.rcfiles[nth]
  <2>2. p \in Touches(Step)
    <3>1. Step.rcfiles \in Seq(ToSet(Step.rcfiles)) /\ nth \in Nat \ {0}
      BY <2>1, StepKnown DEF StepIsTyped, FilesInv
    <3>2. nth \in DOMAIN Step.rcfiles
      BY <2>1, <3>1
    <3> QED
      BY <2>1, <3>2 DEF Touches, ToSet
  <2>3. RcExports(p, "SSH_AUTH_SOCK", "gcr", "next")
    BY <1>6 DEF GnomeRcFile
  <2>4. "next" \in Calm \cup {"done"}
    BY DEF Calm, Stages
  <2> HIDE DEF p
  <2> DEFINE c == WithExport(Read(p), "SSH_AUTH_SOCK", "gcr")
  <2>5. Begins(p, c) \/ AtOnce(p, c)
    BY <2>1, <2>3, <2>4, ExportsMake
  <2>6. NewContent(p, c)
    BY <2>1 DEF NewContent
  <2> QED
    BY <2>2, <2>5, <2>6 DEF Makes
<1> QED
  BY <1>1, <1>2, <1>3, <1>4, <1>5, <1>6 DEF UnitStep

LEMMA InstallMakes ==
  ASSUME FilesInv, InstallStep
  PROVE  Makes
<1>1. CASE UNCHANGED disk /\ \E ok : StepEnds(ok)
  BY <1>1, EndsCalm DEF Makes
<1>2. CASE GitFetch
  BY <1>1, <1>2, EndsCalm DEF GitFetch, On, Calm, Makes
<1>3. CASE GitShow
  <2>1. stage \in Calm /\ Step.fn = "git-extract" /\ Step.dest \in Touches(Step)
    BY <1>3 DEF GitShow, On, Touches, Calm
  <2>2. NewContent(Step.dest, Blob(tracked))
    BY <2>1 DEF NewContent
  <2>3. CASE AtomicWrite(Step.dest, Blob(tracked), "done")
    <3>1. Begins(Step.dest, Blob(tracked))
      BY <2>3, WriteBegins
    <3> QED
      BY <2>1, <2>2, <3>1 DEF Makes
  <2> QED
    BY <1>1, <1>3, <2>3 DEF GitShow, Blob
<1> QED
  BY <1>1, <1>2, <1>3 DEF InstallStep, AptInstall, FlatpakInstall, Package

LEMMA MountMakes ==
  ASSUME FilesInv, MountStep
  PROVE  Makes
<1>1. CASE UNCHANGED disk /\ \/ \E ok : StepEnds(ok)
                             \/ stage \in Calm /\ \E s : Go(s)
                             \/ stage \in Calm /\ \E s, n : GoNth(s, n)
  BY <1>1, EndsCalm DEF Makes
<1>2. CASE MountShare
  <2>1. Step.fn = "mount-share" /\ "smbcredentials" \in Touches(Step)
    BY <1>2 DEF MountShare, On, Touches
  <2>2. CASE WriteFile("smbcredentials", Credentials, "root") /\ mounted = "none" /\ Step.nenv /\ net
    <3>1. NewContent("smbcredentials", Credentials)
      BY <2>1, <2>2 DEF NewContent
    <3>2. Begins("smbcredentials", Credentials)
      BY <2>2, WriteBegins DEF Calm, Stages
    <3> QED
      BY <2>1, <3>1, <3>2 DEF Makes
  <2> QED
    BY <1>1, <1>2, <2>2 DEF MountShare, On, Calm
<1>3. CASE WriteShareUnit
  <2>1. Step.fn = "mount-share" /\ stage = "root" /\ nth <= 2
    BY <1>3 DEF WriteShareUnit, On
  <2> DEFINE p    == ShareUnits[nth]
             unit == ShareUnit(Step.device)
  <2>2. p \in ToSet(ShareUnits) /\ p \in Touches(Step)
    <3>1. nth \in {1, 2}
      BY <2>1 DEF FilesInv
    <3> QED
      BY <2>1, <3>1 DEF ShareUnits, Touches, ToSet
  <2>3. CASE /\ ~(nth = 1 /\ \E i \in 1..2 : Foreign(ShareUnits[i]))
             /\ WriteFile(p, unit, "next")
    <3>1. nth = 1 => \A q \in ToSet(ShareUnits) : ~Foreign(q)
      <4>1. ToSet(ShareUnits) = {ShareUnits[i] : i \in 1..2}
        BY DEF ShareUnits, ToSet
      <4> QED
        BY <2>3, <4>1
    <3>2. NewContent(p, unit)
      BY <2>1, <2>2, <3>1 DEF NewContent
    <3>3. Begins(p, unit)
      BY <2>3, WriteBegins DEF Calm, Stages
    <3> QED
      BY <2>2, <3>2, <3>3 DEF Makes
  <2> QED
    BY <1>1, <1>3, <2>1, <2>3 DEF WriteShareUnit, Calm
<1>4. CASE NextShareUnit \/ ArmShare \/ MountDeviceNow
  BY <1>1, <1>4 DEF NextShareUnit, ArmShare, SystemdArms, MountsDirectly, MountDeviceNow, On, Calm
<1>5. CASE MountDevice
  <2>1. Step.fn = "mount-device" /\ "fstab" \in Touches(Step) /\ stage \in Calm
    BY <1>5 DEF MountDevice, On, Touches, Calm
  <2> DEFINE c == Append(Read("fstab"), Line("gogitops", Step.device, Step.mnt))
  <2>2. CASE /\ Go("mount") /\ disk' = Put("fstab", c)
             /\ Step.fstab /\ priv = "sudo" /\ ~Some(Read("fstab"), LAMBDA l : l.val = Step.mnt)
    <3>1. NewContent("fstab", c)
      BY <2>1, <2>2 DEF NewContent, Some
    <3> QED
      BY <2>1, <2>2, <3>1, EndsCalm DEF Makes, AtOnce
  <2> QED
    BY <1>1, <1>5, <2>1, <2>2 DEF MountDevice, Appends
<1> QED
  BY <1>2, <1>3, <1>4, <1>5 DEF MountStep

LEMMA RunMakes ==
  ASSUME FilesInv, RunStep
  PROVE  Truncate \/ Fill \/ RunStarts \/ (at # 0 /\ stage \in Calm /\ Makes)
<1>1. RcStep \/ UnitStep \/ InstallStep \/ MountStep => at # 0 /\ stage \in Calm
  BY DEF RcStep, RcLine, RcExport, Schedule, ApplySelfTags, UnitStep, UnitRestart, RepointUnit,
     RepointEnable, RepointEnds, WriteUserUnit, ArmUserUnit, WriteLoginTrigger, ArmLoginTrigger,
     GnomeUnits, GnomeRcFile, GnomeNextFile, GnomeEnds, InstallStep, AptInstall, FlatpakInstall,
     Package, GitFetch, GitShow, MountStep, MountShare, WriteShareUnit, NextShareUnit, ArmShare,
     MountDevice, MountDeviceNow, On, Calm
<1> QED
  BY <1>1, RcMakes, UnitMakes, InstallMakes, MountMakes DEF RunStep

(***************************************************************************)
(* Lists.                                                                  *)
(***************************************************************************)
\* A list of which each line may be another.
LEMMA MappedIsFile ==
  ASSUME NEW c, IsFile(c), NEW d, d = [i \in DOMAIN c |-> d[i]]
  PROVE  IsFile(d)
<1>1. DOMAIN c = 1..Len(c) /\ Len(c) \in Nat
  BY DEF IsFile
<1>2. DOMAIN d = 1..Len(c)
  BY <1>1
<1>3. d = [i \in 1..Len(c) |-> d[i]]
  BY <1>1
<1>4. \A i \in 1..Len(c) : d[i] \in ToSet(d)
  BY <1>2 DEF ToSet
<1> DEFINE S == ToSet(d)
           n == Len(c)
<1>5. n \in Nat /\ d = [i \in 1..n |-> d[i]] /\ \A i \in 1..n : d[i] \in S
  BY <1>1, <1>3, <1>4
<1> HIDE DEF S, n
<1>6. d \in Seq(S)
  BY <1>5
<1> QED
  BY <1>6 DEF IsFile, S

\* Those keeps what stands at the indices, and is a list.
LEMMA ThoseKeeps ==
  ASSUME NEW c, IsFile(c), NEW I \in SUBSET DOMAIN c
  PROVE  /\ IsFile(Those(c, I))
         /\ \A i \in I : In(c[i], Those(c, I))
<1>1. DOMAIN c = 1..Len(c) /\ Len(c) \in Nat
  BY DEF IsFile
<1>2. IsFiniteSet(DOMAIN c)
  BY <1>1, FS_Interval
<1>3. IsFiniteSet(I)
  BY <1>2, FS_Subset
<1> DEFINE upto(i) == {j \in I : j <= i}
           m == Cardinality(I)
           d == Those(c, I)
<1>4. m \in Nat
  BY <1>3, FS_CardinalityType
<1>5. d = [k \in 1..m |-> c[CHOOSE i \in I : Cardinality(upto(i)) = k]]
  BY DEF Those
<1>6. I \subseteq Nat
  BY <1>1
<1>7. ASSUME NEW i \in I
      PROVE  /\ IsFiniteSet(upto(i)) /\ Cardinality(upto(i)) \in 1..m
  <2>1. IsFiniteSet(upto(i)) /\ Cardinality(upto(i)) <= m
    BY <1>3, FS_Subset
  <2>2. i \in upto(i)
    BY <1>6
  <2>3. Cardinality(upto(i)) # 0
    BY <2>1, <2>2, FS_EmptySet
  <2>4. Cardinality(upto(i)) \in Nat
    BY <2>1, FS_CardinalityType
  <2> QED
    BY <1>4, <2>1, <2>3, <2>4
<1>8. ASSUME NEW i \in I, NEW j \in I, Cardinality(upto(i)) = Cardinality(upto(j))
      PROVE  i = j
  <2>1. ASSUME NEW a \in I, NEW b \in I, a < b PROVE Cardinality(upto(a)) # Cardinality(upto(b))
    <3>1. upto(a) \subseteq upto(b) /\ b \in upto(b) /\ b \notin upto(a)
      BY <1>6, <2>1
    <3> QED
      BY <1>7, <3>1, FS_Subset
  <2>2. i < j \/ j < i \/ i = j
    BY <1>6
  <2> QED
    BY <1>8, <2>1, <2>2
<1>9. ASSUME NEW i \in I
      PROVE  In(c[i], d)
  <2> DEFINE k == Cardinality(upto(i))
  <2>1. k \in 1..m
    BY <1>7
  <2>2. (CHOOSE j \in I : Cardinality(upto(j)) = k) = i
    <3> DEFINE r(j) == Cardinality(upto(j))
    <3>1. \A j \in I : r(j) = r(i) => j = i
      BY <1>8
    <3> HIDE DEF r
    <3>2. (CHOOSE j \in I : r(j) = r(i)) = i
      BY <3>1
    <3> QED
      BY <3>2 DEF r
  <2>3. d[k] = c[i] /\ k \in DOMAIN d
    BY <1>5, <2>1, <2>2
  <2> QED
    BY <2>3 DEF In
<1>10. IsFile(d)
  <2> DEFINE S == ToSet(d)
  <2>1. DOMAIN d = 1..m /\ d = [k \in 1..m |-> d[k]]
    BY <1>5
  <2>2. \A k \in 1..m : d[k] \in S
    BY <2>1 DEF ToSet
  <2> HIDE DEF S, m, d
  <2>3. d \in Seq(S)
    BY <1>4, <2>1, <2>2
  <2> QED
    BY <2>3 DEF IsFile, S
<1> QED
  BY <1>9, <1>10

LEMMA ExportedKeeps ==
  ASSUME NEW c, IsFile(c), NEW var, NEW val
  PROVE  /\ IsFile(Exported(c, var, val))
         /\ \A l : In(l, c) /\ l.key # var => In(l, Exported(c, var, val))
<1>1. IsFile(Exported(c, var, val))
  <2> DEFINE d == Exported(c, var, val)
  <2>1. d = [i \in DOMAIN c |-> d[i]]
    BY DEF Exported
  <2> HIDE DEF d
  <2>2. IsFile(d)
    BY <2>1, MappedIsFile
  <2> QED
    BY <2>2 DEF d
<1>2. \A l : In(l, c) /\ l.key # var => In(l, Exported(c, var, val))
  BY DEF In, Exported
<1> QED
  BY <1>1, <1>2

LEMMA PatchedKeeps ==
  ASSUME NEW c, IsFile(c), NEW froms, NEW to
  PROVE  /\ IsFile(Patched(c, froms, to))
         /\ \A l : In(l, c) /\ l.val \notin froms => In(l, Patched(c, froms, to))
<1>1. IsFile(Patched(c, froms, to))
  <2> DEFINE d == Patched(c, froms, to)
  <2>1. d = [i \in DOMAIN c |-> d[i]]
    BY DEF Patched
  <2> HIDE DEF d
  <2>2. IsFile(d)
    BY <2>1, MappedIsFile
  <2> QED
    BY <2>2 DEF d
<1>2. \A l : In(l, c) /\ l.val \notin froms => In(l, Patched(c, froms, to))
  BY DEF In, Patched
<1> QED
  BY <1>1, <1>2

LEMMA OtherJobsKeeps ==
  ASSUME NEW c, IsFile(c), NEW name, NEW payload
  PROVE  /\ IsFile(OtherJobs(c, name, payload))
         /\ \A l : In(l, c) /\ ~Occurs(name, l) /\ ~Occurs(payload, l) => In(l, OtherJobs(c, name, payload))
<1> DEFINE I == {i \in DOMAIN c : ~Occurs(name, c[i]) /\ ~Occurs(payload, c[i])}
<1>1. I \in SUBSET DOMAIN c
  OBVIOUS
<1>2. OtherJobs(c, name, payload) = Those(c, I)
  BY DEF OtherJobs
<1> HIDE DEF I
<1>3. IsFile(Those(c, I)) /\ \A i \in I : In(c[i], Those(c, I))
  BY <1>1, ThoseKeeps
<1>4. ASSUME NEW l, In(l, c), ~Occurs(name, l), ~Occurs(payload, l)
      PROVE  In(l, Those(c, I))
  <2>1. PICK i \in DOMAIN c : c[i] = l
    BY <1>4 DEF In
  <2>2. i \in I
    BY <1>4, <2>1 DEF I
  <2> QED
    BY <1>3, <2>1, <2>2
<1> QED
  BY <1>2, <1>3, <1>4

\* The lines of node.yaml besides its list of tags.
LEMMA RetagKeeps ==
  ASSUME NEW c, IsFile(c), NEW k \in {"labels", "tags"}, NEW d,
         d = [i \in DOMAIN c |-> d[i]], \A i \in DOMAIN c : c[i].key # k => d[i] = c[i]
  PROVE  /\ IsFile(d)
         /\ \A l : In(l, c) /\ l.key \notin {"labels", "tags"} => In(l, d)
<1>1. IsFile(d)
  BY MappedIsFile
<1>2. DOMAIN d = DOMAIN c
  OBVIOUS
<1>3. \A l : In(l, c) /\ l.key # k => In(l, d)
  BY <1>2 DEF In
<1> QED
  BY <1>1, <1>3

(***************************************************************************)
(* The user's lines.                                                       *)
(***************************************************************************)
\* Every file is a list of lines, and so is what a write has still to put down.
ListsInv == (\A q : IsFile(Read(q))) /\ (held # NoWrite => IsFile(held.content))

\* What a step makes of a list is a list, in which the lines are left that it spares.
LEMMA NewContentOK ==
  ASSUME FilesInv, at # 0, NEW q \in Touches(Step), IsFile(Read(q)), NEW c, NewContent(q, c)
  PROVE  /\ IsFile(c)
         /\ \A l : /\ In(l, Read(q)) /\ Spares(Step, q, l)
                   /\ ~(Step.fn = "mount-share" /\ q \in ToSet(ShareUnits))
                   => In(l, c)
<1> DEFINE Good == /\ IsFile(c)
                   /\ \A l : /\ In(l, Read(q)) /\ Spares(Step, q, l)
                             /\ ~(Step.fn = "mount-share" /\ q \in ToSet(ShareUnits))
                             => In(l, c)
<1> SUFFICES Good
  OBVIOUS
<1> DEFINE old == Read(q)
<1>1. \A x : c = Append(old, x) => Good
  BY AppendKeeps
<1>2. \A x : c = <<x>> => IsFile(c)
  <2> SUFFICES ASSUME NEW x PROVE IsFile(<<x>>)
    OBVIOUS
  <2>1. <<x>> \in Seq({x}) /\ ToSet(<<x>>) = {x}
    BY DEF ToSet
  <2> QED
    BY <2>1 DEF IsFile
<1>3. CASE Step.fn \in {"rc-line", "mount-device"}
  BY <1>1, <1>3 DEF NewContent
<1>4. CASE Step.fn = "rc-export"
  <2>1. q = Step.file
    BY <1>4 DEF Touches
  <2>2. \A l : Spares(Step, q, l) => l.key # Step.var
    BY <1>4, <2>1 DEF Spares
  <2>3. c = Append(old, Line("", Step.var, Step.val)) \/ c = Exported(old, Step.var, Step.val)
    BY <1>4 DEF NewContent, WithExport
  <2> HIDE DEF old
  <2>4. CASE c = Exported(old, Step.var, Step.val)
    BY <2>2, <2>4, ExportedKeeps DEF old
  <2> QED
    BY <1>1, <2>3, <2>4
<1>5. CASE Step.fn = "gnome-keyring"
  <2>1. q \in ToSet(Step.rcfiles)
    BY <1>5 DEF Touches
  <2>2. \A l : Spares(Step, q, l) => l.key # "SSH_AUTH_SOCK"
    BY <1>5, <2>1 DEF Spares
  <2>3. c = Append(old, Line("", "SSH_AUTH_SOCK", "gcr")) \/ c = Exported(old, "SSH_AUTH_SOCK", "gcr")
    BY <1>5 DEF NewContent, WithExport
  <2> HIDE DEF old
  <2>4. CASE c = Exported(old, "SSH_AUTH_SOCK", "gcr")
    BY <2>2, <2>4, ExportedKeeps DEF old
  <2> QED
    BY <1>1, <2>3, <2>4
<1>6. CASE Step.fn = "schedule"
  <2>1. q = "crontab"
    BY <1>6 DEF Touches
  <2>2. \A l : Spares(Step, q, l) => ~Occurs(Step.name, l) /\ ~Occurs(Step.payload, l)
    BY <1>6, <2>1 DEF Spares
  <2> DEFINE rest == OtherJobs(old, Step.name, Step.payload)
             x    == Line(Step.spec, Step.name, Step.payload)
  <2>3. c = Append(rest, x)
    BY <1>6 DEF NewContent
  <2>4. IsFile(rest) /\ \A l : In(l, old) /\ Spares(Step, q, l) => In(l, rest)
    BY <2>2, OtherJobsKeeps
  <2> HIDE DEF rest, x
  <2>5. IsFile(c) /\ \A l : In(l, rest) => In(l, c)
    BY <2>3, <2>4, AppendKeeps
  <2> QED
    BY <2>4, <2>5
<1>7. CASE Step.fn = "tags"
  <2>1. q = "node.yaml"
    BY <1>7 DEF Touches
  <2>2. \A l : Spares(Step, q, l) => l.key \notin {"labels", "tags"}
    BY <1>7, <2>1 DEF Spares
  <2> DEFINE k   == TagKey(old)
             now == Retagged(TagsOf(old, k), Step.add, Step.remove)
  <2>3. c = WithTags(old, k, now)
    BY <1>7 DEF NewContent
  <2> HIDE DEF now
  <2>4. k \in {"labels", "tags", "none"}
    BY DEF TagKey
  <2>5. CASE k = "none"
    <3>1. c = Append(old, Line("", "labels", now))
      BY <2>3, <2>5 DEF WithTags
    <3> QED
      BY <1>1, <3>1
  <2>6. CASE k # "none"
    <3>1. c = [i \in DOMAIN old |->
                 IF old[i].key = k THEN [old[i] EXCEPT !.val = now] ELSE old[i]]
      BY <2>3, <2>6 DEF WithTags
    <3>2. k \in {"labels", "tags"} /\ IsFile(old)
      BY <2>4, <2>6
    <3> HIDE DEF k, old
    <3>3. c = [i \in DOMAIN old |-> c[i]] /\ \A i \in DOMAIN old : old[i].key # k => c[i] = old[i]
      BY <3>1
    <3>4. IsFile(c) /\ \A l : In(l, old) /\ l.key \notin {"labels", "tags"} => In(l, c)
      BY <3>2, <3>3, RetagKeeps
    <3> QED
      BY <2>2, <3>4 DEF old
  <2> QED
    BY <2>5, <2>6
<1>8. CASE Step.fn = "unit-repoint"
  <2>1. q \in ToSet(Step.units)
    BY <1>8 DEF Touches
  <2>2. \A l : Spares(Step, q, l) => l.val \notin Step.from
    BY <1>8, <2>1 DEF Spares
  <2>3. c = Patched(old, Step.from, Step.to)
    BY <1>8 DEF NewContent
  <2> QED
    BY <2>2, <2>3, PatchedKeeps
<1>9. CASE Step.fn = "user-unit"
  <2>1. q = Step.name /\ c = Step.unit /\ (Step.overwrite \/ ~Exists(q))
    BY <1>9 DEF Touches, NewContent
  <2>2. IsFile(c)
    BY <1>9, <2>1, StepKnown DEF StepIsTyped, IsFile
  <2>3. ASSUME NEW l, In(l, old), Spares(Step, q, l) PROVE FALSE
    <3>1. ~Step.overwrite
      BY <1>9, <2>1, <2>3 DEF Spares
    <3>2. old = Torn
      BY <2>1, <3>1 DEF Read
    <3> QED
      BY <2>3, <3>2, NothingIsFile
  <2> QED
    BY <2>2, <2>3
<1>10. CASE Step.fn = "login-trigger"
  <2>1. q = Step.name /\ c = Step.unit
    BY <1>10 DEF Touches, NewContent
  <2>2. IsFile(c)
    BY <1>10, <2>1, StepKnown DEF StepIsTyped, IsFile
  <2> QED
    BY <1>10, <2>1, <2>2 DEF Spares
<1>11. CASE Step.fn = "git-extract"
  BY <1>2, <1>11 DEF NewContent, Blob, Touches, Spares
<1>12. CASE Step.fn = "mount-share"
  <2>1. \/ q = "smbcredentials" /\ c = Credentials
        \/ q \in ToSet(ShareUnits) /\ c = <<Line("gogitops", "What", Step.device)>>
    BY <1>12 DEF NewContent, ShareUnit
  <2> QED
    BY <1>2, <1>12, <2>1 DEF Credentials, Spares
<1> QED
  BY <1>3, <1>4, <1>5, <1>6, <1>7, <1>8, <1>9, <1>10, <1>11, <1>12 DEF NewContent

\* Steps as the files see them, what they put down included.
LEMMA FilesBecome ==
  ASSUME FilesInv, [Next]_vars
  PROVE  \/ UNCHANGED <<disk, held, stage>>
         \/ UNCHANGED disk /\ held' = NoWrite /\ (KillRun \/ stage \in Calm)
         \/ Truncate /\ RunStep
         \/ Fill /\ RunStep /\ held' = NoWrite
         \/ RunStep /\ at # 0 /\ stage \in Calm /\ Makes
         \/ \E e \in Edits : UserEdits(e[1], e[2])
<1>1. CASE RunStep
  BY <1>1, RunMakes DEF Fill, StepEnds, RunStarts, FilesInv
<1>2. CASE KillRun
  BY <1>2 DEF KillRun
<1>3. CASE Disturbed /\ UNCHANGED disk
  BY <1>3 DEF Disturbed
<1> QED
  BY <1>1, <1>2, <1>3, FilesSee DEF fileVars

LEMMA ListsInit == Init => ListsInv
<1> SUFFICES ASSUME Init, NEW q PROVE IsFile(Read(q))
  BY DEF ListsInv, Init, FilesInit
<1>1. disk \in Disks
  BY DEF Init, FilesInit
<1>2. CASE Exists(q)
  BY <1>1, <1>2, RecipesAreTyped DEF Exists, Read, IsFile
<1>3. CASE ~Exists(q)
  BY <1>3, NothingIsFile DEF Read
<1> QED
  BY <1>2, <1>3

LEMMA ListsStep ==
  ASSUME FilesInv, ListsInv, [Next]_vars
  PROVE  ListsInv'
<1>1. CASE UNCHANGED disk /\ (held' = held \/ held' = NoWrite)
  BY <1>1 DEF ListsInv, Read, Exists
<1>2. ASSUME NEW p, NEW c, disk' = Put(p, c), IsFile(c), held' = held \/ held' = NoWrite
      PROVE  ListsInv'
  <2>1. Read(p)' = c /\ Kept({p})
    BY <1>2, PutReads
  <2>2. ASSUME NEW q PROVE IsFile(Read(q)')
    BY <1>2, <2>1, <2>2 DEF Kept, ListsInv
  <2>3. held' # NoWrite => IsFile(held.content)'
    BY <1>2 DEF ListsInv
  <2> QED
    BY <2>2, <2>3 DEF ListsInv
<1>3. CASE Fill /\ held' = NoWrite
  <2>1. held # NoWrite /\ disk' = Put(held.path, held.content)
    BY <1>3 DEF Fill, FilesInv, Writing
  <2> QED
    BY <1>2, <1>3, <2>1 DEF ListsInv
<1>6. CASE Truncate
  BY <1>2, <1>6, NothingIsFile DEF Truncate
<1>4. CASE at # 0 /\ Makes
  <2>1. CASE UNCHANGED disk /\ held' = NoWrite
    BY <1>1, <2>1
  <2>2. ASSUME NEW q \in Touches(Step), NEW c, NewContent(q, c), AtOnce(q, c) \/ Begins(q, c)
        PROVE  ListsInv'
    <3>1. IsFile(c)
      BY <1>4, <2>2, NewContentOK DEF ListsInv
    <3>2. CASE AtOnce(q, c)
      BY <1>2, <3>1, <3>2 DEF AtOnce
    <3>3. CASE Begins(q, c)
      <4>1. UNCHANGED disk /\ held'.content = c
        BY <3>3 DEF Begins
      <4> QED
        BY <3>1, <4>1 DEF ListsInv, Read, Exists
    <3> QED
      BY <2>2, <3>2, <3>3
  <2> QED
    BY <1>4, <2>1, <2>2 DEF Makes
<1>5. ASSUME NEW e \in Edits, UserEdits(e[1], e[2])
      PROVE  ListsInv'
  <2> DEFINE p == e[1]
             c == Append(Read(p), e[2])
  <2>1. disk' = Put(p, c) /\ held' = held
    BY <1>5 DEF UserEdits, Appends, Disturbed
  <2>2. IsFile(c)
    BY AppendKeeps DEF ListsInv
  <2> QED
    BY <1>2, <2>1, <2>2
<1> QED
  BY <1>1, <1>3, <1>4, <1>5, <1>6, FilesBecome

ShareFiles == ToSet(ShareUnits)

\* No line of a user's stands in p's content c.
NoneIn(c, p) == \A own \in UserLines : own[1] = p => ~In(own[2], c)

\* Once the root script has looked at the units of the share it writes them: no line
\* of a user's stands there.
PastTheLook ==
  /\ at # 0 /\ Step.fn = "mount-share"
  /\ nth # 1 \/ stage = "next" \/ (held # NoWrite /\ held.next = "next")

SharesInv ==
  /\ \A own \in UserLines : own[1] \in ShareFiles /\ In(own[2], Read(own[1])) =>
       Read(own[1])[1].lead # "gogitops"
  /\ held # NoWrite /\ held.path \in ShareFiles => NoneIn(held.content, held.path)
  /\ PastTheLook => \A p \in ShareFiles : NoneIn(Read(p), p)

LEMMA ForeignIs ==
  ASSUME SharesInv, NEW p \in ShareFiles, ~Foreign(p)
  PROVE  NoneIn(Read(p), p)
<1> SUFFICES ASSUME NEW own \in UserLines, own[1] = p, In(own[2], Read(p)) PROVE FALSE
  BY DEF NoneIn
<1>1. Read(p)[1].lead # "gogitops"
  BY DEF SharesInv
<1>2. Read(p) # Torn
  BY NothingIsFile
<1>3. Exists(p)
  BY <1>2 DEF Read
<1> QED
  BY <1>1, <1>3 DEF Foreign

\* What a step makes of a unit of the share has no line of a user's.
LEMMA ShareContent ==
  ASSUME LinesAreTheUsers, FilesInv, at # 0, NEW q \in Touches(Step), q \in ShareFiles,
         NEW c, NewContent(q, c)
  PROVE  /\ Step.fn = "mount-share" /\ NoneIn(c, q)
         /\ nth = 1 => \A p \in ShareFiles : ~Foreign(p)
<1>1. Step.fn = "mount-share"
  <2>1. recipe \in Recipes /\ at \in DOMAIN recipe
    BY StepKnown DEF FilesInv
  <2> QED
    BY <2>1 DEF LinesAreTheUsers, Step, ShareFiles
<1>2. q # "smbcredentials"
  BY DEF ShareFiles, ShareUnits, ToSet
<1>3. /\ c = <<Line("gogitops", "What", Step.device)>>
      /\ nth = 1 => \A p \in ShareFiles : ~Foreign(p)
  BY <1>1, <1>2 DEF NewContent, ShareFiles, ShareUnit
<1>4. \A l : In(l, c) => l.lead = "gogitops"
  <2> DEFINE x == Line("gogitops", "What", Step.device)
  <2>1. x.lead = "gogitops"
    BY DEF Line
  <2>2. c = <<x>>
    BY <1>3
  <2> HIDE DEF x
  <2> QED
    BY <2>1, <2>2 DEF In
<1>5. NoneIn(c, q)
  BY <1>4 DEF NoneIn, LinesAreTheUsers, ShareFiles
<1> QED
  BY <1>1, <1>3, <1>5

\* A unit of the share stays as it is or is left without a line of a user's.
LEMMA SharesChange ==
  ASSUME LinesAreTheUsers, FilesInv, SharesInv, [Next]_vars, NEW p \in ShareFiles
  PROVE  Read(p)' = Read(p) \/ NoneIn(Read(p)', p)
<1>1. CASE UNCHANGED disk
  BY <1>1, DiskKept DEF Kept
<1>2. CASE Fill
  <2>1. Kept({held.path}) /\ \A q : q = held.path => Read(q)' = held.content
    BY <1>2, FillOK
  <2> QED
    BY <1>2, <2>1 DEF Kept, SharesInv, Fill, FilesInv, Writing
<1>5. CASE Truncate
  <2>1. Kept({held.path}) /\ \A q : q = held.path => Read(q)' = Torn
    BY <1>5, PutReads DEF Truncate
  <2> QED
    BY <1>5, <2>1, NothingIsFile DEF Kept, NoneIn
<1>3. CASE at # 0 /\ Makes
  <2>1. ASSUME NEW q \in Touches(Step), NEW c, NewContent(q, c), AtOnce(q, c) \/ Begins(q, c)
        PROVE  Read(p)' = Read(p) \/ NoneIn(Read(p)', p)
    <3>1. CASE Begins(q, c)
      BY <1>1, <3>1 DEF Begins
    <3>2. CASE AtOnce(q, c) /\ q # p
      BY <3>2, PutReads DEF AtOnce, Kept
    <3>3. CASE AtOnce(q, c) /\ q = p
      <4>1. NoneIn(c, p)
        BY <1>3, <2>1, <3>3, ShareContent
      <4>2. Read(p)' = c
        BY <3>3, PutReads DEF AtOnce
      <4> QED
        BY <4>1, <4>2
    <3> QED
      BY <2>1, <3>1, <3>2, <3>3
  <2> QED
    BY <1>1, <1>3, <2>1 DEF Makes
<1>4. ASSUME NEW e \in Edits, UserEdits(e[1], e[2])
      PROVE  Read(p)' = Read(p)
  <2>1. e[1] # p
    BY DEF LinesAreTheUsers, ShareFiles
  <2>2. Kept({e[1]})
    BY <1>4, AppendsOK DEF UserEdits
  <2> QED
    BY <2>1, <2>2 DEF Kept
<1> QED
  BY <1>1, <1>2, <1>3, <1>4, <1>5, FilesBecome

LEMMA SharesInit ==
  ASSUME LinesAreTheUsers, Init
  PROVE  SharesInv
<1>1. at = 0 /\ held = NoWrite /\ disk \in Disks
  BY DEF Init, FilesInit
<1>2. ASSUME NEW own \in UserLines, own[1] \in ShareFiles, In(own[2], Read(own[1]))
      PROVE  Read(own[1])[1].lead # "gogitops"
  <2>1. Read(own[1]) # Torn
    BY <1>2, NothingIsFile
  <2>2. Exists(own[1])
    BY <2>1 DEF Read
  <2> QED
    BY <1>1, <1>2, <2>1, <2>2 DEF LinesAreTheUsers, ShareFiles, Read, Exists
<1> QED
  BY <1>1, <1>2 DEF SharesInv, PastTheLook

LEMMA LookStep ==
  ASSUME LinesAreTheUsers, FilesInv, SharesInv, [Next]_vars, PastTheLook'
  PROVE  PastTheLook \/ \A p \in ShareFiles : NoneIn(Read(p), p)
<1>1. CASE UNCHANGED <<recipe, at, stage, nth, held>>
  BY <1>1 DEF PastTheLook, Step
<1>2. CASE KillRun
  BY <1>2 DEF KillRun, PastTheLook
<1>3. CASE RunStep
  <2>1. CASE RunStarts
    BY <2>1 DEF RunStarts, FilesInv, Writing, PastTheLook
  <2>2. CASE \E ok : StepEnds(ok)
    BY <2>2 DEF StepEnds, PastTheLook
  <2>3. CASE Within
    <3>1. Step' = Step /\ at # 0
      BY <1>3, <2>3, RunShape DEF Within, Step
    <3>2. Step.fn = "mount-share"
      BY <3>1 DEF PastTheLook
    <3>3. Truncate \/ Fill \/ MountShare \/ WriteShareUnit \/ NextShareUnit \/ ArmShare
      BY <1>3, <3>1, <3>2, RunOf
    <3>4. CASE Fill
      <4>1. held # NoWrite
        BY <3>4 DEF Fill, FilesInv, Writing
      <4>2. CASE stage' = held.next /\ nth' = nth /\ held' = NoWrite
        BY <3>1, <3>2, <4>1, <4>2 DEF PastTheLook
      <4> QED
        BY <2>2, <3>4, <4>2 DEF Fill, runVars
    <3>5. CASE MountShare
      <4>1. CASE WriteFile("smbcredentials", Credentials, "root")
        <5>1. held'.next = "root"
          BY <4>1, WriteBegins DEF Calm, Stages
        <5> QED
          BY <3>1, <3>2, <4>1, <5>1 DEF WriteFile, Holding, PastTheLook, runVars
      <4> QED
        BY <2>2, <3>1, <3>2, <3>5, <4>1 DEF MountShare, Go, PastTheLook, runVars
    <3>6. CASE WriteShareUnit
      <4>1. CASE nth # 1
        BY <3>1, <3>2, <4>1 DEF PastTheLook
      <4>2. CASE nth = 1 /\ ~\E i \in 1..2 : Foreign(ShareUnits[i])
        <5>1. ShareFiles = {ShareUnits[i] : i \in 1..2}
          BY DEF ShareFiles, ShareUnits, ToSet
        <5> QED
          BY <4>2, <5>1, ForeignIs
      <4> QED
        BY <2>2, <3>6, <4>1, <4>2 DEF WriteShareUnit
    <3>7. CASE NextShareUnit
      BY <3>1, <3>2, <3>7 DEF NextShareUnit, On, PastTheLook
    <3>8. CASE ArmShare
      BY <2>2, <3>8 DEF ArmShare, SystemdArms, MountsDirectly
    <3>9. CASE Truncate
      BY <3>1, <3>2, <3>9 DEF Truncate, PastTheLook, runVars
    <3> QED
      BY <3>3, <3>4, <3>5, <3>6, <3>7, <3>8, <3>9
  <2> QED
    BY <1>3, <2>1, <2>2, <2>3, RunShape
<1> QED
  BY <1>1, <1>2, <1>3, FilesSee DEF fileVars, Disturbed, UserEdits

LEMMA HeldShares ==
  ASSUME LinesAreTheUsers, FilesInv, SharesInv, [Next]_vars,
         held' # NoWrite, held'.path \in ShareFiles
  PROVE  NoneIn(held'.content, held'.path)
<1>1. CASE held' = held
  BY <1>1 DEF SharesInv
<1>2. CASE at # 0 /\ Makes
  <2>0. PICK q \in Touches(Step) : \E c : NewContent(q, c) /\ Begins(q, c)
    BY <1>2 DEF Makes, AtOnce
  <2>1. PICK c : NewContent(q, c) /\ Begins(q, c)
    BY <2>0
  <2>2. held'.path = q /\ held'.content = c
    BY <2>1 DEF Begins
  <2>3. NoneIn(c, q)
    BY <1>2, <2>1, <2>2, ShareContent
  <2> QED
    BY <2>2, <2>3
<1> QED
  BY <1>1, <1>2, FilesBecome DEF Truncate, UserEdits, Disturbed

LEMMA SharesStep ==
  ASSUME LinesAreTheUsers, FilesInv, SharesInv, [Next]_vars
  PROVE  SharesInv'
<1>1. ASSUME NEW p \in ShareFiles, NoneIn(Read(p), p)
      PROVE  NoneIn(Read(p), p)'
  BY <1>1, SharesChange DEF NoneIn
<1>2. PastTheLook' => \A p \in ShareFiles : NoneIn(Read(p), p)'
  <2>1. PastTheLook => \A p \in ShareFiles : NoneIn(Read(p), p)
    BY DEF SharesInv
  <2> QED
    BY <1>1, <2>1, LookStep
<1>3. ASSUME NEW own \in UserLines, own[1] \in ShareFiles, In(own[2], Read(own[1])')
      PROVE  Read(own[1])'[1].lead # "gogitops"
  <2>1. Read(own[1])' = Read(own[1])
    BY <1>3, SharesChange DEF NoneIn
  <2> QED
    BY <1>3, <2>1 DEF SharesInv
<1>4. held' # NoWrite /\ held'.path \in ShareFiles => NoneIn(held'.content, held'.path)
  BY HeldShares
<1> QED
  BY <1>2, <1>3, <1>4 DEF SharesInv, ShareFiles, ShareUnits, NoneIn

\* Holds, as a relation of what is read, written and put down.
Standing(l, there, written, torn, new) ==
  (written => In(l, new)) /\ (~(written /\ torn) => In(l, there))

LEMMA HoldsIs ==
  ASSUME NEW p, NEW l
  PROVE  /\ Holds(p, l) <=>
              Standing(l, Read(p), held # NoWrite /\ held.path = p, stage = "fill", held.content)
         /\ Holds(p, l)' <=>
              Standing(l, Read(p)', held' # NoWrite /\ held'.path = p, stage' = "fill", held'.content)
BY DEF Holds, Standing, Some, In

LEMMA LineKept ==
  ASSUME LinesAreTheUsers, FilesInv, ListsInv, SharesInv, [Next]_vars,
         NEW own \in UserLines, Holds(own[1], own[2])
  PROVE  Holds(own[1], own[2])' \/ (stage = "fill" /\ held.path = own[1] /\ KillRun)
<1> DEFINE p == own[1]
           l == own[2]
           ours == held # NoWrite /\ held.path = p
<1>1. (ours => In(l, held.content)) /\ (~(ours /\ stage = "fill") => In(l, Read(p)))
  BY HoldsIs DEF Standing
<1> SUFFICES ASSUME ~(stage = "fill" /\ held.path = p /\ KillRun)
             PROVE  /\ held' # NoWrite /\ held'.path = p => In(l, held'.content)
                    /\ ~(held' # NoWrite /\ held'.path = p /\ stage' = "fill") => In(l, Read(p)')
  BY HoldsIs DEF Standing
<1> HIDE DEF p, l
<1>2. CASE UNCHANGED <<disk, held, stage>>
  BY <1>1, <1>2 DEF Read, Exists
<1>3. CASE UNCHANGED disk /\ held' = NoWrite /\ (KillRun \/ stage \in Calm)
  <2>1. ~(ours /\ stage = "fill")
    BY <1>3 DEF Calm
  <2> QED
    BY <1>1, <1>3, <2>1 DEF Read, Exists
<1>4. CASE Fill /\ held' = NoWrite
  <2>1. Kept({held.path}) /\ \A q : q = held.path => Read(q)' = held.content
    BY <1>4, FillOK
  <2>2. held # NoWrite
    BY <1>4 DEF Fill, FilesInv, Writing
  <2> QED
    BY <1>1, <1>4, <2>1, <2>2 DEF Kept
<1>7. CASE Truncate
  <2>1. held' = held /\ stage' = "fill" /\ stage # "fill" /\ held # NoWrite
    BY <1>7 DEF Truncate, FilesInv, Writing
  <2>2. Kept({held.path})
    BY <1>7, TruncateOK
  <2> QED
    BY <1>1, <2>1, <2>2 DEF Kept
<1>5. CASE RunStep /\ at # 0 /\ stage \in Calm /\ Makes
  <2>1. In(l, Read(p))
    BY <1>1, <1>5 DEF Calm
  <2>2. CASE UNCHANGED disk /\ held' = NoWrite
    BY <2>1, <2>2 DEF Read, Exists
  <2>3. ASSUME NEW q \in Touches(Step), NEW c, NewContent(q, c), AtOnce(q, c) \/ Begins(q, c), q = p
        PROVE  In(l, c)
    <3>1. Spares(Step, p, l)
      <4>1. recipe \in Recipes /\ at \in DOMAIN recipe
        BY <1>5, StepKnown DEF FilesInv
      <4> QED
        BY <4>1 DEF LinesAreTheUsers, Step, p, l
    <3>2. ~(Step.fn = "mount-share" /\ q \in ShareFiles)
      <4> SUFFICES ASSUME Step.fn = "mount-share", q \in ShareFiles PROVE FALSE
        OBVIOUS
      <4>1. nth = 1 => NoneIn(Read(p), p)
        BY <1>5, <2>3, ShareContent, ForeignIs
      <4>2. nth # 1 => NoneIn(Read(p), p)
        BY <1>5, <2>3 DEF SharesInv, PastTheLook
      <4> QED
        BY <2>1, <4>1, <4>2 DEF NoneIn, p, l
    <3> QED
      BY <1>5, <2>1, <2>3, <3>1, <3>2, NewContentOK DEF ListsInv, ShareFiles
  <2>4. ASSUME NEW q \in Touches(Step), NEW c, NewContent(q, c), AtOnce(q, c)
        PROVE  held' = NoWrite /\ In(l, Read(p)')
    BY <2>1, <2>3, <2>4, PutReads DEF AtOnce, Kept
  <2>5. ASSUME NEW q \in Touches(Step), NEW c, NewContent(q, c), Begins(q, c)
        PROVE  In(l, Read(p)') /\ (held'.path = p => In(l, held'.content))
    BY <2>1, <2>3, <2>5 DEF Begins, Read, Exists
  <2> QED
    BY <1>5, <2>2, <2>4, <2>5 DEF Makes
<1>6. ASSUME NEW e \in Edits, UserEdits(e[1], e[2])
      PROVE  UNCHANGED <<held, stage>> /\ (In(l, Read(p)) => In(l, Read(p)'))
  <2> DEFINE f == e[1]
             x == e[2]
  <2>1. Appends(f, x) /\ UNCHANGED <<held, stage>>
    BY <1>6 DEF UserEdits, Disturbed
  <2>2. Read(f)' = Append(Read(f), x) /\ Kept({f}) /\ IsFile(Read(f))
    BY <2>1, AppendsOK DEF ListsInv
  <2> HIDE DEF f, x
  <2>3. In(l, Read(f)) => In(l, Read(f)')
    BY <2>2, AppendKeeps
  <2> QED
    BY <2>1, <2>2, <2>3 DEF Kept
<1> QED
  BY <1>1, <1>2, <1>3, <1>4, <1>5, <1>6, <1>7, FilesBecome

\* Whatever recipes do to the files that they share with the user, however often,
\* however they are killed: a line of the user's that a step has read is still there
\* when it has written, unless a run is killed inside os.WriteFile on that very
\* file; and the units of a share in which one stands are refused, not written over.
THEOREM UsersKeepTheirLines == ASSUME LinesAreTheUsers PROVE Spec => UserLinesKept
<1> DEFINE Inv == FilesInv /\ ListsInv /\ SharesInv
           Keeps == \A own \in UserLines :
                      Holds(own[1], own[2]) => Holds(own[1], own[2])' \/ KilledInWrite(own[1])
<1>1. Init => Inv
  BY FilesInit1, ListsInit, SharesInit
<1>2. Inv /\ [Next]_vars => Inv'
  BY FilesStep, ListsStep, SharesStep
<1>3. Inv /\ [Next]_vars => Keeps
  BY LineKept DEF KilledInWrite
<1> HIDE DEF Inv
<1>4. Spec => [][Keeps]_vars
  <2> HIDE DEF Keeps
  <2> QED
    BY <1>1, <1>2, <1>3, PTL DEF Spec
<1> QED
  BY <1>4 DEF UserLinesKept

(***************************************************************************)
(* Restarts.                                                               *)
(***************************************************************************)
\* A recipe that does no more to units than repoint them and restart them.
Plain ==
  /\ \A i \in DOMAIN recipe :
       /\ recipe[i].fn \notin {"user-unit", "login-trigger", "gnome-keyring"}
       /\ recipe[i].fn # "unit-repoint" => Touches(recipe[i]) \cap UserUnit = {}
  /\ \A i, j \in DOMAIN recipe :
       i < j => ~(recipe[i].fn = "unit-restart" /\ recipe[j].fn = "unit-repoint")

LEMMA RecipeKept ==
  ASSUME [Next]_vars, FilesInv
  PROVE  recipe' = recipe /\ Plain' = Plain
<1>1. recipe' = recipe
  BY FilesSee, RunShape DEF fileVars, KillRun, Disturbed, UserEdits
<1> QED
  BY <1>1 DEF Plain, Touches, ShareUnits

LEMMA PatchedFull ==
  ASSUME NEW c, IsFile(c), c # Torn, NEW froms, NEW to
  PROVE  Patched(c, froms, to) # Torn
<1>1. 1 \in DOMAIN c
  BY DEF IsFile, Torn
<1>2. 1 \in DOMAIN Patched(c, froms, to)
  BY <1>1 DEF Patched
<1> QED
  BY <1>2 DEF Torn

\* What a repoint is about to put in place of a unit is not empty.
RepointHeld ==
  held # NoWrite /\ Step.fn = "unit-repoint" =>
    stage = "install" /\ held.next = "enable" /\ held.content # Torn

LEMMA RepointHeldStep ==
  ASSUME FilesInv, ListsInv, RepointHeld, [Next]_vars
  PROVE  RepointHeld'
<1>1. CASE UNCHANGED <<recipe, at, stage, held>>
  BY <1>1 DEF RepointHeld, Step
<1>2. CASE held' = NoWrite
  BY <1>2 DEF RepointHeld
<1>3. CASE RunStep
  <2>1. CASE RunStarts
    BY <2>1, FilesStep DEF RunStarts, FilesInv, Writing, RepointHeld
  <2>2. CASE \E ok : StepEnds(ok)
    BY <1>2, <2>2 DEF StepEnds
  <2>3. CASE Within /\ Step.fn # "unit-repoint"
    BY <1>3, <2>3, RunShape DEF Within, Step, RepointHeld
  <2>4. CASE Within /\ Step.fn = "unit-repoint"
    <3>1. at # 0 /\ (Truncate \/ Fill \/ RepointUnit \/ RepointEnable \/ RepointEnds)
      BY <1>3, <2>4, RunOf DEF Within
    <3>2. CASE Truncate
      BY <2>4, <3>2 DEF Truncate, FilesInv, Writing, RepointHeld
    <3>3. CASE Fill \/ RepointEnds
      BY <1>2, <3>3 DEF Fill, RepointEnds, StepEnds
    <3>4. CASE RepointEnable
      BY <1>2, <3>4, EndsCalm DEF RepointEnable, On, Calm
    <3>5. CASE RepointUnit
      <4> DEFINE u == Step.units[nth]
                 c == Patched(Read(u), Step.from, Step.to)
      <4>1. CASE Go("enable")
        BY <1>2, <3>5, <4>1, EndsCalm DEF RepointUnit, On, Calm
      <4>2. CASE c # Read(u) /\ AtomicWrite(u, c, "enable")
        <5>1. Read(u) # Torn
          BY <4>2 DEF Patched, Torn
        <5>2. c # Torn
          BY <5>1, PatchedFull DEF ListsInv
        <5> HIDE DEF u, c
        <5> QED
          BY <4>2, <5>2 DEF AtomicWrite, Holding, RepointHeld
      <4> QED
        BY <3>5, <4>1, <4>2 DEF RepointUnit
    <3> QED
      BY <3>1, <3>2, <3>3, <3>4, <3>5
  <2> QED
    BY <1>3, <2>1, <2>2, <2>3, <2>4, RunShape
<1> QED
  BY <1>1, <1>2, <1>3, FilesSee DEF fileVars, KillRun, Disturbed, UserEdits

\* Nothing but a repoint writes to units in a run, and what is there it does not
\* empty.
LEMMA UnitFiles ==
  ASSUME Plain, FilesInv, RepointHeld, RunStep, NEW u \in UserUnit
  PROVE  \/ Read(u)' = Read(u)
         \/ /\ at # 0 /\ Step.fn = "unit-repoint" /\ u \in ToSet(Step.units)
            /\ Read(u) # Torn => Read(u)' # Torn
<1>1. CASE RunStarts
  BY <1>1, RunStartsOK, DiskKept DEF Kept
<1>2. CASE at # 0 /\ Tidy /\ Step.fn # "unit-repoint"
  <2>1. u \notin Touches(Step)
    BY <1>2, StepKnown DEF Plain, Step
  <2> QED
    BY <1>2, <2>1 DEF Tidy, Kept
<1>3. CASE at # 0 /\ Step.fn = "unit-repoint"
  <2>1. Truncate \/ Fill \/ RepointUnit \/ RepointEnable \/ RepointEnds
    BY <1>3, RunOf
  <2>2. CASE UNCHANGED disk
    BY <2>2, DiskKept DEF Kept
  <2>3. ~Truncate
    BY <1>3 DEF Truncate, FilesInv, Writing, RepointHeld
  <2>4. CASE Fill
    <3>1. held.path \in ToSet(Step.units) /\ held.content # Torn
      BY <1>3, <2>4 DEF Fill, FilesInv, Writing, RepointHeld, Touches
    <3>2. Kept({held.path}) /\ \A q : q = held.path => Read(q)' = held.content
      BY <2>4, FillOK
    <3> QED
      BY <1>3, <3>1, <3>2 DEF Kept
  <2> QED
    BY <2>1, <2>2, <2>3, <2>4 DEF RepointUnit, AtomicWrite, Holding, RepointEnable, RepointEnds
<1>5. RunStarts \/ (at # 0 /\ Tidy)
  BY RunStepOK, RunShape DEF Within
<1> QED
  BY <1>1, <1>2, <1>3, <1>5

LEMMA PlainUnits ==
  ASSUME Plain, FilesInv, UnitStep
  PROVE  UnitRestart \/ RepointUnit \/ RepointEnable \/ RepointEnds
<1>1. at # 0 => Step.fn \notin {"user-unit", "login-trigger", "gnome-keyring"}
  BY StepKnown DEF Plain, Step
<1> QED
  BY <1>1 DEF UnitStep, WriteUserUnit, ArmUserUnit, WriteLoginTrigger, ArmLoginTrigger,
     GnomeUnits, GnomeRcFile, GnomeNextFile, GnomeEnds, On

\* Under such a recipe no unit is masked, and what the manager knows as a unit, or
\* what works, has a file that is not empty.
UnitsStand ==
  Plain =>
    /\ masked = {} /\ DOMAIN loaded = UserUnit
    /\ \A u \in UserUnit : loaded[u] # Torn => Read(u) # Torn
    /\ \A u \in works \cap UserUnit : loaded[u] # Torn

LEMMA UnitsStandInit == Init => UnitsStand
<1> SUFFICES ASSUME Init PROVE UnitsStand
  OBVIOUS
<1>1. PICK U \in Running : works = {u \in U : u \in UserUnit => Read(u) # Torn}
  BY DEF Init, UnitsInit
<1>2. masked = {} /\ loaded = [u \in UserUnit |-> Read(u)]
  BY DEF Init, UnitsInit
<1> QED
  BY <1>1, <1>2 DEF UnitsStand

LEMMA FilesStand ==
  ASSUME Plain, FilesInv, ListsInv, RepointHeld, [Next]_vars, NEW u \in UserUnit, Read(u) # Torn
  PROVE  Read(u)' # Torn
<1>1. CASE UNCHANGED disk
  BY <1>1, DiskKept DEF Kept
<1>2. CASE RunStep
  BY <1>2, UnitFiles
<1>3. ASSUME NEW e \in Edits, UserEdits(e[1], e[2])
      PROVE  Read(u)' # Torn
  <2> DEFINE p == e[1]
             x == e[2]
  <2>1. Read(p)' = Append(Read(p), x) /\ Kept({p})
    BY <1>3, AppendsOK DEF UserEdits
  <2>2. IsFile(Read(p))
    BY DEF ListsInv
  <2> HIDE DEF p, x
  <2>3. Read(p)' # Torn
    BY <2>1, <2>2, AppendKeeps
  <2>4. CASE u # p
    BY <2>1, <2>4 DEF Kept
  <2>5. CASE u = p
    BY <2>3, <2>5
  <2> QED
    BY <2>4, <2>5
<1> QED
  BY <1>1, <1>2, <1>3, FilesBecome DEF Fill

LEMMA UnitsStandStep ==
  ASSUME FilesInv, ListsInv, RepointHeld, UnitsStand, [Next]_vars
  PROVE  UnitsStand'
<1> SUFFICES ASSUME Plain
             PROVE  /\ masked' = {} /\ DOMAIN loaded' = UserUnit
                    /\ \A u \in UserUnit : loaded'[u] # Torn => Read(u)' # Torn
                    /\ \A u \in works' \cap UserUnit : loaded'[u] # Torn
  BY RecipeKept DEF UnitsStand
<1>1. /\ masked = {} /\ DOMAIN loaded = UserUnit
      /\ \A u \in UserUnit : loaded[u] # Torn => Read(u) # Torn
      /\ \A u \in works \cap UserUnit : loaded[u] # Torn
  BY DEF UnitsStand
<1>2. \A u \in UserUnit : Read(u) # Torn => Read(u)' # Torn
  BY FilesStand
<1>3. CASE UNCHANGED <<masked, loaded>> /\ works' \subseteq works
  BY <1>1, <1>2, <1>3
<1>4. CASE UnitRestart
  <2>1. UNCHANGED <<masked, loaded>>
    BY <1>4 DEF UnitRestart
  <2> QED
    BY <1>3, <1>4, <2>1, UnitRestartOK
<1>5. CASE RepointUnit \/ RepointEnable
  BY <1>3, <1>5 DEF RepointUnit, RepointEnable, unitVars
<1>6. CASE RepointEnds
  <2>1. UNCHANGED <<masked, works, disk>> /\ (Reload \/ UNCHANGED loaded)
    BY <1>6 DEF RepointEnds
  <2>2. CASE UNCHANGED loaded
    BY <1>3, <2>1, <2>2
  <2>3. CASE Reload
    <3>1. loaded' = [u \in UserUnit |-> Read(u)] /\ \A u \in UserUnit : Read(u)' = Read(u)
      BY <2>1, <2>3 DEF Reload, Read, Exists
    <3> QED
      BY <1>1, <2>1, <3>1
  <2> QED
    BY <2>1, <2>2, <2>3
<1>7. ASSUME NEW u \in Part, StartedByHand(u)
      PROVE  /\ masked' = {} /\ DOMAIN loaded' = UserUnit
             /\ \A v \in UserUnit : loaded'[v] # Torn => Read(v)' # Torn
             /\ \A v \in works' \cap UserUnit : loaded'[v] # Torn
  <2>1. UNCHANGED <<masked, loaded>> /\ works' = works \cup {u} /\ (u \in UserUnit => loaded[u] # Torn)
    BY <1>7 DEF StartedByHand, Repair, CanStart
  <2> QED
    BY <1>1, <1>2, <2>1
<1>8. CASE BusFlips \/ UNCHANGED unitVars \/ \E u \in Part : Crashes(u)
  <2>1. UNCHANGED <<masked, loaded>> /\ works' \subseteq works
    BY <1>8 DEF BusFlips, unitVars, Crashes, Break, hostVars
  <2> QED
    BY <1>3, <2>1
<1> QED
  BY <1>4, <1>5, <1>6, <1>7, <1>8, UnitsSee, PlainUnits

\* The first of a list that works, as RestartTakesHold picks it.
FirstActive(s) == SelectInSeq(s, LAMBDA u : u \in works)

LEMMA FirstActiveIs ==
  ASSUME NEW U, NEW s \in Seq(U)
  PROVE  LET k == FirstActive(s) IN
         /\ k = 0 => \A i \in 1..Len(s) : s[i] \notin works
         /\ k # 0 => /\ k \in 1..Len(s) /\ s[k] \in works
                     /\ \A i \in 1..Len(s) : s[i] \in works => k <= i
<1> DEFINE I == {i \in 1..Len(s) : s[i] \in works}
           k == FirstActive(s)
<1>1. k = IF I # {} THEN Min(I) ELSE 0
  BY DEF FirstActive, SelectInSeq
<1>2. Len(s) \in Nat
  OBVIOUS
<1>3. I \subseteq Nat
  BY <1>2
<1>4. CASE I = {}
  BY <1>1, <1>4
<1>5. CASE I # {}
  <2>1. k \in I /\ \A i \in I : k <= i
    BY <1>1, <1>3, <1>5, LeastIsLeast
  <2>2. k # 0
    BY <1>2, <2>1
  <2> QED
    BY <2>1, <2>2
<1> QED
  BY <1>4, <1>5

\* u is the first active candidate of the list.
Candidate(u, s) == FirstActive(s) # 0 /\ u = s[FirstActive(s)]

LEMMA CandidateWorks ==
  ASSUME NEW s \in Seq(UserUnit), NEW u, Candidate(u, s)
  PROVE  u \in works \cap UserUnit
<1>1. FirstActive(s) \in 1..Len(s) /\ s[FirstActive(s)] \in works
  BY FirstActiveIs DEF Candidate
<1>2. \A i \in 1..Len(s) : s[i] \in UserUnit
  OBVIOUS
<1> QED
  BY <1>1, <1>2 DEF Candidate

LEMMA CandidateKept ==
  ASSUME works' = works, NEW u, NEW s
  PROVE  Candidate(u, s)' <=> Candidate(u, s)
<1> DEFINE I == {i \in 1..Len(s) : s[i] \in works}
           J == {i \in 1..Len(s) : s[i] \in works'}
<1>1. I = J
  OBVIOUS
<1>2. FirstActive(s) = IF I # {} THEN Min(I) ELSE 0
  BY DEF FirstActive, SelectInSeq
<1>3. FirstActive(s)' = IF J # {} THEN Min(J) ELSE 0
  BY DEF FirstActive, SelectInSeq
<1> HIDE DEF I, J
<1>4. FirstActive(s)' = FirstActive(s)
  BY <1>1, <1>2, <1>3
<1> QED
  BY <1>4 DEF Candidate

\* A restart at j has left what repoint i pointed at in the first active candidate.
TookHold(i, j) ==
  i < j /\ recipe[i].fn = "unit-repoint" /\ recipe[j].fn = "unit-restart" =>
    \A u \in ToSet(recipe[i].units) : Candidate(u, recipe[j].user_units) => image[u] = Read(u)

LEMMA RecipeTyped ==
  ASSUME FilesInv, NEW i \in DOMAIN recipe
  PROVE  StepIsTyped(recipe[i])
BY RecipesAreTyped DEF FilesInv

\* It stays so while what works, and what it executes and should execute, stay.
LEMMA TookHoldKept ==
  ASSUME FilesInv, NEW i \in DOMAIN recipe, NEW j \in DOMAIN recipe, TookHold(i, j),
         UNCHANGED <<recipe, works>>,
         \A u \in works \cap UserUnit :
           u \in ToSet(recipe[i].units) /\ image[u] = Read(u) => image'[u] = Read(u)'
  PROVE  TookHold(i, j)'
<1> SUFFICES ASSUME i < j, recipe[i].fn = "unit-repoint", recipe[j].fn = "unit-restart",
                    NEW u \in ToSet(recipe[i].units), Candidate(u, recipe[j].user_units)
             PROVE  image'[u] = Read(u)'
  <2>1. \A s, u : s = recipe[j].user_units => (Candidate(u, s)' <=> Candidate(u, s))
    BY CandidateKept
  <2>2. \A u : Candidate(u, recipe[j].user_units)' <=> Candidate(u, recipe[j].user_units)
    <3>1. recipe'[j].user_units = recipe[j].user_units
      OBVIOUS
    <3> QED
      BY <2>1, <3>1 DEF Candidate
  <2> QED
    BY <2>2 DEF TookHold
<1>1. recipe[j].user_units \in Seq(UserUnit)
  BY RecipeTyped DEF StepIsTyped
<1>2. u \in works \cap UserUnit
  BY <1>1, CandidateWorks
<1>3. image[u] = Read(u)
  BY DEF TookHold
<1> QED
  BY <1>2, <1>3

LEMMA RestartCandidate ==
  ASSUME FilesInv, UnitsStand, Plain, bus, UnitRestart
  PROVE  \A u : Candidate(u, Step.user_units) => u \in UserUnit /\ image'[u] = loaded[u]
<1> DEFINE us    == Step.user_units
           ss    == Step.system_units
           units == us \o ss
           I     == {i \in 1..Len(units) : Restartable(units[i])}
           k     == FirstActive(us)
<1>1. us \in Seq(UserUnit) /\ ss \in Seq(SystemUnit)
  BY StepKnown DEF UnitRestart, On, StepIsTyped
<1> SUFFICES ASSUME k # 0 PROVE us[k] \in UserUnit /\ image'[us[k]] = loaded[us[k]]
  BY DEF Candidate
<1>2. /\ Len(us) \in Nat /\ Len(ss) \in Nat /\ Len(units) = Len(us) + Len(ss)
      /\ \A i \in 1..Len(us) : units[i] = us[i] /\ us[i] \in UserUnit
  <2> HIDE DEF us, ss
  <2>1. Len(us) \in Nat /\ Len(ss) \in Nat /\ \A i \in 1..Len(us) : us[i] \in UserUnit
    BY <1>1
  <2>2. us \in Seq(UserUnit \cup SystemUnit) /\ ss \in Seq(UserUnit \cup SystemUnit)
    BY <1>1
  <2> DEFINE V == UserUnit \cup SystemUnit
  <2> HIDE DEF V
  <2>3. us \in Seq(V) /\ ss \in Seq(V)
    BY <2>2 DEF V
  <2>4. Len(units) = Len(us) + Len(ss) /\ \A i \in 1..Len(us) : units[i] = us[i]
    BY <2>1, <2>3
  <2> QED
    BY <2>1, <2>4
<1>3. SelectInSeq(units, Restartable) = IF I # {} THEN Min(I) ELSE 0
  BY DEF SelectInSeq
<1>4. IF SelectInSeq(units, Restartable) = 0 THEN UNCHANGED <<works, image>>
      ELSE Starts({units[SelectInSeq(units, Restartable)]})
  BY DEF UnitRestart
<1>5. k \in 1..Len(us) /\ us[k] \in works /\ \A i \in 1..Len(us) : us[i] \in works => k <= i
  <2> HIDE DEF us
  <2> QED
    BY <1>1, FirstActiveIs
<1>6. \A u \in UserUnit : Restartable(u) <=> u \in works
  BY DEF Restartable, CanStart, UnitsStand
<1> HIDE DEF us, ss, units, k
<1>7. k \in I
  <2>1. Restartable(units[k]) /\ k \in 1..Len(units)
    BY <1>2, <1>5, <1>6
  <2> QED
    BY <2>1
<1>8. I \subseteq Nat
  BY <1>2
<1>9. \A m \in I : k <= m
  <2> SUFFICES ASSUME NEW m \in I, m < k PROVE FALSE
    BY <1>5, <1>2, <1>8
  <2>1. m \in 1..Len(us)
    BY <1>2, <1>5
  <2>2. us[m] \in works
    BY <1>2, <1>6, <2>1
  <2> QED
    BY <1>2, <1>5, <2>1, <2>2
<1>10. Min(I) = k
  <2>1. Min(I) \in I /\ Min(I) <= k
    BY <1>7, <1>8, LeastIsLeast
  <2>2. k <= Min(I) /\ k \in Nat /\ Min(I) \in Nat
    BY <1>7, <1>8, <1>9, <2>1
  <2> QED
    BY <2>1, <2>2
<1>11. Starts({us[k]})
  <2>1. SelectInSeq(units, Restartable) = k /\ k # 0
    BY <1>2, <1>3, <1>5, <1>7, <1>10
  <2>2. Starts({units[k]})
    BY <1>4, <2>1
  <2>3. units[k] = us[k]
    BY <1>2, <1>5
  <2> QED
    BY <2>2, <2>3
<1> DEFINE u == us[k]
<1>12. u \in UserUnit /\ Starts({u})
  BY <1>2, <1>5, <1>11
<1> HIDE DEF u
<1>13. image'[u] = loaded[u]
  BY <1>12 DEF Starts
<1> QED
  BY <1>12, <1>13 DEF u

\* The manager has reloaded since repoint i.
Reloaded(i) ==
  recipe[i].fn = "unit-repoint" =>
    \A u \in ToSet(recipe[i].units) : Read(u) = Torn \/ loaded[u] = Read(u)

\* In a run that nothing has disturbed: repoints before this step are reloaded, save
\* for units that this step repoints again, and restarts before it took hold.
RestartInv ==
  Plain /\ bus =>
    /\ at # 0 /\ clean =>
         /\ \A i \in DOMAIN recipe :
              i < at /\ recipe[i].fn = "unit-repoint" =>
                \A u \in ToSet(recipe[i].units) :
                  \/ Step.fn = "unit-repoint" /\ u \in ToSet(Step.units)
                  \/ Read(u) = Torn \/ loaded[u] = Read(u)
         /\ \A i, j \in DOMAIN recipe : j < at => TookHold(i, j)
    /\ at = 0 /\ settled => \A i, j \in DOMAIN recipe : TookHold(i, j)

\* What RestartInv says of the steps before n.
After(n) ==
  /\ \A i \in DOMAIN recipe : i < n => Reloaded(i)
  /\ \A i, j \in DOMAIN recipe : j < n => TookHold(i, j)

LEMMA RepointsUnits ==
  ASSUME FilesInv, NEW i \in DOMAIN recipe, recipe[i].fn = "unit-repoint"
  PROVE  ToSet(recipe[i].units) \subseteq UserUnit
<1> DEFINE s == recipe[i].units
<1>1. s \in Seq(UserUnit)
  BY RecipeTyped DEF StepIsTyped
<1> HIDE DEF s
<1>2. ToSet(s) \subseteq UserUnit
  BY <1>1 DEF ToSet
<1> QED
  BY <1>2 DEF s

\* One step of such a run: in it, or at its end.
LEMMA OtherStepDone ==
  ASSUME FilesInv, ListsInv, RepointHeld, RestartInv, Plain, bus, clean, at # 0, RunStep,
         Step.fn \notin {"unit-repoint", "unit-restart"}
  PROVE  UNCHANGED bus /\ \A n : n = at + 1 => After(n)'
<1>1. ~UnitStep
  BY PlainUnits DEF UnitRestart, RepointUnit, RepointEnable, RepointEnds, On
<1>2. UNCHANGED <<bus, works, loaded, image>> /\ UNCHANGED recipe
  BY <1>1, RunShape DEF RunStep, unitVars
<1>3. \A u \in UserUnit : Read(u)' = Read(u)
  BY UnitFiles
<1>4. Len(recipe) \in Nat /\ DOMAIN recipe = 1..Len(recipe) /\ at \in DOMAIN recipe
  BY RecipeLen, StepKnown DEF FilesInv
<1>5. ASSUME NEW i \in DOMAIN recipe, i < at + 1
      PROVE  Reloaded(i)'
  <2> SUFFICES ASSUME recipe[i].fn = "unit-repoint", NEW u \in ToSet(recipe[i].units)
               PROVE  Read(u)' = Torn \/ loaded'[u] = Read(u)'
    BY <1>2 DEF Reloaded
  <2>1. i < at
    <3>1. i # at
      BY DEF Step
    <3> QED
      BY <1>4, <1>5, <3>1
  <2>2. Read(u) = Torn \/ loaded[u] = Read(u)
    BY <2>1 DEF RestartInv
  <2>3. u \in UserUnit
    BY RepointsUnits
  <2> QED
    BY <1>2, <1>3, <2>2, <2>3
<1>6. ASSUME NEW i \in DOMAIN recipe, NEW j \in DOMAIN recipe, j < at + 1
      PROVE  TookHold(i, j)'
  <2>1. TookHold(i, j)
    <3>1. CASE j = at
      <4>1. recipe[j].fn # "unit-restart"
        BY <3>1 DEF Step
      <4> QED
        BY <4>1 DEF TookHold
    <3>2. CASE j # at
      <4>1. j < at
        BY <1>4, <1>6, <3>2
      <4> QED
        BY <4>1 DEF RestartInv
    <3> QED
      BY <3>1, <3>2
  <2> QED
    BY <1>2, <1>3, <2>1, TookHoldKept
<1> QED
  BY <1>2, <1>5, <1>6 DEF After

LEMMA RestartStepDone ==
  ASSUME FilesInv, ListsInv, RepointHeld, UnitsInv, UnitsStand, RestartInv, Plain, bus, clean, at # 0,
         RunStep, Step.fn = "unit-restart"
  PROVE  UNCHANGED bus /\ \A n : n = at + 1 => After(n)'
<1>1. UnitRestart
  BY RunOf DEF FilesInv, Writers, Writing, Truncate, Fill
<1>2. UNCHANGED <<recipe, bus, loaded>>
  BY <1>1, RunShape DEF UnitRestart
<1>3. \A u \in UserUnit : Read(u)' = Read(u)
  BY UnitFiles
<1>4. Len(recipe) \in Nat /\ DOMAIN recipe = 1..Len(recipe) /\ at \in DOMAIN recipe
  BY RecipeLen, StepKnown DEF FilesInv
<1>5. works' = works /\ \A u \in UserUnit : image'[u] = image[u] \/ image'[u] = loaded[u]
  BY <1>1, UnitRestartOK
<1>6. ASSUME NEW i \in DOMAIN recipe, i < at, recipe[i].fn = "unit-repoint",
             NEW u \in ToSet(recipe[i].units)
      PROVE  u \in UserUnit /\ (Read(u) = Torn \/ loaded[u] = Read(u))
  BY <1>6, RepointsUnits DEF RestartInv
<1>7. ASSUME NEW i \in DOMAIN recipe, i < at + 1
      PROVE  Reloaded(i)'
  <2> SUFFICES ASSUME recipe[i].fn = "unit-repoint", NEW u \in ToSet(recipe[i].units)
               PROVE  Read(u)' = Torn \/ loaded'[u] = Read(u)'
    BY <1>2 DEF Reloaded
  <2>1. i # at
    BY DEF Step
  <2>2. i < at
    BY <1>4, <1>7, <2>1
  <2> QED
    BY <1>2, <1>3, <1>6, <2>2
<1>8. ASSUME NEW i \in DOMAIN recipe, NEW j \in DOMAIN recipe, j < at
      PROVE  TookHold(i, j)'
  <2>1. TookHold(i, j)
    BY <1>8 DEF RestartInv
  <2>2. CASE i < j /\ recipe[i].fn = "unit-repoint"
    <3>1. i < at
      BY <1>4, <1>8, <2>2
    <3>2. ASSUME NEW u \in works \cap UserUnit, u \in ToSet(recipe[i].units), image[u] = Read(u)
          PROVE  image'[u] = Read(u)'
      <4>1. Read(u) # Torn
        BY <3>2 DEF UnitsStand
      <4>2. loaded[u] = Read(u)
        BY <1>6, <2>2, <3>1, <3>2, <4>1
      <4> QED
        BY <1>3, <1>5, <3>2, <4>2
    <3> QED
      BY <1>2, <1>5, <2>1, <3>2, TookHoldKept
  <2>3. CASE ~(i < j /\ recipe[i].fn = "unit-repoint")
    BY <1>2, <2>3 DEF TookHold
  <2> QED
    BY <2>2, <2>3
<1>9. ASSUME NEW i \in DOMAIN recipe, NEW j \in DOMAIN recipe, j = at
      PROVE  TookHold(i, j)'
  <2> DEFINE us == recipe[j].user_units
  <2> SUFFICES ASSUME i < at, recipe[i].fn = "unit-repoint", NEW u \in ToSet(recipe[i].units),
                      Candidate(u, us)'
               PROVE  image'[u] = Read(u)'
    BY <1>2, <1>9 DEF TookHold
  <2>1. us = Step.user_units
    BY <1>9 DEF Step
  <2>2. Candidate(u, us)
    <3>1. \A s : s = us => (Candidate(u, s)' <=> Candidate(u, s))
      BY <1>5, CandidateKept
    <3>2. recipe'[j].user_units = us
      BY <1>2
    <3> QED
      BY <3>1, <3>2 DEF Candidate
  <2>3. image'[u] = loaded[u]
    BY <1>1, <2>1, <2>2, RestartCandidate
  <2>4. u \in works \cap UserUnit
    <3>1. us \in Seq(UserUnit)
      BY <2>1, StepKnown DEF StepIsTyped
    <3> HIDE DEF us
    <3> QED
      BY <2>2, <3>1, CandidateWorks
  <2>5. loaded[u] = Read(u)
    BY <1>6, <2>4 DEF UnitsStand
  <2> QED
    BY <1>3, <2>3, <2>4, <2>5
<1>10. ASSUME NEW i \in DOMAIN recipe, NEW j \in DOMAIN recipe, j < at + 1
       PROVE  TookHold(i, j)'
  <2>1. j < at \/ j = at
    BY <1>4, <1>10
  <2> QED
    BY <1>8, <1>9, <2>1
<1> QED
  BY <1>2, <1>7, <1>10 DEF After

\* No restart comes before a repoint.
LEMMA NoneBefore ==
  ASSUME Plain, FilesInv, at # 0, Step.fn = "unit-repoint", NEW i \in DOMAIN recipe,
         NEW j \in DOMAIN recipe, j < at + 1, recipe' = recipe
  PROVE  TookHold(i, j)'
<1>1. Len(recipe) \in Nat /\ DOMAIN recipe = 1..Len(recipe) /\ at \in DOMAIN recipe
  BY RecipeLen, StepKnown DEF FilesInv
<1>2. j < at \/ j = at
  BY <1>1
<1>3. recipe[j].fn # "unit-restart"
  BY <1>1, <1>2 DEF Plain, Step
<1> QED
  BY <1>3 DEF TookHold

LEMMA RepointStepDone ==
  ASSUME FilesInv, ListsInv, RepointHeld, RestartInv, Plain, bus, clean, at # 0, RepointEnds, RunStep
  PROVE  UNCHANGED bus /\ \A n : n = at + 1 => After(n)'
<1>1. /\ Step.fn = "unit-repoint" /\ UNCHANGED <<disk, bus>>
      /\ IF RepointReload(FoundUnits) THEN Reload ELSE UNCHANGED loaded
  BY DEF RepointEnds, On
<1>2. recipe' = recipe
  BY RunShape
<1>3. Len(recipe) \in Nat /\ DOMAIN recipe = 1..Len(recipe) /\ at \in DOMAIN recipe
  BY RecipeLen, StepKnown DEF FilesInv
<1>4. \A u : Read(u)' = Read(u)
  BY <1>1 DEF Read, Exists
<1>5. ASSUME NEW i \in DOMAIN recipe, i < at + 1
      PROVE  Reloaded(i)'
  <2> SUFFICES ASSUME recipe[i].fn = "unit-repoint", NEW u \in ToSet(recipe[i].units)
               PROVE  Read(u) = Torn \/ loaded'[u] = Read(u)
    BY <1>2, <1>4 DEF Reloaded
  <2>1. u \in UserUnit
    BY RepointsUnits
  <2>2. CASE Reload
    <3>1. loaded' = [v \in UserUnit |-> Read(v)]
      BY <2>2 DEF Reload
    <3> QED
      BY <2>1, <3>1
  <2>3. CASE FoundUnits = {} /\ UNCHANGED loaded
    <3>1. CASE u \in ToSet(Step.units)
      BY <2>3, <3>1 DEF FoundUnits, Read
    <3>2. CASE u \notin ToSet(Step.units)
      <4>1. i # at
        BY <3>2 DEF Step
      <4>2. i < at
        BY <1>3, <1>5, <4>1
      <4> QED
        BY <2>3, <3>2, <4>2 DEF RestartInv
    <3> QED
      BY <3>1, <3>2
  <2> QED
    BY <1>1, <2>2, <2>3 DEF RepointReload
<1>6. \A i, j \in DOMAIN recipe : j < at + 1 => TookHold(i, j)'
  BY <1>1, <1>2, NoneBefore
<1> QED
  BY <1>1, <1>2, <1>5, <1>6 DEF After

\* Putting a file in place does nothing to what runs.
LEMMA FillLeaves ==
  ASSUME FilesInv, RunStep, Fill
  PROVE  UNCHANGED unitVars
<1>1. stage \notin Calm
  BY DEF Fill, Calm
<1>2. ~UnitStep
  BY <1>1 DEF UnitStep, UnitRestart, RepointUnit, RepointEnable, RepointEnds, WriteUserUnit,
     ArmUserUnit, WriteLoginTrigger, ArmLoginTrigger, GnomeUnits, GnomeRcFile, GnomeNextFile,
     GnomeEnds, On, Calm
<1> QED
  BY <1>2 DEF RunStep

\* A unit that is patched, put in place or enabled is one of the step's.
LEMMA RepointGoesOn ==
  ASSUME FilesInv, ListsInv, RepointHeld, RestartInv, Plain, bus, clean, at # 0, RunStep,
         Step.fn = "unit-repoint", RepointUnit \/ RepointEnable \/ Fill
  PROVE  UNCHANGED bus /\ RestartInv'
<1>1. Step.fn = "unit-repoint" /\ UNCHANGED <<bus, loaded>> /\ UNCHANGED <<at, clean>>
  <2>1. RepointUnit \/ RepointEnable => UNCHANGED <<bus, loaded>>
    BY DEF RepointUnit, RepointEnable, unitVars
  <2>2. RepointEnable => UNCHANGED <<at, clean>>
    BY DEF RepointEnable, GoNth
  <2>3. RepointUnit => UNCHANGED <<at, clean>>
    BY DEF RepointUnit, AtomicWrite, Holding, Go, runVars
  <2>4. CASE Fill
    <3>1. UNCHANGED unitVars
      BY <2>4, FillLeaves
    <3>2. held # NoWrite
      BY <2>4 DEF Fill, FilesInv, Writing
    <3> QED
      BY <2>4, <3>1, <3>2 DEF Fill, RepointHeld, runVars, unitVars
  <2> QED
    BY <2>1, <2>2, <2>3, <2>4
<1>2. recipe' = recipe /\ Step' = Step
  BY <1>1, RunShape DEF Step
<1>3. Len(recipe) \in Nat /\ DOMAIN recipe = 1..Len(recipe) /\ at \in DOMAIN recipe
  BY RecipeLen, StepKnown DEF FilesInv
<1>4. ASSUME NEW i \in DOMAIN recipe, i < at, recipe[i].fn = "unit-repoint",
             NEW u \in ToSet(recipe[i].units), u \notin ToSet(Step.units)
      PROVE  Read(u)' = Torn \/ loaded'[u] = Read(u)'
  <2>1. Read(u)' = Read(u)
    <3>1. u \in UserUnit
      BY <1>4, RepointsUnits
    <3> QED
      BY <1>4, <3>1, UnitFiles
  <2>2. Read(u) = Torn \/ loaded[u] = Read(u)
    BY <1>4 DEF RestartInv
  <2> QED
    BY <1>1, <2>1, <2>2
<1>5. \A i, j \in DOMAIN recipe : j < at => TookHold(i, j)'
  <2> SUFFICES ASSUME NEW i \in DOMAIN recipe, NEW j \in DOMAIN recipe, j < at
               PROVE  TookHold(i, j)'
    OBVIOUS
  <2>1. j < at + 1
    BY <1>3
  <2> QED
    BY <1>1, <1>2, <2>1, NoneBefore
<1> QED
  BY <1>1, <1>2, <1>4, <1>5 DEF RestartInv

\* The step that is not before the last is the last.
LEMMA NotBeforeTheEnd == \A n \in Nat : \A k \in 0..n : k < n \/ k = n
OBVIOUS

LEMMA RestartRunStep ==
  ASSUME FilesInv, ListsInv, RepointHeld, UnitsInv, UnitsStand, RestartInv, [Next]_vars, RunStep
  PROVE  RestartInv'
<1>1. recipe' = recipe /\ Plain' = Plain
  BY RecipeKept
<1>2. Len(recipe) \in Nat /\ DOMAIN recipe = 1..Len(recipe) /\ at \in 0..Len(recipe)
  BY RecipeLen DEF FilesInv
<1> SUFFICES ASSUME Plain PROVE RestartInv'
  BY <1>1 DEF RestartInv
<1>3. CASE RunStarts
  <2>1. at' = 1 /\ \A i \in DOMAIN recipe : ~(i < 1)
    BY <1>2, <1>3 DEF RunStarts
  <2> QED
    BY <1>1, <2>1 DEF RestartInv
<1>4. CASE at # 0 /\ ~clean
  <2>1. Within \/ \E ok : StepEnds(ok)
    BY <1>4, RunShape DEF RunStarts
  <2>2. CASE Within
    BY <1>4, <2>2 DEF Within, RestartInv
  <2>3. ASSUME NEW ok, StepEnds(ok)
        PROVE  RestartInv'
    <3>1. CASE ok /\ at < Len(recipe)
      <4>1. at' # 0
        BY <1>2, <1>4, <2>3, <3>1 DEF StepEnds
      <4>2. clean' = clean
        BY <2>3, <3>1 DEF StepEnds
      <4> QED
        BY <1>4, <4>1, <4>2 DEF RestartInv
    <3>2. CASE ~(ok /\ at < Len(recipe))
      <4>1. at' = 0 /\ settled' = (ok /\ clean)
        BY <2>3, <3>2 DEF StepEnds
      <4> QED
        BY <1>4, <4>1 DEF RestartInv
    <3> QED
      BY <3>1, <3>2
  <2> QED
    BY <2>1, <2>2, <2>3
<1>5. CASE at # 0 /\ clean /\ bus
  <2>1. CASE Step.fn = "unit-repoint" /\ (RepointUnit \/ RepointEnable \/ Fill)
    BY <1>5, <2>1, RepointGoesOn
  <2>2. CASE ~(Step.fn = "unit-repoint" /\ (RepointUnit \/ RepointEnable \/ Fill))
    <3>1. \A n : n = at + 1 => After(n)'
      <4>1. CASE Step.fn = "unit-restart"
        BY <1>5, <4>1, RestartStepDone
      <4>2. CASE Step.fn = "unit-repoint"
        <5>1. RepointEnds
          BY <1>5, <2>2, <4>2, RunOf DEF Truncate, FilesInv, Writing, RepointHeld
        <5> QED
          BY <1>5, <5>1, RepointStepDone
      <4>3. CASE Step.fn \notin {"unit-restart", "unit-repoint"}
        BY <1>5, <4>3, OtherStepDone
      <4> QED
        BY <4>1, <4>2, <4>3
    <3>2. \A i \in DOMAIN recipe : i < at + 1 => Reloaded(i)'
      BY <1>1, <3>1 DEF After
    <3>3. \A i, j \in DOMAIN recipe : j < at + 1 => TookHold(i, j)'
      BY <1>1, <3>1 DEF After
    <3>4. \/ at' = at \/ at' = at + 1
          \/ at' = 0 /\ (settled' => at = Len(recipe))
      <4>1. Within \/ \E ok : StepEnds(ok)
        BY <1>5, RunShape DEF RunStarts
      <4>2. CASE Within
        BY <4>2 DEF Within
      <4>3. ASSUME NEW ok, StepEnds(ok)
            PROVE  at' = at + 1 \/ (at' = 0 /\ (settled' => at = Len(recipe)))
        <5>1. CASE ok /\ at < Len(recipe)
          BY <4>3, <5>1 DEF StepEnds
        <5>2. CASE ~(ok /\ at < Len(recipe))
          <6>1. at' = 0 /\ settled' = (ok /\ clean)
            BY <4>3, <5>2 DEF StepEnds
          <6>2. at < Len(recipe) \/ at = Len(recipe)
            BY <1>2, NotBeforeTheEnd
          <6>3. CASE ok
            <7>1. at = Len(recipe)
              BY <5>2, <6>2, <6>3
            <7> QED
              BY <6>1, <7>1
          <6>4. CASE ~ok
            BY <6>1, <6>4
          <6> QED
            BY <6>3, <6>4
        <5> QED
          BY <5>1, <5>2
      <4> QED
        BY <4>1, <4>2, <4>3
    <3>5. CASE at' = at \/ at' = at + 1
      <4>1. \A i \in DOMAIN recipe : i < at' => i < at + 1
        BY <1>2, <3>5
      <4>2. at' # 0
        BY <1>2, <1>5, <3>5
      <4>3. ASSUME NEW i \in DOMAIN recipe, i < at', recipe[i].fn = "unit-repoint",
                   NEW u \in ToSet(recipe[i].units)
            PROVE  Read(u)' = Torn \/ loaded'[u] = Read(u)'
        BY <1>1, <3>2, <4>1, <4>3 DEF Reloaded
      <4> QED
        BY <1>1, <3>3, <4>1, <4>2, <4>3 DEF RestartInv
    <3>6. CASE at' = 0 /\ (settled' => at = Len(recipe))
      <4>1. settled' => \A j \in DOMAIN recipe : j < at + 1
        BY <1>2, <3>6
      <4> QED
        BY <1>1, <3>3, <3>6, <4>1 DEF RestartInv
    <3> QED
      BY <3>4, <3>5, <3>6
  <2> QED
    BY <2>1, <2>2
<1>6. CASE at # 0 /\ ~bus
  <2>1. bus' = bus
    <3>1. UnitStep => bus' = bus
      BY PlainUnits DEF UnitRestart, RepointUnit, RepointEnable, RepointEnds, unitVars
    <3> QED
      BY <3>1 DEF RunStep, unitVars
  <2> QED
    BY <1>6, <2>1 DEF RestartInv
<1>7. RunStarts \/ at # 0
  BY RunShape DEF Within
<1> QED
  BY <1>3, <1>4, <1>5, <1>6, <1>7

LEMMA RestartStep ==
  ASSUME FilesInv, ListsInv, RepointHeld, UnitsInv, UnitsStand, RestartInv, [Next]_vars
  PROVE  RestartInv'
<1>1. CASE RunStep
  BY <1>1, RestartRunStep
<1>2. CASE KillRun \/ Disturbed
  <2>1. (at' # 0 => ~clean') /\ ~settled'
    BY <1>2 DEF KillRun, Disturbed, Upset
  <2> QED
    BY <2>1 DEF RestartInv
<1>3. CASE UNCHANGED fileVars /\ UNCHANGED unitVars
  <2>1. recipe' = recipe /\ Plain' = Plain
    BY RecipeKept
  <2>2. UNCHANGED <<at, clean, settled, bus, loaded, image, works>> /\ Step' = Step
    BY <1>3 DEF fileVars, unitVars, Step
  <2>3. \A u : Read(u)' = Read(u)
    BY <1>3 DEF fileVars, Read, Exists
  <2>4. \A i, j \in DOMAIN recipe : TookHold(i, j) => TookHold(i, j)'
    BY <2>1, <2>2, <2>3, TookHoldKept
  <2> QED
    BY <2>1, <2>2, <2>3, <2>4 DEF RestartInv
<1>4. RunStep \/ KillRun \/ Disturbed \/ (UNCHANGED fileVars /\ UNCHANGED unitVars)
  <2>1. CASE Watch
    BY <2>1 DEF Watch, Cycle, ForgetCycle, hostVars, unitVars, cycleVars
  <2> QED
    BY <2>1 DEF Next, vars, Disturbance, NetFlips, UserEdits, BusFlips, PushBinary, Unmount, Replug, Use,
         Crashes, StartedByHand
<1> QED
  BY <1>1, <1>2, <1>3, <1>4

\* A recipe that repoints units and then restarts what is active has, after a run
\* that nothing disturbed, the first active candidate execute what its unit file
\* says: wherever the runs before were cut, whatever was enabled before, and
\* whichever units crashed or were started by hand (stdlib_unit.go).
THEOREM RestartsTakeHold == ASSUME RestartsComeLast PROVE Spec => []RestartTakesHold
<1> DEFINE Inv == /\ FilesInv /\ ListsInv /\ TriggerInv /\ UnitsInv
                  /\ RepointHeld /\ UnitsStand /\ RestartInv
<1>1. Init => Inv
  <2>1. Init => RestartInv
    BY DEF Init, FilesInit, RestartInv
  <2>2. Init => RepointHeld
    BY DEF Init, FilesInit, RepointHeld
  <2> QED
    BY <2>1, <2>2, MachineInit, ListsInit, UnitsStandInit DEF MachineInv
<1>2. Inv /\ [Next]_vars => Inv'
  BY FilesStep, ListsStep, TriggerStep, UnitsTyped, RepointHeldStep, UnitsStandStep, RestartStep
<1>3. Inv => RestartTakesHold
  <2> SUFFICES ASSUME Inv, at = 0, settled, bus, NEW i \in DOMAIN recipe, NEW j \in DOMAIN recipe,
                      i < j, recipe[i].fn = "unit-repoint", recipe[j].fn = "unit-restart"
               PROVE  LET units == recipe[j].user_units
                          k     == FirstActive(units)
                      IN  k # 0 /\ units[k] \in ToSet(recipe[i].units) => image[units[k]] = Read(units[k])
    BY DEF RestartTakesHold, FirstActive
  <2>1. recipe \in Recipes
    BY DEF FilesInv
  <2>2. Plain
    BY <2>1 DEF RestartsComeLast, Plain
  <2>3. TookHold(i, j)
    BY <2>2 DEF RestartInv
  <2> QED
    BY <2>3 DEF TookHold, Candidate
<1> HIDE DEF Inv
<1> QED
  BY <1>1, <1>2, <1>3, PTL DEF Spec

=============================================================================
