-------------------------- MODULE SelfUpdateProofs --------------------------
(***************************************************************************)
(* Theorems about SelfUpdate, for any releases, any policies that resolve  *)
(* to a version or to "latest", any labels and any faults: its type        *)
(* invariant; that the agent's restarts settle; and, where the comparison  *)
(* of versions and the CLI leave it alone, that "latest" only upgrades.    *)
(***************************************************************************)
EXTENDS SelfUpdate, TLAPS

(***************************************************************************)
(* Type correctness.                                                       *)
(***************************************************************************)
\* A release is neither "latest" nor a missing entry.
LEMMA ReleaseIsVersion ==
  \A v \in Releases : v \in Version /\ v # Latest /\ v # None
BY ReleasesAreVersions, PinMarks DEF Version, None

\* What a branch has to show are releases.
LEMMA BranchType ==
  ASSUME NEW b \in Branch
  PROVE  b.version \in Releases /\ b.tags \subseteq Releases
BY DEF Branch

\* The agent starts with well-typed variables.
LEMMA InitType == Init => TypeOK
<1> SUFFICES ASSUME Init PROVE TypeOK
  OBVIOUS
<1>1. First \in Releases /\ First # None
  BY ReleasesAreVersions, ReleaseIsVersion
<1>2. bin \in [Paths -> Releases \cup {None}] /\ bin["system"] # None
  BY <1>1 DEF Init, Paths
<1>3. branch \in Branch /\ tracked \in Branch
  BY <1>1 DEF Init, Branch
<1> QED
  BY <1>1, <1>2, <1>3 DEF Init, TypeOK, Paths, Steps

\* So do the steps of maybeSelfUpdate keep them.
LEMMA SelfUpdatingType ==
  ASSUME TypeOK, SelfUpdating
  PROVE  TypeOK'
<1>0. moves + 1 \in Nat
  <2>1. moves \in Nat
    BY DEF TypeOK
  <2> QED
    BY <2>1
<1> USE ReleaseIsVersion DEF TypeOK, Steps, Return
<1>1. CASE FetchBinaries
  BY <1>1 DEF FetchBinaries
<1>2. CASE Resolve
  BY <1>2, PoliciesResolve DEF Resolve
<1>3. CASE ShowPinned
  BY <1>3, BranchType DEF ShowPinned
<1>4. CASE ShowVersion
  BY <1>4 DEF ShowVersion
<1>5. CASE ShowBinary
  BY <1>5, BranchType DEF ShowBinary
<1>6. CASE SwapInPlace
  BY <1>6 DEF SwapInPlace, Paths
<1>7. CASE SwapFallback
  BY <1>7 DEF SwapFallback, Paths
<1>8. ASSUME NEW path \in Paths, ExecRestart(path) PROVE TypeOK'
  <2>2. moves' \in Nat
    BY <1>8, <1>0 DEF ExecRestart
  <2>3. bin[path] \in Releases /\ bin[path] # None
    <3>1. CASE path = "home"
      BY <1>8, <3>1 DEF ExecRestart, Paths
    <3>2. CASE path = "system"
      BY <3>2 DEF Paths
    <3> QED
      BY <3>1, <3>2 DEF Paths
  <2>4. /\ running' = bin[path] /\ from' = path
        /\ pc' = "idle" /\ target' = None /\ got' = None
        /\ UNCHANGED <<branch, net, tracked, policy, bin, writable, cli>>
    BY <1>8 DEF ExecRestart, Become
  <2> QED
    BY <2>2, <2>3, <2>4
<1> QED
  BY <1>1, <1>2, <1>3, <1>4, <1>5, <1>6, <1>7, <1>8 DEF SelfUpdating

\* And so do the service, the CLI and the world outside.
LEMMA OtherType ==
  ASSUME TypeOK, [Next]_vars, ~SelfUpdating
  PROVE  TypeOK'
<1> USE ReleaseIsVersion DEF TypeOK, Steps, Return
<1>1. CASE ExecFails
  BY <1>1 DEF ExecFails, ExitsZero
<1>2. CASE ServiceStart
  BY <1>2 DEF ServiceStart, Become, Paths
<1>3. ASSUME NEW path \in Paths, CliInstall(path) PROVE TypeOK'
  <2>1. tracked' \in Branch
    BY <1>3 DEF CliInstall
  <2>2. tracked'.version \in Releases
    BY <2>1, BranchType
  <2>3. /\ bin' \in [Paths -> Releases \cup {None}]
        /\ \A p \in Paths : bin[p] # None => bin'[p] # None
    BY <1>3, <2>2 DEF CliInstall, Paths
  <2> QED
    BY <1>3, <2>1, <2>3 DEF CliInstall, Paths
<1>4. CASE CliRestart
  BY <1>4 DEF CliRestart, Become, ExitsZero
<1>5. ASSUME NEW v \in Releases, Publish(v) PROVE TypeOK'
  <2>1. branch' \in Branch
    BY <1>5 DEF Publish, Branch
  <2> QED
    BY <1>5, <2>1 DEF Publish
<1>6. CASE PolicyChange
  BY <1>6 DEF PolicyChange
<1>7. CASE Network
  BY <1>7 DEF Network
<1>8. CASE UNCHANGED vars
  BY <1>8 DEF vars
<1> QED
  BY <1>1, <1>2, <1>3, <1>4, <1>5, <1>6, <1>7, <1>8 DEF Next, Environment

\* TypeOK is inductive.
LEMMA TypeStep == TypeOK /\ [Next]_vars => TypeOK'
BY SelfUpdatingType, OtherType

\* The variables keep their types: what is about to be swapped in is a
\* release, and the path that is about to be exec'd holds a binary.
THEOREM TypeCorrect == Spec => []TypeOK
BY InitType, TypeStep, PTL DEF Spec

(***************************************************************************)
(* RestartsSettle.  After one restart since the last change, whatever the  *)
(* running tick has fetched, resolved and downloaded is what the policy    *)
(* wants of the branch as they are now; after two, the agent runs it, and  *)
(* every later tick finds nothing to do.                                   *)
(***************************************************************************)
\* The pin that the current policy resolves to, and the version it stands for.
Pin    == ResolveUpdateTarget(policy, Labels)
Wanted == IF Pin = Latest THEN branch.version ELSE Pin

Swapping == pc \in {"swap", "exec system", "exec home"}

\* The arm of maybeSelfUpdate fits the pin it resolved.
ArmFits ==
  /\ pc = "pinned" => target # Latest
  /\ pc \in {"version", "download"} => target = Latest

\* What this tick knows is current.
TickCurrent ==
  moves # 0 =>
    /\ pc # "idle" => tracked = branch
    /\ pc \notin {"idle", "resolve"} => target = Pin
    /\ Swapping => got = Wanted

\* The binary about to be exec'd is the one that was downloaded.
Installed ==
  moves # 0 =>
    /\ pc = "exec system" => bin["system"] = got
    /\ pc = "exec home" => bin["home"] = got

\* Two restarts are enough.
Arrived ==
  /\ moves <= 2
  /\ moves = 2 => running = Wanted /\ pc \in {"idle", "resolve", "version"}

SettleInv == ArmFits /\ TickCurrent /\ Installed /\ Arrived

\* No version is newer than itself.
LEMMA NotNewerThanItself == \A v \in Version : ~IsNewer(v, v)
BY DEF Version, IsNewer

\* At first nothing has been resolved and nothing restarted.
LEMMA InitSettles == Init => SettleInv
BY DEF Init, SettleInv, ArmFits, TickCurrent, Installed, Arrived, Swapping

\* The end of a call and a change of the environment need no argument: the
\* one forgets what the tick knew, the other sets moves to 0.
LEMMA ResetSettles ==
  ASSUME ArmFits, moves' = 0,
         \/ pc' = pc /\ target' = target
         \/ pc' = "idle"
  PROVE  SettleInv'
BY DEF SettleInv, ArmFits, TickCurrent, Installed, Arrived, Swapping

\* The counter's values.
LEMMA MovesAreFew ==
  ASSUME TypeOK, SettleInv
  PROVE  moves = 0 \/ moves = 1 \/ moves = 2
<1>1. moves \in Nat
  BY DEF TypeOK
<1>2. moves <= 2
  BY DEF SettleInv, Arrived
<1> QED
  BY <1>1, <1>2

\* The first restart may have been for a target of before the change; the
\* second reaches the wanted version, and there is no third.
LEMMA RestartSettles ==
  ASSUME TypeOK, SettleInv, NEW path \in Paths, ExecRestart(path)
  PROVE  SettleInv'
<1>1. pc' = "idle" /\ moves' = moves + 1 /\ running' = bin[path]
  BY DEF ExecRestart, Become, Return
<1>2. moves # 2
  BY DEF ExecRestart, SettleInv, Arrived
<1>3. moves' = 1 \/ (moves = 1 /\ moves' = 2)
  <2>1. moves = 0 \/ moves = 1 \/ moves = 2
    BY MovesAreFew
  <2> QED
    BY <1>1, <1>2, <2>1
<1>4. moves # 0 => bin[path] = got /\ got = Wanted
  BY DEF ExecRestart, Paths, SettleInv, TickCurrent, Installed, Swapping
<1>5. Wanted' = Wanted
  BY DEF ExecRestart, Wanted, Pin
<1>6. moves' = 1 \/ (moves' = 2 /\ running' = Wanted')
  BY <1>1, <1>3, <1>4, <1>5
<1>7. Arrived'
  BY <1>1, <1>6 DEF Arrived
<1> QED
  BY <1>1, <1>7 DEF SettleInv, ArmFits, TickCurrent, Installed, Swapping

\* maybeSelfUpdate's steps keep the invariant.
LEMMA SelfUpdatingSettles ==
  ASSUME TypeOK, TypeOK', SettleInv, SelfUpdating
  PROVE  SettleInv'
<1>m. moves = 0 \/ moves = 1 \/ moves = 2
  BY MovesAreFew
<1> USE DEF SettleInv, ArmFits, TickCurrent, Installed, Arrived, Swapping,
            Return
<1>1. CASE FetchBinaries
  BY <1>1, <1>m DEF FetchBinaries, Wanted, Pin
<1>2. CASE Resolve
  <2>1. moves = 2 /\ Pin # running => Pin = Latest
    BY DEF Wanted
  <2> QED
    BY <1>2, <1>m, <2>1 DEF Resolve, Wanted, Pin
<1>3. CASE ShowPinned
  BY <1>3, <1>m DEF ShowPinned, Wanted, Pin
<1>4. CASE ShowVersion
  <2>1. moves = 2 => ~IsNewer(tracked.version, running)
    <3> SUFFICES ASSUME moves = 2 PROVE ~IsNewer(tracked.version, running)
      OBVIOUS
    <3>1. tracked = branch /\ running = branch.version
      BY <1>4 DEF ShowVersion, Wanted
    <3>2. branch.version \in Version
      BY BranchType, ReleaseIsVersion DEF TypeOK
    <3> QED
      BY <3>1, <3>2, NotNewerThanItself
  <2> QED
    BY <1>4, <1>m, <2>1 DEF ShowVersion, Wanted, Pin
<1>5. CASE ShowBinary
  BY <1>5, <1>m DEF ShowBinary, Wanted, Pin
<1>6. CASE SwapInPlace
  <2>1. bin'[from] = got
    BY <1>6 DEF SwapInPlace, TypeOK
  <2> QED
    BY <1>6, <1>m, <2>1 DEF SwapInPlace, TypeOK, Paths, Wanted, Pin
<1>7. CASE SwapFallback
  <2>1. bin'["home"] = got
    BY <1>7 DEF SwapFallback, TypeOK, Paths
  <2> QED
    BY <1>7, <1>m, <2>1 DEF SwapFallback, Wanted, Pin
<1>8. ASSUME NEW path \in Paths, ExecRestart(path) PROVE SettleInv'
  BY <1>8, RestartSettles
<1> QED
  BY <1>1, <1>2, <1>3, <1>4, <1>5, <1>6, <1>7, <1>8 DEF SelfUpdating

\* So does everything else.
LEMMA OtherSettles ==
  ASSUME TypeOK, SettleInv, [Next]_vars, ~SelfUpdating
  PROVE  SettleInv'
<1>1. CASE ExecFails
  BY <1>1, ResetSettles DEF ExecFails, ExitsZero, Return, SettleInv
<1>2. CASE ServiceStart
  BY <1>2, ResetSettles DEF ServiceStart, Become, Return, SettleInv
<1>3. ASSUME NEW path \in Paths, CliInstall(path) PROVE SettleInv'
  BY <1>3, ResetSettles DEF CliInstall, SettleInv
<1>4. CASE CliRestart
  BY <1>4, ResetSettles
  DEF CliRestart, Become, ExitsZero, Return, SettleInv
<1>5. ASSUME NEW v \in Releases, Publish(v) PROVE SettleInv'
  BY <1>5, ResetSettles DEF Publish, SettleInv
<1>6. CASE PolicyChange
  BY <1>6, ResetSettles DEF PolicyChange, SettleInv
<1>7. CASE Network \/ UNCHANGED vars
  BY <1>7 DEF Network, vars, SettleInv, ArmFits, TickCurrent, Installed,
              Arrived, Swapping, Wanted, Pin
<1> QED
  BY <1>1, <1>2, <1>3, <1>4, <1>5, <1>6, <1>7 DEF Next, Environment

\* Whatever the releases, the policy, the labels and the faults, the agent
\* restarts itself at most twice between two changes: no pin, downgrade or
\* read-only directory sends it round in a circle (maybeSelfUpdate).
THEOREM RestartsAreFew == Spec => []RestartsSettle
<1>1. Init => TypeOK /\ SettleInv
  BY InitType, InitSettles
<1>2. TypeOK /\ SettleInv /\ [Next]_vars => TypeOK' /\ SettleInv'
  BY TypeStep, SelfUpdatingSettles, OtherSettles
<1>3. SettleInv => RestartsSettle
  BY DEF SettleInv, Arrived, RestartsSettle
<1> QED
  BY <1>1, <1>2, <1>3, PTL DEF Spec

(***************************************************************************)
(* UpgradesOnly.  The run that refutes it on the releases 0.7.9 and 0.8.0  *)
(* leaves open what else could; on a node where nobody runs update         *)
(* -install, nothing but isNewer does.                                     *)
(***************************************************************************)
\* On the way to "latest", the binary being installed passed isNewer, and it
\* is the one that will run; no tick is under way in an agent that is down.
OnlyNewer ==
  /\ pc # "idle" => running # None
  /\ target = Latest =>
       /\ pc = "download" => IsNewer(tracked.version, running)
       /\ Swapping => IsNewer(got, running)
       /\ pc = "exec system" => bin["system"] = got
       /\ pc = "exec home" => bin["home"] = got

\* Without the CLI, OnlyNewer is inductive, together with ArmFits.
LEMMA OnlyNewerStep ==
  ASSUME "cli" \notin Faults, TypeOK, cli = FALSE, OnlyNewer, ArmFits, [Next]_vars
  PROVE  cli' = FALSE /\ OnlyNewer' /\ ArmFits'
<1> USE DEF OnlyNewer, ArmFits, Swapping, Return
<1>0. Latest # None
  BY PinMarks DEF None
<1>1. CASE FetchBinaries
  BY <1>1, <1>0 DEF FetchBinaries
<1>2. CASE Resolve
  BY <1>2, <1>0 DEF Resolve
<1>3. CASE ShowPinned
  BY <1>3, <1>0 DEF ShowPinned
<1>4. CASE ShowVersion
  BY <1>4, <1>0 DEF ShowVersion
<1>5. CASE ShowBinary
  BY <1>5 DEF ShowBinary
<1>6. CASE SwapInPlace
  BY <1>6 DEF SwapInPlace, TypeOK, Paths
<1>7. CASE SwapFallback
  BY <1>7 DEF SwapFallback, TypeOK, Paths
<1>8. ASSUME NEW path \in Paths, ExecRestart(path)
      PROVE  cli' = FALSE /\ OnlyNewer' /\ ArmFits'
  BY <1>8, <1>0 DEF ExecRestart, Become
<1>9. CASE ExecFails \/ ServiceStart
  BY <1>9, <1>0 DEF ExecFails, ExitsZero, ServiceStart, Become
<1>10. CASE \/ \E v \in Releases : Publish(v)
            \/ PolicyChange \/ Network \/ UNCHANGED vars
  BY <1>10 DEF Publish, PolicyChange, Network, vars
<1>11. /\ ~CliRestart
       /\ \A path \in Paths : ~CliInstall(path)
  BY DEF CliInstall, CliRestart
<1> QED
  BY <1>1, <1>2, <1>3, <1>4, <1>5, <1>6, <1>7, <1>8, <1>9, <1>10, <1>11
  DEF Next, SelfUpdating, Environment

\* Where isNewer agrees with the order of the versions on all the releases,
\* and update -install is not used, "latest" only ever upgrades
\* (versionpins.go: "upgrades only"): the lexicographic comparison is all
\* that the promise lacks.
THEOREM LatestUpgrades ==
  ASSUME "cli" \notin Faults,
         \A a, b \in Releases : IsNewer(a, b) => ~Below(a, b)
  PROVE  Spec => UpgradesOnly
<1> DEFINE Inv == TypeOK /\ cli = FALSE /\ OnlyNewer /\ ArmFits
<1>1. Init => Inv
  BY InitType DEF Init, OnlyNewer, ArmFits, Swapping
<1>2. Inv /\ [Next]_vars => Inv'
  BY TypeStep, OnlyNewerStep
<1>3. Inv /\ [Next]_vars
      => [\A path \in Paths : ExecRestart(path) /\ target = Latest
            => ~Below(running', running)]_vars
  <2> SUFFICES ASSUME Inv, NEW path \in Paths,
                      ExecRestart(path), target = Latest
               PROVE  ~Below(running', running)
    BY DEF vars
  <2>1. IsNewer(got, running) /\ running' = got
    BY DEF ExecRestart, Become, OnlyNewer, Swapping, Paths
  <2>2. running \in Releases
    BY DEF ExecRestart, OnlyNewer, TypeOK
  <2>3. got \in Releases
    <3>1. bin[path] # None /\ bin[path] \in Releases \cup {None}
      BY DEF ExecRestart, TypeOK, Paths
    <3> QED
      BY <2>1, <3>1 DEF ExecRestart, Become
  <2> QED
    BY <2>1, <2>2, <2>3
<1> QED
  BY <1>1, <1>2, <1>3, PTL DEF Spec, UpgradesOnly

=============================================================================
