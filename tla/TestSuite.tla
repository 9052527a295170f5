----------------------------- MODULE TestSuite ------------------------------
(***************************************************************************)
(* Test modules (cmd/gogitops/main.go): the daemon's fleet tests, and the  *)
(* CLI's test run, test run-all and attrs verify.  A suite runs module     *)
(* after module, each over its own copy of the device attributes, merges   *)
(* what they set, verifies the repository's recipes, persists it all, and, *)
(* in the daemon, alerts on the tests that began or ceased to fail.        *)
(***************************************************************************)
EXTENDS AttrStore, Checkout, Naturals

CONSTANTS
  Tester,      \* processes that run test modules
  Daemon,      \* the daemon's fleet-test goroutine, one of them
  Checks,      \* recipes verifyRepoRecipes validates: a test and an attribute
  Test,        \* names of tests, those of the Checks among them
  Yes, No,     \* "true" and "false"
  MaxSuites    \* bound: suites started

ASSUME TestersPersist ==
  /\ Tester \subseteq Process /\ Daemon \in Tester /\ MaxSuites \in Nat
  /\ {Yes, No} \subseteq Value

\* The steps of a module are a list of tests, and each recipe's verification is
\* a test and an attribute.
ASSUME ModulesParsed ==
  /\ \A c \in Checks : c.test \in Test /\ c.attr \in Attr
  /\ \A m \in DOMAIN Module :
       LET steps == Module[m].steps IN
         /\ steps \in Seq({steps[i] : i \in DOMAIN steps})
         /\ \A i \in DOMAIN steps : steps[i].test \in Test

VARIABLES
  suite,       \* each tester's process
  fleet,       \* the failing tests of fleetTestState.results, in the daemon's
               \* memory
  told,        \* history: tests the last alert about them called failing
  deaf,        \* history: an alert was lost
  forgot,      \* history: the daemon lost fleetTestState in a restart
  started      \* suites started so far

suiteVars == <<suite, fleet, told, deaf, forgot, started>>

Resting ==
  [stage |-> "idle", scope |-> "none", todo |-> << >>, module |-> "none",
   step |-> 0, attrs |-> NoAttrs, set |-> {}, merged |-> NoAttrs,
   mergedSet |-> {}, failing |-> {}]

SuiteTypeOK ==
  /\ DOMAIN suite = Tester
  /\ \A p \in Tester :
       /\ DOMAIN suite[p] = DOMAIN Resting
       /\ suite[p].stage \in {"idle", "modules", "step", "persist", "write", "publish"}
       /\ suite[p].attrs \in Map /\ suite[p].merged \in Map
       /\ suite[p].set \subseteq Given(suite[p].attrs)
       /\ suite[p].mergedSet \subseteq Given(suite[p].merged)
       /\ suite[p].failing \subseteq Test
  /\ fleet \subseteq Test
  /\ told \subseteq Test
  /\ deaf \in BOOLEAN /\ forgot \in BOOLEAN
  /\ started \in 0..MaxSuites

SuiteInit ==
  /\ suite = [p \in Tester |-> Resting]
  /\ fleet = {} /\ told = {} /\ deaf = FALSE /\ forgot = FALSE
  /\ started = 0

During(p, stage) == suite[p].stage = stage /\ io[p].at = "out"
TestStep(p) == Module[suite[p].module].steps[suite[p].step]
Turn(p, s)  == suite' = [suite EXCEPT ![p] = s]
Silent      == UNCHANGED <<fleet, told, deaf, forgot>>

\* runFleetTests (modules selected by the node's labels), test run-all (every
\* module), test run <name> (one, refused unless it says test_module: true)
\* and attrs verify (none).
StartSuite(p) ==
  /\ During(p, "idle") /\ started < MaxSuites
  /\ started' = started + 1
  /\ LET Begin(scope, todo) ==
           Turn(p, [Resting EXCEPT !.stage = "modules", !.scope = scope,
                                   !.todo = todo])
     IN  \/ p = Daemon /\ Begin("suite", TestModulesOf(SelectFleetModules))
         \/ /\ p # Daemon
            /\ \/ Begin("suite", TestModulesOf(DiscoverTestModules))
               \/ \E m \in DOMAIN Module :
                    Module[m].test_module /\ Begin("module", <<m>>)
               \/ Begin("recipe-verification", << >>)
  /\ Silent /\ UNCHANGED storeVars

\* runTestModule begins: hydrateDeviceAttrs, and no key set yet.
NextModule(p) ==
  /\ During(p, "modules") /\ suite[p].todo # << >>
  /\ Turn(p, [suite[p] EXCEPT !.stage = "step", !.step = 1,
              !.module = Head(suite[p].todo), !.todo = Tail(@),
              !.attrs = ReadDeviceAttrs.attrs, !.set = {}])
  /\ Silent /\ UNCHANGED <<storeVars, started>>

\* runTestModule runs scripts and commands; a func: it does not look at.
Missing(call) == call.kind = "script" /\ ~Available(call)

\* A step: skipped by os:, arch:, an attribute condition or when:; failed for
\* want of its script; or run, its verdict and its output the machine's.
Verdicts(s, p) ==
  IF ~s.applies \/ (s.needs \in Attr /\ suite[p].attrs[s.needs] \in {Unset, No})
  THEN {"skip"}
  ELSE IF Missing(s.call) THEN {"fail"}
  ELSE {"pass", "fail"} \cup (IF s.guarded THEN {"skip"} ELSE {})

Sets(p, s, a, v) ==
  [s EXCEPT !.attrs[a] = v, !.set = @ \cup {a}]

RunTestStep(p) ==
  /\ During(p, "step")
  /\ suite[p].step <= Len(Module[suite[p].module].steps)
  /\ \E verdict \in Verdicts(TestStep(p), p), v \in Value :
       LET done == [suite[p] EXCEPT !.step = @ + 1,
                                    !.failing = IF verdict = "fail"
                                                THEN @ \cup {TestStep(p).test}
                                                ELSE @]
       IN  Turn(p, IF verdict # "skip" /\ ~Missing(TestStep(p).call)
                      /\ TestStep(p).sets \in Attr
                   THEN Sets(p, done, TestStep(p).sets, v)
                   ELSE done)
  /\ Silent /\ UNCHANGED <<storeVars, started>>

\* The caller's merge of a module's attributes, hydrated ones included, and of
\* the keys it set.
MergeModule(s) ==
  [s EXCEPT !.merged = MergedWith(s.attrs, @), !.mergedSet = @ \cup s.set]

EndOfModule(p) ==
  /\ During(p, "step")
  /\ suite[p].step > Len(Module[suite[p].module].steps)
  /\ Turn(p, [MergeModule(suite[p]) EXCEPT !.stage = "modules", !.step = 0,
              !.module = "none", !.attrs = NoAttrs, !.set = {}])
  /\ Silent /\ UNCHANGED <<storeVars, started>>

\* verifyRepoRecipes: a verdict on each recipe, as a result and an attribute.
VerifyRepoRecipes(p) ==
  /\ During(p, "modules") /\ suite[p].todo = << >>
  /\ suite[p].scope # "module"
  /\ \E valid \in SUBSET Checks :
       LET verdict(a) == IF \E c \in valid : c.attr = a THEN Yes ELSE No
           s == [suite[p] EXCEPT
                   !.stage = "persist",
                   !.attrs = [a \in Attr |-> IF \E c \in Checks : c.attr = a
                                             THEN verdict(a) ELSE Unset],
                   !.set = {c.attr : c \in Checks},
                   !.failing = @ \cup {c.test : c \in Checks \ valid}]
       IN  Turn(p, [MergeModule(s) EXCEPT !.attrs = NoAttrs, !.set = {}])
  /\ Silent /\ UNCHANGED <<storeVars, started>>

\* test run <name> verifies nothing.
NoVerification(p) ==
  /\ During(p, "modules") /\ suite[p].todo = << >> /\ suite[p].scope = "module"
  /\ Turn(p, [suite[p] EXCEPT !.stage = "persist"])
  /\ Silent /\ UNCHANGED <<storeVars, started>>

\* persistTestAttrs: the merged values of the keys some module set, and the
\* summary of this run.
PersistTests(p) ==
  /\ During(p, "persist")
  /\ LET s == suite[p] IN
       PersistRead(p, [a \in Attr |-> IF a \in s.mergedSet THEN s.merged[a]
                                                           ELSE Unset],
                   [scope |-> s.scope, fail |-> s.failing # {}])
  /\ Turn(p, [suite[p] EXCEPT !.stage = "write"])
  /\ Silent /\ UNCHANGED started

OpenTests(p) ==
  /\ suite[p].stage = "write" /\ OpenStore(p) /\ UNCHANGED suiteVars

\* The CLI exits; the daemon goes on to publish its results.
WriteTests(p) ==
  /\ suite[p].stage = "write" /\ (EncodeStore(p) \/ OpenFails(p))
  /\ Turn(p, IF p = Daemon
             THEN [Resting EXCEPT !.stage = "publish", !.failing = suite[p].failing]
             ELSE Resting)
  /\ Silent /\ UNCHANGED started

\* Mutant of PrevFailing: the results were already replaced.
PrevFailingLate == suite[Daemon].failing

\* The tests that failed in the cycle before, which the daemon remembers.
PrevFailing == fleet

\* fleetTestState under its mutex, then one alert for the tests newly failing
\* and one for those recovered: every test that failed and fails no longer,
\* passed, skipped or gone.  The error of a send is dropped.
PublishFleetTests ==
  /\ During(Daemon, "publish")
  /\ LET now == suite[Daemon].failing
         newlyFailing == now \ PrevFailing
         recovered == PrevFailing \ now
     IN  /\ fleet' = now
         /\ \E warned, calmed \in BOOLEAN :
              /\ told' = (told \cup (IF warned THEN newlyFailing ELSE {}))
                           \ (IF calmed THEN recovered ELSE {})
              /\ deaf' = (deaf \/ ~warned \/ ~calmed)
  /\ Turn(Daemon, Resting)
  /\ UNCHANGED <<storeVars, forgot, started>>

\* The process is killed; with the daemon goes what it remembers.
KillTester(p) ==
  /\ IF p = Daemon THEN TRUE ELSE suite[p].stage # "idle"
  /\ DieWriting(p)
  /\ Turn(p, Resting)
  /\ IF p = Daemon THEN fleet' = {} /\ forgot' = TRUE
                   ELSE UNCHANGED <<fleet, forgot>>
  /\ UNCHANGED <<told, deaf, started>>

SuiteStep(p) ==
  \/ StartSuite(p) \/ NextModule(p) \/ RunTestStep(p) \/ EndOfModule(p)
  \/ VerifyRepoRecipes(p) \/ NoVerification(p)
  \/ PersistTests(p) \/ OpenTests(p) \/ WriteTests(p)
  \/ KillTester(p)

SuiteNext == PublishFleetTests \/ \E p \in Tester : SuiteStep(p)

(***************************************************************************)
(* Properties.                                                             *)
(***************************************************************************)
\* While alerts arrive, the operator knows every test that failed in the last
\* cycle, across restarts too; and while the daemon keeps its memory, knows
\* of no other (runFleetTests alerts on changes only).
OperatorKnows ==
  ~deaf => /\ fleet \subseteq told
           /\ ~forgot => told = fleet

=============================================================================
