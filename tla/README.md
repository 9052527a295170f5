# Formal models of gogitops

gogitops is an agent that runs on every node of a small fleet. Each node holds a
git checkout of one config repository; the agent keeps the checkout converged,
applies the recipes in it to the machine, replaces its own binary from the same
remote, and reports its health to a dashboard. This directory holds TLA+ models of
the parts whose correctness depends on order: what happens when two actors work in
one checkout, when the host dies between two git commands, when a file changes
between the two reads of it, when a recipe is run again after a run that was cut.

Contents: [the system](#1-the-system), [the modules](#2-the-modules),
[the runs](#3-the-runs), [fairness](#4-fairness), [the proofs](#5-the-proofs),
[where code and documents disagree](#6-where-code-and-documents-disagree),
[what is not modelled](#7-what-is-not-modelled), [the plan](#8-the-plan).

## 1. The system

### Components

| Component | Code | State it keeps | Operations | What makes it correct |
|---|---|---|---|---|
| Git convergence | `internal/agent/agent.go` `gitPull`, `pushMailboxRetry`; `internal/config/identity.go` `SubmitSelfFiles` | the checkout (branches, index, work tree, stash, a rebase in progress), `last_pull_ok`, the mailbox branch `node/<hostname>` at origin | pull on a tick or on request, self-heal, submit the node's own files, retry the push | no commit on the branch lost, none stranded, convergence always resumes, the health flag tells the truth |
| Recipe auto-apply | `cmd/gogitops/apply.go` | `apply-state.json`: per recipe hash, status; last sweep; config hash | a cycle every interval: skip or run each recipe in a child, save, alert, DM | nothing skipped that is not in place; the machine converges; one alert per failure |
| Self-update | `internal/agent/update.go`, `cmdUpdate` in `main.go` | the binaries on disk, the running one | resolve, download, swap, exec; the CLI's install; restart on request | reaches the version the policy names, and stops there |
| Version policy | `internal/agent/versionpins.go` | none (reads `versions.yaml` and the recipes) | resolve a target | precedence; lowest group pin |
| Daemon and API | `runDaemon` in `main.go`, the handlers in `agent.go` | the agent's mutex-guarded fields | start-up order, HTTP endpoints | start-up submits before the first pull |
| Recipe runner | `recipeRun`, `recipeRunAll`, `parseRecipe` in `main.go`; `translate.go`, `netmount.go`, `schema.go` | a run's attributes and counters, in memory | refusals, filters, guards, retries, expectations, the ways out | the tallies and the exit code say what happened; gathered attributes survive every way out |
| Device attributes | `readDeviceAttrs` … `persistRecipeAttrs` in `main.go` | `~/.cache/gogitops/attrs.json` | read, merge, write in place, by several processes | a merge never drops another writer's keys |
| Fleet tests | `cmdTest`, `runFleetTests`, `verifyRepoRecipes` in `main.go`; `internal/agentmodules` | the results of the last suite (memory), the summary in the attribute store | select, run, merge, persist, alert | the operator knows what fails |
| Function library | `internal/functionlib` | the machine: rc files, units, packages, binaries | edits of files, units and packages meant to be idempotent | a run leaves its goal met whatever the run before was cut at; the user's lines stay |
| Node identity | `internal/config/identity.go`, `config.go`, `tags.go` | `nodes/<host>.yaml`, `mesh.d/<host>.yaml` | load, match by machine-id or MAC, register, refresh, sync, submit | one machine, one entry; one mailbox, one writer |
| Check cycle | `cycle`, `alertOnChange` in `agent.go`; `internal/health/checks.go`, `internal/mesh`, `internal/alert` | the previous cycle's states (memory) | check, ping, compare, alert | what the operator was told agrees with what is so |
| Dashboard | `internal/dashboard` | the table of registered nodes (on disk), the cache of polls | register behind a guard, poll, publish, render | a current daemon keeps its row; the page ends up true |
| Log, prompt cache | `internal/agentlog`, `internal/starship` | one file each | append; rewrite | — |
| CLI, recipe-lint, syncthing module | `internal/cli`, `cmd/recipe-lint`, `modules/syncthing` | — | print, check, call an API | — |
| CI, packaging | `.github/workflows`, `install`, `packaging` | the binaries branch, pull requests | publish a release, open a mailbox's pull request | — |

### How they interact

*Calls.* `runDaemon` loads the node (`LoadNode`, which may register it), calls
`SyncSelfToMesh` (which may call `SubmitSelfFiles`), then starts goroutines that
share the checkout and nothing else: `Agent.Run` (git tick, then `maybeSelfUpdate`;
check cycle), `runRecipeApplyLoop`, `runFleetTests`, the registration with the
dashboard, and the HTTP server, whose `POST /v1/git/pull` calls `gitPull` again.

*Shared state.* The checkout is shared without a lock by the git tick, any number
of requested pulls, the apply loop (which reads recipes and the node's config from
it), recipe children (whose `tags:` step commits to it) and an operator. The only
mutex, the agent's, guards the health fields. `attrs.json` is shared by processes,
also without a lock. A recipe and the check cycle meet in the units the one
restarts and the other watches.

*Processes.* The apply loop runs each recipe as a child of the same binary. A
restart in place (`syscall.Exec`, by the self-updater or `POST /v1/restart`) ends
every goroutine of the agent between two instructions, and no child.

*Messages.* Pushes to the mailbox, webhooks and DMs, each tried once;
registrations and polls between daemons and dashboard.

### What is hard

* two gits in one checkout, and `index.lock` as the only arbiter;
* a host that dies in the middle of a rebase;
* a network or credentials that fail for some of the commands of one pull;
* files read twice in one decision, with a pull in between, or rewritten whole from
  a read that others have written after;
* a restart in the middle of the agent's own work, and the child it leaves behind;
* state that is saved before or after the effect it speaks of;
* an agent that replaces the program it is running;
* a store that is read, merged and rewritten by processes that overlap;
* a run cut between two writes, after which "already done" is tested on what it left;
* a machine that recognises itself in a checkout that is out of date;
* a check followed by a probe followed by a write, while others register.

The full list, by line, is under `hazards` in `PROJECT.json`.

## 2. The modules

Five components are specifications of their own; the rest are parts of three
compositions.

| Module | Models | Role |
|---|---|---|
| `GitConvergence` | `gitPull`, `GitPullHandler`, `pushMailboxRetry`, `SubmitSelfFiles`, start-up, restarts, origin | specification |
| `ApplyLoop` | `runRecipeApplyLoop`, `recipeApplyCycle`, `loadApplyState`, `saveApplyState` | specification |
| `VersionPins` | `ResolveVersion`, `LoadRecipeVersionOverride`, `ResolveUpdateTarget`, `isNewer` | operators |
| `SelfUpdate` | `maybeSelfUpdate`, `swapAndRestart`, `execRestart`, `update -install`, the service manager | specification, extends `VersionPins` |
| `AttrStore` | `readDeviceAttrs`, `writeDeviceAttrs`, the merges | part; its `StoreSpec` is the abstract store |
| `Checkout` | discovery and selection of recipes and test modules, script lookup, `labelsMatch` | operators |
| `RecipeRun` | `recipeRun`, `recipeRunAll` | part |
| `TestSuite` | `cmdTest`, `runFleetTests`, `runTestModule`, `verifyRepoRecipes` | part |
| `LocalRuns` | `RecipeRun` and `TestSuite` over one `AttrStore` | composition |
| `MeshIdentity` | `LoadNode`, `FindPeerByIdentity`, `autoRegister`, `SyncSelfToMesh`, the mailbox as identity uses it | specification |
| `Endpoints` | a daemon's life as its callers meet it: listener, hardware probe, stop | part |
| `Dashboard` | `handleRegister`, the poll, the cache; extends `Endpoints` | composition |
| `Parts` | what works on a machine | shared variable |
| `AgentCycle` | `cycle`, `alertOnChange`, `CheckService`, `PingAll`; extends `Endpoints`, `Parts` | part |
| `HostFiles` | files, a recipe's walk through its steps, reads and writes apart, users who edit in between | part |
| `RcFiles` | `rc-line`, `rc-export`, `schedule:`, `tags:` | part, extends `HostFiles` |
| `Units` | `unit-restart`, `unit-repoint`, `user-unit`, `login-trigger`, `gnome-keyring` | part, extends `RcFiles`, `Parts` |
| `Installs` | `apt-install`, `flatpak`, `package:`, `git-extract` | part, extends `RcFiles` |
| `Mounts` | `mount:` of shares and devices | part, extends `RcFiles` |
| `AtomicWrites` | `atomicWrite`: the sibling file, its writes and the rename, killed anywhere | specification |
| `AtomicFile` | what an installed binary promises those who run it | abstract specification |
| `HostRuns` | a recipe run over and over, with the check cycle beside it | composition of `AgentCycle` and the four parts on `HostFiles` |
| `MC…` | the instances | one to each specification |
| `GitConvergenceProofs`, `ApplyLoopProofs`, `SelfUpdateProofs`, `LocalRunsProofs`, `HostRunsProofs`, `HostGoalsProofs` (extends `HostRunsProofs`), `MeshIdentityProofs`, `DashboardProofs` | the theorems | proofs |

### GitConvergence

A ref is the *set of commits it reaches*; fast-forward, ahead and behind are subset
relations. A commit keeps its identity through a rebase, which is what lets
"nothing is lost" be stated at all. `Conflicts` says which changes touch the same
lines. Each git command of `gitPull` is one action (`Fetch`, `Measure`,
`FastForward`, `RebaseClean` / `RebaseStops` / `RebaseRefused`, `Abort`, `StashPop`,
`Backup`, `Reset`), followed by `Record` (the mutex-guarded health fields) and
`MailboxPush`. `pull[p].at` is where goroutine `p` stands, so two pulls interleave
command by command. `SubmitSelfFiles` is `WriteSelf` (the file is written before the
call, and only by a start or a step that could read the node's files: `NodeReadable`,
`EntryFound`), `CommitSelf` (add, diff, commit) and `PushSelf`. `git add` of the node's
own files also resolves them, so in the middle of a rebase that stopped the commit goes
onto the detached HEAD; the history `adrift` keeps those. A daemon comes up (`DaemonUp`)
only when `LoadNode` can parse the node's file.

While another actor is inside its own sequence of commands, each command that takes
the index lock may fail (`LockOutcomes`). The model keeps the parts of git that the
code leans on: both pull commands fetch first, refuse an unmerged index, and cannot
find an upstream on a detached HEAD; a stopped rebase leaves HEAD detached, the index
unmerged and the edits in the autostash; `reset --hard` clears the index and the
tree and does not end a rebase; `stash pop` drops an entry only when it applies
cleanly; `branch` refuses a name that exists, and the backup's name has the second
in it (`stamped`, cleared by `Second`).

*Assumed:* a restart takes longer than the rest of the second in which it happens,
so a new process does not meet a backup name of the old one's current second.
*Left out:* what an operator has staged (`SubmitSelfFiles` commits the whole index),
operators' own commits and branches, pruning and garbage collection, squash merges
of a mailbox (the workflow asks for another merge style; `MeshIdentity`, which only
looks at whole files, has both outcomes).

### ApplyLoop

One cycle is the actions of `Cycle` in order: `LoadState` (the state file, the
config's hash, whether a full sweep is due), `LoadLabels` (the config again, for its
labels), then per recipe `HashRecipe`, `ParseRecipe` (the file again), the child
(`ChildSucceeds`, `ChildFails`: it reads the file and the labels a third time), then
`SaveState`, `SendAlert`, `SendDM`. Between any two of them recipes, the config, the
host or the process may change.

A file is its version. `applied[r]` is the version whose state the machine is in. A
run that fails or is cut short leaves either what was there or a state that is no
version's (`Partly`), except over the same version, since recipes are idempotent.
`orphans` are children of a replaced process: an orphan completes its work later, or
dies at its next write to the closed pipe. `SaveState` may fail unnoticed (`"nosave"`).
Two histories are kept: `alerted`, the failures alerted and on record, and `told`, the
recipes alerted and not found in another state since.

*Assumed:* recipes are idempotent and independent of one another (`HostRuns` looks
at the first for the library's own functions); no version comes back; exit status 0
means the steps were done. *Left out:* recipes that appear and disappear, files that
cannot be read, two files with one key.

### VersionPins and SelfUpdate

Versions are triples. `VersionPins` translates the resolution as pure operators,
including both comparisons the code uses (`isNewer` for the group pins and the
published VERSION, `rankLess` for the recipes' overrides), which differ.
`SelfUpdate` makes each git command and each file replacement of the updater an
action, and has two binaries, the service's and `~/.local/bin`'s. `running` is what
runs, `from` the path it came from; a crash starts the service's again. `CliInstall`
follows the CLI, whose target is always VERSION: the resolved pin is assigned to a
shadowing variable.

*Left out:* the refusal of binaries under 500 KB, macOS signing, a home directory
that cannot be written, a label change without a restart.

### AttrStore, Checkout, RecipeRun, TestSuite, LocalRuns

`AttrStore` is the file and, per process, how far its write is: `PersistRead` reads
and merges, `OpenStore` truncates, `EncodeStore` writes. A write that starts over
another's leaves the later map or, when that is shorter, a tail that does not parse
(`garbled`). `StoreSpec` is the same store without its users: whoever persists may
write any map that drops nothing it read (`Persists`).

`RecipeRun` is one process: `run[p]` holds its stage, the recipes to do, the step and
attempt, the attributes it read and set, and `run-all`'s counters. An action is a
stage of `recipeRun`: `Launch`, `SkipParametrized`, `Refuse`, `Hydrate`,
`MissingScript`, `SkipStep`, `DryStep`, `Attempt`, `NoAttempt`, `EndOfRecipe`, then
the persist (`PersistRecipe`, `OpenRecipe`, `WriteRecipe`) or `LeaveRecipe`. `Exited`
is `os.Exit`, which skips the deferred persist; `AbortOnExit` and `AbortMissing` are
the two ways an aborting step leaves, which differ in that. What a command does is
chosen when it runs: an exit code and whether its output holds the text expected.
The verdict follows the code: `expect:` decides on retries only. A step may gather
attributes by its assertion, by `set_attr` and by `attr_prefix`, all at once
(`Gathers`).

`TestSuite` runs modules, merges what each sets, persists with the summary, and, in
the daemon, publishes the failing set and alerts on the changes. Each module reads
the store again, so modules of one suite see what recipes stored meanwhile. A test
module's `func:` is ignored, as `runTestModule` ignores it.

`LocalRuns` runs both over one store; a process is a runner or a tester.

*Left out:* dates and durations in the store; of a recipe's `vars`, all but whether
one is required; the text of commands and of their output.

### MeshIdentity

Each machine has its own checkout and its own idea of main (`base`); `mailbox[h]` is
the branch `node/<h>` as a set of files on top of the pusher's base. `Start` is
`runDaemon` up to the first pull: `LoadNode` (the node file of the name given, else
the peer that `FindPeerByIdentity` finds, by machine-id and then by built-in MAC,
else `Register`), then `SyncSelfToMesh` under the name started with, each followed by
`SubmitSelfFiles`. `Pull` brings main and rebases the machine's own changes, or, on a
conflict with a squash of its own earlier push, resets to main. `MergeMailbox`,
`Declare`, `Plug`, `Rename` and `Reclone` are the human, the dock and the operator.

### Endpoints, Dashboard, Parts, AgentCycle

`Endpoints` is a daemon seen from outside: down, booting (announces itself, does not
answer), probing (answers without hardware), ready. `Dashboard` adds
`handleRegister` as three steps (read the table, probe the *requesting* address when the
host is registered elsewhere, write), each of which may fail and any number of which
overlap, and the poll: list the nodes, ask each on its own, publish the rows when all
have answered.
`AgentCycle` is one agent: `Cycle` checks every service, pings every peer, compares
with what it remembers and alerts.

### HostFiles, RcFiles, Units, Installs, Mounts, HostRuns

One machine and one recipe that the apply loop runs over and over. A step is a sequence
of actions at the granularity a kill can cut. What a function writes it has made from
what it read (`held`), and a user may edit the file in between, as at any other moment;
`os.WriteFile` and `cp` then empty the file and fill it later (`Truncate`, `Fill`),
while a rename, which is also what `crontab -` does, installs the new one in one step
(`AtomicWrite`); `daemon-reload`, `enable` and `start` are steps where the code makes
separate calls that matter. `loaded[u]` is what systemd knows of a unit's file,
`image[u]` what the unit executes. `settled` says that the last run went through with
nothing in its way. `HostRuns` puts the check cycle next to it: the units that a recipe
restarts are the parts the cycle checks.

A file is a sequence of lines, a line a lead, a key and a value, enough to tell whose
a line is and whether a marker, a payload or an export matches it.

`Mounts` has the share's root script with its refusals, its copies and its systemctl
calls, which systemd may refuse unnoticed (`SystemdArms`), the mount without systemd,
shares with credentials from nenv and without, and the local drive, which may be broken
or absent and whose mount point `mkdir` makes without root (`mkdir` in the step).

`AtomicWrites` looks into the one step that `HostFiles` takes a rename for: a run opens
`<path>.gogitops-new`, truncates it, writes chunk by chunk at its own offset, and
renames whatever has that name by then. Names lead to inodes, so a file that is still
open survives its renaming. `Installed` maps what `path` leads to onto `AtomicFile`.

*Left out:* the wording of the shell commands, the content of credentials, the macOS
branches; the installation of cifs-utils and a share's mount point that root cannot
make; that an appended line begins on the last line of a file without a final newline
(`stdlib_rc.go` 72); that a unit's value can be replaced in part: `Patched` compares
whole values, one path each. *Assumed:* an append (`O_APPEND`) is one step.

## 3. The runs

| Run | Question | Instance | Result |
|---|---|---|---|
| `git_ticker` | `TypeOK`, `PullUnwedges`, `BranchNotLost`, `OkMeansAtUpstream`, `ConvergenceResumes`, `NotStranded` | start-up submission, then one puller; a conflicting upstream commit, own commit and edit; network, credentials, restarts, host crashes | hold |
| `git_concurrent` | `UpstreamKept` | tick, requested pull and recipe submission at once; crashes | holds |
| `git_loss` | `NothingLost` | tick and recipe submission at once | violated |
| `apply_record` | `TypeOK`, `SkipIsSound`, `OneAlertPerFailure` | 2 recipes × 2 versions, 2 configs; crashes, aborted cycles | hold |
| `apply_heals` | `NoRepeatedAlert`, `Converges` | 1 recipe × 3 versions, 3 configs; restarts with orphans, crashes, aborted cycles, failing saves, drift | hold |
| `self_update` | `TypeOK`, `RestartsSettle`, `ReachesTarget` | 3 releases, 6 policies, every fault | hold |
| `upgrades_only` | `UpgradesOnly` | 2 releases, no pins | violated |
| `local_runs` | `TypeOK`, `NothingForgotten`, `SweepAccounts`, `OperatorKnows`, `AttrsReachStore`, `StoreSpec` | 2 runners, the daemon and a tester; 6 recipes, 3 test modules, 2 attributes | hold |
| `mesh_identity` | `TypeOK`, `SingleWriter`, `OneEntryPerMachine`, `RunsAsListed`, `DeclaredIsPortableByName` | 2 machines, 3 names, a dongle and a dock, a legacy entry | hold |
| `dashboard` | `TypeOK`, `NewerWins`, `ShownIsTrue` | a current and an old daemon of one host, a static peer | hold |
| `host_runs` | `TypeOK`, `GoalsMet`, `RestartTakesHold`, `WordIsCurrent`, `RepeatChangesNothing`, `UserLinesKept`, `RunsRecover`, `OutageClosed` | 9 recipes, 2 disks, 7 units, a peer | hold |
| `atomic_serial` | `BinaryIsAtomic`, `RunsInstall` | 2 runs, one after the other, of 3 programs; kills | hold |

What the passing runs show:

* `BranchNotLost` — every commit the node makes on its branch is in main, a backup
  branch, the mailbox or origin at every moment, across conflicts, outages, restarts and
  host crashes, as long as pulls and submissions do not overlap (`git_loss` shows that
  they must not). Commits on the detached HEAD of a rebase that was cut are excepted:
  `rebase --abort` drops them.
* `NotStranded` — a failed submission reaches origin later, through the retry.
* `PullUnwedges` — whatever state a pull found the checkout in, it does not return
  from it with a rebase in progress or unmerged files, except for markers of edits
  that are still in the stash.
* `OkMeansAtUpstream` — a recorded success means main contains the tracking ref.
* `ConvergenceResumes` — once the node stays up and online, main gets and keeps all
  of origin's main.
* `UpstreamKept` — with any overlap, main never loses an upstream commit.
* `SkipIsSound` — what a cycle may skip is in place, though hash, parse, labels and
  run come from four reads of files that move.
* `NoRepeatedAlert` — a failure that was alerted and is on record is not alerted again,
  across crashes, restarts, aborted cycles and saves that fail.
* `OneAlertPerFailure` — where saves succeed: one alert per failure, until a cycle finds
  the recipe in another state.
* `Converges` — the machine ends, and stays, in the recipes' state, drift and late
  orphans included; the daily sweep is what makes it true.
* `RestartsSettle` — no policy, downgrade or read-only directory makes the agent
  swap itself in a circle.
* `ReachesTarget` — the agent reaches the policy's version, even through a fallback
  path that each crash undoes.
* `NothingForgotten`, `StoreSpec` — every process that persists merges into the live
  store; an attribute that a finished write stored stays readable as long as no two
  writes overlap and none is cut short. The history `disturbed` marks where the code
  promises nothing: there is no lock.
* `SweepAccounts` — `run-all` counts each recipe once as ok, failed, skipped or
  manual, on every way out, and exits 1 exactly when one failed.
* `AttrsReachStore` — what a recipe set is in the store when the run leaves it, by
  its end or by an abort, despite `os.Exit` skipping deferred calls.
* `OperatorKnows` — across restarts and runs that end in any order, every test that
  fails has been alerted, and no other while the daemon lives.
* `SingleWriter`, `OneEntryPerMachine`, `RunsAsListed` — with machine-ids and names of
  their own, machines that swap docks, get renamed and match themselves in checkouts
  of any age never write to one mailbox, never end with two entries in main (unless a
  clone was thrown away with the enrollment still unmerged), and run under the name
  they are listed by.
* `DeclaredIsPortableByName` — a MAC the operator declared portable is not in the
  identity set after the next start.
* `NewerWins` — the registration guard and the periodic registration settle the row
  of a host for the daemon that reports hardware, though the guard is a check, a probe
  and a write that others overlap, lets pass what does not answer, and may itself fail.
* `ShownIsTrue` — the page ends up showing a node that settles as it is.
* `GoalsMet` — after a run that nothing disturbed, every step of the recipe is met,
  however the runs before were cut: no later step undoes an earlier one, and nothing
  a killed run left is taken for done. Of a network share it asks what the code sees to:
  something is mounted, or its units are as asked for.
* `RepeatChangesNothing` — the second of two undisturbed runs leaves every file as
  the first left it.
* `RestartTakesHold` — after `unit-repoint` and `unit-restart` the unit executes what
  its file says, also when an earlier run died between the rename and the reload.
* `UserLinesKept` — a user's line that a step has read is in what it writes, and no
  step, kill or edit of others takes it out of its file, except a kill inside
  `os.WriteFile` on that very file. Users edit at any moment; a line that comes between
  a step's read and its write is lost in the code, and outside the property.
* `BinaryIsAtomic`, `RunsInstall` — those who execute an installed binary find it
  missing or whole (the refinement of `AtomicFile`), and a run that returns has
  installed its own, whatever a killed one left in the sibling.
* `RunsRecover` — kills, edits and outages leave nothing behind that keeps a recipe
  from ever going through again, other than the blockers `Blocked` names, among them a
  drive that does not mount, a mount point only root could make, a oneshot that fails.
* `WordIsCurrent`, `OutageClosed` — a service or peer that some cycle found up and
  that is down has been reported down, and nothing is said of what was never up; a
  service whose outage is over does not stay reported. (A peer's does: section 6.)

### Bounds

`GitConvergence` has no counters: `Upstream`, `Self` and `Edits` bound the commits and
edits. A conflict needs one commit on each side, a clean rebase one that clashes with
nothing: these are the instances. That no second own commit adds anything to
`BranchNotLost` is the theorem's to say, which holds for any number of them. Two pullers
and one submitter are the least that overlap in every pair. `ApplyLoop` bounds versions
and configs (`MaxVersion`, `MaxConfig`): version 1 runs everywhere, 2 needs labels, 3 is
unmarked; the configs lack, give and lack the labels, so a recipe becomes applicable and
stops being so. Two recipes let one be processed while another is pending. Time is the
recency of the last sweep. In `SelfUpdate` the three releases have a patch number that
falls where the minor rises, and the policies cover an unreadable file, a node pin, a
pin of a version that was never released, group pins that differ, a recipe override and
no pin.

`local_runs` starts two processes at most (`MaxRuns`, `MaxSuites`, `MaxStarts`): a lost
update, a garbled file and a suite that reads between a recipe's writes need two. The
two runners are interchangeable (`SYMMETRY`; the run has no liveness property, and
`Daemon` is not among them). The recipes between them take every way out of a run.
`mesh_identity` bounds starts (`MaxStarts`) and what humans do (`MaxChanges`); a machine
that enrolls, is renamed and starts again on a stale checkout uses three starts and two
changes. `dashboard` and `host_runs` bound faults (`MaxFaults`: a stop, a failed step of
the guard, or a registration that starts during another, of which the instance has one)
and disturbances (`MaxUpsets`): a liveness property then sees runs in which disturbances
end, which is what its premise says. Two disturbances let a run be cut in a state that
an earlier cut left. In `host_runs` a recipe is followed only where it can tell: the
`CONSTRAINT Relevant` drops states that differ in something no step of the recipe reads
(the network under a recipe that edits rc files, a peer under any recipe but one,
systemd and the drive under recipes that mount nothing). `atomic_serial` has programs of
one, two and three chunks, so that the one before in the sibling is shorter and longer
than the next, and three kills (`MaxKills`).

`CHECK_DEADLOCK FALSE` stands where a bound or the system itself lets it stop: with
all starts used up, a node that is at rest. State counts are about 147 000
(`git_ticker`), 1.36 million (`git_concurrent`), 5.1 million (`apply_record`), 956 000
(`apply_heals`), 77 000 (`self_update`), 427 000 (`local_runs`), 874 000
(`mesh_identity`), 262 000 (`dashboard`), 237 000 (`host_runs`) and 7 600
(`atomic_serial`).

## 4. Fairness

* `GitConvergence`: weak fairness of each goroutine's next command, of each
  submission, of start-up and of the ticker (`Second`). Git commands end; `Run`'s
  `select` serves the ticker, and the check cycle between ticks ends. Nothing is
  assumed of the network, the credentials, faults or people.
  `ConvergenceResumes` and `NotStranded` have a premise instead (`Steady`).
* `ApplyLoop`: weak fairness of the cycle, whose ticker starts it and whose
  children end; of `Day`, time; of each orphan's end. `Converges` is conditional on
  `Settled`: eventually no disturbance, and runs succeed.
* `SelfUpdate`: weak fairness of the updater's steps, which every git tick starts.
  `ReachesTarget` is conditional on a reachable origin and no further change.
* `Dashboard`: weak fairness of the poll's steps (a loop with a ticker), of each
  request's steps in the handler, and of a daemon's own start-up goroutines; strong
  fairness of `Register`, the ten-minute loop of a daemon, because a request of its
  that is still on its way keeps the next one waiting for a moment only. Nothing is
  assumed of starts and stops: the properties are about a daemon that settles.
* `HostRuns`: weak fairness of the run's steps (the apply loop comes back every
  interval, and commands end or are killed after ten minutes) and of the check cycle
  (a ticker). `RunsRecover` and `OutageClosed` have premises about what must have
  ended.

`LocalRuns` and `MeshIdentity` state safety only: a run may always be the last.

## 5. The proofs

TLAPS proves these for every value of the constants.

*Assumptions on the constants* are the `ASSUME`s of the modules, which TLC evaluates
on each instance: commits, own changes and edits are disjoint; the actors are
distinct; bounds are positive; `Faults` names known faults; "latest" and the empty
entry are no versions; every policy resolves to a version or to "latest" (a pin that
is no version matches no tag of the binaries branch). For the local runs,
`RecipesParsed` and `ModulesParsed` say what the parser makes of a file (a list of
steps, each naming attributes), and `FilesSelected` that filtering a
listing leaves a list of the listing's files: `SelectSeq` is defined by recursion, so
its type would need an induction. For the host, `NamesDiffer` says that a service is
not called like a peer's address. For identity, `NamesAreNumbered` says that names
are finitely many and ordered (the order of the files), `FleetKnown` that a machine's
names are among them, that sysfs tells a dongle from the rest, and that `mesh.yaml`
holds entries. `RecipesAreTyped` says what the parameters of a recipe's functions are
(sequences of units, of files, of lines), and that files and edits are made of lines;
`StaticAreAddresses` that a static node has
an address.

Some theorems are about recipes or fleets of a kind. Such a hypothesis stands in the
theorem, is a definition of the component's module, and the MC module assumes it, so
TLC confirms that the checked instance is of that kind: `MachinesDiffer`,
`LegacyIsKnown`, `LinesAreTheUsers`, `RestartsComeLast`, `StepsAgree`, `TagsAreDecided`.

`GitConvergenceProofs`
* `TypeCorrect` — `Spec => []TypeOK`.
* `UpstreamNeverLost` — `Spec => UpstreamKept`, with no restriction. The invariant:
  the tracking ref has every upstream commit of main. The steps that move main
  either add to it or set it to the tracking ref.
* `AloneInvariant`, and from it `BranchNotLostAlone`, `OkMeansAtUpstreamAlone`,
  `PullUnwedgesAlone` — for a node with no requested pulls and no submitting recipes
  (`TickerAlone`): start-up's submission is over before the first pull, so no pull
  ever meets a locked index. Restarts and host crashes are included. `BranchNotLostAlone`
  needs the strengthening `LossInv`: commits made on the branch (`adrift` are the others)
  are in main, a backup or origin; the backup taken in this second still covers main;
  and past `rebase --abort` no rebase is in progress. `OutcomeInv` and `UnwedgedInv` play
  the same role for the other two.

`ApplyLoopProofs`
* `TypeCorrect` — `Spec => []TypeOK`.
* `AlertedOnce` — `Spec => NoRepeatedAlert`, under every fault. `AlertInv`: an
  alerted recipe is failed on disk; until `SaveState` a new failure is not; the copy
  and the disk agree on every recipe the cycle has not come past. Saves that fail are
  among the faults: the failure is then not on record.
* `OneAlertWhenSaved` — `Spec => OneAlertPerFailure`, where saves do not fail
  (`"nosave" \notin Faults`). `ToldInv`: a recipe that was told is failed on disk and, in
  a cycle at work, in its copy until that finds it otherwise.
* `SkipSound` — `Spec => []SkipIsSound` when agents are not restarted in place and
  the machine does not drift (`Undisturbed`; with either, the sweep is what heals).
  `SkipIsSound` speaks of the disk between cycles and is far from inductive.
  `SkipInv` is: hashes and configs on record are never of a later version than the
  file's (`Older`), so a record that no longer fits never fits again; the copy is
  the disk's beyond what was processed (`Copied`); the labels in hand belong to the
  config hashed, unless it changed (`Labels`); and the disk, and the processed part
  of the copy, are truthful under the config they name (`DiskTruth`, `MemTruth`).

`SelfUpdateProofs`
* `TypeCorrect` — `Spec => []TypeOK`.
* `RestartsAreFew` — `Spec => []RestartsSettle`, for any releases, policies, labels
  and faults. A counter that is at most 2 is not inductive: `SettleInv` adds what the
  counter stands for. From the first restart since a change on, what the tick has
  fetched, resolved and downloaded is current (`TickCurrent`, `Installed`); after the
  second the agent runs the wanted version and no arm gets past its comparison
  (`Arrived`), because no version is newer than itself.
* `LatestUpgrades` — `Spec => UpgradesOnly` on a node where nobody runs
  `update -install`, for releases on which `isNewer` agrees with the order of the
  versions. `upgrades_only` refutes the property without the second condition; the
  theorem says that the comparison is all that is missing.

`LocalRunsProofs` starts with the store, goes on with lemmas about one run, an action
each, and joins them. `RunOK` is the invariant of a process: the shape of its record
(`RunState`), that it holds a recipe exactly in the stages that read one (`Placed`),
that what it set is among its attributes (`Holding`), and that its counters and what is
left to do add up to what it was given (`Counted`).
* `StoreForgetsNothing` — `StoreSpec => [](StoreTypeOK /\ NothingForgotten)`. The
  invariant (`Carried`) says where a stored attribute is while a write is under way:
  in the file, or in the map of the one process that is writing.
* `LocalRunsTypes` — `Spec => []TypeOK`.
* `RunsImplementStore` — `Spec => StoreSpec`: the composition implements the abstract
  store, each persist of a recipe or of a suite being one of `Persists`. That the
  maps written are maps needs the invariants of runs and suites.
* `RunsForgetNothing` — `Spec => []NothingForgotten`, from the two before.
* `SweepsAccount` — `Spec => []SweepAccounts`, from `Counted`.
* `OperatorIsTold` — `Spec => []OperatorKnows`.
* `AttrsArrive` — `Spec => AttrsReachStore`. Beyond the invariants it needs
  `Writing`: while nothing is disturbed at most one process is between its read and
  its write, and what that process is about to write contains what its run set.

`HostRunsProofs`
* `AlertsAreCurrent` — `Spec => []WordIsCurrent`, for any services, peers and recipes: of
  services both ways, of peers their outages, since of their return nothing is ever said.
  `CycleInv` adds that what a daemon remembers, it found in a cycle of its own.
* `MachineIsWellFormed` — `Spec => []TypeOK`, for any recipes. `MachineInv` is what is
  inductive: a write in progress is to a file the step may touch, and only at the
  stages that write (`FilesInv`); a login trigger that is armed has its file whole
  (`TriggerInv`); what works has an image (`UnitsInv`). It is also where the order of a
  function's steps shows: each stage is one that only this function reaches.
* `UsersKeepTheirLines` — `Spec => UserLinesKept`, under `LinesAreTheUsers`: the user's
  lines are not what the recipes rewrite (`Spares`, function by function), and a share's
  unit in which one stands does not begin with a line of gogitops. A unit file that does
  begin with one is the code's own, and is overwritten with whatever was appended to it.
  What is kept is a line that stands in the file and, once a step has read the file, in
  what it is about to write (`Holds`). The argument: what a step makes of what it read
  (`Makes`) holds every line that the step spares (`NewContentOK`), and what is held is
  what is put down later. Sequences that are filtered, mapped and appended keep their
  other lines (`ThoseKeeps`, `MappedIsFile`, `AppendKeeps`); that they stay sequences of
  lines is `ListsInv`. For the share, `SharesInv` carries what the look at the units
  found from there to the copies.
* `RestartsTakeHold` — `Spec => []RestartTakesHold`, under `RestartsComeLast`: a recipe
  that repoints units before it restarts what is active does nothing else to units,
  which is how the repository's own recipes with both (`agent-binary-bootstrap`,
  `binary-cleanup`) use them. In the middle of a run the property is
  false. `RestartInv` says what holds instead, in a run nothing disturbed: the units of
  the repoints before this step are loaded as their files say, unless this step
  repoints them again, and the restarts before it took hold. That systemd's start of
  the candidate succeeds needs `UnitsStand`: nothing is masked, and what is loaded or
  works has a file that is not empty.

`HostGoalsProofs`
* `GoalsAreMet` — `Spec => []GoalsMet`, under `StepsAgree`: a recipe asks for packages
  that can be had, no step for something that it undoes itself, and none for what a
  later one undoes. `SharesFile` spells the last out for each pair of functions that
  may write to one file (two exports of one variable agree, two schedules do not find
  each other's line, no two `tags:` steps contradict each other), `Leaves` for the units
  that `gnome-keyring` disables; and an export rewrites no line by which an earlier
  `rc-line` would be found, whoever put it there (`MayStand`). Without such a relation
  the property is false, as a run of two contrary steps shows.

  The invariant speaks of what a file holds or will hold once the write in place is
  over (`View`), because between the truncation and the fill nothing is met.
  `GoalsInv`: in a run nothing disturbed, the steps before this one are done (`Done`:
  each file as the step leaves it, `Good`, and the rest of the machine, `Stands`), and
  this one is as far as its stage says (`SoFar`). `Done` is stronger than the goal where
  a later step could hide the difference: a schedule's line is the only one that is
  found by its marker or payload. Each function is walked through in a lemma
  (`LineGoes` … `MountGoes`): it goes on, fails, or ends with its step done, and that
  includes the branches that write nothing because something is found. Each pair is
  `GoodKept`, `ViewKept` and `StandsStill`. They need to know what lines files are made
  of (`LinesInv`), through filtered, mapped and appended sequences (`ThoseAre`,
  `JobsAre`, `WithTagsIs`), and that the manager knows of no unit without a file
  (`LoadedInv`), which is why a repoint that finds no unit need not reload.
* `RepeatsChangeNothing` — `Spec => RepeatChangesNothing`, under `StepsAgree` and
  `TagsAreDecided`: no `tags:` step adds a tag that it also removes. (One that does
  moves the tag behind those a later step of the recipe adds, and the next run moves it
  back before them.)

  What is inductive is `RepeatInv`, about a run that begins where another ended
  undisturbed (`Repeats`). Of each step it says what the step needs in order to write
  nothing (`Lasts`, a part of `Done` that no step of this run touches), and
  `RewritesSame` goes through the functions: each either finds its work done and writes
  nothing, or puts down what is there. So every file is all the time as the run found
  it, the truncation before a fill apart. A share that is mounted is not looked at any
  further, which is why its units, whatever they hold, are not written again.

  The exception is the crontab: a schedule takes its line out and puts it last, so in the
  middle of a run of two schedules the file is not as it was. `InOrder`: after a run the
  lines of the schedules stand last, in the recipe's order. `Turned`: in the middle of
  the next one, the crontab is the one it found with the lines of the schedules that have
  run taken to the end, in the order they stood in, and all others in theirs; the
  numbering from one file to the other is carried along. When all have run that is the
  same order again, and an increasing numbering that leaves nothing out is the identity
  (`TurnedAtLast`, `IncreasingIsIdentity`).

`MeshIdentityProofs`
* `IdentityTypes` — `Spec => []TypeOK`. `Types` is its inductive form: it also says what
  the mailboxes hold, because a merge makes it main. That the first peer in file order
  exists is the well-foundedness of the naturals.
* `OneWriterEach` — `Spec => []SingleWriter`, for a fleet in which machines have
  machine-ids and names of their own and no legacy entry of another's name carries a
  machine's id or MACs (`MachinesDiffer`; the checked instance is such a fleet). "Who
  pushed" says nothing of why: the invariant `Ownership` follows an entry on its way
  through main, every checkout and every mailbox. Each has an id, and a machine's id
  stands only under that machine's names. So a machine that looks for itself, in
  however old a checkout and with whichever dock, finds a name of its own.
* `DeclaredIsHeeded` — `Spec => []DeclaredIsPortableByName`, for any fleet. A start
  establishes it (`StartDeclares`), and whatever else happens either ends the calm or
  leaves what the machine sees as its start left it (`CalmKept`).
* `MachineListedOnce`, `ListedRunsAsListed` — `Spec => []OneEntryPerMachine` and
  `Spec => []RunsAsListed`, for such fleets, whose legacy file names a machine at most
  once and by an id or MAC that the machine can recognise (`LegacyIsKnown`). Both follow
  from `Once`: unless a clone was thrown away, whatever of a machine is in main, or in a
  mailbox on its way there, is in the machine's own checkout, and once. It needs
  `Places`: main never loses an entry that some checkout is based on, and a checkout
  has over its base nothing but entries of its own machine. Hence a machine that
  registers under a new name has looked in the one checkout that knows of all its
  names.

`DashboardProofs`
* `DashboardTypes` — `Spec => []TypeOK`, the coherence of the page's rows included.

*Only model-checked:* all liveness properties (`ConvergenceResumes`, `NotStranded`,
`Converges`, `ReachesTarget`, `NewerWins`, `ShownIsTrue`, `RunsRecover`,
`OutageClosed`), which are beyond the prover. Every invariant and every action
property of a passing run is stated by a theorem, except those of `AtomicWrites`
(`BinaryIsAtomic`, `RunsInstall`).

## 6. Where code and documents disagree

Two are runs that expect a violation, with the trace TLC prints; `findings` in
`PROJECT.json` quotes the lines.

1. `git_loss`: a recipe's commit between `branch backup/…` and `reset --hard` is in
   no ref.
2. `upgrades_only`: `isNewer("0.7.9", "0.8.0")` is true.

Others were met while modelling. The models do what the code does; no run is spent on
them.

* Git and restarts: `NothingLost` fails without any overlap, too. A restart in the middle
  of a rebase that stopped lets start-up submit on the detached HEAD, since `git add`
  resolves the node's own files (`identity.go` 383–410); when that push fails, the next
  pull's `rebase --abort` drops the commit. (The node's entry must be found, in the
  legacy `mesh.yaml`: markers in `mesh.d/<host>.yaml` alone make `SyncSelfToMesh` return.)
  With the markers in `nodes/<host>.yaml`, `LoadNode` cannot parse and `runDaemon` exits
  before the pull that would abort the rebase (`main.go` 4417–4420). `DESIGN.md` 722:
  "Convergence always resumes; nothing is lost."
* Pins: by the same `isNewer`, of two group pins 0.7.9 and 0.8.0, listed in that order,
  the higher wins (`versionpins.go` 70–88), where the comment says "the LOWEST version
  wins" (20–22).
* Updates: offline, `gitPull` ends in `reset --hard @{upstream}` on the stale
  tracking ref, which succeeds, so `last_pull_ok` is true (`agent.go` 172, 513). A
  recipe that was failing already and then blocks on sudo is not DMed (`apply.go` 155,
  313). The updater's last resort is `os.Exit(0)` under units with
  `Restart=on-failure` (`update.go` 254–255).
* Runner: `expect:` does not enter the verdict, and a negative `retries:` makes a step
  pass without running it. `when:` and `only_if:` commands run in a dry run. A recipe
  without a name or without steps ends a whole `run-all`, as does `os.Exit` anywhere in
  it (`main.go` 3364–3366). The exits for a missing script or function lose what the
  run gathered. `run-all` reports the last aborting recipe but the first that merely
  failed steps (2752, 3372).
* Labels: `labelsMatch` ignores case (3030), `selectFleetModules` does not (4288).
* Alerts: where the state file cannot be written, which `saveApplyState` ignores
  (`apply.go` 76–86), every cycle alerts the same failure; the comment says "one alert
  per new failure, not one per cycle" (337–338). A lost test alert is not sent again;
  "recovered" is also said of a test that was skipped or is gone; BACK ONLINE is never
  sent, since the map of peers holds only those that were up (`agent.go` 690), so
  UNREACHABLE stays a peer's last word; a critical disk alerts every cycle, where the
  comment says changes only (639).
* Identity: the node file's `portable_macs` are not applied when the daemon runs under
  another name than it was started with (`main.go` 4428–4436). Machines without a
  machine-id, or with names in common, can write to one mailbox.
* Files and units: `os.WriteFile` in place can leave an empty rc file or `node.yaml`;
  the latter makes every later `tags:` step fail. `schedule:`'s `grep -vF` drops any
  line that contains its marker or payload. `rc-export` rewrites a commented-out
  export. `user-unit` with `overwrite=true` leaves the running unit on its old image,
  and without it keeps a torn unit. A kill inside `cp` of a share's unit leaves a file
  that every later run refuses as foreign (`netmount.go` 259–277). A mounted share is
  not compared with the one asked for, and an entry in fstab is never updated. A file
  with both `labels: []` and `tags:` is edited under `labels`.
* Reads and writes apart: `tags:` rewrites `nodes/<host>.yaml` from what it read
  (`tags.go` 30, 130), so a key added in between is gone, where its comment has "every
  comment and every other key" survive; `rc-export` (`stdlib_rc.go` 150–162) and
  `schedule:` (`translate.go` 146) do the same. With `Overlap`, `BinaryIsAtomic` fails:
  two runs share the sibling's fixed name (`stdlib_unit.go` 155), and one goes on writing
  into the file that the other has renamed into place.
* Mounts: the root script looks at none of its systemctl calls (`netmount.go` 281–288)
  and `ls` of a directory it has just made is taken for a mounted share (341–344), so a
  run passes with nothing mounted where systemd refuses the units; a mount path with a
  dash is enough (57–60). `docs/use-cases/mount-a-drive.md` 74 says "verifies with a real
  `ls`". A drive's mount point is made without sudo (`main.go` 3309): under a directory
  of root's, as the default is, the recipe never goes through, though the same page says
  "created if missing".
* `unit-repoint` with a `from=` that is a part of its `to=` lengthens the path with every
  run (`stdlib_unit.go` 244); `StepsAgree` excludes it.
* Packages: the alternates of `verify=` are each looked for, which the parameter's
  description does not say (`stdlib_file.go` 40–47, 342–352); `update` is documented
  and not read.
* Dashboard: the registration guard lets pass a probe, or a read of the table, that
  fails; a static node is
  never re-pointed by a registration.

## 7. What is not modelled

* The text of things: the line-based YAML parser (`parseRecipe` as text), the HTML of
  the dashboard and its tier scores, the log, the printing commands of the CLI,
  `recipe-lint` (a stateless checker of text), schema printing.
* Readings of the host: `specs.go`, disk usage, the uptime history.
* The starship cache (one file, nothing reads it to decide), the syncthing module (a
  client; its state is Syncthing's), packaging scripts other than the unit's restart
  policy, step types whose translation is one command of a package or user manager
  (`service:`, `user:`).
* The channels of alerts (Discord, DM): a message that arrives or does not.

## 8. The plan

Done: every module of the table in section 2, the abstract specifications `StoreSpec`
and `AtomicFile` with their refinements, and the theorems of section 5.

Left, in order of worth:

1. A refinement of `GitConvergence` to a replica that only extends or re-bases onto
   upstream, and of `ApplyLoop` to a machine moved to each recipe's wanted state.
2. The disk alerts and the prompt cache in `AgentCycle`; settings and uptime history
   in `Dashboard`.
3. Order facts of `VersionPins`: `rankLess` is a strict order where `isNewer` is not.
