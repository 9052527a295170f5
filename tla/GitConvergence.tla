--------------------------- MODULE GitConvergence ---------------------------
(***************************************************************************)
(* The convergence of a node's checkout of the config repository, and the  *)
(* node's own submissions to it.                                           *)
(*                                                                         *)
(*   - gitPull (internal/agent/agent.go) runs on the agent's git tick and, *)
(*     with no lock between them, on POST /v1/git/pull: fetch, divergence  *)
(*     check, pull --ff-only, pull --rebase with autostash, and when that  *)
(*     fails rebase --abort, stash pop, branch backup/..., reset --hard;   *)
(*     then the mailbox push of what origin still lacks.                   *)
(*   - SubmitSelfFiles (internal/config/identity.go) commits the node's    *)
(*     own files and force-pushes HEAD to node/<hostname>: once at daemon  *)
(*     start, before the first pull, and from every recipe child process   *)
(*     that applies tags, at any time.                                     *)
(*   - outside src/: origin's main moves, a human merges the node's        *)
(*     mailbox, the network and the push credentials come and go, an       *)
(*     operator edits the checkout, the agent restarts or the host dies.   *)
(*                                                                         *)
(* A ref is the set of the commits it reaches; the history below the first *)
(* clone is left out.  A commit keeps its identity through a rebase.  One  *)
(* git command is one step; a command that needs the index lock may fail   *)
(* while another process is at work in the checkout.                       *)
(***************************************************************************)
EXTENDS Naturals, Sequences

CONSTANTS
  Upstream,    \* commits other people push to origin's main
  Self,        \* changes to the node's own files, committed by SubmitSelfFiles
  NodeFile,    \* those of nodes/<hostname>.yaml, the others' file is mesh.d/...
  LegacyEntry, \* the node also has an entry in the legacy mesh.yaml
  Edits,       \* an operator's uncommitted edits of tracked files
  Conflicts,   \* the pairs of changes that touch the same lines
  Ticker,      \* the agent's Run goroutine
  Handlers,    \* goroutines serving POST /v1/git/pull
  Boot,        \* runDaemon's start-up, which submits before any pull
  Recipes,     \* recipe child processes whose tags step submits
  Faults       \* the faults of this instance, among those listed below

Pullers    == {Ticker} \cup Handlers
Submitters == {Boot} \cup Recipes
Commits    == Upstream \cup Self
Changes    == Commits \cup Edits

ASSUME ChangesDisjoint ==
  /\ Upstream \cap Self = {}
  /\ Upstream \cap Edits = {}
  /\ Self \cap Edits = {}
ASSUME NodeFileIsOwn  == NodeFile \subseteq Self /\ LegacyEntry \in BOOLEAN
ASSUME ActorsDistinct  == Ticker \notin Handlers /\ Boot \notin Recipes
ASSUME FaultsKnown    ==
  Faults \subseteq {"offline", "nocreds", "restart", "crash"}

VARIABLES
  origin,      \* origin's main
  mailbox,     \* origin's node/<hostname>
  net,         \* origin can be reached
  creds,       \* origin accepts this node's pushes
  tracking,    \* refs/remotes/origin/main, the branch's @{upstream}
  main,        \* the local branch main
  backup,      \* everything the backup/divergence-<ts> branches reach
  stamped,     \* this second's backup/divergence-<ts> name is taken
  midRebase,   \* .git/rebase-merge exists: HEAD is detached
  detached,    \* what the detached HEAD reaches
  autostash,   \* edits held in .git/rebase-merge/autostash
  unmerged,    \* the changes whose files the index holds unmerged
  wt,          \* changes in the work tree that no commit holds
  stash,       \* the stash list, newest first
  phase,       \* "boot" until the agent's loop and HTTP server run
  tick,        \* Run owes a git pull: the initial one, or gitTicker fired
  pull,        \* the progress of each goroutine inside gitPull
  sub,         \* the progress of each process inside SubmitSelfFiles
  flagged,     \* lastDivergenceAt is set
  health,      \* lastPullOK: "none" before the first pull is recorded
  pushOK,      \* lastPushOK
  committed,   \* history: the self changes ever committed
  adrift       \* history: those among them committed on a detached HEAD only

remote   == <<origin, mailbox>>
links    == <<net, creds>>
branches == <<tracking, main, backup>>
rebasing == <<midRebase, detached, autostash>>
tree     == <<unmerged, wt, stash>>
clock    == <<stamped, tick>>
agent    == <<phase, flagged, health, pushOK>>
history  == <<committed, adrift>>
vars    == <<origin, mailbox, net, creds, tracking, main, backup, stamped,
             midRebase, detached, autostash, unmerged, wt, stash, phase,
             tick, pull, sub, flagged, health, pushOK, committed, adrift>>

PullSteps == {"idle", "fetch", "measure", "ff", "rebase", "abort", "pop",
              "backup", "reset", "record", "mailbox"}
SubSteps  == {"idle", "written", "push"}

\* One goroutine inside gitPull: its next command, !errFailed, and the
\* divergence it measured.
PullState == [at : PullSteps, ok : BOOLEAN, diverged : BOOLEAN]
Idle      == [at |-> "idle", ok |-> FALSE, diverged |-> FALSE]

\* A stash entry: the edits, and the history they were made on.
StashEntry == [edits : SUBSET Changes, base : SUBSET Commits]

(***************************************************************************)
(* Type invariant.                                                         *)
(***************************************************************************)
TypeOK ==
  /\ origin \subseteq Commits
  /\ mailbox \subseteq Commits
  /\ net \in BOOLEAN
  /\ creds \in BOOLEAN
  /\ tracking \subseteq Commits
  /\ main \subseteq Commits
  /\ backup \subseteq Commits
  /\ stamped \in BOOLEAN
  /\ midRebase \in BOOLEAN
  /\ detached \subseteq Commits
  /\ autostash \subseteq Changes
  /\ unmerged \subseteq Changes
  /\ wt \subseteq Changes
  /\ stash \in Seq(StashEntry)
  /\ phase \in {"boot", "up"}
  /\ tick \in BOOLEAN
  /\ pull \in [Pullers -> PullState]
  /\ sub \in [Submitters -> SubSteps]
  /\ flagged \in BOOLEAN
  /\ health \in {"none", "ok", "failed"}
  /\ pushOK \in BOOLEAN
  /\ committed \subseteq Self
  /\ adrift \subseteq committed

Init ==
  /\ origin = {} /\ mailbox = {} /\ tracking = {} /\ main = {} /\ backup = {}
  /\ net = TRUE
  /\ creds \in (IF "nocreds" \in Faults THEN BOOLEAN ELSE {TRUE})
  /\ stamped = FALSE /\ tick = FALSE
  /\ midRebase = FALSE /\ detached = {} /\ autostash = {}
  /\ unmerged = {} /\ wt = {} /\ stash = <<>>
  /\ phase = "boot"
  /\ pull = [p \in Pullers |-> Idle]
  /\ sub = [s \in Submitters |-> "idle"]
  /\ flagged = FALSE /\ health = "none" /\ pushOK = FALSE
  /\ committed = {} /\ adrift = {}

(***************************************************************************)
(* What git answers.                                                       *)
(***************************************************************************)
\* Some change of S and some change of T touch the same lines.
Clash(S, T) == \E s \in S, t \in T : {s, t} \in Conflicts

\* The changes of S that touch the same lines as some change of T.
Clashing(S, T) == {s \in S : Clash({s}, T)}

\* What HEAD reaches.
HEAD == IF midRebase THEN detached ELSE main

\* divergence(): the commits @{upstream} lacks, and those it has on top; it
\* answers only while HEAD is on the branch that has an upstream.
Ahead  == main \ tracking
Behind == tracking \ main

\* pull --ff-only merges: origin answers, HEAD is on a branch with a clean
\* index, and either nothing is new or main only has to move forward under
\* edits that origin's new commits do not touch.
CanFastForward ==
  /\ net /\ ~midRebase /\ unmerged = {}
  /\ \/ origin \subseteq main
     \/ main \subseteq origin /\ ~Clash(wt, origin \ main)

\* pull --rebase gets as far as replaying the local-only commits.
CanRebase == net /\ ~midRebase /\ unmerged = {}

\* Replaying them stops at a conflict.
RebaseConflicts == Clash(main \ origin, origin \ main)

\* The local-only commits a stopped rebase may have replayed already.
Replayed == (main \ origin) \ Clashing(main \ origin, origin \ main)

\* What an actor's command may meet: TRUE, index.lock is another actor's.
Busy(actor) ==
  \/ \E p \in Pullers \ {actor} : pull[p].at # "idle"
  \/ \E s \in Submitters \ {actor} : sub[s] # "idle"
LockOutcomes(actor) == {FALSE, Busy(actor)}

(***************************************************************************)
(* gitPull, one git command after the other.                               *)
(***************************************************************************)
Goto(p, step) == pull' = [pull EXCEPT ![p].at = step]

\* Both pull commands fetch before they look at HEAD's branch, unless the
\* index is unmerged: then they exit at once.
Fetches     == net /\ unmerged = {}
PullFetches == tracking' = IF Fetches THEN origin ELSE tracking

\* Run's initial pull and the pull of every gitTicker tick.
TickerStart ==
  /\ phase = "up" /\ tick /\ pull[Ticker].at = "idle"
  /\ tick' = FALSE
  /\ pull' = [pull EXCEPT ![Ticker] = [Idle EXCEPT !.at = "fetch"]]
  /\ UNCHANGED <<remote, links, branches, stamped, rebasing, tree, sub, agent,
                 history>>

\* GitPullHandler: POST /v1/git/pull runs the same function at any time.
HandlerStart(p) ==
  /\ p \in Handlers
  /\ phase = "up" /\ pull[p].at = "idle"
  /\ pull' = [pull EXCEPT ![p] = [Idle EXCEPT !.at = "fetch"]]
  /\ UNCHANGED <<remote, links, branches, clock, rebasing, tree, sub, agent,
                 history>>

\* git fetch origin; a failure is only logged.
Fetch(p) ==
  /\ pull[p].at = "fetch"
  /\ tracking' = IF net THEN origin ELSE tracking
  /\ Goto(p, "measure")
  /\ UNCHANGED <<remote, links, main, backup, clock, rebasing, tree, sub,
                 agent, history>>

\* divergence() and the record of it.
Measure(p) ==
  /\ pull[p].at = "measure"
  /\ LET diverged == ~midRebase /\ Ahead # {} /\ Behind # {} IN
       /\ pull' = [pull EXCEPT ![p].at = "ff", ![p].diverged = diverged]
       /\ flagged' = (flagged \/ diverged)
  /\ UNCHANGED <<remote, links, branches, clock, rebasing, tree, phase, sub,
                 health, pushOK, history>>

\* pull --ff-only: it fetches again, then moves main forward or fails.
FastForward(p) ==
  /\ pull[p].at = "ff"
  /\ PullFetches
  /\ \E locked \in LockOutcomes(p) :
     IF CanFastForward /\ ~locked
     THEN /\ main' = main \cup origin
          /\ pull' = [pull EXCEPT ![p].at = "record", ![p].ok = TRUE]
     ELSE /\ main' = main
          /\ Goto(p, "rebase")
  /\ UNCHANGED <<remote, links, backup, clock, rebasing, tree, sub, agent,
                 history>>

\* pull --rebase replays the local-only commits onto origin's main and puts
\* the edits back; edits that clash with what came in stay in the stash and
\* leave conflict markers, and git still exits 0.
RebaseClean(p) ==
  /\ pull[p].at = "rebase"
  /\ CanRebase /\ ~RebaseConflicts
  /\ tracking' = origin
  /\ main' = main \cup origin
  /\ IF Clash(wt, origin \ main)
     THEN /\ stash' = <<[edits |-> wt, base |-> main]>> \o stash
          /\ wt' = {}
          /\ unmerged' = Clashing(wt, origin \ main)
     ELSE UNCHANGED tree
  /\ pull' = [pull EXCEPT ![p].at = "record", ![p].ok = TRUE]
  /\ UNCHANGED <<remote, links, backup, clock, rebasing, sub, agent,
                 history>>

\* pull --rebase stops at a conflict and leaves the rebase in progress.
RebaseStops(p) ==
  /\ pull[p].at = "rebase"
  /\ CanRebase /\ RebaseConflicts
  /\ tracking' = origin
  /\ midRebase' = TRUE
  /\ \E picked \in SUBSET Replayed : detached' = origin \cup picked
  /\ autostash' = wt
  /\ wt' = {}
  /\ \E c \in Clashing(main \ origin, origin \ main) : unmerged' = {c}
  /\ Goto(p, "abort")
  /\ UNCHANGED <<remote, links, main, backup, clock, stash, sub, agent,
                 history>>

\* pull --rebase does not start: origin is unreachable, a rebase is already
\* in progress, the index is unmerged, or locked.
RebaseRefused(p) ==
  /\ pull[p].at = "rebase"
  /\ ~CanRebase \/ TRUE \in LockOutcomes(p)
  /\ PullFetches
  /\ Goto(p, "abort")
  /\ UNCHANGED <<remote, links, main, backup, clock, rebasing, tree, sub,
                 agent, history>>

\* Mutant of Abort: the half-finished rebase is left as it is.
AbortMissing(p) ==
  /\ pull[p].at = "abort"
  /\ Goto(p, "pop")
  /\ UNCHANGED <<remote, links, branches, clock, rebasing, tree, sub, agent,
                 history>>

\* rebase --abort: back on main as it was, with the autostash restored; what
\* was edited or committed since on the detached HEAD is dropped.
Abort(p) ==
  /\ pull[p].at = "abort"
  /\ \E locked \in LockOutcomes(p) :
     IF midRebase /\ ~locked
     THEN /\ midRebase' = FALSE
          /\ detached' = {}
          /\ autostash' = {}
          /\ wt' = autostash
          /\ unmerged' = {}
     ELSE UNCHANGED <<rebasing, wt, unmerged>>
  /\ Goto(p, "pop")
  /\ UNCHANGED <<remote, links, branches, clock, stash, sub, agent, history>>

\* stash pop: refused on an unmerged index or over edits of the same lines;
\* an entry that clashes with what came in since stays, with markers left.
StashPop(p) ==
  /\ pull[p].at = "pop"
  /\ \E locked \in LockOutcomes(p) :
     IF locked \/ unmerged # {} \/ stash = <<>> \/ Clash(stash[1].edits, wt)
     THEN UNCHANGED tree
     ELSE IF Clash(stash[1].edits, HEAD \ stash[1].base)
     THEN /\ unmerged' = Clashing(stash[1].edits, HEAD \ stash[1].base)
          /\ UNCHANGED <<wt, stash>>
     ELSE /\ wt' = wt \cup stash[1].edits
          /\ stash' = Tail(stash)
          /\ UNCHANGED unmerged
  /\ Goto(p, "backup")
  /\ UNCHANGED <<remote, links, branches, clock, rebasing, sub, agent,
                 history>>

\* Mutant of Backup: the branch is created at @{upstream}, not at HEAD.
BackupOfUpstream(p) ==
  /\ pull[p].at = "backup"
  /\ backup' = IF stamped THEN backup ELSE backup \cup tracking
  /\ stamped' = TRUE
  /\ Goto(p, "reset")
  /\ UNCHANGED <<remote, links, tracking, main, tick, rebasing, tree, sub,
                 agent, history>>

\* branch backup/divergence-<UTC second>: it fails when the name is taken,
\* and a failure is only logged.
Backup(p) ==
  /\ pull[p].at = "backup"
  /\ backup' = IF stamped THEN backup ELSE backup \cup HEAD
  /\ stamped' = TRUE
  /\ Goto(p, "reset")
  /\ UNCHANGED <<remote, links, tracking, main, tick, rebasing, tree, sub,
                 agent, history>>

\* Mutants of Reset: reset --hard without a target, reset to the mailbox, and
\* a reset that refuses a dirty tree (reset --keep).
ResetTo(p, target, fails) ==
  /\ pull[p].at = "reset"
  /\ IF fails
     THEN UNCHANGED <<main, wt, unmerged>>
     ELSE main' = target /\ wt' = {} /\ unmerged' = {}
  /\ pull' = [pull EXCEPT ![p].at = "record", ![p].ok = ~fails]
  /\ UNCHANGED <<remote, links, tracking, backup, clock, rebasing, stash, sub,
                 agent, history>>
ResetToHead(p)    == ResetTo(p, main, midRebase)
ResetToMailbox(p) == ResetTo(p, mailbox, midRebase)
ResetKeep(p)      == ResetTo(p, tracking, midRebase \/ unmerged # {})

\* reset --hard @{upstream}: on a detached HEAD there is no upstream.
Reset(p) ==
  /\ pull[p].at = "reset"
  /\ \E locked \in LockOutcomes(p) :
     LET fails == midRebase \/ locked IN
       /\ IF fails
          THEN UNCHANGED <<main, wt, unmerged>>
          ELSE main' = tracking /\ wt' = {} /\ unmerged' = {}
       /\ pull' = [pull EXCEPT ![p].at = "record", ![p].ok = ~fails]
  /\ UNCHANGED <<remote, links, tracking, backup, clock, rebasing, stash, sub,
                 agent, history>>

\* The outcome, under the agent's mutex.
Record(p) ==
  /\ pull[p].at = "record"
  /\ health' = IF pull[p].ok THEN "ok" ELSE "failed"
  /\ IF pull[p].ok
     THEN Goto(p, "mailbox")
     ELSE pull' = [pull EXCEPT ![p] = Idle]
  /\ UNCHANGED <<remote, links, branches, clock, rebasing, tree, phase, sub,
                 flagged, pushOK, history>>

\* Mutant of MailboxPush: it trusts the divergence measured before the pull.
MailboxPushIfDiverged(p) ==
  /\ pull[p].at = "mailbox"
  /\ IF ~pull[p].diverged \/ midRebase \/ Ahead = {}
     THEN UNCHANGED <<mailbox, pushOK>>
     ELSE /\ mailbox' = IF net /\ creds THEN HEAD ELSE mailbox
          /\ pushOK' = (net /\ creds)
  /\ pull' = [pull EXCEPT ![p] = Idle]
  /\ UNCHANGED <<origin, links, branches, clock, rebasing, tree, phase, sub,
                 flagged, health, history>>

\* The mailbox push of a main that is still ahead of its upstream.
MailboxPush(p) ==
  /\ pull[p].at = "mailbox"
  /\ IF midRebase \/ Ahead = {}
     THEN UNCHANGED <<mailbox, pushOK>>
     ELSE /\ mailbox' = IF net /\ creds THEN HEAD ELSE mailbox
          /\ pushOK' = (net /\ creds)
  /\ pull' = [pull EXCEPT ![p] = Idle]
  /\ UNCHANGED <<origin, links, branches, clock, rebasing, tree, phase, sub,
                 flagged, health, history>>

GitPull(p) ==
  \/ Fetch(p) \/ Measure(p) \/ FastForward(p)
  \/ RebaseClean(p) \/ RebaseStops(p) \/ RebaseRefused(p)
  \/ Abort(p) \/ StashPop(p) \/ Backup(p) \/ Reset(p)
  \/ Record(p) \/ MailboxPush(p)

(***************************************************************************)
(* SubmitSelfFiles, and the write of the node's own file before it.        *)
(***************************************************************************)
\* The files hold no conflict markers: LoadNode parses nodes/<hostname>.yaml
\* at start and in the tags step; loadOwnMeshEntry finds the node's entry, in
\* its own file or else in the legacy mesh.yaml.
NodeReadable == unmerged \cap NodeFile = {}
EntryFound   == unmerged \cap Self \subseteq NodeFile \/ LegacyEntry

\* saveOwnMeshEntry or the tags step writes a changed file of the node's own
\* (a value that is already there is not written again).  Both start from what
\* the files say, and give up when they cannot read them.
WriteSelf(s, c) ==
  /\ IF s = Boot THEN phase = "boot" /\ EntryFound
                 ELSE phase = "up" /\ c \in NodeFile
  /\ sub[s] = "idle"
  /\ NodeReadable
  /\ c \notin wt \cup HEAD \cup committed
  /\ wt' = wt \cup {c}
  /\ sub' = [sub EXCEPT ![s] = "written"]
  /\ UNCHANGED <<remote, links, branches, clock, rebasing, unmerged, stash,
                 agent, pull, history>>

\* Mutant of CommitSelf: commit -a takes the operator's edits along.
CommitAll(s) ==
  /\ sub[s] = "written" /\ unmerged = {} /\ ~midRebase
  /\ sub' = [sub EXCEPT ![s] = "push"]
  /\ wt' = {}
  /\ committed' = committed \cup wt
  /\ main' = main \cup wt
  /\ UNCHANGED <<remote, links, tracking, backup, clock, rebasing, unmerged,
                 stash, agent, pull, adrift>>

\* git add, diff --cached --quiet and git commit.  Adding the node's own two
\* files takes every pending change of them, and resolves them if they are
\* unmerged: whatever they hold, markers included, is staged.  Nothing staged,
\* a locked index or another unmerged file ends the submission; otherwise what
\* is staged goes onto HEAD, the detached one of a rebase in progress too.
CommitSelf(s) ==
  /\ sub[s] = "written"
  /\ \E locked \in LockOutcomes(s) :
     LET added == (wt \cup unmerged) \cap Self
         ends  == locked \/ added = {} \/ ~(unmerged \subseteq Self) IN
       /\ unmerged' = IF locked THEN unmerged ELSE unmerged \ Self
       /\ sub' = [sub EXCEPT ![s] = IF ends THEN "idle" ELSE "push"]
       /\ IF ends THEN UNCHANGED <<main, detached, wt, history>> ELSE
          /\ wt' = wt \ added
          /\ committed' = committed \cup added
          /\ IF midRebase
             THEN /\ detached' = detached \cup added
                  /\ adrift' = adrift \cup (added \ main)
                  /\ UNCHANGED main
             ELSE /\ main' = main \cup added
                  /\ adrift' = adrift \ added
                  /\ UNCHANGED detached
  /\ UNCHANGED <<remote, links, tracking, backup, clock, midRebase, autostash,
                 stash, agent, pull>>

\* push --force origin HEAD:refs/heads/node/<hostname>; a failure is logged.
PushSelf(s) ==
  /\ sub[s] = "push"
  /\ mailbox' = IF net /\ creds THEN HEAD ELSE mailbox
  /\ sub' = [sub EXCEPT ![s] = "idle"]
  /\ UNCHANGED <<origin, links, branches, clock, rebasing, tree, agent, pull,
                 history>>

SubmitSelf(s) == CommitSelf(s) \/ PushSelf(s)

(***************************************************************************)
(* The daemon: LoadNode could parse the node's file (log.Fatalf otherwise), *)
(* SyncSelfToMesh has returned, Run and the API start.                     *)
(***************************************************************************)
DaemonUp ==
  /\ phase = "boot" /\ sub[Boot] = "idle" /\ NodeReadable
  /\ phase' = "up"
  /\ tick' = TRUE
  /\ UNCHANGED <<remote, links, branches, stamped, rebasing, tree, pull, sub,
                 flagged, health, pushOK, history>>

\* A second passes; gitTicker fires, at most one tick is kept.
Second ==
  /\ stamped' = FALSE
  /\ tick' = (phase = "up")
  /\ UNCHANGED <<remote, links, branches, rebasing, tree, agent, pull, sub,
                 history>>

\* What every restart forgets.  The process image is gone: its goroutines
\* stop between two git commands, since a running one is a process of its own.
Forget ==
  /\ phase' = "boot" /\ tick' = FALSE /\ stamped' = FALSE
  /\ pull' = [p \in Pullers |-> Idle]
  /\ flagged' = FALSE /\ health' = "none" /\ pushOK' = FALSE

\* execRestart and RestartHandler: recipe children live on.
Restart ==
  /\ "restart" \in Faults
  /\ Forget
  /\ sub' = [sub EXCEPT ![Boot] = "idle"]
  /\ UNCHANGED <<remote, links, branches, rebasing, tree, history>>

\* The host goes down, with the recipe children; a rebase that was replaying
\* commits stays in progress.
Crash ==
  /\ "crash" \in Faults
  /\ Forget
  /\ sub' = [s \in Submitters |-> "idle"]
  /\ UNCHANGED <<remote, links, main, backup, unmerged, stash, history>>
  /\ \/ UNCHANGED <<tracking, rebasing, wt>>
     \/ /\ \E p \in Pullers : pull[p].at = "rebase"
        /\ CanRebase
        /\ tracking' = origin
        /\ midRebase' = TRUE
        /\ \E picked \in SUBSET Replayed : detached' = origin \cup picked
        /\ autostash' = wt
        /\ wt' = {}

(***************************************************************************)
(* Outside src/.                                                           *)
(***************************************************************************)
\* Someone pushes to origin's main.
UpstreamAdvance(c) ==
  /\ c \in Upstream \ origin
  /\ origin' = origin \cup {c}
  /\ UNCHANGED <<mailbox, links, branches, clock, rebasing, tree, agent, pull,
                 sub, history>>

\* A human merges the pull request of the node's mailbox.
MergeMailbox ==
  /\ ~(mailbox \subseteq origin)
  /\ ~Clash(mailbox \ origin, origin \ mailbox)
  /\ origin' = origin \cup mailbox
  /\ UNCHANGED <<mailbox, links, branches, clock, rebasing, tree, agent, pull,
                 sub, history>>

Network ==
  /\ "offline" \in Faults
  /\ net' = ~net
  /\ UNCHANGED <<remote, creds, branches, clock, rebasing, tree, agent, pull,
                 sub, history>>

Credentials ==
  /\ "nocreds" \in Faults
  /\ creds' = ~creds
  /\ UNCHANGED <<remote, net, branches, clock, rebasing, tree, agent, pull,
                 sub, history>>

\* An operator edits a tracked file.
Edit(e) ==
  /\ e \in Edits \ (wt \cup autostash)
  /\ \A i \in 1..Len(stash) : e \notin stash[i].edits
  /\ wt' = wt \cup {e}
  /\ UNCHANGED <<remote, links, branches, clock, rebasing, unmerged, stash,
                 agent, pull, sub, history>>

Environment ==
  \/ \E c \in Upstream : UpstreamAdvance(c)
  \/ MergeMailbox
  \/ Network \/ Credentials
  \/ \E e \in Edits : Edit(e)

Next ==
  \/ TickerStart
  \/ \E p \in Handlers : HandlerStart(p)
  \/ \E p \in Pullers : GitPull(p)
  \/ \E s \in Submitters, c \in Self : WriteSelf(s, c)
  \/ \E s \in Submitters : SubmitSelf(s)
  \/ DaemonUp \/ Second \/ Restart \/ Crash
  \/ Environment

Spec == Init /\ [][Next]_vars

(***************************************************************************)
(* Fairness.  A goroutine or process that runs gets to its next command;   *)
(* the ticker fires; nothing is asked of the environment or the faults.    *)
(***************************************************************************)
Fairness ==
  /\ WF_vars(TickerStart)
  /\ \A p \in Pullers : WF_vars(GitPull(p))
  /\ \A s \in Submitters : WF_vars(SubmitSelf(s))
  /\ WF_vars(DaemonUp)
  /\ WF_vars(Second)

FairSpec == Spec /\ Fairness

(***************************************************************************)
(* Properties.                                                             *)
(***************************************************************************)
\* The step of p that records last_pull_ok = TRUE.
RecordsOk(p) == pull[p].at = "record" /\ pull'[p].at = "mailbox"

\* Every commit the node ever made is still reachable from its HEAD, its main,
\* a backup ref, its mailbox or origin's main (DESIGN.md, "nothing is lost").
NothingLost ==
  committed \subseteq HEAD \cup main \cup backup \cup mailbox \cup origin

\* So is every commit the node made on its branch, whatever conflicts, outages
\* and restarts follow: self-heal moves local-only commits, it never drops them
\* (agent.go, gitPull, point 3).  Not so one made on the detached HEAD of a rebase
\* in progress: the next rebase --abort drops it.
BranchNotLost ==
  committed \ adrift \subseteq main \cup backup \cup mailbox \cup origin

\* No step takes main back behind an upstream commit it already had, whatever
\* two pulls, submissions and restarts do to each other.
UpstreamKept == [][main \cap Upstream \subseteq main']_vars

\* A pull that reports success leaves main with everything the node knows of
\* origin's main: last_pull_ok is never reported on a checkout that gitPull
\* left behind its own @{upstream}.
OkMeansAtUpstream ==
  [][\A p \in Pullers : RecordsOk(p) => tracking \subseteq main]_vars

\* A pull never returns on a checkout stuck in a rebase or a merge conflict it
\* found or made, even one a dead host left behind ("unwedge any half-finished
\* rebase").  Only edits kept in the stash may leave markers for the next pull.
PullUnwedges ==
  \A p \in Pullers :
    pull[p].at \in {"record", "mailbox"} =>
      ~midRebase /\ (unmerged # {} => stash # <<>>)

\* The network stays up and the agent stays up from some point on.
Steady == <>[](net /\ phase = "up")

\* Convergence always resumes: once the node stays up and online, main gets
\* and keeps everything on origin's main, whatever conflicts, edits and
\* interrupted rebases it met before (DESIGN.md, "Convergence always resumes").
ConvergenceResumes == Steady => <>[](origin \subseteq main)

\* A commit whose submission failed does not stay stranded on the local main:
\* once network and credentials stay up, it reaches the mailbox or origin, or
\* was set aside in a backup ref (unless it was made on a detached HEAD).
NotStranded ==
  Steady /\ <>[]creds =>
    \A c \in Self :
      [](c \in committed \ adrift =>
           <>(c \in mailbox \cup origin \cup backup \cup adrift))

=============================================================================
