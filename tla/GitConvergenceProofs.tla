------------------------ MODULE GitConvergenceProofs ------------------------
(***************************************************************************)
(* What holds of GitConvergence for every set of commits, every conflict   *)
(* relation and every number of actors.                                    *)
(***************************************************************************)
EXTENDS GitConvergence, TLAPS

(***************************************************************************)
(* Type correctness.                                                       *)
(***************************************************************************)
USE DEF Pullers, Submitters, Commits, Changes

\* A goroutine outside gitPull has an entry of the right type.
LEMMA IdleType == Idle \in PullState
BY DEF Idle, PullState, PullSteps

\* The updates gitPull makes of a goroutine's entry keep it a PullState.
LEMMA PullDone ==
  ASSUME pull \in [Pullers -> PullState], NEW p \in Pullers,
         pull' = [pull EXCEPT ![p].at = "record", ![p].ok = TRUE]
  PROVE  pull' \in [Pullers -> PullState]
BY DEF PullState, PullSteps

\* A pull that starts, and one that ends, keep the entries PullStates.
LEMMA PullStarts ==
  ASSUME pull \in [Pullers -> PullState], NEW p \in Pullers,
         pull' = [pull EXCEPT ![p] = [Idle EXCEPT !.at = "fetch"]]
  PROVE  pull' \in [Pullers -> PullState]
<1>1. [Idle EXCEPT !.at = "fetch"] \in PullState
  BY DEF Idle, PullState, PullSteps
<1> QED
  BY <1>1

\* The daemon starts in a state of the right type.
LEMMA InitType == Init => TypeOK
<1> SUFFICES ASSUME Init PROVE TypeOK
  OBVIOUS
<1>1. Idle \in PullState
  BY IdleType
<1>2. creds \in BOOLEAN
  BY DEF Init
<1>3. stash \in Seq(StashEntry)
  BY DEF Init
<1>4. pull \in [Pullers -> PullState] /\ sub \in [Submitters -> SubSteps]
  BY <1>1 DEF Init, SubSteps
<1> QED
  BY <1>2, <1>3, <1>4 DEF Init, TypeOK

\* Every git command of gitPull preserves the types.
LEMMA GitPullType ==
  ASSUME TypeOK, NEW p \in Pullers, GitPull(p)
  PROVE  TypeOK'
<1> USE DEF TypeOK, remote, links, branches, rebasing, tree, clock, agent,
            history
<1>1. CASE Fetch(p)
  BY <1>1 DEF Fetch, Goto, PullState, PullSteps
<1>2. CASE Measure(p)
  BY <1>2 DEF Measure, PullState, PullSteps
<1>3. CASE FastForward(p)
  BY <1>3 DEF FastForward, PullFetches, Goto, PullState, PullSteps
<1>4. CASE RebaseClean(p)
  <2>1. pull' \in [Pullers -> PullState]
    BY <1>4, PullDone DEF RebaseClean
  <2>2. [edits |-> wt, base |-> main] \in StashEntry
    BY DEF StashEntry
  <2>3. <<[edits |-> wt, base |-> main]>> \o stash \in Seq(StashEntry)
    BY <2>2
  <2>4. stash' \in Seq(StashEntry)
    BY <1>4, <2>3 DEF RebaseClean
  <2>5. wt' \subseteq Changes /\ unmerged' \subseteq Changes
    BY <1>4 DEF RebaseClean, Clashing
  <2> QED
    BY <1>4, <2>1, <2>4, <2>5 DEF RebaseClean
<1>5. CASE RebaseStops(p)
  <2>1. pull' \in [Pullers -> PullState]
    BY <1>5 DEF RebaseStops, Goto, PullState, PullSteps
  <2>2. /\ detached' \subseteq Commits /\ autostash' \subseteq Changes
        /\ unmerged' \subseteq Changes
    BY <1>5 DEF RebaseStops, Replayed, Clashing
  <2> QED
    BY <1>5, <2>1, <2>2 DEF RebaseStops
<1>6. CASE RebaseRefused(p)
  BY <1>6 DEF RebaseRefused, PullFetches, Goto, PullState, PullSteps
<1>7. CASE Abort(p)
  BY <1>7 DEF Abort, Goto, PullState, PullSteps
<1>8. CASE StashPop(p)
  <2>1. pull' \in [Pullers -> PullState]
    BY <1>8 DEF StashPop, Goto, PullState, PullSteps
  <2>2. stash # <<>> => stash[1] \in StashEntry /\ Tail(stash) \in Seq(StashEntry)
    OBVIOUS
  <2>3. stash' \in Seq(StashEntry) /\ wt' \subseteq Changes /\ unmerged' \subseteq Changes
    BY <1>8, <2>2 DEF StashPop, StashEntry, Clashing
  <2> QED
    BY <1>8, <2>1, <2>3 DEF StashPop
<1>9. CASE Backup(p)
  <2>1. pull' \in [Pullers -> PullState]
    BY <1>9 DEF Backup, Goto, PullState, PullSteps
  <2>2. backup' \subseteq Commits
    BY <1>9 DEF Backup, HEAD
  <2> QED
    BY <1>9, <2>1, <2>2 DEF Backup
<1>10. CASE Reset(p)
  <2>1. PICK locked \in BOOLEAN :
          pull' = [pull EXCEPT ![p].at = "record",
                               ![p].ok = ~(midRebase \/ locked)]
    BY <1>10 DEF Reset, LockOutcomes, Busy
  <2>2. pull' \in [Pullers -> PullState]
    BY <2>1 DEF PullState, PullSteps
  <2>3. main' \subseteq Commits /\ wt' \subseteq Changes /\ unmerged' \subseteq Changes
    BY <1>10 DEF Reset
  <2> QED
    BY <1>10, <2>2, <2>3 DEF Reset
<1>11. CASE Record(p)
  <2>1. pull' \in [Pullers -> PullState]
    <3>1. CASE pull[p].ok
      BY <1>11, <3>1 DEF Record, Goto, PullState, PullSteps
    <3>2. CASE ~pull[p].ok
      BY <1>11, <3>2, IdleType DEF Record
    <3> QED
      BY <3>1, <3>2
  <2> QED
    BY <1>11, <2>1 DEF Record
<1>12. CASE MailboxPush(p)
  BY <1>12, IdleType DEF MailboxPush, HEAD
<1> QED
  BY <1>1, <1>2, <1>3, <1>4, <1>5, <1>6, <1>7, <1>8, <1>9, <1>10, <1>11,
     <1>12 DEF GitPull

\* So does every step of a submission.
LEMMA SubmitType ==
  ASSUME TypeOK, NEW s \in Submitters,
         (\E c \in Self : WriteSelf(s, c)) \/ SubmitSelf(s)
  PROVE  TypeOK'
<1> USE DEF TypeOK, SubSteps, remote, links, branches, rebasing, tree, clock,
            agent, history
<1>1. CASE \E c \in Self : WriteSelf(s, c)
  BY <1>1 DEF WriteSelf
<1>2. CASE CommitSelf(s)
  <2>1. sub' \in [Submitters -> SubSteps]
    BY <1>2 DEF CommitSelf
  <2>2. /\ main' \subseteq Commits /\ detached' \subseteq Commits
        /\ wt' \subseteq Changes /\ unmerged' \subseteq Changes
        /\ committed' \subseteq Self /\ adrift' \subseteq committed'
    BY <1>2 DEF CommitSelf
  <2> QED
    BY <1>2, <2>1, <2>2 DEF CommitSelf
<1>3. CASE PushSelf(s)
  BY <1>3 DEF PushSelf, HEAD
<1> QED
  BY <1>1, <1>2, <1>3 DEF SubmitSelf

\* And every step of the daemon, the faults and the environment.
LEMMA OtherType ==
  ASSUME TypeOK,
         \/ TickerStart \/ (\E p \in Handlers : HandlerStart(p))
         \/ DaemonUp \/ Second \/ Restart \/ Crash \/ Environment
  PROVE  TypeOK'
<1> USE IdleType DEF TypeOK, remote, links, branches, rebasing, tree, clock, agent,
            history
<1>1. CASE TickerStart
  BY <1>1, PullStarts DEF TickerStart
<1>2. CASE \E p \in Handlers : HandlerStart(p)
  BY <1>2, PullStarts DEF HandlerStart
<1>3. CASE DaemonUp
  BY <1>3 DEF DaemonUp
<1>4. CASE Second
  BY <1>4 DEF Second
<1>5. CASE Restart
  BY <1>5 DEF Restart, Forget, SubSteps
<1>6. CASE Crash
  <2>1. /\ pull' \in [Pullers -> PullState]
        /\ sub' \in [Submitters -> SubSteps]
    BY <1>6 DEF Crash, Forget, SubSteps
  <2>2. /\ tracking' \subseteq Commits /\ midRebase' \in BOOLEAN
        /\ detached' \subseteq Commits /\ autostash' \subseteq Changes
        /\ wt' \subseteq Changes
    BY <1>6 DEF Crash, Replayed
  <2> QED
    BY <1>6, <2>1, <2>2 DEF Crash, Forget
<1>7. CASE Environment
  <2>1. CASE \E c \in Upstream : UpstreamAdvance(c)
    BY <2>1 DEF UpstreamAdvance
  <2>2. CASE MergeMailbox
    BY <2>2 DEF MergeMailbox
  <2>3. CASE Network
    BY <2>3 DEF Network
  <2>4. CASE Credentials
    BY <2>4 DEF Credentials
  <2>5. CASE \E e \in Edits : Edit(e)
    BY <2>5 DEF Edit
  <2> QED
    BY <1>7, <2>1, <2>2, <2>3, <2>4, <2>5 DEF Environment
<1> QED
  BY <1>1, <1>2, <1>3, <1>4, <1>5, <1>6, <1>7

\* Every variable keeps its type whatever the actors and faults do.
THEOREM TypeCorrect == Spec => []TypeOK
<1>1. TypeOK /\ [Next]_vars => TypeOK'
  <2> SUFFICES ASSUME TypeOK, [Next]_vars PROVE TypeOK'
    OBVIOUS
  <2>1. CASE Next
    BY <2>1, GitPullType, SubmitType, OtherType DEF Next
  <2>2. CASE UNCHANGED vars
    BY <2>2 DEF TypeOK, vars
  <2> QED
    BY <2>1, <2>2
<1> QED
  BY InitType, <1>1, PTL DEF Spec

(***************************************************************************)
(* Main never goes back behind an upstream commit.                         *)
(***************************************************************************)
\* The remote-tracking branch never runs ahead of origin, and main holds no
\* upstream commit the remote-tracking branch does not: so a reset to
\* @{upstream} cannot drop one.
UpstreamInv ==
  /\ tracking \subseteq origin
  /\ main \cap Upstream \subseteq tracking

\* No step of any actor breaks it.
LEMMA UpstreamStep ==
  ASSUME UpstreamInv, [Next]_vars
  PROVE  UpstreamInv' /\ main \cap Upstream \subseteq main'
<1> USE DEF UpstreamInv, remote, links, branches, rebasing, tree, clock, agent,
            history
<1>1. ASSUME NEW p \in Pullers, GitPull(p)
      PROVE  UpstreamInv' /\ main \cap Upstream \subseteq main'
  <2>1. CASE Fetch(p) \/ Measure(p)
    BY <2>1 DEF Fetch, Measure
  <2>2. CASE FastForward(p)
    BY <2>2 DEF FastForward, PullFetches, Fetches, CanFastForward
  <2>3. CASE RebaseClean(p) \/ RebaseStops(p)
    BY <2>3 DEF RebaseClean, RebaseStops
  <2>4. CASE RebaseRefused(p)
    BY <2>4 DEF RebaseRefused, PullFetches
  <2>5. CASE Abort(p) \/ StashPop(p) \/ Backup(p)
    BY <2>5 DEF Abort, StashPop, Backup
  <2>6. CASE Reset(p)
    BY <2>6 DEF Reset
  <2>7. CASE Record(p) \/ MailboxPush(p)
    BY <2>7 DEF Record, MailboxPush
  <2> QED
    BY <1>1, <2>1, <2>2, <2>3, <2>4, <2>5, <2>6, <2>7 DEF GitPull
<1>2. ASSUME NEW s \in Submitters, CommitSelf(s)
      PROVE  UpstreamInv' /\ main \cap Upstream \subseteq main'
  <2>1. main \subseteq main' /\ main' \subseteq main \cup Self
    BY <1>2 DEF CommitSelf
  <2>2. UNCHANGED <<origin, tracking>>
    BY <1>2 DEF CommitSelf
  <2> QED
    BY <2>1, <2>2, ChangesDisjoint
<1>3. CASE \E s \in Submitters :
             (\E c \in Self : WriteSelf(s, c)) \/ PushSelf(s)
  BY <1>3 DEF WriteSelf, PushSelf
<1>4. CASE TickerStart \/ (\E p \in Handlers : HandlerStart(p))
           \/ DaemonUp \/ Second
  BY <1>4 DEF TickerStart, HandlerStart, DaemonUp, Second
<1>5. CASE Restart \/ Crash
  BY <1>5 DEF Restart, Crash
<1>6. CASE Environment
  BY <1>6 DEF Environment, UpstreamAdvance, MergeMailbox, Network, Credentials,
              Edit
<1>7. CASE UNCHANGED vars
  BY <1>7 DEF vars
<1> QED
  BY <1>1, <1>2, <1>3, <1>4, <1>5, <1>6, <1>7 DEF Next, SubmitSelf

\* However pulls, submissions, crashes and the environment interleave, no step
\* takes an upstream commit out of main.
THEOREM UpstreamNeverLost == Spec => UpstreamKept
<1>1. Init => UpstreamInv
  BY DEF Init, UpstreamInv
<1>2. UpstreamInv /\ [Next]_vars =>
        UpstreamInv' /\ [main \cap Upstream \subseteq main']_vars
  BY UpstreamStep
<1> QED
  BY <1>1, <1>2, PTL DEF Spec, UpstreamKept

(***************************************************************************)
(* A node that pulls on its tick alone.                                    *)
(***************************************************************************)
\* No request asks for a pull, and no recipe submits.
TickerAlone == Handlers = {} /\ Recipes = {}

\* Only the daemon's start-up submits, and it is over before the first pull.
Alone ==
  /\ \A p \in Pullers : pull[p].at # "idle" => phase = "up"
  /\ phase = "up" => sub[Boot] = "idle"

\* What makes a reset safe.  The backup made just before it still covers main,
\* and so does any backup made this second, whose name the next one would
\* need: between the two nothing commits.  The backup is made of the branch,
\* since the abort before it has ended any rebase.
LossInv ==
  /\ committed \ adrift \subseteq main \cup backup \cup origin
  /\ tracking \subseteq origin
  /\ phase = "boot" => ~stamped
  /\ stamped => main \subseteq backup \cup origin
  /\ pull[Ticker].at \in {"pop", "backup"} => ~midRebase
  /\ pull[Ticker].at = "reset" => main \subseteq backup \cup origin

\* What a pull knows at the step that records its outcome.
OutcomeInv ==
  pull[Ticker].at = "record" /\ pull[Ticker].ok => tracking \subseteq main

\* Once rebase --abort has run, no rebase is in progress until the next pull.
UnwedgedInv ==
  /\ pull[Ticker].at \in {"pop", "backup", "reset", "record", "mailbox"} =>
       ~midRebase
  /\ pull[Ticker].at \in {"record", "mailbox"} => (unmerged # {} => stash # <<>>)

\* At start-up no pull and no tick is pending.
LEMMA InitAlone == Init => Alone
BY DEF Init, Alone, Idle

\* A pull in flight means the daemon is up, and leaves everything the other
\* actors' turn depends on as it is.
LEMMA GitPullFrame ==
  ASSUME NEW p \in Pullers, GitPull(p)
  PROVE  /\ pull[p].at # "idle"
         /\ pull' = [pull EXCEPT ![p] = pull'[p]]
         /\ UNCHANGED <<phase, sub, origin, net, history>>
<1> USE DEF remote, links, branches, rebasing, tree, clock, agent,
            history
<1>1. CASE Fetch(p) \/ Measure(p) \/ FastForward(p)
  BY <1>1 DEF Fetch, Measure, FastForward, Goto
<1>2. CASE RebaseClean(p) \/ RebaseStops(p) \/ RebaseRefused(p)
  BY <1>2 DEF RebaseClean, RebaseStops, RebaseRefused, Goto
<1>3. CASE Abort(p) \/ StashPop(p) \/ Backup(p) \/ Reset(p)
  BY <1>3 DEF Abort, StashPop, Backup, Reset, Goto
<1>4. CASE Record(p) \/ MailboxPush(p)
  BY <1>4 DEF Record, MailboxPush, Goto
<1> QED
  BY <1>1, <1>2, <1>3, <1>4 DEF GitPull

\* A tick waits for the daemon to be up, and start-up for nothing else.
LEMMA AloneStep ==
  ASSUME TickerAlone, TypeOK, Alone, [Next]_vars
  PROVE  Alone'
<1> USE DEF TickerAlone, Alone, remote, links, branches, rebasing, tree, clock,
            agent, history
<1>1. CASE \E p \in Pullers : GitPull(p)
  BY <1>1, GitPullFrame
<1>2. CASE TickerStart
  BY <1>2 DEF TickerStart, TypeOK
<1>3. CASE \E s \in Submitters, c \in Self : WriteSelf(s, c)
  BY <1>3 DEF WriteSelf, TypeOK
<1>4. CASE \E s \in Submitters : SubmitSelf(s)
  BY <1>4 DEF SubmitSelf, CommitSelf, PushSelf, TypeOK
<1>5. CASE DaemonUp \/ Second
  BY <1>5 DEF DaemonUp, Second
<1>6. CASE Restart \/ Crash
  BY <1>6 DEF Restart, Crash, Forget, Idle
<1>7. CASE Environment
  BY <1>7 DEF Environment, UpstreamAdvance, MergeMailbox, Network, Credentials,
              Edit
<1>8. CASE UNCHANGED vars
  BY <1>8 DEF vars
<1> QED
  BY <1>1, <1>2, <1>3, <1>4, <1>5, <1>6, <1>7, <1>8 DEF Next

\* Start-up submits and the ticker pulls, never at the same time.
THEOREM AloneInvariant ==
  ASSUME TickerAlone
  PROVE  Spec => [](TypeOK /\ Alone)
<1>1. TypeOK /\ Alone /\ [Next]_vars => Alone'
  BY AloneStep
<1> QED
  BY <1>1, InitAlone, TypeCorrect, PTL DEF Spec

\* So a pull never meets a locked index.
LEMMA NeverBusy ==
  ASSUME TickerAlone, TypeOK, Alone, pull[Ticker].at # "idle"
  PROVE  LockOutcomes(Ticker) = {FALSE}
BY DEF TickerAlone, Alone, LockOutcomes, Busy, TypeOK

\* Backup before reset, and nothing committed in between.
LEMMA LossStep ==
  ASSUME TickerAlone, TypeOK, Alone, LossInv, [Next]_vars
  PROVE  LossInv'
<1> USE DEF LossInv, remote, links, branches, rebasing, tree, clock, agent,
            history
<1> DEFINE p == Ticker
<1>1. ASSUME GitPull(p) PROVE LossInv'
  <2>1. /\ LockOutcomes(p) = {FALSE} /\ phase = "up"
        /\ pull \in [Pullers -> PullState]
    BY <1>1, NeverBusy, GitPullFrame DEF Alone, TypeOK
  <2>2. CASE Fetch(p) \/ Measure(p)
    BY <2>1, <2>2 DEF PullState, Fetch, Goto, Measure
  <2>3. CASE FastForward(p)
    BY <2>1, <2>3 DEF PullState, FastForward, PullFetches, Fetches, CanFastForward,
                      Goto
  <2>4. CASE RebaseClean(p)
    BY <2>1, <2>4 DEF PullState, RebaseClean, CanRebase
  <2>5. CASE RebaseStops(p)
    BY <2>1, <2>5 DEF PullState, RebaseStops, Goto
  <2>6. CASE RebaseRefused(p)
    BY <2>1, <2>6 DEF PullState, RebaseRefused, PullFetches, Goto
  <2>7. CASE Abort(p)
    BY <2>1, <2>7 DEF PullState, Abort, Goto
  <2>8. CASE StashPop(p)
    BY <2>1, <2>8 DEF PullState, StashPop, Goto
  <2>9. CASE Backup(p)
    BY <2>1, <2>9 DEF PullState, Backup, Goto, HEAD
  <2>10. CASE Reset(p)
    BY <2>1, <2>10 DEF PullState, Reset
  <2>11. CASE Record(p) \/ MailboxPush(p)
    BY <2>1, <2>11 DEF PullState, Record, MailboxPush, Goto, Idle
  <2> QED
    BY <1>1, <2>2, <2>3, <2>4, <2>5, <2>6, <2>7, <2>8, <2>9, <2>10, <2>11
       DEF GitPull
<1>2. CASE TickerStart
  BY <1>2 DEF TickerStart, Idle, TypeOK
<1>3. CASE \E s \in Submitters, c \in Self : WriteSelf(s, c)
  BY <1>3 DEF WriteSelf
<1>4. ASSUME NEW s \in Submitters, CommitSelf(s) PROVE LossInv'
  <2>1. phase = "boot" /\ pull[p].at = "idle"
    BY <1>4, TickerAlone DEF Alone, TickerAlone, CommitSelf, TypeOK
  <2> QED
    BY <1>4, <2>1 DEF CommitSelf
<1>5. CASE \E s \in Submitters : PushSelf(s)
  BY <1>5 DEF PushSelf
<1>6. CASE DaemonUp \/ Second
  BY <1>6 DEF DaemonUp, Second
<1>7. CASE Restart \/ Crash
  BY <1>7 DEF Restart, Crash, Forget, Idle
<1>8. CASE Environment
  BY <1>8 DEF Environment, UpstreamAdvance, MergeMailbox, Network, Credentials,
              Edit
<1>9. CASE UNCHANGED vars
  BY <1>9 DEF vars
<1> QED
  BY <1>1, <1>2, <1>3, <1>4, <1>5, <1>6, <1>7, <1>8, <1>9
     DEF Next, TickerAlone, SubmitSelf

\* On a node where only the tick pulls and only start-up submits, no commit made
\* on the branch is ever lost, for any commits, conflicts, outages, restarts and
\* host crashes: each is in main, in a backup ref or on origin.
THEOREM BranchNotLostAlone ==
  ASSUME TickerAlone
  PROVE  Spec => []BranchNotLost
<1>1. Init => LossInv
  BY DEF Init, LossInv, Idle
<1>2. TypeOK /\ Alone /\ LossInv /\ [Next]_vars => LossInv'
  BY LossStep
<1>3. LossInv => BranchNotLost
  BY DEF LossInv, BranchNotLost
<1> QED
  BY <1>1, <1>2, <1>3, AloneInvariant, PTL DEF Spec

\* Every way into the record step keeps the promise.
LEMMA OutcomeStep ==
  ASSUME TickerAlone, TypeOK, Alone, OutcomeInv, [Next]_vars
  PROVE  /\ OutcomeInv'
         /\ \A p \in Pullers : RecordsOk(p) => tracking \subseteq main
<1> USE DEF OutcomeInv, remote, links, branches, rebasing, tree, clock, agent,
            history
<1> DEFINE p == Ticker
<1>1. \A q \in Pullers : RecordsOk(q) => tracking \subseteq main
  <2> SUFFICES ASSUME NEW q \in Pullers, RecordsOk(q)
               PROVE  tracking \subseteq main
    OBVIOUS
  <2>1. q = p /\ pull \in [Pullers -> PullState]
    BY DEF TickerAlone, TypeOK
  <2>2. CASE GitPull(p)
    <3>1. Record(p)
      BY <2>1, <2>2 DEF GitPull, RecordsOk, Fetch, Measure, FastForward,
         RebaseClean, RebaseStops, RebaseRefused, Abort, StashPop, Backup, Reset,
         MailboxPush
    <3>2. pull[p].ok
      BY <2>1, <3>1 DEF Record, RecordsOk, Idle, PullState
    <3> QED
      BY <2>1, <3>1, <3>2 DEF Record
  <2>3. CASE ~GitPull(p)
    <3>1. pull' = pull \/ pull'[p].at \in {"idle", "fetch"}
      BY <2>1, <2>3 DEF Next, TickerAlone, TickerStart, WriteSelf, SubmitSelf,
         CommitSelf, PushSelf, DaemonUp, Second, Restart, Crash, Forget, Idle,
         Environment, UpstreamAdvance, MergeMailbox, Network, Credentials, Edit,
         vars
    <3> QED
      BY <2>1, <3>1 DEF RecordsOk
  <2> QED
    BY <2>2, <2>3
<1> SUFFICES OutcomeInv'
  BY <1>1
<1>2. ASSUME GitPull(p) PROVE OutcomeInv'
  <2>1. /\ LockOutcomes(p) = {FALSE}
        /\ pull \in [Pullers -> PullState]
    BY <1>2, NeverBusy, GitPullFrame DEF TypeOK
  <2>2. CASE Fetch(p) \/ Measure(p) \/ RebaseStops(p) \/ RebaseRefused(p)
    BY <2>1, <2>2 DEF PullState, Fetch, Measure, RebaseStops, RebaseRefused,
                      Goto
  <2>3. CASE FastForward(p)
    BY <2>1, <2>3 DEF PullState, FastForward, PullFetches, Fetches,
                      CanFastForward, Goto
  <2>4. CASE RebaseClean(p)
    BY <2>1, <2>4 DEF PullState, RebaseClean
  <2>5. CASE Abort(p) \/ StashPop(p) \/ Backup(p)
    BY <2>1, <2>5 DEF PullState, Abort, StashPop, Backup, Goto
  <2>6. CASE Reset(p)
    BY <2>1, <2>6 DEF PullState, Reset
  <2>7. CASE Record(p) \/ MailboxPush(p)
    BY <2>1, <2>7 DEF PullState, Record, MailboxPush, Goto, Idle
  <2> QED
    BY <1>2, <2>2, <2>3, <2>4, <2>5, <2>6, <2>7 DEF GitPull
<1>3. CASE TickerStart
  BY <1>3 DEF TickerStart, Idle, TypeOK
<1>4. CASE \E s \in Submitters :
             (\E c \in Self : WriteSelf(s, c)) \/ SubmitSelf(s)
  BY <1>4 DEF WriteSelf, SubmitSelf, CommitSelf, PushSelf
<1>5. CASE DaemonUp \/ Second
  BY <1>5 DEF DaemonUp, Second
<1>6. CASE Restart \/ Crash
  BY <1>6 DEF Restart, Crash, Forget, Idle
<1>7. CASE Environment
  BY <1>7 DEF Environment, UpstreamAdvance, MergeMailbox, Network, Credentials,
              Edit
<1>8. CASE UNCHANGED vars
  BY <1>8 DEF vars
<1> QED
  BY <1>2, <1>3, <1>4, <1>5, <1>6, <1>7, <1>8 DEF Next, TickerAlone

\* While only the tick pulls, every pull recorded as a success leaves main with
\* all the node knows of origin's main, whatever crashes came before.
THEOREM OkMeansAtUpstreamAlone ==
  ASSUME TickerAlone
  PROVE  Spec => OkMeansAtUpstream
<1>1. Init => OutcomeInv
  BY DEF Init, OutcomeInv, Idle
<1>2. TypeOK /\ Alone /\ OutcomeInv /\ [Next]_vars =>
        /\ OutcomeInv'
        /\ [\A p \in Pullers : RecordsOk(p) => tracking \subseteq main]_vars
  BY OutcomeStep
<1> QED
  BY <1>1, <1>2, AloneInvariant, PTL DEF Spec, OkMeansAtUpstream

\* Only a rebase command starts a rebase, and abort comes after it.
LEMMA UnwedgedStep ==
  ASSUME TickerAlone, TypeOK, Alone, UnwedgedInv, [Next]_vars
  PROVE  UnwedgedInv'
<1> USE DEF UnwedgedInv, remote, links, branches, rebasing, tree, clock, agent,
            history
<1> DEFINE p == Ticker
<1>1. ASSUME GitPull(p) PROVE UnwedgedInv'
  <2>1. /\ LockOutcomes(p) = {FALSE}
        /\ pull \in [Pullers -> PullState]
    BY <1>1, NeverBusy, GitPullFrame DEF TypeOK
  <2>2. CASE Fetch(p) \/ Measure(p) \/ RebaseStops(p) \/ RebaseRefused(p)
    BY <2>1, <2>2 DEF PullState, Fetch, Measure, RebaseStops, RebaseRefused,
                      Goto
  <2>3. CASE FastForward(p)
    BY <2>1, <2>3 DEF PullState, FastForward, CanFastForward, Goto
  <2>4. CASE RebaseClean(p)
    <3>1. <<[edits |-> wt, base |-> main]>> \o stash # <<>>
      BY DEF TypeOK
    <3> QED
      BY <2>1, <2>4, <3>1 DEF PullState, RebaseClean, CanRebase
  <2>5. CASE Abort(p) \/ StashPop(p) \/ Backup(p)
    BY <2>1, <2>5 DEF PullState, Abort, StashPop, Backup, Goto
  <2>6. CASE Reset(p)
    BY <2>1, <2>6 DEF PullState, Reset
  <2>7. CASE Record(p) \/ MailboxPush(p)
    BY <2>1, <2>7 DEF PullState, Record, MailboxPush, Goto, Idle
  <2> QED
    BY <1>1, <2>2, <2>3, <2>4, <2>5, <2>6, <2>7 DEF GitPull
<1>2. CASE TickerStart
  BY <1>2 DEF TickerStart, Idle, TypeOK
<1>3. CASE \E s \in Submitters :
             (\E c \in Self : WriteSelf(s, c)) \/ SubmitSelf(s)
  BY <1>3 DEF WriteSelf, SubmitSelf, CommitSelf, PushSelf
<1>4. CASE DaemonUp \/ Second
  BY <1>4 DEF DaemonUp, Second
<1>5. CASE Restart \/ Crash
  BY <1>5 DEF Restart, Crash, Forget, Idle
<1>6. CASE Environment
  BY <1>6 DEF Environment, UpstreamAdvance, MergeMailbox, Network, Credentials,
              Edit
<1>7. CASE UNCHANGED vars
  BY <1>7 DEF vars
<1> QED
  BY <1>1, <1>2, <1>3, <1>4, <1>5, <1>6, <1>7 DEF Next, TickerAlone

\* While only the tick pulls, every pull that ends has ended the rebase it
\* found or started, host crashes in the middle of one included.
THEOREM PullUnwedgesAlone ==
  ASSUME TickerAlone
  PROVE  Spec => []PullUnwedges
<1>1. Init => UnwedgedInv
  BY DEF Init, UnwedgedInv, Idle
<1>2. TypeOK /\ Alone /\ UnwedgedInv /\ [Next]_vars => UnwedgedInv'
  BY UnwedgedStep
<1>3. UnwedgedInv => PullUnwedges
  BY TickerAlone DEF TickerAlone, UnwedgedInv, PullUnwedges
<1> QED
  BY <1>1, <1>2, <1>3, AloneInvariant, PTL DEF Spec

=============================================================================
