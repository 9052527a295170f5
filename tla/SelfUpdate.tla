----------------------------- MODULE SelfUpdate -----------------------------
(***************************************************************************)
(* The agent replaces its own binary: maybeSelfUpdate after every git tick *)
(* (internal/agent/update.go), the CLI's update -install, POST             *)
(* /v1/restart, and the service manager, on a node whose version policy    *)
(* and whose binaries branch change.                                       *)
(*                                                                         *)
(* A binary is the version compiled into it, the tag CI built it for.  A   *)
(* swap renames a complete temporary file over the old binary.  The node's *)
(* labels are those the daemon was started with.                           *)
(***************************************************************************)
EXTENDS VersionPins

CONSTANTS
  Releases,   \* the versions CI may publish
  First,      \* the one published and installed when we look first
  Policies,   \* the contents of versions.yaml and the recipes' overrides
  Labels,     \* the node's labels
  Faults      \* among "crash", "exec", "readonly" and "cli"

ASSUME ReleasesAreVersions == First \in Releases /\ Releases \subseteq Version
ASSUME PoliciesResolve ==
  \A policy \in Policies :
    ResolveUpdateTarget(policy, Labels) \in Version \cup {Latest}
ASSUME FaultsKnown == Faults \subseteq {"crash", "exec", "readonly", "cli"}

VARIABLES
  branch,    \* origin's binaries branch: VERSION, and the tags under versions/
  net,       \* origin can be reached
  tracked,   \* refs/remotes/origin/binaries
  policy,    \* versions.yaml and node_overrides in the checkout
  bin,       \* the binaries at ExecStart's path and in ~/.local/bin
  writable,  \* the directory of ExecStart's path can be written
  running,   \* the version of the running agent
  from,      \* the path it was started from (os.Executable)
  pc,        \* where maybeSelfUpdate is
  target,    \* the version it resolved
  got,       \* the binary it downloaded
  cli,       \* update -install has swapped and is about to ask for a restart
  moves      \* history: exec-restarts since the environment last changed

vars == <<branch, net, tracked, policy, bin, writable, running, from, pc,
          target, got, cli, moves>>

None  == Unset
Paths == {"system", "home"}
Steps == {"idle", "resolve", "pinned", "version", "download", "swap",
          "exec system", "exec home"}

Branch == [version : Releases, tags : SUBSET Releases]

TypeOK ==
  /\ branch \in Branch /\ tracked \in Branch
  /\ net \in BOOLEAN /\ writable \in BOOLEAN /\ cli \in BOOLEAN
  /\ policy \in Policies
  /\ bin \in [Paths -> Releases \cup {None}] /\ bin["system"] # None
  /\ running \in Releases \cup {None}
  /\ from \in Paths /\ (running # None => bin[from] # None)
  /\ pc \in Steps /\ (pc = "exec home" => bin["home"] # None)
  /\ target \in Version \cup {Latest, None}
  /\ got \in Releases \cup {None} /\ (pc = "swap" => got # None)
  /\ moves \in Nat

Init ==
  /\ branch = [version |-> First, tags |-> {First}] /\ tracked = branch
  /\ net = TRUE /\ policy \in Policies
  /\ bin = [p \in Paths |-> IF p = "system" THEN First ELSE None]
  /\ writable \in (IF "readonly" \in Faults THEN BOOLEAN ELSE {TRUE})
  /\ running = First /\ from = "system"
  /\ pc = "idle" /\ target = None /\ got = None
  /\ cli = FALSE /\ moves = 0

(***************************************************************************)
(* maybeSelfUpdate.                                                        *)
(***************************************************************************)
\* The call is over without a restart.
Return == pc' = "idle" /\ target' = None /\ got' = None

\* The binaries branch is fetched; without it there is nothing to do.
FetchBinaries ==
  /\ running # None /\ pc = "idle"
  /\ net
  /\ tracked' = branch
  /\ pc' = "resolve"
  /\ UNCHANGED <<branch, net, policy, bin, writable, running, from, target,
                 got, cli, moves>>

\* Mutant of Resolve: the pinned version is installed though it runs already.
ResolveAlways ==
  /\ pc = "resolve"
  /\ target' = ResolveUpdateTarget(policy, Labels)
  /\ pc' = IF target' = Latest THEN "version" ELSE "pinned"
  /\ UNCHANGED <<branch, net, tracked, policy, bin, writable, running, from,
                 got, cli, moves>>

\* The policy, read from the checkout as it is now.
Resolve ==
  /\ pc = "resolve"
  /\ LET wanted == ResolveUpdateTarget(policy, Labels) IN
     IF wanted = running
     THEN Return
     ELSE /\ target' = wanted /\ got' = got
          /\ pc' = IF wanted = Latest THEN "version" ELSE "pinned"
  /\ UNCHANGED <<branch, net, tracked, policy, bin, writable, running, from,
                 cli, moves>>

\* Mutant of ShowPinned: a pin is only ever an upgrade.
ShowPinnedUpgrades ==
  /\ pc = "pinned"
  /\ IF target \in tracked.tags /\ Below(running, target)
     THEN pc' = "swap" /\ got' = target /\ target' = target
     ELSE Return
  /\ UNCHANGED <<branch, net, tracked, policy, bin, writable, running, from,
                 cli, moves>>

\* Pinned: exactly that version, if the branch still has it.
ShowPinned ==
  /\ pc = "pinned"
  /\ IF target \in tracked.tags
     THEN pc' = "swap" /\ got' = target /\ target' = target
     ELSE Return
  /\ UNCHANGED <<branch, net, tracked, policy, bin, writable, running, from,
                 cli, moves>>

\* Unpinned: VERSION, when it is newer.
ShowVersion ==
  /\ pc = "version"
  /\ IF IsNewer(tracked.version, running)
     THEN pc' = "download" /\ UNCHANGED <<target, got>>
     ELSE Return
  /\ UNCHANGED <<branch, net, tracked, policy, bin, writable, running, from,
                 cli, moves>>

\* ... and then bin/, a second look at a ref that may have moved.
ShowBinary ==
  /\ pc = "download"
  /\ got' = tracked.version
  /\ pc' = "swap"
  /\ UNCHANGED <<branch, net, tracked, policy, bin, writable, running, from,
                 target, cli, moves>>

\* writeAndSwap over the binary the agent was started from.
SwapInPlace ==
  /\ pc = "swap"
  /\ from = "home" \/ writable
  /\ bin' = [bin EXCEPT ![from] = got]
  /\ pc' = IF from = "home" THEN "exec home" ELSE "exec system"
  /\ UNCHANGED <<branch, net, tracked, policy, writable, running, from,
                 target, got, cli, moves>>

\* Mutant of SwapFallback: the complete temporary file is never renamed.
SwapFallbackUnrenamed ==
  /\ pc = "swap"
  /\ from = "system" /\ ~writable
  /\ pc' = "exec home"
  /\ UNCHANGED <<branch, net, tracked, policy, bin, writable, running, from,
                 target, got, cli, moves>>

\* Its directory cannot be written: ~/.local/bin/gogitops takes over.
SwapFallback ==
  /\ pc = "swap"
  /\ from = "system" /\ ~writable
  /\ bin' = [bin EXCEPT !["home"] = got]
  /\ pc' = "exec home"
  /\ UNCHANGED <<branch, net, tracked, policy, writable, running, from,
                 target, got, cli, moves>>

\* The process becomes the binary at that path.
Become(path) ==
  /\ running' = bin[path] /\ from' = path
  /\ Return

\* ... or syscall.Exec fails and it exits with status 0, and the unit's
\* Restart=on-failure leaves it down.
ExitsZero ==
  /\ "exec" \in Faults
  /\ running' = None /\ from' = from
  /\ Return

\* The restart that ends a swap.
ExecRestart(path) ==
  /\ pc = (IF path = "home" THEN "exec home" ELSE "exec system")
  /\ Become(path)
  /\ moves' = moves + 1
  /\ UNCHANGED <<branch, net, tracked, policy, bin, writable, cli>>

SelfUpdating ==
  \/ FetchBinaries \/ Resolve
  \/ ShowPinned \/ ShowVersion \/ ShowBinary
  \/ SwapInPlace \/ SwapFallback
  \/ \E path \in Paths : ExecRestart(path)

(***************************************************************************)
(* The rest of the node.                                                   *)
(***************************************************************************)
\* The restart after a swap fails.
ExecFails ==
  /\ pc \in {"exec system", "exec home"}
  /\ ExitsZero
  /\ moves' = 0
  /\ UNCHANGED <<branch, net, tracked, policy, bin, writable, cli>>

\* The agent dies, or the host reboots, or an operator starts the service:
\* the service manager runs ExecStart's path.
ServiceStart ==
  /\ "crash" \in Faults \/ running = None
  /\ Become("system")
  /\ moves' = 0
  /\ UNCHANGED <<branch, net, tracked, policy, bin, writable, cli>>

\* gogitops update -install, run from either path: it fetches, compares with
\* its own version and swaps its own binary; its target is always "latest",
\* since the resolved one is shadowed.
CliInstall(path) ==
  /\ "cli" \in Faults
  /\ ~cli /\ bin[path] # None
  /\ tracked' = IF net THEN branch ELSE tracked
  /\ IsNewer(tracked'.version, bin[path])
  /\ bin' = IF path = "home" \/ writable
            THEN [bin EXCEPT ![path] = tracked'.version]
            ELSE [bin EXCEPT !["home"] = tracked'.version]
  /\ cli' = TRUE
  /\ moves' = 0
  /\ UNCHANGED <<branch, net, policy, writable, running, from, pc, target, got>>

\* ... then it asks the agent to restart: RestartHandler execs the path the
\* agent was started from.
CliRestart ==
  /\ cli
  /\ cli' = FALSE
  /\ IF running = None
     THEN UNCHANGED <<running, from, pc, target, got>>
     ELSE Become(from) \/ ExitsZero
  /\ moves' = 0
  /\ UNCHANGED <<branch, net, tracked, policy, bin, writable>>

(***************************************************************************)
(* Outside the node.                                                       *)
(***************************************************************************)
\* CI publishes a tag and keeps the earlier ones (build.yml).
Publish(v) ==
  /\ v \in Releases /\ v # branch.version
  /\ branch' = [version |-> v, tags |-> branch.tags \cup {v}]
  /\ moves' = 0
  /\ UNCHANGED <<net, tracked, policy, bin, writable, running, from, pc,
                 target, got, cli>>

\* A pull brings other pins.
PolicyChange ==
  /\ policy' \in Policies \ {policy}
  /\ moves' = 0
  /\ UNCHANGED <<branch, net, tracked, bin, writable, running, from, pc,
                 target, got, cli>>

Network ==
  /\ net' = ~net
  /\ UNCHANGED <<branch, tracked, policy, bin, writable, running, from, pc,
                 target, got, cli, moves>>

Environment ==
  \/ ExecFails \/ ServiceStart
  \/ \E path \in Paths : CliInstall(path)
  \/ CliRestart
  \/ \E v \in Releases : Publish(v)
  \/ PolicyChange

Next == SelfUpdating \/ Environment \/ Network

Spec == Init /\ [][Next]_vars

\* The git tick keeps coming and maybeSelfUpdate runs to its end.
FairSpec == Spec /\ WF_vars(SelfUpdating)

(***************************************************************************)
(* Properties.                                                             *)
(***************************************************************************)
\* Between two changes of the policy, the branch or the service the agent
\* restarts itself at most twice: a tick that resolved the old state may still
\* finish, and the next one corrects it.  No pin, downgrade or read-only
\* directory makes the agent swap itself in a circle.
RestartsSettle == moves <= 2

\* The version the policy wants, as far as the branch has it.
OnTarget ==
  LET wanted == ResolveUpdateTarget(policy, Labels) IN
  /\ running # None
  /\ wanted = Latest => ~IsNewer(branch.version, running)
  /\ wanted \in branch.tags => running = wanted

\* Once origin stays reachable and nothing else changes, the agent reaches the
\* version the policy names and stays on it, a crash that took it back to an
\* old system binary and a fallback to ~/.local/bin included.
ReachesTarget ==
  <>[](net /\ running # None) /\ <>[][Environment => SelfUpdating]_vars
    => <>[]OnTarget

\* A node that tracks the published VERSION is only ever moved up by its agent
\* (versionpins.go: "latest ... track the binaries-branch VERSION, upgrades
\* only").
UpgradesOnly ==
  [][\A path \in Paths :
       ExecRestart(path) /\ target = Latest => ~Below(running', running)]_vars

=============================================================================
