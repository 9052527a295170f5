---------------------------- MODULE MeshIdentity ----------------------------
(***************************************************************************)
(* Who a machine is (internal/config/identity.go and config.go, called at  *)
(* the start of runDaemon).  A machine starts under the name its system or *)
(* its flags give it.  A nodes/<name>.yaml settles the matter; without one *)
(* the machine looks for itself in mesh.d by machine-id, then by built-in  *)
(* MAC, and either takes the entry's name or registers.  It then refreshes *)
(* its entry and force-pushes its checkout to a mailbox branch that a      *)
(* human merges.                                                           *)
(*                                                                         *)
(* Each machine works on its own checkout: what others registered reaches  *)
(* it only through main.  How a checkout converges is GitConvergence's     *)
(* matter; here a pull is its result, file by file.  Addresses and labels  *)
(* are left out: no choice made here depends on them.                      *)
(***************************************************************************)
EXTENDS Naturals, FiniteSets

CONSTANTS
  Machine,
  Name,        \* host names, numbered in the order of their file names
  Id,          \* Id[m]: machine m's machine-id, or NoId
  NoId,
  BuiltIn,     \* BuiltIn[m]: the MACs of m's own interfaces
  Dongle,      \* MACs of USB adapters, which move between machines
  Dock,        \* MACs of docks, which move too but do not look like USB
  NameOf,      \* NameOf[m]: the names m may be given
  Legacy,      \* Legacy[h]: the entry of h in the legacy mesh.yaml, or NoEntry
  NoEntry, NoNode, Down,
  MaxStarts, MaxChanges   \* bounds: daemon starts; moves, renames, declarations

ASSUME NamesAreNumbered == Name = 1..Cardinality(Name) /\ Cardinality(Name) \in Nat

VARIABLES
  host,        \* each machine's name and what is plugged into it
  main,        \* origin's main: per name, the mesh.d and the nodes file
  checkout,    \* each machine's working copy
  base,        \* each machine's origin/main, as of its last pull
  mailbox,     \* the branch node/<name>: whose push, and the files it changes
  merged,      \* the latest start of each machine that main has merged
  as,          \* the name each daemon runs as, or Down
  starts, changes,
  writers,     \* history: the machines that pushed each mailbox
  calm,        \* history: nothing m's start reads has changed since its last one
  dropped      \* history: a clone was replaced before its entry was merged

vars == <<host, main, checkout, base, mailbox, merged, as, starts, changes,
          writers, calm, dropped>>

Mac   == (UNION {BuiltIn[m] : m \in Machine}) \cup Dongle \cup Dock
Ids   == {Id[m] : m \in Machine} \cup {NoId}
\* mesh.d/<name>.yaml and nodes/<name>.yaml
Entry == [id : Ids, macs : SUBSET Mac, portable : SUBSET Mac]
Node  == [id : Ids, portable : SUBSET Mac]
File  == [mesh : Entry \cup {NoEntry}, node : Node \cup {NoNode}]

\* A machine has names it may be given, a dongle is seen to be one, and mesh.yaml
\* holds entries.
ASSUME FleetKnown ==
  /\ \A m \in Machine : NameOf[m] \subseteq Name /\ Dongle \cap (BuiltIn[m] \cup Dock) = {}
  /\ \A h \in Name : Legacy[h] \in Entry \cup {NoEntry}
  /\ NoEntry \notin Entry /\ NoNode \notin Node /\ Down \notin Name \cup Machine
  /\ MaxStarts \in Nat /\ MaxChanges \in Nat

NoFile == [mesh |-> NoEntry, node |-> NoNode]

Clear(c) == \A h \in Name : c[h].mesh # NoEntry =>
              c[h].mesh.macs \cap c[h].mesh.portable = {}

\* A MAC is never both identity and portable in one entry.
TypeOK ==
  /\ \A m \in Machine : /\ host[m].name \in NameOf[m]
                        /\ host[m].plugged \subseteq Dongle \cup Dock
                        /\ checkout[m] \in [Name -> File] /\ Clear(checkout[m])
                        /\ base[m] \in [Name -> File] /\ as[m] \in Name \cup {Down}
                        /\ merged[m] \in 0..MaxStarts /\ calm[m] \in BOOLEAN
  /\ main \in [Name -> File] /\ Clear(main)
  /\ \A h \in Name : /\ mailbox[h].at \in 0..MaxStarts
                     /\ DOMAIN mailbox[h].files \subseteq Name
                     /\ writers[h] \subseteq Machine
  /\ starts \in 0..MaxStarts /\ changes \in 0..MaxChanges /\ dropped \in BOOLEAN

\* A fleet before its first daemon: some of the legacy mesh.yaml's machines
\* have a hand-written nodes file, each dongle and dock is plugged in somewhere.
Init ==
  /\ host \in [Machine -> [name : Name, plugged : SUBSET (Dongle \cup Dock)]]
  /\ \A m \in Machine : host[m].name \in NameOf[m]
  /\ \A mac \in Dongle \cup Dock : Cardinality({m \in Machine : mac \in host[m].plugged}) = 1
  /\ \E written \in SUBSET {h \in Name : Legacy[h] # NoEntry} :
       main = [h \in Name |-> IF h \in written
                 THEN [NoFile EXCEPT !.node = [id |-> NoId, portable |-> {}]]
                 ELSE NoFile]
  /\ checkout = [m \in Machine |-> main] /\ base = checkout
  /\ mailbox = [h \in Name |-> [by |-> Down, at |-> 0, files |-> << >>]]
  /\ merged = [m \in Machine |-> 0] /\ as = [m \in Machine |-> Down]
  /\ starts = 0 /\ changes = 0 /\ dropped = FALSE
  /\ writers = [h \in Name |-> {}] /\ calm = [m \in Machine |-> FALSE]

(***************************************************************************)
(* The files, and matching a machine against them.                         *)
(***************************************************************************)
\* DetectNICs: sysfs tells a dongle from a built-in interface, not a dock.
DetectNICs(m) == [macs     |-> BuiltIn[m] \cup (host[m].plugged \cap Dock),
                  portable |-> host[m].plugged \cap Dongle]

\* LoadMesh: mesh.d first, the legacy file for names without an entry there.
LoadMesh(c) == [h \in Name |-> IF c[h].mesh # NoEntry THEN c[h].mesh ELSE Legacy[h]]
Peers(c)    == {h \in Name : LoadMesh(c)[h] # NoEntry}

\* The first of the peers in LoadMesh's order: mesh.d, then the legacy file.
First(c, S) ==
  LET ahead == {h \in S : c[h].mesh # NoEntry}
      T     == IF ahead # {} THEN ahead ELSE S
  IN  CHOOSE h \in T : \A k \in T : h <= k

ById(c, m) == {h \in Peers(c) : Id[m] # NoId /\ LoadMesh(c)[h].id = Id[m]}

\* Mutant of ByMac: a differing machine-id does not rule a peer out.
ByMacAlone(c, m) ==
  {h \in Peers(c) : DetectNICs(m).macs \cap LoadMesh(c)[h].macs # {}}

\* Built-in MACs only, and never a peer with another machine-id.
ByMac(c, m) ==
  {h \in Peers(c) : /\ DetectNICs(m).macs \cap LoadMesh(c)[h].macs # {}
                    /\ \/ Id[m] = NoId
                       \/ LoadMesh(c)[h].id \in {NoId, Id[m]}}

FindPeerByIdentity(c, m) == IF ById(c, m) # {} THEN ById(c, m) ELSE ByMac(c, m)

\* Mutant of Refreshed: what is portable is not taken out of the identity set.
RefreshedWhole(e, nic, id) ==
  [id |-> IF e.id = NoId THEN id ELSE e.id,
   macs |-> e.macs \cup nic.macs, portable |-> e.portable \cup nic.portable]

\* An entry with the interfaces detected and the id filled in, never replaced.
Refreshed(e, nic, id) ==
  LET portable == e.portable \cup nic.portable
  IN  [id |-> IF e.id = NoId THEN id ELSE e.id,
       macs |-> (e.macs \cup nic.macs) \ portable, portable |-> portable]

\* saveOwnMeshEntry of the entry that loadOwnMeshEntry finds for h, if any.
Refresh(c, h, nic, id) ==
  IF h \in Peers(c)
  THEN [c EXCEPT ![h].mesh = Refreshed(LoadMesh(c)[h], nic, id)] ELSE c

\* A new machine's two files: autoRegisterWith, then registerToMesh.
Register(c, m) ==
  LET h   == host[m].name
      nic == DetectNICs(m)
      own == [id |-> Id[m], macs |-> nic.macs, portable |-> nic.portable]
      new == [c EXCEPT ![h].node = [id |-> Id[m], portable |-> nic.portable]]
  IN  IF h \in Peers(c) THEN Refresh(new, h, nic, Id[m])
      ELSE [new EXCEPT ![h].mesh = own]

(***************************************************************************)
(* A daemon's start.                                                       *)
(***************************************************************************)
\* Mutant of RunsAs: a known machine keeps the name it was started with.
RunsAsStarted(c, m) == host[m].name

\* The name whose files LoadNode gives the daemon.
RunsAs(c, m) ==
  IF c[host[m].name].node = NoNode /\ FindPeerByIdentity(c, m) # {}
  THEN First(c, FindPeerByIdentity(c, m)) ELSE host[m].name

\* LoadNode: the checkout after it.
LoadNode(c, m) ==
  CASE c[host[m].name].node # NoNode -> c
    [] c[host[m].name].node = NoNode /\ RunsAs(c, m) # host[m].name ->
         Refresh(c, RunsAs(c, m), DetectNICs(m), Id[m])
    [] c[host[m].name].node = NoNode /\ RunsAs(c, m) = host[m].name ->
         IF host[m].name \in FindPeerByIdentity(c, m)
         THEN Refresh(c, host[m].name, DetectNICs(m), Id[m]) ELSE Register(c, m)

\* The node configuration as loaded; built from what was detected when the
\* matched peer has no nodes file.
Config(c, m) ==
  IF c[RunsAs(c, m)].node # NoNode THEN c[RunsAs(c, m)].node
  ELSE [id |-> Id[m], portable |-> DetectNICs(m).portable]

\* Mutant of SyncSelfToMesh: the node file's declared MACs are not passed on.
SyncUndeclared(c, m, node) ==
  Refresh(c, host[m].name, DetectNICs(m), IF Id[m] # NoId THEN Id[m] ELSE node.id)

\* SyncSelfToMesh, as runDaemon calls it: under the name the daemon was started
\* with, whatever name it runs as.
SyncSelfToMesh(c, m, node) ==
  Refresh(c, host[m].name,
          [DetectNICs(m) EXCEPT !.portable = @ \cup node.portable],
          IF Id[m] # NoId THEN Id[m] ELSE node.id)

Changed(c, b) == {h \in Name : c[h] # b[h]}

\* push --force HEAD:node/<h>
Pushed(box, h, m, c, b, at) ==
  [box EXCEPT ![h] = [by |-> m, at |-> at,
                      files |-> [k \in Changed(c, b) |-> c[k]]]]

\* SubmitSelfFiles for h: nothing when nothing of h is staged.
Submitted(box, h, m, before, after, at) ==
  IF after[h] = before[h] THEN box ELSE Pushed(box, h, m, after, base[m], at)

\* runDaemon up to SyncSelfToMesh.  A push that fails leaves the commit to the
\* next pull's retry.
Start(m) ==
  LET c0 == checkout[m]
      c1 == LoadNode(c0, m)
      c2 == SyncSelfToMesh(c1, m, Config(c0, m))
      n  == RunsAs(c0, m)
      at == starts + 1
      b1 == Submitted(mailbox, n, m, c0, c1, at)
      b2 == Submitted(b1, host[m].name, m, c1, c2, at)
  IN  /\ starts < MaxStarts /\ starts' = at
      /\ as' = [as EXCEPT ![m] = n]
      /\ checkout' = [checkout EXCEPT ![m] = c2]
      /\ mailbox' \in {mailbox, b1, b2}
      /\ writers' = [h \in Name |-> IF mailbox'[h] # mailbox[h]
                                    THEN writers[h] \cup {m} ELSE writers[h]]
      /\ calm' = [calm EXCEPT ![m] = TRUE]
      /\ UNCHANGED <<host, main, base, merged, changes, dropped>>

(***************************************************************************)
(* Between starts.                                                         *)
(***************************************************************************)
\* The files a rebase of m's commits onto main gives: m's own changes on top.
Rebased(m) ==
  [h \in Name |->
    [mesh |-> IF checkout[m][h].mesh # base[m][h].mesh
              THEN checkout[m][h].mesh ELSE main[h].mesh,
     node |-> IF main[h].node = NoNode /\ base[m][h].node = NoNode
              THEN checkout[m][h].node ELSE main[h].node]]

\* m and main both changed an entry: a squashed merge of m's own earlier push
\* conflicts with the commits it came from, and gitPull resets.
Conflicts(m) ==
  \E h \in Name : /\ checkout[m][h].mesh # base[m][h].mesh
                  /\ main[h].mesh \notin {base[m][h].mesh, checkout[m][h].mesh}

\* gitPull, and pushMailboxRetry under the name of the loaded configuration.
Pull(m) ==
  /\ as[m] # Down
  /\ \E c \in {Rebased(m)} \cup (IF Conflicts(m) THEN {main} ELSE {}) :
       /\ checkout' = [checkout EXCEPT ![m] = c]
       /\ calm' = [calm EXCEPT ![m] = @ /\ c = checkout[m]]
       /\ IF c = main THEN UNCHANGED <<mailbox, writers>>
          ELSE /\ mailbox' = Pushed(mailbox, as[m], m, c, main, starts)
               /\ writers' = [writers EXCEPT ![as[m]] = @ \cup {m}]
  /\ base' = [base EXCEPT ![m] = main]
  /\ <<checkout, base, mailbox>>' # <<checkout, base, mailbox>>
  /\ UNCHANGED <<host, main, merged, as, starts, changes, dropped>>

\* A human merges the pull request of node/<h>; of several pushes of a machine
\* the earlier ones are then ancestors of main.
MergeMailbox(h) ==
  LET box == mailbox[h] IN
  /\ box.by # Down /\ box.at > merged[box.by]
  /\ main' = [k \in Name |->
       IF k \notin DOMAIN box.files THEN main[k]
       ELSE [mesh |-> box.files[k].mesh,
             node |-> IF main[k].node = NoNode THEN box.files[k].node
                      ELSE main[k].node]]
  /\ merged' = [merged EXCEPT ![box.by] = box.at]
  /\ UNCHANGED <<host, checkout, base, mailbox, as, starts, changes, writers,
                 calm, dropped>>

Change == changes < MaxChanges /\ changes' = changes + 1

\* A human declares a MAC portable in nodes/<h>.yaml on main.
Declare(h, mac) ==
  /\ Change /\ main[h].node # NoNode /\ mac \notin main[h].node.portable
  /\ main' = [main EXCEPT ![h].node.portable = @ \cup {mac}]
  /\ UNCHANGED <<host, checkout, base, mailbox, merged, as, starts, writers,
                 calm, dropped>>

\* A dongle or a dock moves to m.
Plug(m, mac) ==
  /\ Change /\ mac \notin host[m].plugged
  /\ host' = [n \in Machine |-> [host[n] EXCEPT !.plugged =
                IF n = m THEN @ \cup {mac} ELSE @ \ {mac}]]
  /\ calm' = [n \in Machine |-> calm[n] /\ host'[n] = host[n]]
  /\ UNCHANGED <<main, checkout, base, mailbox, merged, as, starts, writers,
                 dropped>>

\* m's system name changes; its daemon meets the new one at its next start.
Rename(m, h) ==
  /\ Change /\ h \in NameOf[m] \ {host[m].name}
  /\ host' = [host EXCEPT ![m].name = h]
  /\ calm' = [calm EXCEPT ![m] = FALSE]
  /\ UNCHANGED <<main, checkout, base, mailbox, merged, as, starts, writers,
                 dropped>>

\* m's clone is made anew from origin.
Reclone(m) ==
  /\ Change /\ checkout[m] # main
  /\ checkout' = [checkout EXCEPT ![m] = main]
  /\ base' = [base EXCEPT ![m] = main]
  /\ dropped' = (dropped \/ \E h \in Name : /\ checkout[m][h].mesh # NoEntry
                                            /\ main[h].mesh = NoEntry)
  /\ as' = [as EXCEPT ![m] = Down] /\ calm' = [calm EXCEPT ![m] = FALSE]
  /\ UNCHANGED <<host, main, mailbox, merged, starts, writers>>

Next ==
  \/ \E m \in Machine : \/ Start(m) \/ Pull(m) \/ Reclone(m)
                        \/ \E mac \in Dongle \cup Dock : Plug(m, mac)
                        \/ \E h \in Name : Rename(m, h)
  \/ \E h \in Name : MergeMailbox(h) \/ \E mac \in Dock : Declare(h, mac)

Spec == Init /\ [][Next]_vars

(***************************************************************************)
(* Properties.                                                             *)
(***************************************************************************)
\* submitMeshFile force-pushes because "a submission mailbox [is] owned by
\* exactly one writer".  No two machines with names of their own and
\* machine-ids ever push one mailbox, whatever docks they shared and however
\* old the checkouts they matched themselves in.
SingleWriter == \A h \in Name : Cardinality(writers[h]) <= 1

\* A machine that checks in under a new name finds the entry it had, so main
\* never lists one machine-id twice, unless a clone was thrown away with an
\* enrollment still in its mailbox.
OneEntryPerMachine ==
  LET Listed(id) == {h \in Name : main[h].mesh # NoEntry /\ main[h].mesh.id = id}
  IN  dropped \/ \A id \in Ids \ {NoId} : Cardinality(Listed(id)) <= 1

\* The node file's portable_macs "override sysfs USB detection - they move OUT
\* of the identity set": once a daemon that runs under the name it was started
\* with has started, no MAC its node file declares portable is in the identity
\* set of its entry.
DeclaredIsPortableByName ==
  \A m \in Machine :
    LET c == checkout[m] IN
    calm[m] /\ as[m] = host[m].name /\ as[m] \in Peers(c) /\ c[as[m]].node # NoNode
      => LoadMesh(c)[as[m]].macs \cap c[as[m]].node.portable = {}

\* A machine whose id is listed runs under that listing's name, whatever name
\* it was started with, as soon as its checkout shows it the entry.
RunsAsListed ==
  \A m \in Machine, h \in Name :
    calm[m] /\ ~dropped /\ checkout[m][h].mesh # NoEntry /\ Id[m] # NoId
      => (checkout[m][h].mesh.id = Id[m] => as[m] = h)

(***************************************************************************)
(* The fleets the theorems are about.                                      *)
(***************************************************************************)
\* Machines with machine-ids and names of their own, none of which a legacy entry
\* of another's name could be taken for.
MachinesDiffer ==
  /\ \A m \in Machine : Id[m] # NoId
  /\ \A m, n \in Machine : m # n => Id[m] # Id[n] /\ NameOf[m] \cap NameOf[n] = {}
  /\ \A m \in Machine : \A h \in Name \ NameOf[m] : Legacy[h] # NoEntry =>
       Legacy[h].id # Id[m] /\ Legacy[h].macs \cap (BuiltIn[m] \cup Dock) = {}

\* At most one of a machine's names is in the legacy mesh.yaml, with the
\* machine's id or with one of its built-in MACs.
LegacyIsKnown ==
  \A m \in Machine : \A h \in NameOf[m] : Legacy[h] # NoEntry =>
    /\ \A k \in NameOf[m] : Legacy[k] # NoEntry => k = h
    /\ Legacy[h].id = Id[m] \/ Legacy[h].macs \cap BuiltIn[m] # {}

=============================================================================
