---------------------------- MODULE AtomicWrites ----------------------------
(***************************************************************************)
(* atomicWrite of stdlib_unit.go under those who call it: git-extract,     *)
(* which installs a program, and unit-repoint.  The data goes to a sibling *)
(* of a fixed name, <path>.gogitops-new, which is renamed over the file.   *)
(* A recipe's run may be killed between any two calls and leave the        *)
(* sibling behind; and nothing keeps two runs of it apart: the child of a  *)
(* daemon that was restarted goes on beside its successor's, an operator   *)
(* runs the recipe by hand.                                                *)
(*                                                                         *)
(* What is written is a sequence of chunks, each written by one write(2)   *)
(* at the offset of its writer; names lead to inodes.                      *)
(***************************************************************************)
EXTENDS Naturals, Sequences, FiniteSetsExt

CONSTANTS
  Blob,      \* what may be installed
  Size,      \* Size[b]: how many chunks b has
  Run,       \* runs of the recipe
  Overlap,   \* one may begin before the others are over
  MaxKills   \* bound: runs killed

ASSUME SizesAreNumbers == Size \in [Blob -> Nat \ {0}]

VARIABLES
  names,     \* names[n]: the inode of the file of name n; 0 if there is none
  data,      \* data[i]: the chunks in inode i
  run,       \* run[r]: where run r is, what it installs, the inode it has open
             \* and the chunks it has written
  kills

vars == <<names, data, run, kills>>

Name  == {"dest", "temp"}
Inode == 1..(Cardinality(Name) + Cardinality(Run))
Contents(b) == [k \in 1..Size[b] |-> b]

At(stage, b, i, n) == [stage |-> stage, blob |-> b, inode |-> i, wrote |-> n]
Idle(r) == run[r].stage = "idle"
Goes(r, to) == run' = [run EXCEPT ![r] = to]
Ends(r) == Goes(r, At("idle", run[r].blob, 0, 0))

\* An inode that no name and no open file leads to.
FreeInode == Min({i \in Inode : i \notin {names[n] : n \in Name} \cup {run[r].inode : r \in Run}})

Init ==
  /\ \E b \in Blob, there \in BOOLEAN :
       /\ names = [n \in Name |-> IF n = "dest" /\ there THEN 1 ELSE 0]
       /\ data = [i \in Inode |-> IF i = 1 /\ there THEN Contents(b) ELSE <<>>]
       /\ run = [r \in Run |-> At("idle", b, 0, 0)]
  /\ kills = 0

\* The function has what it is to install (git show).
Begin(r) ==
  /\ Idle(r) /\ (Overlap \/ \A q \in Run : Idle(q))
  /\ \E b \in Blob : Goes(r, At("open", b, 0, 0))
  /\ UNCHANGED <<names, data, kills>>

\* Mutant of Temp: the file itself is written.
TempIsDest == "dest"

\* path + ".gogitops-new"
Temp == "temp"

\* Mutant of Truncated: what a killed run left in the sibling stays.
TruncatedNot(i) == data[i]

Truncated(i) == <<>>

\* os.WriteFile opens the sibling: O_CREATE, O_TRUNC.
Open(r) ==
  /\ run[r].stage = "open"
  /\ LET i == IF names[Temp] # 0 THEN names[Temp] ELSE FreeInode
     IN  /\ names' = [names EXCEPT ![Temp] = i]
         /\ data' = [data EXCEPT ![i] = IF names[Temp] # 0 THEN Truncated(i) ELSE <<>>]
         /\ Goes(r, At("write", run[r].blob, i, 0))
  /\ UNCHANGED kills

\* Chunk k of content c becomes b; what lies before it and was never written is a
\* hole.
Overwritten(c, k, b) ==
  [j \in 1..Max({Len(c), k}) |-> IF j = k THEN b ELSE IF j <= Len(c) THEN c[j] ELSE "hole"]

Write(r) ==
  /\ run[r].stage = "write" /\ run[r].wrote < Size[run[r].blob]
  /\ LET k == run[r].wrote + 1
     IN  /\ data' = [data EXCEPT ![run[r].inode] = Overwritten(@, k, run[r].blob)]
         /\ Goes(r, [run[r] EXCEPT !.wrote = k])
  /\ UNCHANGED <<names, kills>>

Written(r) == run[r].stage = "write" /\ run[r].wrote = Size[run[r].blob]

\* os.Rename: of whatever has the sibling's name by now; none is an error.
Rename(r) ==
  /\ Written(r)
  /\ names' = IF names[Temp] # 0 /\ Temp # "dest" THEN [dest |-> names[Temp], temp |-> 0] ELSE names
  /\ Ends(r) /\ UNCHANGED <<data, kills>>

\* The run is killed, or the write returns an error (a full disk).
Kill(r) ==
  /\ ~Idle(r) /\ kills < MaxKills /\ kills' = kills + 1
  /\ Ends(r) /\ UNCHANGED <<names, data>>

Next == \E r \in Run : Begin(r) \/ Open(r) \/ Write(r) \/ Rename(r) \/ Kill(r)

Spec == Init /\ [][Next]_vars

(***************************************************************************)
(* Properties.                                                             *)
(***************************************************************************)
Live == IF names["dest"] = 0 THEN <<>> ELSE data[names["dest"]]

\* "never a partial in-place overwrite of a live unit or binary": those who execute
\* the file find it missing or whole, and it goes from whole to whole in one step.
Installed == INSTANCE AtomicFile WITH
  content <- Live, Missing <- <<>>, Whole <- {Contents(b) : b \in Blob}

BinaryIsAtomic == Installed!Spec

\* A run that returns leaves its own data in the file, whatever a killed one left in
\* the sibling.
RunsInstall ==
  [][\A r \in Run : Written(r) /\ Rename(r) => Live' = Contents(run[r].blob)]_vars

=============================================================================
