----------------------------- MODULE HostFiles ------------------------------
(***************************************************************************)
(* One machine's files and the recipe that keeps editing them.  A recipe   *)
(* is a sequence of steps; a step calls a function of functionlib or one   *)
(* of the universal step types that translate.go, netmount.go and          *)
(* translateMount turn into a shell command.  The apply loop runs the same *)
(* recipe again and again, and a run may be killed anywhere: by its ten    *)
(* minutes, by a restart of the agent, by the host.                        *)
(*                                                                         *)
(* A file is a sequence of lines; a line is a lead (what stands before the *)
(* match), the key a marker or a variable is looked up by, and a value.    *)
(* What is written to a file is made from what was read of it, and others  *)
(* may write to it in between.  os.WriteFile and cp then empty the file    *)
(* before they fill it; a rename, which is also what crontab does, puts    *)
(* the new one in its place.  An append is one step (O_APPEND); that it    *)
(* begins no line of its own where the last one has no end is left out.    *)
(* RecipeRun models the rest of the runner (filters, retries, attributes). *)
(***************************************************************************)
EXTENDS Naturals, Sequences

CONSTANTS
  Recipes,     \* the recipes a machine may be given
  Disks,       \* the files it may start from
  Privileges,  \* "sudo": passwordless; "pkexec": a dialog; "none"
  Inside,      \* pairs of texts, the first a part of the second
  MaxUpsets,   \* bound: events that disturb a run
  NoDisk

VARIABLES
  recipe,      \* the steps
  at, stage,   \* the step being run, 0 between runs, and how far it is
  nth,         \* which of its files or units
  held,        \* the content a write has made and has still to put down
  disk,        \* the files that exist
  net,         \* the network and what it reaches answer
  priv,        \* how the agent gets root
  upsets,
  clean,       \* history: nothing disturbed this run
  settled,     \* history: the last run went through undisturbed, nothing since
  before       \* history: the disk when a run began on a settled machine

fileVars == <<recipe, at, stage, nth, held, disk, net, priv, upsets, clean, settled, before>>
runVars  == <<recipe, at, nth, net, priv, upsets, clean, settled, before>>

Line(lead, key, val) == [lead |-> lead, key |-> key, val |-> val]
IsLine(l) == l = Line(l.lead, l.key, l.val)
Torn == <<>>

NoWrite == [path |-> "none", content |-> Torn, next |-> "none"]

Exists(p)  == p \in DOMAIN disk
Read(p)    == IF Exists(p) THEN disk[p] ELSE Torn
Put(p, c)  == [q \in DOMAIN disk \cup {p} |-> IF q = p THEN c ELSE disk[q]]

\* strings.Contains and grep -F: text occurs in the line
Occurs(text, line) ==
  \E t \in {line.key, line.val} : text = t \/ <<text, t>> \in Inside

FilesInit ==
  /\ recipe \in Recipes /\ disk \in Disks /\ priv \in Privileges /\ net \in BOOLEAN
  /\ at = 0 /\ stage = "begin" /\ nth = 1 /\ held = NoWrite
  /\ upsets = 0 /\ clean = TRUE /\ settled = FALSE /\ before = NoDisk

Step         == recipe[at]
On(fn, s)    == at # 0 /\ Step.fn = fn /\ stage = s
Go(s)        == stage' = s /\ UNCHANGED <<runVars, held>>
GoNth(s, n)  == /\ stage' = s /\ nth' = n
                /\ UNCHANGED <<recipe, at, net, priv, upsets, clean, settled, before, held>>

\* A run of the recipe begins.
RunStarts ==
  /\ at = 0 /\ at' = 1
  /\ before' = IF settled THEN disk ELSE NoDisk
  /\ UNCHANGED <<recipe, stage, nth, held, disk, net, priv, upsets, clean, settled>>

\* Mutant of StepEnds: the loop variable of one step is left to the next.
StepEndsMidLoop(ok) ==
  /\ stage' = "begin" /\ held' = NoWrite
  /\ UNCHANGED <<recipe, nth, net, priv, upsets>>
  /\ IF ok /\ at < Len(recipe)
     THEN at' = at + 1 /\ UNCHANGED <<clean, settled, before>>
     ELSE at' = 0 /\ settled' = (ok /\ clean) /\ clean' = TRUE /\ before' = NoDisk

\* The step is over.  One that returns an error ends the run (on_failure is
\* abort unless the step says otherwise).
StepEnds(ok) ==
  /\ stage' = "begin" /\ nth' = 1 /\ held' = NoWrite
  /\ UNCHANGED <<recipe, net, priv, upsets>>
  /\ IF ok /\ at < Len(recipe)
     THEN at' = at + 1 /\ UNCHANGED <<clean, settled, before>>
     ELSE at' = 0 /\ settled' = (ok /\ clean) /\ clean' = TRUE /\ before' = NoDisk

\* The content is made; it goes into the file by the stages from s on.
Holding(p, c, next, s) ==
  /\ held' = [path |-> p, content |-> c, next |-> next]
  /\ stage' = s /\ UNCHANGED <<disk, runVars>>

\* os.WriteFile, and cp: the file is empty until the content follows.
WriteFile(p, c, next) == Holding(p, c, next, "write")

\* atomicWrite: a sibling is written and renamed over the file.
AtomicWrite(p, c, next) == Holding(p, c, next, "install")

\* O_TRUNC
Truncate ==
  /\ stage = "write" /\ stage' = "fill"
  /\ disk' = Put(held.path, Torn) /\ UNCHANGED <<held, runVars>>

\* The write, or the rename.
Fill ==
  /\ stage \in {"fill", "install"}
  /\ disk' = Put(held.path, held.content)
  /\ IF held.next = "done" THEN StepEnds(TRUE)
     ELSE stage' = held.next /\ held' = NoWrite /\ UNCHANGED runVars

\* O_APPEND
Appends(p, line) == disk' = Put(p, Append(Read(p), line))

\* Something disturbs the run, or the machine between two runs.
Upset ==
  /\ upsets < MaxUpsets /\ upsets' = upsets + 1
  /\ settled' = FALSE /\ before' = NoDisk

KillRun ==
  /\ at # 0 /\ at' = 0 /\ stage' = "begin" /\ nth' = 1 /\ held' = NoWrite
  /\ Upset /\ clean' = TRUE /\ UNCHANGED <<recipe, disk, net, priv>>

Disturbed == Upset /\ clean' = (at = 0) /\ UNCHANGED <<recipe, at, stage, nth, held, priv>>

NetFlips == net' = ~net /\ Disturbed /\ UNCHANGED disk

\* The user appends a line to a file, or starts one, at any time.
UserEdits(p, line) ==
  /\ ~\E i \in DOMAIN Read(p) : Read(p)[i] = line
  /\ Appends(p, line) /\ Disturbed /\ UNCHANGED net

=============================================================================
