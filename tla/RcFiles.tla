------------------------------ MODULE RcFiles -------------------------------
(***************************************************************************)
(* Files that are the user's, in which a recipe keeps a line of its own:   *)
(* shell rc files (stdlib_rc.go), the crontab (translateSchedule) and this *)
(* node's labels in nodes/<hostname>.yaml (ApplySelfTags).  A yaml file is *)
(* its top-level keys in order, each with its list.                        *)
(***************************************************************************)
EXTENDS HostFiles, SequencesExt, FiniteSets

Some(s, P(_)) == \E i \in DOMAIN s : P(s[i])

\* The elements of s at the indices of I, in order.
Those(s, I) ==
  [k \in 1..Cardinality(I) |-> s[CHOOSE i \in I : Cardinality({j \in I : j <= i}) = k]]

\* system.rc-line
RcLine ==
  /\ On("rc-line", "begin")
  /\ IF Some(Read(Step.file), LAMBDA l : Occurs(Step.marker, l))
     THEN UNCHANGED disk ELSE Appends(Step.file, Step.line)
  /\ StepEnds(TRUE)

\* s|export VAR=.*|NEW|: what stands before the match is kept.
Exported(lines, var, val) ==
  [i \in DOMAIN lines |-> IF lines[i].key = var THEN [lines[i] EXCEPT !.val = val]
                          ELSE lines[i]]

\* rcExport: every line that exports the variable, or a new one.
RcExports(file, var, val, next) ==
  IF Some(Read(file), LAMBDA l : l.key = var)
  THEN WriteFile(file, Exported(Read(file), var, val), next)
  ELSE Appends(file, Line("", var, val)) /\ IF next = "done" THEN StepEnds(TRUE) ELSE Go(next)

RcExport == On("rc-export", "begin") /\ RcExports(Step.file, Step.var, Step.val, "done")

\* Mutant of OtherJobs: the line of before is not looked for.
OtherJobsAll(lines, name, payload) == lines

\* The lines of the crontab that hold neither the step's marker nor its payload.
OtherJobs(lines, name, payload) ==
  Those(lines, {i \in DOMAIN lines : ~Occurs(name, lines[i]) /\ ~Occurs(payload, lines[i])})

\* schedule: (crontab -l | grep -vF ...; printf line) | crontab -
Schedule ==
  /\ On("schedule", "begin")
  /\ AtomicWrite("crontab", Append(OtherJobs(Read("crontab"), Step.name, Step.payload),
                                   Line(Step.spec, Step.name, Step.payload)), "done")

Distinct(s) == Those(s, {i \in DOMAIN s : \A j \in 1..(i - 1) : s[j] # s[i]})

\* The list edited: labels if the file has it, else tags.
TagKey(lines) ==
  IF Some(lines, LAMBDA l : l.key = "labels") THEN "labels"
  ELSE IF Some(lines, LAMBDA l : l.key = "tags") THEN "tags" ELSE "none"

TagsOf(lines, k) ==
  LET i == SelectInSeq(lines, LAMBDA l : l.key = k)
  IN  IF k = "none" \/ i = 0 THEN <<>> ELSE lines[i].val

\* Mutant of Retagged: what the list has already is added again.
RetaggedTwice(tags, add, remove) == Those(tags, {i \in DOMAIN tags : tags[i] \notin remove}) \o add

\* Removals dropped, additions appended, the order kept.
Retagged(tags, add, remove) ==
  Distinct(Those(tags, {i \in DOMAIN tags : tags[i] \notin remove}) \o add)

\* tags: through ApplySelfTags.  Its submission to the mailbox is SubmitSelfFiles
\* of GitConvergence.  A file that is missing or empty is an error.
ApplySelfTags ==
  /\ On("tags", "begin")
  /\ LET lines == Read("node.yaml")
         k     == TagKey(lines)
         now   == Retagged(TagsOf(lines, k), Step.add, Step.remove)
         kept  == [i \in DOMAIN lines |->
                     IF lines[i].key = k THEN [lines[i] EXCEPT !.val = now] ELSE lines[i]]
     IN  CASE lines = <<>> -> StepEnds(FALSE) /\ UNCHANGED disk
           [] lines # <<>> /\ now = TagsOf(lines, k) -> StepEnds(TRUE) /\ UNCHANGED disk
           [] OTHER -> WriteFile("node.yaml",
                                 IF k = "none" THEN Append(lines, Line("", "labels", now)) ELSE kept,
                                 "done")

RcStep == RcLine \/ RcExport \/ Schedule \/ ApplySelfTags

=============================================================================
