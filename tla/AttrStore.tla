----------------------------- MODULE AttrStore ------------------------------
(***************************************************************************)
(* The device attribute store, ~/.cache/gogitops/attrs.json (readDevice-   *)
(* Attrs, writeDeviceAttrs and the merges of cmd/gogitops/main.go).  Every *)
(* recipe run, test run and recipe verification on the node, each in a     *)
(* process or goroutine of its own, reads the file, merges what it set     *)
(* into what it read and writes the whole file back, with no lock and in   *)
(* place: os.Create truncates, and one later write fills the file again.   *)
(***************************************************************************)
CONSTANTS
  Process,   \* who persists attributes: recipe runs, the fleet tests, the CLI
  Attr,      \* the attributes recipes and test modules set
  Value,
  Unset      \* the value of an attribute that is not in a map

ASSUME UnsetIsNoValue == Unset \notin Value

VARIABLES
  file,      \* attrs.json
  io,        \* how far each process is with its write, and what it writes
  kept,      \* history: attributes that some finished write stored
  disturbed  \* history: two writes overlapped, or one failed or was cut short

storeVars == <<file, io, kept, disturbed>>

Map        == [Attr -> Value \cup {Unset}]
NoAttrs    == [a \in Attr |-> Unset]
Given(m)   == {a \in Attr : m[a] # Unset}

\* tests.scope, and whether tests.fail is above 0; a node that never tested has
\* neither.
NoSummary  == [scope |-> "none", fail |-> FALSE]
Summary    == [scope : {"none", "suite", "module", "recipe-verification"},
               fail : BOOLEAN]
Content    == [attrs : Map, tests : Summary]
NoContent  == [attrs |-> NoAttrs, tests |-> NoSummary]

\* What the file's bytes are: nothing, one whole map, or the tail of a longer
\* map behind a shorter one, which does not parse.
Body       == {"empty", "whole", "garbled"}

StoreTypeOK ==
  /\ file \in [body : Body, map : Content]
  /\ file.body # "whole" => file.map = NoContent
  /\ io \in [Process -> [at : {"out", "merged", "open"}, map : Content]]
  /\ kept \subseteq Attr
  /\ disturbed \in BOOLEAN

StoreInit ==
  /\ file = [body |-> "empty", map |-> NoContent]
  /\ io = [p \in Process |-> [at |-> "out", map |-> NoContent]]
  /\ kept = {} /\ disturbed = FALSE

\* readDeviceAttrs: a file that cannot be read or parsed is an empty map.
ReadDeviceAttrs == file.map

\* The keys of m replace those of the map read.
MergedWith(m, old) == [a \in Attr |-> IF m[a] # Unset THEN m[a] ELSE old[a]]

\* Mutant of MergeInto: the map written starts empty, as the comment in
\* persistTestAttrs says it once did.
MergeIntoFresh(m, tests) == [attrs |-> m, tests |-> tests]

\* The map a persist writes: the live store with the attributes set.
MergeInto(m, tests) ==
  [attrs |-> MergedWith(m, ReadDeviceAttrs.attrs), tests |-> tests]

\* persistTestAttrs and persistRecipeAttrs up to writeDeviceAttrs: the read
\* and the merge.
PersistRead(p, m, tests) ==
  /\ io[p].at = "out"
  /\ io' = [io EXCEPT ![p] = [at |-> "merged", map |-> MergeInto(m, tests)]]
  /\ disturbed' = (disturbed \/ \E q \in Process \ {p} : io[q].at # "out")
  /\ UNCHANGED <<file, kept>>

\* os.Create truncates.
OpenStore(p) ==
  /\ io[p].at = "merged"
  /\ file' = [body |-> "empty", map |-> NoContent]
  /\ io' = [io EXCEPT ![p].at = "open"]
  /\ UNCHANGED <<kept, disturbed>>

\* os.Create fails (a full or read-only disk): the error is dropped.
OpenFails(p) ==
  /\ io[p].at = "merged"
  /\ io' = [io EXCEPT ![p] = [at |-> "out", map |-> NoContent]]
  /\ disturbed' = TRUE
  /\ UNCHANGED <<file, kept>>

\* Encode: one write at offset 0 of this process's own descriptor.  If another
\* process has written since this one's Create, a shorter map leaves the tail
\* of the longer.
EncodeStore(p) ==
  /\ io[p].at = "open"
  /\ \/ file' = [body |-> "whole", map |-> io[p].map]
     \/ /\ file.body # "empty"
        /\ file' = [body |-> "garbled", map |-> NoContent]
  /\ io' = [io EXCEPT ![p] = [at |-> "out", map |-> NoContent]]
  /\ kept' = kept \cup Given(io[p].map.attrs)
  /\ UNCHANGED disturbed

\* The process dies, by a signal or with the host.
DieWriting(p) ==
  /\ io' = [io EXCEPT ![p] = [at |-> "out", map |-> NoContent]]
  /\ disturbed' = (disturbed \/ io[p].at = "open")
  /\ UNCHANGED <<file, kept>>

\* What the store asks of whoever persists: to drop nothing it read.
Persists(p) ==
  /\ io[p].at = "out"
  /\ io'[p].map \in Content
  /\ Given(ReadDeviceAttrs.attrs) \subseteq Given(io'[p].map.attrs)
  /\ io' = [io EXCEPT ![p] = [at |-> "merged", map |-> io'[p].map]]
  /\ disturbed' = (disturbed \/ \E q \in Process \ {p} : io[q].at # "out")
  /\ UNCHANGED <<file, kept>>

StoreNext ==
  \E p \in Process :
    Persists(p) \/ OpenStore(p) \/ OpenFails(p) \/ EncodeStore(p) \/ DieWriting(p)

StoreSpec == StoreInit /\ [][StoreNext]_storeVars

\* No write is between its Create and its Encode.
AtRest == \A p \in Process : io[p].at # "open"

\* Writes that do not overlap and are not cut short never lose an attribute:
\* once stored, it stays readable, whoever persists next.
NothingForgotten ==
  (AtRest /\ ~disturbed) => kept \subseteq Given(ReadDeviceAttrs.attrs)

=============================================================================
