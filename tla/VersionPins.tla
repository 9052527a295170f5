---------------------------- MODULE VersionPins -----------------------------
(***************************************************************************)
(* Which agent version a node should run: versions.yaml and the recipes'   *)
(* node_overrides (internal/agent/versionpins.go), and the comparison of   *)
(* versions (isNewer, internal/agent/update.go).                           *)
(*                                                                         *)
(* A version is its triple <<major, minor, patch>>: what parseSemVer reads *)
(* of a tag, and all of it that the release tags use.  A pin is a version  *)
(* or Latest; Unset stands for an entry that is missing or, of a group and *)
(* of global, empty.  An empty entry of nodes counts as Latest.            *)
(***************************************************************************)
EXTENDS Naturals, Sequences

CONSTANTS Latest, Unset

ASSUME PinMarks ==
  /\ Latest # Unset
  /\ Latest \notin Nat \X Nat \X Nat
  /\ Unset \notin Nat \X Nat \X Nat

Version == Nat \X Nat \X Nat
Concrete(pin) == pin \notin {Latest, Unset}

\* The order the triples are meant in: the first difference decides.
Below(a, b) ==
  \/ a[1] < b[1]
  \/ a[1] = b[1] /\ a[2] < b[2]
  \/ a[1] = b[1] /\ a[2] = b[2] /\ a[3] < b[3]

\* isNewer goes on to the next part when the candidate's is smaller.
IsNewer(candidate, current) == \E i \in 1..3 : candidate[i] > current[i]

\* rankLess stops at the first difference; pinRank puts "latest" on top.
RankLess(a, b) ==
  /\ a # Latest
  /\ b = Latest \/ Below(a, b)

(***************************************************************************)
(* ResolveVersion.  A policy file has the fields node (this node's entry), *)
(* group (the pin of each label) and global.                               *)
(***************************************************************************)
\* The pin that the node's labels, in their order, leave standing.
GroupPin(group, labels) ==
  LET best[i \in 0..Len(labels)] ==
        IF i = 0 THEN Unset
        ELSE LET pin == group[labels[i]] IN
             IF Concrete(pin) /\ (best[i-1] = Unset \/ IsNewer(best[i-1], pin))
             THEN pin ELSE best[i-1]
  IN best[Len(labels)]

ResolveVersion(pins, labels) ==
  LET grouped == GroupPin(pins.group, labels) IN
  CASE pins.node # Unset -> pins.node
    [] pins.node = Unset /\ grouped # Unset -> grouped
    [] pins.node = Unset /\ grouped = Unset ->
         IF Concrete(pins.global) THEN pins.global ELSE Latest

(***************************************************************************)
(* LoadRecipeVersionOverride: overrides is the sequence of the pins that   *)
(* recipes carry for this node, in the order the walk finds them.          *)
(***************************************************************************)
RecipeOverride(overrides) ==
  LET best[i \in 1..Len(overrides)] ==
        IF i > 1 /\ ~RankLess(overrides[i], best[i-1])
        THEN best[i-1] ELSE overrides[i]
  IN IF overrides = <<>> THEN Unset ELSE best[Len(overrides)]

\* ResolveUpdateTarget: an unreadable versions.yaml counts as no pins at all,
\* and a recipe's override beats whatever the file says.
ResolveUpdateTarget(policy, labels) ==
  LET override == RecipeOverride(policy.recipes) IN
  IF override # Unset THEN override
  ELSE IF policy.readable THEN ResolveVersion(policy, labels) ELSE Latest

=============================================================================
