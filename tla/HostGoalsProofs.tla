---------------------------- MODULE HostGoalsProofs ---------------------------
(***************************************************************************)
(* A run that nothing disturbed has met the goal of every step of its      *)
(* recipe, and one more leaves every file as it is, for any recipe whose   *)
(* steps do not undo one another.                                          *)
(***************************************************************************)
EXTENDS HostRunsProofs

(***************************************************************************)
(* Lines and lists of lines.                                               *)
(***************************************************************************)
Lined(c) == IsFile(c) /\ \A i \in DOMAIN c : IsLine(c[i])

LEMMA ExceptVal ==
  ASSUME NEW l, IsLine(l), NEW v
  PROVE  [l EXCEPT !.val = v] = Line(l.lead, l.key, v)
BY DEF IsLine, Line

LEMMA LineIs ==
  ASSUME NEW a, NEW b, NEW v
  PROVE  /\ IsLine(Line(a, b, v))
         /\ Line(a, b, v).lead = a /\ Line(a, b, v).key = b /\ Line(a, b, v).val = v
BY DEF IsLine, Line

\* What is appended comes after the rest.
LEMMA AppendIs ==
  ASSUME NEW c, IsFile(c), NEW x
  PROVE  /\ DOMAIN Append(c, x) = DOMAIN c \cup {Len(c) + 1}
         /\ \A i \in DOMAIN c : Append(c, x)[i] = c[i]
         /\ Append(c, x)[Len(c) + 1] = x
         /\ DOMAIN c = 1..Len(c) /\ Len(c) \in Nat /\ Len(c) + 1 \notin DOMAIN c
<1> DEFINE S == ToSet(c) \cup {x}
<1>1. c \in Seq(S) /\ x \in S
  BY DEF IsFile
<1> HIDE DEF S
<1>2. /\ DOMAIN c = 1..Len(c) /\ Len(c) \in Nat
      /\ DOMAIN Append(c, x) = 1..(Len(c) + 1)
      /\ \A i \in 1..Len(c) : Append(c, x)[i] = c[i]
      /\ Append(c, x)[Len(c) + 1] = x
  BY <1>1
<1> DEFINE n == Len(c)
<1>3. n \in Nat => 1..(n + 1) = 1..n \cup {n + 1} /\ n + 1 \notin 1..n
  OBVIOUS
<1> QED
  BY <1>2, <1>3

\* What an export makes of a file: its own lines, and the others as they were.
LEMMA WithExportIs ==
  ASSUME NEW c, Lined(c), NEW var, NEW val, NEW d, d = WithExport(c, var, val)
  PROVE  /\ Lined(d)
         /\ \E i \in DOMAIN d : d[i].key = var
         /\ \A i \in DOMAIN d : d[i].key = var => d[i].val = val
         /\ \A i \in DOMAIN c : i \in DOMAIN d /\ (c[i].key # var => d[i] = c[i])
         /\ \A i \in DOMAIN d : d[i].key # var => i \in DOMAIN c /\ d[i] = c[i]
<1>1. CASE \E i \in DOMAIN c : c[i].key = var
  <2>1. d = Exported(c, var, val)
    BY <1>1 DEF WithExport, Some
  <2>2. IsFile(d)
    BY <2>1, ExportedKeeps DEF Lined
  <2>3. DOMAIN d = DOMAIN c
    BY <2>1 DEF Exported
  <2>4. \A i \in DOMAIN c : d[i] = IF c[i].key = var THEN Line(c[i].lead, c[i].key, val) ELSE c[i]
    BY <2>1, ExceptVal DEF Exported, Lined
  <2>5. \A i \in DOMAIN c : /\ IsLine(d[i]) /\ d[i].key = c[i].key
                            /\ c[i].key = var => d[i].val = val
                            /\ c[i].key # var => d[i] = c[i]
    BY <2>4, LineIs DEF Lined
  <2> QED
    BY <1>1, <2>2, <2>3, <2>5 DEF Lined
<1>2. CASE ~\E i \in DOMAIN c : c[i].key = var
  <2> DEFINE x == Line("", var, val)
             n == Len(c) + 1
  <2>1. d = Append(c, x)
    BY <1>2 DEF WithExport, Some
  <2>2. IsFile(d)
    BY <2>1, AppendKeeps DEF Lined
  <2>3. IsLine(x) /\ x.key = var /\ x.val = val
    BY DEF IsLine, Line
  <2> HIDE DEF x
  <2>4. DOMAIN d = DOMAIN c \cup {n} /\ (\A i \in DOMAIN c : d[i] = c[i]) /\ d[n] = x
    BY <2>1, AppendIs DEF Lined
  <2> HIDE DEF n
  <2>5. \A i \in DOMAIN c : i \in DOMAIN d /\ d[i] = c[i] /\ IsLine(d[i]) /\ c[i].key # var
    BY <1>2, <2>4 DEF Lined
  <2>6. n \in DOMAIN d /\ IsLine(d[n]) /\ d[n].key = var /\ d[n].val = val
    BY <2>3, <2>4
  <2>7. \A i \in DOMAIN d : i = n \/ (i \in DOMAIN c /\ d[i] = c[i])
    BY <2>4
  <2> QED
    BY <2>2, <2>5, <2>6, <2>7 DEF Lined
<1> QED
  BY <1>1, <1>2

\* Those are the elements at the indices, each once and in order.
LEMMA ThoseAre ==
  ASSUME NEW c, IsFile(c), NEW I \in SUBSET DOMAIN c
  PROVE  \E g \in [DOMAIN Those(c, I) -> I] :
           /\ \A k \in DOMAIN Those(c, I) : Those(c, I)[k] = c[g[k]]
           /\ \A k, l \in DOMAIN Those(c, I) : g[k] = g[l] => k = l
           /\ \A k, l \in DOMAIN Those(c, I) : k < l => g[k] < g[l]
           /\ \A i \in I : \E k \in DOMAIN Those(c, I) : g[k] = i
<1>1. DOMAIN c = 1..Len(c) /\ Len(c) \in Nat
  BY DEF IsFile
<1>2. IsFiniteSet(DOMAIN c)
  BY <1>1, FS_Interval
<1>3. IsFiniteSet(I)
  BY <1>2, FS_Subset
<1> DEFINE upto(i) == {j \in I : j <= i}
           m == Cardinality(I)
           d == Those(c, I)
           r == [i \in I |-> Cardinality(upto(i))]
<1>4. m \in Nat
  BY <1>3, FS_CardinalityType
<1>5. d = [k \in 1..m |-> c[CHOOSE i \in I : Cardinality(upto(i)) = k]]
  BY DEF Those
<1>6. I \subseteq Nat
  BY <1>1
<1>7. ASSUME NEW i \in I
      PROVE  /\ IsFiniteSet(upto(i)) /\ Cardinality(upto(i)) \in 1..m
  <2>1. IsFiniteSet(upto(i)) /\ Cardinality(upto(i)) <= m
    BY <1>3, FS_Subset
  <2>2. i \in upto(i)
    BY <1>6
  <2>3. Cardinality(upto(i)) # 0
    BY <2>1, <2>2, FS_EmptySet
  <2>4. Cardinality(upto(i)) \in Nat
    BY <2>1, FS_CardinalityType
  <2> QED
    BY <1>4, <2>1, <2>3, <2>4
<1>8. ASSUME NEW i \in I, NEW j \in I, Cardinality(upto(i)) = Cardinality(upto(j))
      PROVE  i = j
  <2>1. ASSUME NEW a \in I, NEW b \in I, a < b PROVE Cardinality(upto(a)) # Cardinality(upto(b))
    <3>1. upto(a) \subseteq upto(b) /\ b \in upto(b) /\ b \notin upto(a)
      BY <1>6, <2>1
    <3> QED
      BY <1>7, <3>1, FS_Subset
  <2>2. i < j \/ j < i \/ i = j
    BY <1>6
  <2> QED
    BY <1>8, <2>1, <2>2
<1>9. r \in Injection(I, 1..m)
  <2>1. r \in [I -> 1..m]
    BY <1>7
  <2>2. \A i, j \in I : r[i] = r[j] => i = j
    BY <1>8
  <2> HIDE DEF r
  <2> QED
    BY <2>1, <2>2 DEF Injection, IsInjective
<1>10. r \in Surjection(I, 1..m)
  <2>1. IsFiniteSet(1..m) /\ Cardinality(1..m) = m
    <3>1. IsFiniteSet(1..m) /\ Cardinality(1..m) = IF 1 > m THEN 0 ELSE m - 1 + 1
      BY <1>4, FS_Interval
    <3> HIDE DEF m
    <3> QED
      BY <1>4, <3>1
  <2> HIDE DEF r, m
  <2> QED
    BY <1>9, <2>1, FS_Injection DEF m
<1>11. r \in [I -> 1..m] /\ (\A i, j \in I : r[i] = r[j] => i = j) /\ \A k \in 1..m : \E i \in I : r[i] = k
  <2> HIDE DEF r, m
  <2> QED
    BY <1>9, <1>10 DEF Injection, IsInjective, Surjection
<1> DEFINE Card(i) == Cardinality(upto(i))
           q(k)    == CHOOSE i \in I : Card(i) = k
           g       == [k \in 1..m |-> q(k)]
<1>12. \A k \in 1..m : \E i \in I : Card(i) = k
  BY <1>11
<1>13. \A i \in I : Card(i) \in 1..m
  BY <1>7
<1>14. \A i, j \in I : Card(i) = Card(j) => i = j
  BY <1>8
<1>15. d = [k \in 1..m |-> c[q(k)]]
  BY <1>5
<1>15a. \A i, j \in I : j <= i => Card(j) <= Card(i)
  <2> SUFFICES ASSUME NEW i \in I, NEW j \in I, j <= i
               PROVE  Card(j) <= Card(i)
    OBVIOUS
  <2>1. upto(j) \subseteq upto(i)
    BY <1>6
  <2> QED
    BY <1>7, <2>1, FS_Subset
<1> HIDE DEF Card, d, r, m
<1>16. \A k \in 1..m : q(k) \in I /\ Card(q(k)) = k
  BY <1>12
<1> HIDE DEF q
<1>17. DOMAIN d = 1..m /\ g \in [DOMAIN d -> I] /\ \A k \in DOMAIN d : d[k] = c[g[k]] /\ g[k] = q(k)
  BY <1>15, <1>16
<1>18. \A k, l \in DOMAIN d : g[k] = g[l] => k = l
  BY <1>16, <1>17
<1>20. \A k, l \in DOMAIN d : k < l => g[k] < g[l]
  <2> SUFFICES ASSUME NEW k \in DOMAIN d, NEW l \in DOMAIN d, k < l, ~(g[k] < g[l])
               PROVE  FALSE
    OBVIOUS
  <2>1. k \in 1..m /\ l \in 1..m /\ g[k] = q(k) /\ g[l] = q(l) /\ q(k) \in I /\ q(l) \in I
    BY <1>16, <1>17
  <2>2. q(l) <= q(k)
    BY <1>6, <2>1
  <2>3. Card(q(l)) <= Card(q(k)) /\ Card(q(l)) = l /\ Card(q(k)) = k
    BY <1>15a, <1>16, <2>1, <2>2
  <2> QED
    BY <1>4, <2>1, <2>3
<1>19. \A i \in I : \E k \in DOMAIN d : g[k] = i
  BY <1>13, <1>14, <1>16, <1>17
<1> HIDE DEF g
<1> QED
  BY <1>17, <1>18, <1>19, <1>20 DEF d

\* A schedule leaves the lines that it does not find, in order, and puts one of
\* its own behind them.
JobsAt(c, name, payload, x, d, n, g) ==
  /\ d[n] = x
  /\ \A k \in DOMAIN d \ {n} : /\ d[k] = c[g[k]]
                               /\ ~Occurs(name, d[k]) /\ ~Occurs(payload, d[k])
  /\ \A k, l \in DOMAIN d \ {n} : g[k] = g[l] => k = l
  /\ \A k, l \in DOMAIN d \ {n} : k < l => g[k] < g[l]
  /\ \A k \in DOMAIN d \ {n} : k < n
  /\ \A i \in DOMAIN c : ~Occurs(name, c[i]) /\ ~Occurs(payload, c[i]) =>
       \E k \in DOMAIN d \ {n} : g[k] = i

LEMMA JobsAre ==
  ASSUME NEW c, Lined(c), NEW name, NEW payload, NEW x, IsLine(x), NEW d,
         d = Append(OtherJobs(c, name, payload), x)
  PROVE  /\ Lined(d)
         /\ \E n \in DOMAIN d : \E g \in [DOMAIN d \ {n} -> DOMAIN c] : JobsAt(c, name, payload, x, d, n, g)
<1> DEFINE I == {i \in DOMAIN c : ~Occurs(name, c[i]) /\ ~Occurs(payload, c[i])}
           r == OtherJobs(c, name, payload)
           n == Len(r) + 1
<1>1. r = Those(c, I) /\ I \in SUBSET DOMAIN c
  BY DEF OtherJobs
<1>2. \A i \in I : i \in DOMAIN c /\ ~Occurs(name, c[i]) /\ ~Occurs(payload, c[i])
  OBVIOUS
<1>3. \A i \in DOMAIN c : ~Occurs(name, c[i]) /\ ~Occurs(payload, c[i]) => i \in I
  OBVIOUS
<1>4. IsFile(c)
  BY DEF Lined
<1>5. d = Append(r, x)
  OBVIOUS
<1> HIDE DEF r, I
<1>6. IsFile(r)
  BY <1>1, <1>4, ThoseKeeps
<1>7. PICK g \in [DOMAIN r -> I] :
           /\ \A k \in DOMAIN r : r[k] = c[g[k]]
           /\ \A k, l \in DOMAIN r : g[k] = g[l] => k = l
           /\ \A k, l \in DOMAIN r : k < l => g[k] < g[l]
           /\ \A i \in I : \E k \in DOMAIN r : g[k] = i
  BY <1>1, <1>4, ThoseAre
<1>8. /\ DOMAIN d = DOMAIN r \cup {n} /\ n \notin DOMAIN r
      /\ \A k \in DOMAIN r : d[k] = r[k]
      /\ d[n] = x
      /\ \A k \in DOMAIN r : k < n
  <2>1. \A k \in DOMAIN r : k < n
    <3>1. DOMAIN r = 1..Len(r) /\ Len(r) \in Nat
      BY <1>6 DEF IsFile
    <3> QED
      BY <3>1
  <2> QED
    BY <1>5, <1>6, <2>1, AppendIs
<1> HIDE DEF n
<1>9. IsFile(d)
  BY <1>5, <1>6, AppendKeeps
<1>10. DOMAIN d \ {n} = DOMAIN r /\ n \in DOMAIN d
  BY <1>8
<1>11. \A k \in DOMAIN r : g[k] \in DOMAIN c /\ d[k] = c[g[k]] /\ ~Occurs(name, d[k]) /\ ~Occurs(payload, d[k])
  BY <1>2, <1>7, <1>8
<1>12. \A k \in DOMAIN d : IsLine(d[k])
  <2>1. \A k \in DOMAIN r : IsLine(d[k])
    BY <1>11 DEF Lined
  <2> QED
    BY <1>8, <2>1
<1>13. Lined(d)
  BY <1>9, <1>12 DEF Lined
<1>14. g \in [DOMAIN r -> DOMAIN c]
  BY <1>7, <1>11
<1>15. \A i \in DOMAIN c : ~Occurs(name, c[i]) /\ ~Occurs(payload, c[i]) => \E k \in DOMAIN r : g[k] = i
  BY <1>3, <1>7
<1> DEFINE R == DOMAIN d \ {n}
<1>16. R = DOMAIN r
  BY <1>10
<1>17. /\ g \in [R -> DOMAIN c]
       /\ \A k \in R : d[k] = c[g[k]] /\ ~Occurs(name, d[k]) /\ ~Occurs(payload, d[k])
       /\ \A k, l \in R : g[k] = g[l] => k = l
       /\ \A k, l \in R : k < l => g[k] < g[l]
       /\ \A k \in R : k < n
       /\ \A i \in DOMAIN c : ~Occurs(name, c[i]) /\ ~Occurs(payload, c[i]) => \E k \in R : g[k] = i
  BY <1>7, <1>8, <1>11, <1>14, <1>15, <1>16
<1>18. n \in DOMAIN d /\ d[n] = x
  BY <1>8
<1>19. JobsAt(c, name, payload, x, d, n, g)
  BY <1>16, <1>17, <1>18 DEF JobsAt
<1>20. g \in [DOMAIN d \ {n} -> DOMAIN c]
  BY <1>16, <1>17
<1> QED
  BY <1>13, <1>18, <1>19, <1>20

LEMMA ThoseHold ==
  ASSUME NEW c, IsFile(c), NEW I \in SUBSET DOMAIN c
  PROVE  ToSet(Those(c, I)) = {c[i] : i \in I}
<1> DEFINE d == Those(c, I)
<1>1. PICK g \in [DOMAIN d -> I] :
           /\ \A k \in DOMAIN d : d[k] = c[g[k]]
           /\ \A i \in I : \E k \in DOMAIN d : g[k] = i
  BY ThoseAre
<1> HIDE DEF d
<1>2. \A k \in DOMAIN d : d[k] \in {c[i] : i \in I}
  BY <1>1
<1>3. \A i \in I : \E k \in DOMAIN d : d[k] = c[i]
  BY <1>1
<1>4. ToSet(d) = {c[i] : i \in I}
  BY <1>2, <1>3 DEF ToSet
<1> QED
  BY <1>4 DEF d

LEMMA BothHold ==
  ASSUME NEW a, IsFile(a), NEW b, IsFile(b)
  PROVE  IsFile(a \o b) /\ ToSet(a \o b) = ToSet(a) \cup ToSet(b)
<1> DEFINE S == ToSet(a) \cup ToSet(b)
           d == a \o b
           m == Len(a)
           n == Len(b)
<1>1. a \in Seq(S) /\ b \in Seq(S)
  BY DEF IsFile
<1>2. DOMAIN a = 1..m /\ DOMAIN b = 1..n /\ m \in Nat /\ n \in Nat
  BY DEF IsFile
<1>3. \A i \in DOMAIN a : a[i] \in ToSet(a)
  BY DEF ToSet
<1>4. \A i \in DOMAIN b : b[i] \in ToSet(b)
  BY DEF ToSet
<1>5. \A v \in S : (\E i \in DOMAIN a : a[i] = v) \/ (\E i \in DOMAIN b : b[i] = v)
  BY DEF ToSet
<1> HIDE DEF S
<1>6. /\ DOMAIN d = 1..(m + n) /\ d \in Seq(S)
      /\ \A i \in 1..m : d[i] = a[i]
      /\ \A i \in (m + 1)..(m + n) : d[i] = b[i - m]
  BY <1>1
<1> HIDE DEF d, m, n
<1>7. \A i \in 1..n : m + i \in (m + 1)..(m + n) /\ m + i \in 1..(m + n) /\ (m + i) - m = i
  BY <1>2
<1>8. \A i \in 1..m : i \in 1..(m + n)
  BY <1>2
<1>9. \A v \in S : \E i \in DOMAIN d : d[i] = v
  <2> SUFFICES ASSUME NEW v \in S PROVE \E i \in DOMAIN d : d[i] = v
    OBVIOUS
  <2>1. ASSUME NEW i \in DOMAIN a, a[i] = v PROVE \E j \in DOMAIN d : d[j] = v
    BY <1>2, <1>6, <1>8, <2>1
  <2>2. ASSUME NEW i \in DOMAIN b, b[i] = v PROVE \E j \in DOMAIN d : d[j] = v
    <3> DEFINE j == m + i
    <3>1. j \in (m + 1)..(m + n) /\ j \in 1..(m + n) /\ j - m = i
      BY <1>2, <1>7
    <3> HIDE DEF j
    <3>2. d[j] = b[i]
      BY <1>6, <3>1
    <3> QED
      BY <1>6, <2>2, <3>1, <3>2
  <2> QED
    BY <1>5, <2>1, <2>2
<1>10. \A i \in DOMAIN d : d[i] \in S
  <2>1. d \in Seq(S)
    BY <1>6
  <2> QED
    BY <2>1
<1>11. ToSet(d) = S
  BY <1>9, <1>10 DEF ToSet
<1>12. IsFile(d)
  BY <1>6, <1>11 DEF IsFile
<1> QED
  BY <1>11, <1>12 DEF d, S

Once(t) == \A i, j \in DOMAIN t : t[i] = t[j] => i = j

LEMMA DistinctHolds ==
  ASSUME NEW c, IsFile(c)
  PROVE  IsFile(Distinct(c)) /\ ToSet(Distinct(c)) = ToSet(c) /\ Once(Distinct(c))
<1> DEFINE I == {i \in DOMAIN c : \A j \in 1..(i - 1) : c[j] # c[i]}
<1>1. Distinct(c) = Those(c, I) /\ I \in SUBSET DOMAIN c
  BY DEF Distinct
<1>2. DOMAIN c \subseteq Nat /\ \A i \in DOMAIN c : 1..(i - 1) \subseteq DOMAIN c
  <2>1. DOMAIN c = 1..Len(c) /\ Len(c) \in Nat
    BY DEF IsFile
  <2> QED
    BY <2>1
<1>3. \A i \in DOMAIN c : \E k \in I : c[k] = c[i]
  <2> SUFFICES ASSUME NEW i \in DOMAIN c PROVE \E k \in I : c[k] = c[i]
    OBVIOUS
  <2> DEFINE J == {j \in DOMAIN c : c[j] = c[i]}
             k == Min(J)
  <2>1. k \in J /\ \A j \in J : k <= j
    <3>1. J \in SUBSET Nat /\ J # {}
      BY <1>2
    <3> HIDE DEF J
    <3> QED
      BY <3>1, LeastIsLeast
  <2> HIDE DEF k
  <2>2. \A j \in 1..(k - 1) : ~(k <= j) /\ j \in DOMAIN c
    BY <1>2, <2>1
  <2>3. k \in I
    BY <2>1, <2>2
  <2> QED
    BY <2>1, <2>3
<1>7. \A i, k \in I : c[i] = c[k] => i = k
  <2> SUFFICES ASSUME NEW i \in I, NEW k \in I, c[i] = c[k], i # k
               PROVE  FALSE
    OBVIOUS
  <2>1. i \in Nat /\ k \in Nat /\ i >= 1 /\ k >= 1
    <3>1. DOMAIN c = 1..Len(c) /\ Len(c) \in Nat
      BY DEF IsFile
    <3> QED
      BY <3>1
  <2>2. i \in 1..(k - 1) \/ k \in 1..(i - 1)
    BY <2>1
  <2> QED
    BY <2>2
<1> HIDE DEF I
<1>8. Once(Those(c, I))
  <2>1. PICK g \in [DOMAIN Those(c, I) -> I] :
           /\ \A k \in DOMAIN Those(c, I) : Those(c, I)[k] = c[g[k]]
           /\ \A k, l \in DOMAIN Those(c, I) : g[k] = g[l] => k = l
    BY <1>1, ThoseAre
  <2> QED
    BY <1>7, <2>1 DEF Once
<1>4. ToSet(Those(c, I)) = {c[i] : i \in I}
  BY <1>1, ThoseHold
<1>5. {c[i] : i \in I} = ToSet(c)
  BY <1>1, <1>3 DEF ToSet
<1>6. IsFile(Those(c, I))
  BY <1>1, ThoseKeeps
<1> QED
  BY <1>1, <1>4, <1>5, <1>6, <1>8

\* The tags of a node: those removed gone, those added there.
LEMMA RetaggedHolds ==
  ASSUME NEW t, IsFile(t), NEW add, IsFile(add), NEW remove
  PROVE  /\ IsFile(Retagged(t, add, remove)) /\ Once(Retagged(t, add, remove))
         /\ ToSet(Retagged(t, add, remove)) = (ToSet(t) \ remove) \cup ToSet(add)
<1> DEFINE I == {i \in DOMAIN t : t[i] \notin remove}
           r == Those(t, I)
<1>1. Retagged(t, add, remove) = Distinct(r \o add)
  BY DEF Retagged
<1>2. {t[i] : i \in I} = ToSet(t) \ remove
  BY DEF ToSet
<1>3. I \in SUBSET DOMAIN t
  OBVIOUS
<1> HIDE DEF I
<1>4. IsFile(r) /\ ToSet(r) = ToSet(t) \ remove
  BY <1>2, <1>3, ThoseKeeps, ThoseHold
<1> HIDE DEF r
<1>5. IsFile(r \o add) /\ ToSet(r \o add) = (ToSet(t) \ remove) \cup ToSet(add)
  BY <1>4, BothHold
<1> QED
  BY <1>1, <1>5, DistinctHolds

LEMMA TagsOfIs ==
  ASSUME NEW c, IsFile(c), NEW k
  PROVE  \/ TagsOf(c, k) = <<>> /\ (k = "none" \/ \A i \in DOMAIN c : c[i].key # k)
         \/ k # "none" /\ \E i \in DOMAIN c : c[i].key = k /\ TagsOf(c, k) = c[i].val
<1> DEFINE I == {i \in 1..Len(c) : c[i].key = k}
           m == IF I # {} THEN Min(I) ELSE 0
<1>1. TagsOf(c, k) = IF k = "none" \/ m = 0 THEN <<>> ELSE c[m].val
  BY DEF TagsOf, SelectInSeq
<1>2. DOMAIN c = 1..Len(c) /\ Len(c) \in Nat
  BY DEF IsFile
<1>3. I \in SUBSET Nat /\ 0 \notin I
  BY <1>2
<1>4. CASE I = {}
  BY <1>1, <1>2, <1>4
<1>5. CASE I # {}
  <2>1. m \in I
    <3> HIDE DEF I
    <3> QED
      BY <1>3, <1>5, LeastIsLeast
  <2>2. m # 0 /\ m \in DOMAIN c /\ c[m].key = k
    BY <1>2, <1>3, <2>1
  <2> HIDE DEF m
  <2> QED
    BY <1>1, <2>2
<1> QED
  BY <1>4, <1>5

LEMMA TagKeyIs ==
  ASSUME NEW c
  PROVE  /\ TagKey(c) = "labels" <=> \E i \in DOMAIN c : c[i].key = "labels"
         /\ TagKey(c) = "tags" <=> /\ \A i \in DOMAIN c : c[i].key # "labels"
                                   /\ \E i \in DOMAIN c : c[i].key = "tags"
         /\ TagKey(c) = "none" <=> \A i \in DOMAIN c : c[i].key \notin {"labels", "tags"}
         /\ TagKey(c) \in {"labels", "tags", "none"}
BY DEF TagKey, Some

\* A list of tags that is written is read again.
LEMMA WithTagsIs ==
  ASSUME NEW c, Lined(c), NEW now, NEW k, k = TagKey(c), NEW d, d = WithTags(c, k, now)
  PROVE  /\ Lined(d)
         /\ TagsOf(d, TagKey(d)) = now
         /\ \A i \in DOMAIN d : d[i].key \in {"labels", "tags"} =>
              d[i].val = now \/ (i \in DOMAIN c /\ d[i] = c[i])
<1>1. IsFile(c) /\ \A i \in DOMAIN c : IsLine(c[i])
  BY DEF Lined
<1>2. CASE k = "none"
  <2> DEFINE x == Line("", "labels", now)
             n == Len(c) + 1
  <2>1. d = Append(c, x)
    BY <1>2 DEF WithTags
  <2>2. IsLine(x) /\ x.key = "labels" /\ x.val = now
    BY DEF IsLine, Line
  <2> HIDE DEF x
  <2>3. DOMAIN d = DOMAIN c \cup {n} /\ (\A i \in DOMAIN c : d[i] = c[i]) /\ d[n] = x
    BY <1>1, <2>1, AppendIs
  <2>4. IsFile(d)
    BY <1>1, <2>1, AppendKeeps
  <2> HIDE DEF n
  <2>5. \A i \in DOMAIN c : i \in DOMAIN d /\ IsLine(d[i]) /\ d[i].key \notin {"labels", "tags"}
    BY <1>1, <1>2, <2>3, TagKeyIs
  <2>6. n \in DOMAIN d /\ IsLine(d[n]) /\ d[n].key = "labels" /\ d[n].val = now
    BY <2>2, <2>3
  <2>7. \A i \in DOMAIN d : i = n \/ (i \in DOMAIN c /\ d[i] = c[i])
    BY <2>3
  <2>8. TagKey(d) = "labels"
    BY <2>6, TagKeyIs
  <2>9. \A i \in DOMAIN d : IsLine(d[i]) /\ (d[i].key = "labels" => d[i].val = now)
    BY <2>5, <2>6, <2>7
  <2>10. TagsOf(d, TagKey(d)) = now
    BY <2>4, <2>6, <2>8, <2>9, TagsOfIs
  <2> QED
    BY <2>4, <2>6, <2>7, <2>9, <2>10 DEF Lined
<1>3. CASE k # "none"
  <2>1. d = [i \in DOMAIN c |-> IF c[i].key = k THEN [c[i] EXCEPT !.val = now] ELSE c[i]]
    BY <1>3 DEF WithTags
  <2>2. DOMAIN d = DOMAIN c /\ \A i \in DOMAIN c : d[i] = IF c[i].key = k THEN Line(c[i].lead, c[i].key, now) ELSE c[i]
    BY <1>1, <2>1, ExceptVal
  <2>3. IsFile(d)
    <3>1. d = [i \in DOMAIN c |-> d[i]]
      BY <2>1
    <3> QED
      BY <1>1, <3>1, MappedIsFile
  <2>4. \A i \in DOMAIN c : /\ IsLine(d[i]) /\ d[i].key = c[i].key
                            /\ c[i].key = k => d[i].val = now
                            /\ c[i].key # k => d[i] = c[i]
    BY <1>1, <2>2, LineIs
  <2>5. TagKey(d) = k
    BY <2>2, <2>4, TagKeyIs
  <2>6. \E i \in DOMAIN d : d[i].key = k
    BY <1>3, <2>2, <2>4, TagKeyIs
  <2>7. TagsOf(d, TagKey(d)) = now
    BY <1>3, <2>2, <2>3, <2>4, <2>5, <2>6, TagsOfIs
  <2> QED
    BY <2>2, <2>3, <2>4, <2>7 DEF Lined
<1> QED
  BY <1>2, <1>3

LEMMA PatchedIs ==
  ASSUME NEW c, Lined(c), NEW from, NEW to, NEW d, d = Patched(c, from, to)
  PROVE  /\ Lined(d)
         /\ to \notin from => \A i \in DOMAIN d : d[i].val \notin from
<1>1. IsFile(c) /\ \A i \in DOMAIN c : IsLine(c[i])
  BY DEF Lined
<1>2. DOMAIN d = DOMAIN c /\ \A i \in DOMAIN c : d[i] = IF c[i].val \in from THEN Line(c[i].lead, c[i].key, to) ELSE c[i]
  BY <1>1, ExceptVal DEF Patched
<1>3. IsFile(d)
  BY <1>1, PatchedKeeps
<1>4. \A i \in DOMAIN c : IsLine(d[i]) /\ (d[i].val = to \/ d[i].val \notin from)
  BY <1>1, <1>2, LineIs
<1> QED
  BY <1>2, <1>3, <1>4 DEF Lined

(***************************************************************************)
(* What apt-get is asked for.                                              *)
(***************************************************************************)
LEMMA CandidateIsOne ==
  ASSUME NEW names, IsFile(names), NEW p \in ToSet(names)
  PROVE  FirstAptCandidate(p, names) \in ToSet(names)
<1> DEFINE from == SelectInSeq(names, LAMBDA n : n = p)
           K    == {i \in from..Len(names) : Offers(names[i])}
           m    == IF K # {} THEN Min(K) ELSE 0
<1>1. FirstAptCandidate(p, names) = IF m = 0 THEN p ELSE names[m]
  BY DEF FirstAptCandidate, SelectInSubSeq
<1>2. DOMAIN names = 1..Len(names) /\ Len(names) \in Nat
  BY DEF IsFile
<1>3. from \in DOMAIN names
  <2> DEFINE I == {i \in 1..Len(names) : names[i] = p}
  <2>1. from = IF I # {} THEN Min(I) ELSE 0
    BY DEF SelectInSeq
  <2>2. I # {} /\ I \in SUBSET Nat
    BY <1>2 DEF ToSet
  <2>3. I \subseteq DOMAIN names
    BY <1>2
  <2> HIDE DEF I, from
  <2> QED
    BY <2>1, <2>2, <2>3, LeastIsLeast
<1> HIDE DEF from
<1>4. K \in SUBSET Nat /\ K \subseteq DOMAIN names
  BY <1>2, <1>3
<1>5. CASE K = {}
  BY <1>1, <1>5
<1>6. CASE K # {}
  <2>1. m \in DOMAIN names
    <3> HIDE DEF K
    <3> QED
      BY <1>4, <1>6, LeastIsLeast
  <2>2. names[m] \in ToSet(names)
    BY <2>1 DEF ToSet
  <2> HIDE DEF m
  <2> QED
    BY <1>1, <2>2
<1> QED
  BY <1>5, <1>6

Alternate(tok, s) == tok.ver = "any" /\ Len(s.verify) > 1 /\ tok.name \in ToSet(s.verify)

LEMMA AskedFor ==
  ASSUME NEW s, Obtainable(s), NEW i \in DOMAIN s.packages, NEW tok, tok = s.packages[i]
  PROVE  /\ Alternate(tok, s) => Offers(FirstAptCandidate(tok.name, s.verify))
         /\ ~Alternate(tok, s) => Offers(tok.name) /\ Meets(tok.ver, Offered[tok.name])
BY DEF Obtainable, Alternate

\* An installation undoes no other.
LEMMA AptKept ==
  ASSUME NEW s, Obtainable(s), AptMet(s), \A p : Has(p) => Has(p)' /\ pkgs'[p] \in {pkgs[p], Offered[p]}
  PROVE  AptMet(s)'
<1> SUFFICES ASSUME NEW i \in DOMAIN s.packages, NEW tok, tok = s.packages[i]
             PROVE  \/ Has(tok.name)' /\ Meets(tok.ver, pkgs'[tok.name])
                    \/ tok.name \in ToSet(s.verify) /\ Resolves(s.verify)'
  BY DEF AptMet
<1>1. CASE Has(tok.name) /\ Meets(tok.ver, pkgs[tok.name])
  <2>1. CASE Alternate(tok, s)
    BY <1>1, <2>1 DEF Alternate, Meets
  <2>2. CASE ~Alternate(tok, s)
    BY <1>1, <2>2, AskedFor
  <2> QED
    BY <2>1, <2>2
<1>2. CASE tok.name \in ToSet(s.verify) /\ Resolves(s.verify)
  BY <1>2 DEF Resolves
<1> QED
  BY <1>1, <1>2 DEF AptMet

\* apt-install has, after it, what it is asked for.
LEMMA AptInstalls ==
  ASSUME NEW s, StepIsTyped(s), s.fn = "apt-install", Obtainable(s), net, Root,
         NEW toks, toks = UNION {Wanted(s.packages[i], s.verify) : i \in DOMAIN s.packages},
         pkgs' = IF AptTakes(toks) THEN Installed({t.name : t \in toks}) ELSE pkgs
  PROVE  AptMet(s)'
<1>1. \A i \in DOMAIN s.packages : \A t \in Wanted(s.packages[i], s.verify) : t \in toks
  OBVIOUS
<1>2. \A t \in toks : Offers(t.name) /\ Meets(t.ver, Offered[t.name])
  <2> SUFFICES ASSUME NEW i \in DOMAIN s.packages, NEW tok, tok = s.packages[i],
                      NEW t \in Wanted(tok, s.verify)
               PROVE  Offers(t.name) /\ Meets(t.ver, Offered[t.name])
    OBVIOUS
  <2>1. CASE Alternate(tok, s)
    <3> DEFINE p == FirstAptCandidate(tok.name, s.verify)
    <3>1. t = [name |-> p, ver |-> "any"]
      BY <2>1 DEF Wanted, Alternate
    <3>2. Offers(p)
      BY <2>1, AskedFor
    <3> HIDE DEF p
    <3> QED
      BY <3>1, <3>2 DEF Meets
  <2>2. CASE ~Alternate(tok, s)
    <3>1. t = tok
      BY <2>2 DEF Wanted, Alternate
    <3> QED
      BY <2>2, <3>1, AskedFor
  <2> QED
    BY <2>1, <2>2
<1> DEFINE names == {t.name : t \in toks}
<1>3. pkgs' = Installed(names)
  BY <1>2 DEF AptTakes
<1>4. \A t \in toks : t.name \in names
  OBVIOUS
<1> HIDE DEF names
<1>5. \A p : /\ Has(p) => Has(p)' /\ pkgs'[p] \in {pkgs[p], Offered[p]}
             /\ p \in names => Has(p)' /\ pkgs'[p] = Offered[p]
  BY <1>3 DEF Installed, Has
<1> SUFFICES ASSUME NEW i \in DOMAIN s.packages, NEW tok, tok = s.packages[i]
             PROVE  \/ Has(tok.name)' /\ Meets(tok.ver, pkgs'[tok.name])
                    \/ tok.name \in ToSet(s.verify) /\ Resolves(s.verify)'
  BY DEF AptMet
<1>6. CASE Alternate(tok, s)
  <2>1. tok.name \in ToSet(s.verify) /\ IsFile(s.verify) /\ s.verify # <<>>
    BY <1>6 DEF Alternate, StepIsTyped, IsFile
  <2>2. CASE Resolves(s.verify)
    BY <1>5, <2>1, <2>2 DEF Resolves
  <2>3. CASE ~Resolves(s.verify)
    <3> DEFINE p == FirstAptCandidate(tok.name, s.verify)
               t == [name |-> p, ver |-> "any"]
    <3>1. Wanted(tok, s.verify) = {t}
      BY <1>6, <2>3 DEF Wanted, Alternate
    <3>2. p \in ToSet(s.verify)
      BY <2>1, CandidateIsOne
    <3>3. t.name = p
      OBVIOUS
    <3> HIDE DEF p, t
    <3>4. t \in toks
      BY <1>1, <3>1
    <3>5. p \in names
      BY <1>4, <3>3, <3>4
    <3>6. Has(p)'
      BY <1>5, <3>5
    <3> QED
      BY <2>1, <3>2, <3>6 DEF Resolves, ToSet
  <2> QED
    BY <2>2, <2>3
<1>7. CASE ~Alternate(tok, s)
  <2>1. Offers(tok.name) /\ Meets(tok.ver, Offered[tok.name])
    BY <1>7, AskedFor
  <2>2. CASE Has(tok.name) /\ Meets(tok.ver, pkgs[tok.name])
    BY <1>5, <2>1, <2>2
  <2>3. CASE ~(Has(tok.name) /\ Meets(tok.ver, pkgs[tok.name]))
    <3>1. Wanted(tok, s.verify) = {tok}
      BY <1>7, <2>3 DEF Wanted, Alternate
    <3>2. tok \in toks
      BY <1>1, <3>1
    <3> QED
      BY <1>4, <1>5, <2>1, <3>2
  <2> QED
    BY <2>2, <2>3
<1> QED
  BY <1>6, <1>7

(***************************************************************************)
(* What a step has done.                                                   *)
(***************************************************************************)
\* What file p holds, or will once the write under way is over.
View(p) == IF held # NoWrite /\ held.path = p THEN held.content ELSE Read(p)

Tags(c) == ToSet(TagsOf(c, TagKey(c)))

\* c is how step s leaves each of its files.
Good(s, c) ==
  CASE s.fn = "rc-line"   -> \E i \in DOMAIN c : Occurs(s.marker, c[i])
    [] s.fn = "rc-export" -> /\ \E i \in DOMAIN c : c[i].key = s.var
                             /\ \A i \in DOMAIN c : c[i].key = s.var => c[i].val = s.val
    [] s.fn = "schedule"  -> \E i \in DOMAIN c : /\ c[i] = OwnLine(s)
                                                 /\ \A j \in DOMAIN c : Finds(s, c[j]) => j = i
    [] s.fn = "tags"      -> /\ ToSet(s.add) \subseteq Tags(c) /\ Tags(c) \cap s.remove \subseteq ToSet(s.add)
                             /\ Once(TagsOf(c, TagKey(c)))
    [] s.fn = "unit-repoint"  -> \A i \in DOMAIN c : c[i].val \notin s.from
    [] s.fn = "user-unit"     -> s.overwrite => c = s.unit
    [] s.fn = "login-trigger" -> c = s.unit
    [] s.fn = "gnome-keyring" -> /\ \E i \in DOMAIN c : c[i].key = "SSH_AUTH_SOCK"
                                 /\ \A i \in DOMAIN c : c[i].key = "SSH_AUTH_SOCK" => c[i].val = "gcr"
    [] OTHER -> TRUE

\* How gnome-keyring leaves the agent that it replaces.
GpgGone == bus => "gpg-agent-ssh" \in masked \ (enabled \cup works)

\* What a device's step has entered in fstab.
Entered(s) == s.fstab /\ priv = "sudo" => \E i \in DOMAIN View("fstab") : View("fstab")[i].val = s.mnt

\* A share that is not mounted has its units written, and its credentials where
\* nenv answers.
Shared(s) ==
  /\ \A p \in ShareFiles : View(p) = ShareUnit(s.device)
  /\ s.nenv /\ net => View("smbcredentials") = Credentials

\* How s leaves the rest of the machine.
Stands(s) ==
  CASE s.fn = "unit-repoint"  -> bus => \A u \in ToSet(s.units) : loaded[u] = View(u)
    [] s.fn = "user-unit"     -> Exists(s.name) /\ (s.strict /\ s.enable => s.name \in enabled \cap works)
    [] s.fn = "login-trigger" -> loaded[s.name] = s.unit /\ image[s.name] = s.unit /\ s.name \in enabled
    [] s.fn = "gnome-keyring" -> GpgGone
    [] s.fn = "apt-install"   -> net /\ Root => AptMet(s)
    [] s.fn = "flatpak"       -> s.require => flat # {}
    [] s.fn = "git-extract"   -> /\ View(s.dest) = Blob(tracked)
                                 /\ net \/ s.fetch = "require" => tracked = upstream
    [] s.fn = "mount-share"   -> mounted # "none" \/ Shared(s)
    [] s.fn = "mount-device"  -> mounted # "none" /\ Entered(s)
    [] OTHER -> TRUE

Done(s) == (\A p \in Touches(s) : Good(s, View(p))) /\ Stands(s)

\* A step is at stage t, or has a write to finish before it is.
Past(t) == stage = t \/ (held # NoWrite /\ held.next = t)

\* A step of which a write is the last it does.
EndsInWrite(s) ==
  s.fn \in {"rc-export", "tags", "schedule", "git-extract"} \/ (s.fn = "user-unit" /\ ~s.enable)

\* How far step s is, while it is run: what it has written is as it will leave it.
SoFar(s) ==
  /\ s.fn \notin {"unit-repoint", "gnome-keyring"} /\ stage # "begin" => \A p \in Touches(s) : Good(s, View(p))
  /\ s.fn = "unit-repoint" =>
       \A k \in DOMAIN s.units : k < nth \/ (k = nth /\ Past("enable")) => Good(s, View(s.units[k]))
  /\ s.fn = "gnome-keyring" =>
       /\ stage # "begin" => GpgGone
       /\ \A k \in DOMAIN s.rcfiles : k < nth \/ (k = nth /\ Past("next")) => Good(s, View(s.rcfiles[k]))
  /\ s.fn = "mount-share" =>
       /\ stage # "begin" /\ s.nenv /\ net => View("smbcredentials") = Credentials
       /\ \A k \in DOMAIN ShareUnits : k < nth \/ (k = nth /\ Past("next")) => View(ShareUnits[k]) = ShareUnit(s.device)
  /\ s.fn = "user-unit" /\ stage = "arm" => Exists(s.name)
  /\ s.fn = "mount-device" /\ stage # "begin" => Entered(s)
  /\ s.fn = "git-extract" /\ stage # "begin" =>
       /\ IF net THEN tracked = upstream ELSE s.fetch = "best-effort"
       /\ held # NoWrite => View(s.dest) = Blob(tracked)
  /\ held # NoWrite /\ held.next = "done" => EndsInWrite(s)

\* In a run that nothing disturbs the steps before this one are done.
GoalsInv ==
  /\ at # 0 /\ clean =>
       /\ \A i \in DOMAIN recipe : \A s : i < at /\ s = recipe[i] => Done(s)
       /\ \A s : s = Step => SoFar(s)
  /\ at = 0 /\ settled => \A i \in DOMAIN recipe : \A s : s = recipe[i] => Done(s)

\* A line, and in a node.yaml that is for tags a list, if it is theirs.
LineFits(p, l) ==
  /\ IsLine(l)
  /\ /\ p = "node.yaml" /\ l.key \in {"labels", "tags"}
     /\ \E k \in DOMAIN recipe : recipe[k].fn = "tags"
     => IsFile(l.val)

Fits(p, c) == \A i \in DOMAIN c : LineFits(p, c[i])

\* No export finds a line by which a step before it finds its own.
Apart(p, c) ==
  \A i, j \in DOMAIN recipe :
    i < j /\ recipe[i].fn = "rc-line" /\ Exporter(recipe[j]) /\ p = recipe[i].file /\ p \in Touches(recipe[j]) =>
      \A k \in DOMAIN c : c[k].key = OwnLine(recipe[j]).key => ~Occurs(recipe[i].marker, c[k])

Sound(p, c) == IsFile(c) /\ Fits(p, c) /\ Apart(p, c)

\* So of what stands in a file, and of what a write is about to put there.
LinesInv == \A p : Sound(p, View(p)) /\ Sound(p, Read(p))

\* The manager knows of no unit that has no file.
LoadedInv == \A u \in UserUnit : ~Exists(u) => loaded[u] = Torn

(***************************************************************************)
(* What the files hold.                                                    *)
(***************************************************************************)
LEMMA GoodThen ==
  ASSUME NEW s, NEW p, NEW c, View(p)' = c, Good(s, c)
  PROVE  Good(s, View(p))'
<1>1. CASE s.fn = "rc-line"
  BY <1>1 DEF Good
<1>2. CASE s.fn = "rc-export"
  BY <1>2 DEF Good
<1>3. CASE s.fn = "schedule"
  BY <1>3 DEF Good
<1>4. CASE s.fn = "tags"
  BY <1>4 DEF Good
<1>5. CASE s.fn \in {"unit-repoint", "user-unit", "login-trigger", "gnome-keyring"}
  BY <1>5 DEF Good
<1>6. CASE s.fn \notin {"rc-line", "rc-export", "schedule", "tags", "unit-repoint", "user-unit", "login-trigger",
                         "gnome-keyring"}
  BY <1>6 DEF Good
<1> QED
  BY <1>1, <1>2, <1>3, <1>4, <1>5, <1>6

LEMMA ViewIsRead ==
  ASSUME FilesInv, stage \in Calm, NEW p
  PROVE  held = NoWrite /\ View(p) = Read(p)
BY DEF View, FilesInv, Calm, Writing

\* What a step that begins no write, or begins one, does to a file and to its view.
LEMMA MadeIs ==
  ASSUME FilesInv, at # 0, stage \in Calm, Makes, NEW p
  PROVE  \/ View(p)' = View(p) /\ Read(p)' = Read(p)
         \/ /\ p \in Touches(Step) /\ View(p) = Read(p)
            /\ \E c : View(p)' = c /\ NewContent(p, c) /\ Read(p)' \in {Read(p), c}
<1> DEFINE Goal == \/ View(p)' = View(p) /\ Read(p)' = Read(p)
                   \/ /\ p \in Touches(Step) /\ View(p) = Read(p)
                      /\ \E c : View(p)' = c /\ NewContent(p, c) /\ Read(p)' \in {Read(p), c}
<1> SUFFICES Goal
  OBVIOUS
<1>1. View(p) = Read(p)
  BY ViewIsRead
<1>2. CASE UNCHANGED disk /\ held' = NoWrite
  BY <1>1, <1>2 DEF View, Read, Exists
<1>3. ASSUME NEW q \in Touches(Step), NEW c, NewContent(q, c), AtOnce(q, c) \/ Begins(q, c)
      PROVE  Goal
  <2>1. CASE AtOnce(q, c)
    <3>1. Read(p)' = IF p = q THEN c ELSE Read(p)
      BY <2>1, PutReads DEF AtOnce, Kept
    <3>2. View(p)' = Read(p)'
      BY <2>1 DEF AtOnce, View
    <3> QED
      BY <1>1, <1>3, <3>1, <3>2
  <2>2. CASE Begins(q, c)
    <3>1. Read(p)' = Read(p)
      BY <2>2 DEF Begins, Read, Exists
    <3>2. View(p)' = IF p = q THEN c ELSE Read(p)'
      BY <2>2 DEF Begins, View
    <3> QED
      BY <1>1, <1>3, <3>1, <3>2
  <2> QED
    BY <1>3, <2>1, <2>2
<1> QED
  BY <1>2, <1>3 DEF Makes

LEMMA ViewsBecome ==
  ASSUME FilesInv, [Next]_vars, NEW p
  PROVE  \/ View(p)' = View(p)
         \/ KillRun /\ View(p)' = Read(p)
         \/ /\ RunStep /\ at # 0 /\ stage \in Calm /\ View(p) = Read(p) /\ p \in Touches(Step)
            /\ \E c : View(p)' = c /\ NewContent(p, c)
         \/ \E e \in Edits : UserEdits(e[1], e[2]) /\ e[1] = p /\ View(p)' = Append(View(p), e[2])
<1> DEFINE Goal == \/ View(p)' = View(p)
                   \/ KillRun /\ View(p)' = Read(p)
                   \/ /\ RunStep /\ at # 0 /\ stage \in Calm /\ View(p) = Read(p) /\ p \in Touches(Step)
                      /\ \E c : View(p)' = c /\ NewContent(p, c)
                   \/ \E e \in Edits : UserEdits(e[1], e[2]) /\ e[1] = p /\ View(p)' = Append(View(p), e[2])
<1> SUFFICES Goal
  OBVIOUS
<1>1. CASE UNCHANGED <<disk, held>>
  BY <1>1 DEF View, Read, Exists
<1>2. CASE UNCHANGED disk /\ held' = NoWrite /\ (KillRun \/ stage \in Calm)
  <2>1. View(p)' = Read(p)
    BY <1>2 DEF View, Read, Exists
  <2> QED
    BY <1>2, <2>1, ViewIsRead
<1>3. CASE Fill /\ held' = NoWrite
  <2>1. held # NoWrite /\ disk' = Put(held.path, held.content)
    BY <1>3 DEF Fill, FilesInv, Writing
  <2>2. Read(p)' = IF p = held.path THEN held.content ELSE Read(p)
    BY <2>1 DEF Put, Read, Exists
  <2> QED
    BY <1>3, <2>1, <2>2 DEF View
<1>4. CASE Truncate
  <2>1. held # NoWrite /\ held' = held /\ disk' = Put(held.path, Torn)
    BY <1>4 DEF Truncate, runVars, FilesInv, Writing
  <2>2. p # held.path => Read(p)' = Read(p)
    BY <2>1 DEF Put, Read, Exists
  <2> QED
    BY <2>1, <2>2 DEF View
<1>5. CASE RunStep /\ at # 0 /\ stage \in Calm /\ Makes
  BY <1>5, MadeIs
<1>6. ASSUME NEW e \in Edits, UserEdits(e[1], e[2])
      PROVE  Goal
  <2> DEFINE q == e[1]
             l == e[2]
  <2>1. held' = held /\ disk' = Put(q, Append(Read(q), l))
    BY <1>6 DEF UserEdits, Appends, Disturbed
  <2>2. Read(p)' = IF p = q THEN Append(Read(q), l) ELSE Read(p)
    BY <2>1, PutReads DEF Kept
  <2>3. View(p)' = IF held # NoWrite /\ held.path = p THEN held.content ELSE Read(p)'
    BY <2>1 DEF View
  <2> QED
    BY <1>6, <2>2, <2>3 DEF View
<1> QED
  BY <1>1, <1>2, <1>3, <1>4, <1>5, <1>6, FilesBecome

LEMMA ReadsBecome ==
  ASSUME FilesInv, [Next]_vars, NEW p
  PROVE  \/ Read(p)' \in {Read(p), View(p), Torn}
         \/ /\ at # 0 /\ View(p) = Read(p) /\ p \in Touches(Step)
            /\ \E c : Read(p)' = c /\ NewContent(p, c)
         \/ \E e \in Edits : e[1] = p /\ Read(p)' = Append(Read(p), e[2])
<1>1. CASE UNCHANGED disk
  BY <1>1 DEF Read, Exists
<1>2. CASE Fill /\ held' = NoWrite
  <2>1. held # NoWrite /\ disk' = Put(held.path, held.content)
    BY <1>2 DEF Fill, FilesInv, Writing
  <2>2. Read(p)' = IF p = held.path THEN held.content ELSE Read(p)
    BY <2>1 DEF Put, Read, Exists
  <2> QED
    BY <2>1, <2>2 DEF View
<1>3. CASE Truncate
  <2>1. Read(p)' = IF p = held.path THEN Torn ELSE Read(p)
    BY <1>3 DEF Truncate, Put, Read, Exists
  <2> QED
    BY <2>1
<1>4. CASE RunStep /\ at # 0 /\ stage \in Calm /\ Makes
  BY <1>4, MadeIs
<1>5. ASSUME NEW e \in Edits, UserEdits(e[1], e[2])
      PROVE  \/ Read(p)' = Read(p)
             \/ e[1] = p /\ Read(p)' = Append(Read(p), e[2])
  <2>1. disk' = Put(e[1], Append(Read(e[1]), e[2]))
    BY <1>5 DEF UserEdits, Appends
  <2>2. Read(e[1])' = Append(Read(e[1]), e[2]) /\ Kept({e[1]})
    BY <2>1, PutReads
  <2> QED
    BY <2>2 DEF Kept
<1> QED
  BY <1>1, <1>2, <1>3, <1>4, <1>5, FilesBecome

LEMMA LinesThen ==
  ASSUME recipe' = recipe, NEW p, NEW c, Sound(p, c)
  PROVE  /\ View(p)' = c => Sound(p, View(p))'
         /\ Read(p)' = c => Sound(p, Read(p))'
<1>1. IsFile(c) /\ Fits(p, c) /\ Apart(p, c)
  BY DEF Sound
<1>2. ASSUME View(p)' = c PROVE Sound(p, View(p))'
  <2>1. IsFile(View(p))'
    BY <1>1, <1>2 DEF IsFile, ToSet
  <2>2. Fits(p, View(p))'
    BY <1>1, <1>2 DEF Fits, LineFits
  <2>3. Apart(p, View(p))'
    BY <1>1, <1>2 DEF Apart
  <2> QED
    BY <2>1, <2>2, <2>3 DEF Sound
<1>3. ASSUME Read(p)' = c PROVE Sound(p, Read(p))'
  <2>1. IsFile(Read(p))'
    BY <1>1, <1>3 DEF IsFile, ToSet
  <2>2. Fits(p, Read(p))'
    BY <1>1, <1>3 DEF Fits, LineFits
  <2>3. Apart(p, Read(p))'
    BY <1>1, <1>3 DEF Apart
  <2> QED
    BY <2>1, <2>2, <2>3 DEF Sound
<1> QED
  BY <1>2, <1>3

LEMMA Agreed ==
  ASSUME StepsAgree, FilesInv
  PROVE  /\ \A i \in DOMAIN recipe :
              /\ recipe[i].fn = "rc-line"      => Occurs(recipe[i].marker, recipe[i].line)
              /\ recipe[i].fn = "unit-repoint" => recipe[i].to \notin recipe[i].from
              /\ recipe[i].fn = "apt-install"  => Obtainable(recipe[i])
         /\ \A i, j \in DOMAIN recipe : i < j =>
              /\ Leaves(recipe[i], recipe[j])
              /\ recipe[i].fn = "rc-line" /\ Exporter(recipe[j]) /\ recipe[i].file \in Touches(recipe[j]) =>
                   \A l \in MayStand(recipe[i].file, recipe) :
                     l.key = OwnLine(recipe[j]).key => ~Occurs(recipe[i].marker, l)
BY DEF StepsAgree, FilesInv

\* What node.yaml is for, in a recipe with tags, is tags alone.
LEMMA TagsAlone ==
  ASSUME StepsAgree, FilesInv, at # 0, "node.yaml" \in Touches(Step), NEW k \in DOMAIN recipe,
         recipe[k].fn = "tags"
  PROVE  Step.fn = "tags"
<1>1. at \in DOMAIN recipe /\ Step = recipe[at]
  BY StepKnown DEF Step
<1>2. "node.yaml" \in Touches(recipe[k])
  BY DEF Touches
<1>3. k \in Nat /\ at \in Nat
  <2>1. DOMAIN recipe = 1..Len(recipe) /\ Len(recipe) \in Nat
    BY RecipeLen DEF FilesInv
  <2> QED
    BY <1>1, <2>1
<1>4. CASE k = at
  BY <1>1, <1>4
<1>5. CASE k < at
  <2>1. SharesFile(recipe[k], Step)
    BY <1>1, <1>2, <1>5, Agreed DEF Leaves
  <2> QED
    BY <2>1 DEF SharesFile, Exporter
<1>6. CASE at < k
  <2>1. SharesFile(Step, recipe[k])
    BY <1>1, <1>2, <1>6, Agreed DEF Leaves
  <2> QED
    BY <2>1 DEF SharesFile, Exporter
<1> QED
  BY <1>3, <1>4, <1>5, <1>6

LEMMA ExportOf ==
  ASSUME NEW a, NEW var, NEW val, NEW own, own = Line(a, var, val), NEW c, NEW d, c = WithExport(d, var, val)
  PROVE  c = WithExport(d, own.key, own.val)
<1>1. own.key = var /\ own.val = val
  BY DEF Line
<1> QED
  BY <1>1

\* What an exporter makes of its files.
LEMMA ExporterMakes ==
  ASSUME Exporter(Step), NEW p, NEW c, NewContent(p, c)
  PROVE  c = WithExport(Read(p), OwnLine(Step).key, OwnLine(Step).val)
<1> DEFINE own  == OwnLine(Step)
           lead == ""
<1>1. CASE Step.fn = "rc-export"
  <2>1. own = Line(lead, Step.var, Step.val) /\ c = WithExport(Read(p), Step.var, Step.val)
    BY <1>1 DEF NewContent, OwnLine
  <2> HIDE DEF lead, own
  <2>2. c = WithExport(Read(p), own.key, own.val)
    BY <2>1, ExportOf
  <2> QED
    BY <2>2 DEF own
<1>2. CASE Step.fn = "gnome-keyring"
  <2>1. own = Line(lead, "SSH_AUTH_SOCK", "gcr") /\ c = WithExport(Read(p), "SSH_AUTH_SOCK", "gcr")
    BY <1>2 DEF NewContent, OwnLine
  <2> HIDE DEF lead, own
  <2>2. c = WithExport(Read(p), own.key, own.val)
    BY <2>1, ExportOf
  <2> QED
    BY <2>2 DEF own
<1> QED
  BY <1>1, <1>2 DEF Exporter

\* How an exporter leaves a file.
LEMMA ExporterIsGood ==
  ASSUME NEW s, Exporter(s), NEW c, NEW own, own = OwnLine(s)
  PROVE  Good(s, c) <=> /\ \E k \in DOMAIN c : c[k].key = own.key
                        /\ \A k \in DOMAIN c : c[k].key = own.key => c[k].val = own.val
<1> DEFINE lead == ""
<1>1. CASE s.fn = "rc-export"
  <2>1. own = Line(lead, s.var, s.val)
    BY <1>1 DEF OwnLine
  <2> HIDE DEF lead
  <2>2. own.key = s.var /\ own.val = s.val
    BY <2>1, LineIs
  <2> QED
    BY <1>1, <2>2 DEF Good
<1>2. CASE s.fn = "gnome-keyring"
  <2>1. own = Line(lead, "SSH_AUTH_SOCK", "gcr")
    BY <1>2 DEF OwnLine
  <2> HIDE DEF lead
  <2>2. own.key = "SSH_AUTH_SOCK" /\ own.val = "gcr"
    BY <2>1, LineIs
  <2> QED
    BY <1>2, <2>2 DEF Good
<1> QED
  BY <1>1, <1>2 DEF Exporter

\* A file holds lists of tags where tags are set.
LEMMA TagsAreList ==
  ASSUME NEW c, IsFile(c), Fits("node.yaml", c), NEW k \in DOMAIN recipe, recipe[k].fn = "tags"
  PROVE  IsFile(TagsOf(c, TagKey(c)))
<1>1. TagKey(c) \in {"labels", "tags", "none"}
  BY TagKeyIs
<1>2. IsFile(<<>>)
  BY NothingIsFile DEF Torn
<1>3. \A i \in DOMAIN c : c[i].key \in {"labels", "tags"} => IsFile(c[i].val)
  BY DEF Fits, LineFits
<1>4. CASE TagsOf(c, TagKey(c)) = <<>>
  BY <1>2, <1>4
<1>5. CASE \E i \in DOMAIN c : c[i].key = TagKey(c) /\ TagsOf(c, TagKey(c)) = c[i].val /\ TagKey(c) # "none"
  BY <1>1, <1>3, <1>5
<1> QED
  BY <1>4, <1>5, TagsOfIs

LEMMA AppendLined ==
  ASSUME NEW c, Lined(c), NEW x, IsLine(x), NEW d, d = Append(c, x)
  PROVE  Lined(d)
<1>1. IsFile(c) /\ \A i \in DOMAIN c : IsLine(c[i])
  BY DEF Lined
<1>2. IsFile(d)
  BY <1>1, AppendKeeps
<1> DEFINE n == Len(c) + 1
<1>3. DOMAIN d = DOMAIN c \cup {n} /\ (\A i \in DOMAIN c : d[i] = c[i]) /\ d[n] = x
  BY <1>1, AppendIs
<1> HIDE DEF n
<1>4. \A i \in DOMAIN d : IsLine(d[i])
  BY <1>1, <1>3
<1> QED
  BY <1>2, <1>4 DEF Lined

LEMMA OneLine ==
  ASSUME NEW x, IsLine(x)
  PROVE  Lined(<<x>>)
<1>1. <<x>> \in Seq({x}) /\ ToSet(<<x>>) = {x} /\ DOMAIN <<x>> = {1} /\ <<x>>[1] = x
  BY DEF ToSet
<1> QED
  BY <1>1 DEF Lined, IsFile

\* Whatever a step puts into a file is made of lines.
LEMMA NewLines ==
  ASSUME FilesInv, at # 0, NEW p \in Touches(Step), Lined(Read(p)), NEW c, NewContent(p, c)
  PROVE  Lined(c)
<1>1. \A a, b, v : IsLine(Line(a, b, v))
  BY LineIs
<1>2. CASE Step.fn = "rc-line"
  <2>1. c = Append(Read(p), Step.line) /\ IsLine(Step.line)
    BY <1>2, StepKnown DEF NewContent, StepIsTyped
  <2> QED
    BY <2>1, AppendLined
<1>3. CASE Exporter(Step)
  BY <1>3, ExporterMakes, WithExportIs
<1>4. CASE Step.fn = "schedule"
  <2> DEFINE x == Line(Step.spec, Step.name, Step.payload)
  <2>1. c = Append(OtherJobs(Read(p), Step.name, Step.payload), x)
    BY <1>4 DEF NewContent
  <2>2. IsLine(x)
    BY <1>1
  <2> HIDE DEF x
  <2> QED
    BY <2>1, <2>2, JobsAre
<1>5. CASE Step.fn = "tags"
  <2> DEFINE k   == TagKey(Read(p))
             now == Retagged(TagsOf(Read(p), k), Step.add, Step.remove)
  <2>1. c = WithTags(Read(p), k, now)
    BY <1>5 DEF NewContent
  <2> HIDE DEF now
  <2> QED
    BY <2>1, WithTagsIs
<1>6. CASE Step.fn = "unit-repoint"
  BY <1>6, PatchedIs DEF NewContent
<1>7. CASE Step.fn \in {"user-unit", "login-trigger"}
  <2>1. c = Step.unit
    BY <1>7 DEF NewContent
  <2>2. IsFile(c) /\ \A l \in ToSet(c) : IsLine(l)
    BY <1>7, <2>1, StepKnown DEF StepIsTyped, IsFile
  <2>3. \A i \in DOMAIN c : c[i] \in ToSet(c)
    BY DEF ToSet
  <2> QED
    BY <2>2, <2>3 DEF Lined
<1>8. CASE Step.fn \in {"git-extract", "mount-share"}
  <2>1. \/ c = Blob(tracked)
        \/ c = Credentials
        \/ c = ShareUnit(Step.device)
    BY <1>8 DEF NewContent
  <2>2. \E x : IsLine(x) /\ c = <<x>>
    BY <1>1, <2>1 DEF Blob, Credentials, ShareUnit
  <2> QED
    BY <2>2, OneLine
<1>9. CASE Step.fn = "mount-device"
  <2> DEFINE x == Line("gogitops", Step.device, Step.mnt)
  <2>1. c = Append(Read(p), x) /\ IsLine(x)
    BY <1>1, <1>9 DEF NewContent
  <2> HIDE DEF x
  <2> QED
    BY <2>1, AppendLined
<1> QED
  BY <1>2, <1>3, <1>4, <1>5, <1>6, <1>7, <1>8, <1>9 DEF NewContent, Exporter

LEMMA NewFits ==
  ASSUME StepsAgree, FilesInv, at # 0, NEW p \in Touches(Step),
         IsFile(Read(p)), Fits(p, Read(p)), NEW c, NewContent(p, c)
  PROVE  Fits(p, c)
<1> DEFINE old == Read(p)
<1>1. Lined(old)
  BY DEF Lined, Fits, LineFits
<1>2. Lined(c)
  BY <1>1, NewLines
<1>3. CASE Step.fn # "tags"
  <2>1. p = "node.yaml" => \A k \in DOMAIN recipe : recipe[k].fn # "tags"
    BY <1>3, TagsAlone
  <2> QED
    BY <1>2, <2>1 DEF Fits, LineFits, Lined
<1>4. CASE Step.fn = "tags"
  <2> DEFINE k   == TagKey(old)
             t   == TagsOf(old, k)
             now == Retagged(t, Step.add, Step.remove)
  <2>1. p = "node.yaml"
    BY <1>4 DEF Touches
  <2>2. at \in DOMAIN recipe /\ recipe[at].fn = "tags" /\ IsFile(Step.add)
    BY <1>4, StepKnown DEF Step, StepIsTyped, IsFile
  <2>3. IsFile(t)
    BY <2>1, <2>2, TagsAreList
  <2>4. IsFile(now)
    BY <2>2, <2>3, RetaggedHolds
  <2>5. c = WithTags(old, k, now)
    BY <1>4 DEF NewContent
  <2> HIDE DEF now
  <2>6. \A i \in DOMAIN c : c[i].key \in {"labels", "tags"} => c[i].val = now \/ (i \in DOMAIN old /\ c[i] = old[i])
    BY <1>1, <2>5, WithTagsIs
  <2> HIDE DEF old
  <2>7. ASSUME NEW i \in DOMAIN c PROVE LineFits(p, c[i])
    <3>1. IsLine(c[i])
      BY <1>2 DEF Lined
    <3>2. c[i].key \in {"labels", "tags"} => IsFile(c[i].val)
      <4>1. CASE c[i].val = now
        BY <2>4, <4>1
      <4>2. CASE i \in DOMAIN old /\ c[i] = old[i]
        BY <2>1, <2>2, <4>2 DEF Fits, LineFits, old
      <4> QED
        BY <2>6, <4>1, <4>2
    <3> QED
      BY <3>1, <3>2 DEF LineFits
  <2> QED
    BY <2>7 DEF Fits
<1> QED
  BY <1>3, <1>4

LEMMA SameOccurs ==
  ASSUME NEW k, NEW l, l.key = k.key, l.val = k.val, NEW m
  PROVE  Occurs(m, l) <=> Occurs(m, k)
BY DEF Occurs

LEMMA TheyMayStand ==
  ASSUME NEW p, NEW r
  PROVE  /\ \A d \in Disks : p \in DOMAIN d => ToSet(d[p]) \subseteq MayStand(p, r)
         /\ \A e \in Edits : e[1] = p => e[2] \in MayStand(p, r)
         /\ \A i \in DOMAIN r : p \in Touches(r[i]) => OwnLine(r[i]) \in MayStand(p, r)
<1> DEFINE D == UNION {ToSet(d[p]) : d \in {c \in Disks : p \in DOMAIN c}}
           E == {e[2] : e \in {f \in Edits : f[1] = p}}
           L == {OwnLine(r[k]) : k \in {i \in DOMAIN r : p \in Touches(r[i])}}
<1>1. MayStand(p, r) = D \cup E \cup L
  BY DEF MayStand
<1>2. \A d \in Disks : p \in DOMAIN d => ToSet(d[p]) \subseteq D
  OBVIOUS
<1>3. \A e \in Edits : e[1] = p => e[2] \in E
  OBVIOUS
<1>4. \A i \in DOMAIN r : p \in Touches(r[i]) => OwnLine(r[i]) \in L
  OBVIOUS
<1> HIDE DEF D, E, L
<1> QED
  BY <1>1, <1>2, <1>3, <1>4

LEMMA OwnMayStand ==
  ASSUME FilesInv, at # 0, NEW p \in Touches(Step)
  PROVE  OwnLine(Step) \in MayStand(p, recipe)
<1>1. at \in DOMAIN recipe /\ Step = recipe[at]
  BY StepKnown DEF Step
<1> QED
  BY <1>1, TheyMayStand

\* A file in which an rc-line keeps its line is written by rc-lines and exports.
LEMMA WritersOfLines ==
  ASSUME StepsAgree, FilesInv, at # 0, NEW i \in DOMAIN recipe, recipe[i].fn = "rc-line",
         recipe[i].file \in Touches(Step)
  PROVE  Step.fn = "rc-line" \/ Exporter(Step)
<1>1. at \in DOMAIN recipe /\ Step = recipe[at]
  BY StepKnown DEF Step
<1>2. recipe[i].file \in Touches(recipe[i])
  BY DEF Touches
<1>3. i \in Nat /\ at \in Nat
  <2>1. DOMAIN recipe = 1..Len(recipe) /\ Len(recipe) \in Nat
    BY RecipeLen DEF FilesInv
  <2> QED
    BY <1>1, <2>1
<1>4. CASE i = at
  BY <1>1, <1>4
<1>5. CASE i < at
  <2>1. SharesFile(recipe[i], Step)
    BY <1>1, <1>2, <1>5, Agreed DEF Leaves
  <2> QED
    BY <2>1 DEF SharesFile
<1>6. CASE at < i
  <2>1. SharesFile(Step, recipe[i])
    BY <1>1, <1>2, <1>6, Agreed DEF Leaves
  <2> QED
    BY <2>1 DEF SharesFile, Exporter
<1> QED
  BY <1>3, <1>4, <1>5, <1>6

LEMMA NewApart ==
  ASSUME StepsAgree, FilesInv, at # 0, NEW p \in Touches(Step),
         Lined(Read(p)), Apart(p, Read(p)), NEW c, NewContent(p, c)
  PROVE  Apart(p, c)
<1> SUFFICES ASSUME NEW i \in DOMAIN recipe, NEW j \in DOMAIN recipe, i < j,
                    recipe[i].fn = "rc-line", Exporter(recipe[j]), p = recipe[i].file, p \in Touches(recipe[j]),
                    NEW k \in DOMAIN c, c[k].key = OwnLine(recipe[j]).key
             PROVE  ~Occurs(recipe[i].marker, c[k])
  BY DEF Apart
<1> DEFINE old == Read(p)
           own == OwnLine(Step)
           key == OwnLine(recipe[j]).key
           m   == recipe[i].marker
<1>1. \A l \in MayStand(p, recipe) : l.key = key => ~Occurs(m, l)
  BY Agreed
<1>2. own \in MayStand(p, recipe)
  BY OwnMayStand
<1>3. \A n \in DOMAIN old : old[n].key = key => ~Occurs(m, old[n])
  BY DEF Apart
<1>4. \/ k \in DOMAIN old /\ c[k] = old[k]
      \/ c[k].key = own.key /\ c[k].val = own.val
  <2>1. CASE Step.fn = "rc-line"
    <3>1. c = Append(old, own)
      BY <2>1 DEF NewContent, OwnLine
    <3> HIDE DEF old, own
    <3> DEFINE n == Len(old) + 1
    <3>2. DOMAIN c = DOMAIN old \cup {n} /\ (\A q \in DOMAIN old : c[q] = old[q]) /\ c[n] = own
      BY <3>1, AppendIs DEF Lined, old
    <3> HIDE DEF n
    <3> QED
      BY <3>2
  <2>2. CASE Exporter(Step)
    <3>1. c = WithExport(old, own.key, own.val)
      BY <2>2, ExporterMakes
    <3> HIDE DEF own
    <3> QED
      BY <3>1, WithExportIs
  <2> QED
    BY <2>1, <2>2, WritersOfLines
<1> HIDE DEF own, key, m, old
<1>5. c[k].key = key
  BY DEF key
<1>6. ~Occurs(m, c[k])
  <2>1. CASE k \in DOMAIN old /\ c[k] = old[k]
    BY <1>3, <1>5, <2>1
  <2>2. CASE c[k].key = own.key /\ c[k].val = own.val
    <3>1. ~Occurs(m, own)
      BY <1>1, <1>2, <1>5, <2>2
    <3> QED
      BY <2>2, <3>1, SameOccurs
  <2> QED
    BY <1>4, <2>1, <2>2
<1> QED
  BY <1>6 DEF m

(***************************************************************************)
(* The files of a recipe whose steps agree.                                *)
(***************************************************************************)
LEMMA LinesInit == ASSUME StepsAgree PROVE Init => LinesInv
<1> SUFFICES ASSUME Init, NEW p, NEW c, c = Read(p)
             PROVE  Sound(p, c)
  BY DEF LinesInv, Init, FilesInit, View
<1>1. FilesInv /\ ListsInv
  BY FilesInit1, ListsInit
<1>2. disk \in Disks
  BY DEF Init, FilesInit
<1>3. CASE ~Exists(p)
  <2>1. c = Torn
    BY <1>3 DEF Read
  <2> QED
    BY <2>1, NothingIsFile DEF Sound, Fits, Apart, Torn
<1>4. CASE Exists(p)
  <2>1. c = disk[p] /\ p \in DOMAIN disk
    BY <1>4 DEF Read, Exists
  <2>2. \A i \in DOMAIN c : c[i] \in ToSet(c)
    BY DEF ToSet
  <2>3. \A i \in DOMAIN c : LineFits(p, c[i])
    <3>1. \A l \in ToSet(c) : LineIsTyped(p, l)
      BY <1>2, <2>1, RecipesAreTyped
    <3> QED
      BY <2>2, <3>1 DEF LineFits, LineIsTyped, IsFile
  <2>4. \A i \in DOMAIN c : c[i] \in MayStand(p, recipe)
    BY <1>2, <2>1, <2>2, TheyMayStand
  <2>5. Apart(p, c)
    BY <1>1, <2>4, Agreed DEF Apart
  <2> QED
    BY <1>1, <2>3, <2>5 DEF ListsInv, Fits, Sound
<1> QED
  BY <1>3, <1>4

\* A file with a line that the user adds.
LEMMA EditIsSound ==
  ASSUME StepsAgree, FilesInv, NEW e \in Edits, NEW p, e[1] = p, NEW old, Sound(p, old)
  PROVE  Sound(p, Append(old, e[2]))
<1> DEFINE l == e[2]
           c == Append(old, l)
           n == Len(old) + 1
<1>1. IsFile(c) /\ DOMAIN c = DOMAIN old \cup {n} /\ (\A q \in DOMAIN old : c[q] = old[q]) /\ c[n] = l
  BY AppendIs, AppendKeeps DEF Sound
<1>2. LineFits(p, l)
  BY RecipesAreTyped DEF LineIsTyped, LineFits, IsFile
<1>3. l \in MayStand(p, recipe)
  BY TheyMayStand
<1> HIDE DEF c, l, n
<1>4. Fits(p, c)
  BY <1>1, <1>2 DEF Fits, Sound
<1>5. Apart(p, c)
  <2> SUFFICES ASSUME NEW i \in DOMAIN recipe, NEW j \in DOMAIN recipe, i < j,
                      recipe[i].fn = "rc-line", Exporter(recipe[j]), p = recipe[i].file, p \in Touches(recipe[j]),
                      NEW k \in DOMAIN c, c[k].key = OwnLine(recipe[j]).key
               PROVE  ~Occurs(recipe[i].marker, c[k])
    BY DEF Apart
  <2>1. CASE k = n
    BY <1>1, <1>3, <2>1, Agreed
  <2>2. CASE k \in DOMAIN old
    BY <1>1, <2>2 DEF Apart, Sound
  <2> QED
    BY <1>1, <2>1, <2>2
<1> QED
  BY <1>1, <1>4, <1>5 DEF Sound, c, l

LEMMA LinesStep ==
  ASSUME StepsAgree, FilesInv, LinesInv, [Next]_vars
  PROVE  LinesInv'
<1> SUFFICES ASSUME NEW p
             PROVE  Sound(p, View(p))' /\ Sound(p, Read(p))'
  BY DEF LinesInv
<1>1. recipe' = recipe
  BY RecipeKept
<1>2. Sound(p, View(p)) /\ Sound(p, Read(p))
  BY DEF LinesInv
<1>3. Sound(p, Torn)
  BY NothingIsFile DEF Sound, Fits, Apart, Torn
<1>4. ASSUME at # 0, p \in Touches(Step), NEW c, NewContent(p, c)
      PROVE  Sound(p, c)
  <2>1. Lined(Read(p))
    BY <1>2 DEF Sound, Lined, Fits, LineFits
  <2> QED
    BY <1>2, <1>4, <2>1, NewLines, NewFits, NewApart DEF Lined, Sound
<1>5. ASSUME NEW e \in Edits, e[1] = p, NEW old \in {View(p), Read(p)}
      PROVE  Sound(p, Append(old, e[2]))
  BY <1>2, <1>5, EditIsSound
<1>6. \E c : View(p)' = c /\ Sound(p, c)
  <2>1. CASE View(p)' = View(p) \/ View(p)' = Read(p)
    BY <1>2, <2>1
  <2>2. CASE at # 0 /\ p \in Touches(Step) /\ \E c : View(p)' = c /\ NewContent(p, c)
    BY <1>4, <2>2
  <2>3. CASE \E e \in Edits : e[1] = p /\ View(p)' = Append(View(p), e[2])
    BY <1>5, <2>3
  <2> QED
    BY <2>1, <2>2, <2>3, ViewsBecome
<1>7. \E c : Read(p)' = c /\ Sound(p, c)
  <2>1. CASE Read(p)' \in {Read(p), View(p), Torn}
    BY <1>2, <1>3, <2>1
  <2>2. CASE at # 0 /\ p \in Touches(Step) /\ \E c : Read(p)' = c /\ NewContent(p, c)
    BY <1>4, <2>2
  <2>3. CASE \E e \in Edits : e[1] = p /\ Read(p)' = Append(Read(p), e[2])
    BY <1>5, <2>3
  <2> QED
    BY <2>1, <2>2, <2>3, ReadsBecome
<1> QED
  BY <1>1, <1>6, <1>7, LinesThen

(***************************************************************************)
(* What a run moves on the machine.                                        *)
(***************************************************************************)
\* gnome-keyring alone takes units from what is enabled and works; what is new
\* there is not masked, or is a unit that a repoint enables.
UnitsMove ==
  /\ bus' = bus /\ masked \subseteq masked'
  /\ \A u \in UserUnit : /\ loaded'[u] \in {loaded[u], Read(u)}
                         /\ image'[u] \in {image[u], loaded[u], Read(u)}
  /\ \A u : (u \in enabled /\ u \notin enabled') \/ (u \in works /\ u \notin works') =>
              Step.fn = "gnome-keyring" /\ u \in {"gpg-agent-ssh", "ssh-agent"}
  /\ \A u : u \in works' => u \in works \/ u \notin masked
  /\ \A u : u \in enabled' => \/ u \in enabled \/ u \notin masked
                              \/ Step.fn = "unit-repoint" /\ Step.enable /\ u \in ToSet(Step.units)

InstallsMove ==
  /\ \A p : Has(p) => Has(p)' /\ pkgs'[p] \in {pkgs[p], Offered[p]}
  /\ flat \subseteq flat'
  /\ upstream' = upstream /\ (tracked' = tracked \/ (net /\ tracked' = upstream))

LEMMA UnitsMoved ==
  ASSUME FilesInv, UnitsInv, UnitStep
  PROVE  UnitsMove
<1>1. CASE UNCHANGED unitVars
  BY <1>1 DEF unitVars, UnitsMove
<1>2. CASE UnitRestart
  <2>1. UNCHANGED <<bus, loaded, enabled, masked>>
    BY <1>2 DEF UnitRestart
  <2>2. CASE UNCHANGED <<works, image>>
    BY <2>1, <2>2 DEF UnitsMove
  <2>3. ASSUME NEW u \in works, works' = works,
               image' = [v \in UserUnit |-> IF v = u THEN loaded[v] ELSE image[v]]
        PROVE  UnitsMove
    BY <2>1, <2>3 DEF UnitsMove
  <2> QED
    BY <1>2, <2>2, <2>3, UnitRestartOK
<1>3. CASE RepointEnable
  <2>1. UNCHANGED <<works, bus, loaded, image, masked>> /\ Step.fn = "unit-repoint"
    BY <1>3 DEF RepointEnable, On
  <2>2. \/ enabled' = enabled
        \/ /\ Step.enable /\ Step.units[nth] \in ToSet(Step.units)
           /\ enabled' = enabled \cup {Step.units[nth]}
    BY <1>3 DEF RepointEnable, FoundUnits
  <2> QED
    BY <2>1, <2>2 DEF UnitsMove
<1>4. CASE RepointEnds
  <2>1. UNCHANGED <<works, bus, image, enabled, masked>> /\ (Reload \/ UNCHANGED loaded)
    BY <1>4 DEF RepointEnds
  <2> QED
    BY <2>1 DEF Reload, UnitsMove
<1>5. CASE ArmUserUnit
  <2> DEFINE u == Step.name
  <2>1. u \in UserUnit
    BY <1>5, StepKnown DEF ArmUserUnit, On, StepIsTyped
  <2>2. UNCHANGED <<bus, masked>> /\ (Reload \/ UNCHANGED loaded)
    BY <1>5 DEF ArmUserUnit
  <2>3. \A v \in UserUnit : loaded'[v] \in {loaded[v], Read(v)}
    BY <2>2 DEF Reload
  <2>4. CASE UNCHANGED <<works, image, enabled>>
    BY <2>2, <2>3, <2>4 DEF UnitsMove
  <2>5. CASE /\ u \notin masked /\ enabled' = enabled \cup {u} /\ works' = works \cup {u}
             /\ image' = [image EXCEPT ![u] = IF u \in works THEN @ ELSE Read(u)]
    <3> HIDE DEF u
    <3>1. \A v \in UserUnit : image'[v] \in {image[v], Read(v)}
      BY <2>1, <2>5 DEF UnitsInv
    <3> QED
      BY <2>2, <2>3, <2>5, <3>1 DEF UnitsMove
  <2> QED
    BY <1>5, <2>4, <2>5 DEF ArmUserUnit
<1>6. CASE ArmLoginTrigger
  <2> DEFINE u == Step.name
  <2>1. u \in UserUnit
    BY <1>6, StepKnown DEF ArmLoginTrigger, On, StepIsTyped
  <2>2. UNCHANGED <<works, bus, masked>>
    BY <1>6 DEF ArmLoginTrigger
  <2>3. CASE UNCHANGED <<enabled, image>> /\ (Reload \/ UNCHANGED loaded)
    BY <2>2, <2>3 DEF UnitsMove, Reload
  <2>4. CASE /\ u \notin masked /\ Reload /\ enabled' = enabled \cup {u}
             /\ image' = [image EXCEPT ![u] = Read(u)]
    <3> HIDE DEF u
    <3>1. \A v \in UserUnit : image'[v] \in {image[v], Read(v)}
      BY <2>1, <2>4 DEF UnitsInv
    <3> QED
      BY <2>2, <2>4, <3>1 DEF UnitsMove, Reload
  <2> QED
    BY <1>6, <2>3, <2>4 DEF ArmLoginTrigger
<1>7. CASE GnomeUnits
  <2>1. UNCHANGED <<bus, loaded>> /\ Step.fn = "gnome-keyring"
    BY <1>7 DEF GnomeUnits, On
  <2>2. CASE UNCHANGED <<enabled, masked, works, image>>
    BY <2>1, <2>2 DEF UnitsMove
  <2>3. CASE bus
    <3> DEFINE gone == {"gpg-agent-ssh", "ssh-agent"}
               gcr  == {u \in {"gcr-ssh-agent"} : CanStart(u)}
    <3>1. /\ enabled' = (enabled \cup gcr) \ gone /\ masked' = masked \cup {"gpg-agent-ssh"}
          /\ works' = (works \cup gcr) \ gone
          /\ image' = [u \in UserUnit |-> IF u \in gcr \ works THEN loaded[u] ELSE image[u]]
      BY <1>7, <2>3 DEF GnomeUnits
    <3>2. \A u \in gcr : u \notin masked
      BY DEF CanStart
    <3> HIDE DEF gcr
    <3> QED
      BY <2>1, <3>1, <3>2 DEF UnitsMove
  <2> QED
    BY <1>7, <2>2, <2>3 DEF GnomeUnits
<1> QED
  BY <1>1, <1>2, <1>3, <1>4, <1>5, <1>6, <1>7 DEF UnitStep, RepointUnit, WriteUserUnit, WriteLoginTrigger,
     GnomeRcFile, GnomeNextFile, GnomeEnds

LEMMA InstallsMoved ==
  ASSUME InstallStep
  PROVE  InstallsMove
<1>1. CASE UNCHANGED installVars
  BY <1>1 DEF installVars, InstallsMove, Has
<1>2. CASE AptInstall
  <2>1. UNCHANGED <<flat, upstream, tracked>>
    BY <1>2 DEF AptInstall
  <2>2. \E names : pkgs' = pkgs \/ pkgs' = Installed(names)
    BY <1>2 DEF AptInstall
  <2> QED
    BY <2>1, <2>2 DEF Installed, InstallsMove, Has
<1>3. CASE FlatpakInstall
  BY <1>3 DEF FlatpakInstall, InstallsMove, Has
<1>4. CASE Package
  <2>1. UNCHANGED <<flat, upstream, tracked>>
    BY <1>4 DEF Package
  <2>2. \E x : pkgs' = pkgs \/ pkgs' = [p \in DOMAIN pkgs \cup {x} |-> IF Has(p) THEN pkgs[p] ELSE "some"]
    BY <1>4 DEF Package
  <2> QED
    BY <2>1, <2>2 DEF InstallsMove, Has
<1>5. CASE GitFetch
  BY <1>5 DEF GitFetch, InstallsMove, Has
<1>6. CASE GitShow
  BY <1>1, <1>6 DEF GitShow
<1> QED
  BY <1>2, <1>3, <1>4, <1>5, <1>6 DEF InstallStep

LEMMA RunMoves ==
  ASSUME FilesInv, UnitsInv, RestInv, RunStep
  PROVE  UnitsMove /\ InstallsMove /\ (mounted # "none" => mounted' # "none")
<1>1. UnitsMove
  <2>1. CASE UNCHANGED unitVars
    BY <2>1 DEF unitVars, UnitsMove
  <2> QED
    BY <2>1, UnitsMoved DEF RunStep
<1>2. InstallsMove
  <2>1. CASE UNCHANGED installVars
    BY <2>1 DEF installVars, InstallsMove, Has
  <2> QED
    BY <2>1, InstallsMoved DEF RunStep
<1>3. mounted # "none" => mounted' # "none"
  <2>1. CASE UNCHANGED mountVars
    BY <2>1 DEF mountVars
  <2>2. CASE MountStep
    <3>1. CASE ArmShare \/ MountDeviceNow
      <4>1. Step.device # "none"
        BY <3>1, StepKnown DEF ArmShare, MountDeviceNow, On, StepIsTyped
      <4> QED
        BY <3>1, <4>1 DEF ArmShare, SystemdArms, MountsDirectly, MountDeviceNow
    <3> QED
      BY <2>1, <2>2, <3>1 DEF MountStep, MountShare, WriteShareUnit, NextShareUnit, MountDevice
  <2> QED
    BY <2>1, <2>2 DEF RunStep
<1> QED
  BY <1>1, <1>2, <1>3

(***************************************************************************)
(* What the manager knows of a unit without a file.                        *)
(***************************************************************************)
LEMMA LoadedInit == Init => LoadedInv
BY DEF Init, UnitsInit, LoadedInv, Read

LEMMA LoadedStep ==
  ASSUME FilesInv, UnitsInv, LoadedInv, [Next]_vars
  PROVE  LoadedInv'
<1>1. \A q : Exists(q) => Exists(q)'
  <2>1. CASE UNCHANGED disk
    BY <2>1 DEF Exists
  <2>2. ASSUME NEW q, NEW c, disk' = Put(q, c)
        PROVE  \A p : Exists(p) => Exists(p)'
    BY <2>2 DEF Put, Exists
  <2> QED
    BY <2>1, <2>2, FilesBecome DEF Makes, AtOnce, Begins, Truncate, Fill, UserEdits, Appends
<1>2. \A u \in UserUnit : loaded'[u] \in {loaded[u], Read(u)}
  <2>1. CASE UNCHANGED loaded
    BY <2>1
  <2>2. CASE RunStep /\ UnitStep
    BY <2>2, UnitsMoved DEF UnitsMove
  <2> QED
    BY <2>1, <2>2, UnitsSee DEF unitVars, BusFlips, Crashes, StartedByHand, hostVars
<1>3. \A u \in UserUnit : ~Exists(u) => Read(u) = Torn
  BY DEF Read
<1> QED
  BY <1>1, <1>2, <1>3 DEF LoadedInv

(***************************************************************************)
(* What a step writes is as it should be, and leaves so what others wrote. *)
(***************************************************************************)
LEMMA ReadLined ==
  ASSUME FilesInv, LinesInv, stage \in Calm, NEW p
  PROVE  View(p) = Read(p) /\ IsFile(Read(p)) /\ Fits(p, Read(p)) /\ Apart(p, Read(p)) /\ Lined(Read(p))
<1>1. View(p) = Read(p)
  BY ViewIsRead
<1>2. IsFile(Read(p)) /\ Fits(p, Read(p)) /\ Apart(p, Read(p))
  BY DEF LinesInv, Sound
<1> QED
  BY <1>1, <1>2 DEF Lined, Fits, LineFits

\* A schedule's line is there, and the only one that is found by it.
LEMMA JobIsThere ==
  ASSUME NEW c, Lined(c), NEW name, NEW payload, NEW x, IsLine(x), NEW d,
         d = Append(OtherJobs(c, name, payload), x)
  PROVE  \E i \in DOMAIN d : /\ d[i] = x
                             /\ \A j \in DOMAIN d : Occurs(name, d[j]) \/ Occurs(payload, d[j]) => j = i
<1>1. \E n \in DOMAIN d : \E g \in [DOMAIN d \ {n} -> DOMAIN c] : JobsAt(c, name, payload, x, d, n, g)
  BY JobsAre
<1>2. PICK n \in DOMAIN d : \E g \in [DOMAIN d \ {n} -> DOMAIN c] : JobsAt(c, name, payload, x, d, n, g)
  BY <1>1
<1>3. d[n] = x /\ \A k \in DOMAIN d \ {n} : ~Occurs(name, d[k]) /\ ~Occurs(payload, d[k])
  BY <1>2 DEF JobsAt
<1> QED
  BY <1>3

LEMMA GoodNew ==
  ASSUME StepsAgree, FilesInv, LinesInv, at # 0, stage \in Calm, NEW p \in Touches(Step), NEW c, NewContent(p, c)
  PROVE  Good(Step, c)
<1>1. /\ at \in DOMAIN recipe /\ Step = recipe[at] /\ StepIsTyped(Step)
      /\ IsFile(Read(p)) /\ Fits(p, Read(p)) /\ Lined(Read(p))
  BY StepKnown, ReadLined DEF Step
<1>2. CASE Step.fn = "rc-line"
  <2> DEFINE old == Read(p)
             x   == Step.line
             n   == Len(old) + 1
  <2>1. c = Append(old, x)
    BY <1>2 DEF NewContent
  <2>2. Occurs(Step.marker, x)
    BY <1>1, <1>2, Agreed
  <2> HIDE DEF x, old
  <2>3. n \in DOMAIN c /\ c[n] = x
    BY <1>1, <2>1, AppendIs DEF old
  <2> HIDE DEF n
  <2> QED
    BY <1>2, <2>2, <2>3 DEF Good
<1>3. CASE Step.fn = "rc-export"
  <2>1. c = WithExport(Read(p), Step.var, Step.val)
    BY <1>3 DEF NewContent
  <2>2. /\ \E i \in DOMAIN c : c[i].key = Step.var
        /\ \A i \in DOMAIN c : c[i].key = Step.var => c[i].val = Step.val
    BY <1>1, <2>1, WithExportIs
  <2> QED
    BY <1>3, <2>2 DEF Good
<1>4. CASE Step.fn = "schedule"
  <2> DEFINE x == Line(Step.spec, Step.name, Step.payload)
  <2>1. c = Append(OtherJobs(Read(p), Step.name, Step.payload), x) /\ OwnLine(Step) = x
    BY <1>4 DEF NewContent, OwnLine
  <2>2. IsLine(x)
    BY LineIs
  <2> HIDE DEF x
  <2>3. \E i \in DOMAIN c : /\ c[i] = x
                            /\ \A j \in DOMAIN c : Occurs(Step.name, c[j]) \/ Occurs(Step.payload, c[j]) => j = i
    BY <1>1, <2>1, <2>2, JobIsThere
  <2> QED
    BY <1>4, <2>1, <2>3 DEF Good, Finds
<1>5. CASE Step.fn = "tags"
  <2> DEFINE k   == TagKey(Read(p))
             t   == TagsOf(Read(p), k)
             now == Retagged(t, Step.add, Step.remove)
  <2>1. p = "node.yaml" /\ IsFile(Step.add)
    BY <1>1, <1>5 DEF Touches, StepIsTyped, IsFile
  <2>2. IsFile(t)
    BY <1>1, <1>5, <2>1, TagsAreList
  <2>3. ToSet(now) = (ToSet(t) \ Step.remove) \cup ToSet(Step.add) /\ Once(now)
    BY <2>1, <2>2, RetaggedHolds
  <2>4. c = WithTags(Read(p), k, now)
    BY <1>5 DEF NewContent
  <2> HIDE DEF now
  <2>5. TagsOf(c, TagKey(c)) = now
    BY <1>1, <2>4, WithTagsIs
  <2> HIDE DEF t
  <2>6. ToSet(Step.add) \subseteq Tags(c) /\ Tags(c) \cap Step.remove \subseteq ToSet(Step.add)
    BY <2>3, <2>5 DEF Tags
  <2>7. Once(TagsOf(c, TagKey(c)))
    BY <2>3, <2>5
  <2> QED
    BY <1>5, <2>6, <2>7 DEF Good
<1>6. CASE Step.fn = "unit-repoint"
  <2> DEFINE old == Read(p)
             from == Step.from
             to == Step.to
  <2>1. Lined(old) /\ c = Patched(old, from, to) /\ to \notin from
    BY <1>1, <1>6, Agreed DEF NewContent
  <2> HIDE DEF old, from, to
  <2>2. \A i \in DOMAIN c : c[i].val \notin from
    BY <2>1, PatchedIs
  <2> QED
    BY <1>6, <2>2 DEF Good, from
<1>7. CASE Step.fn \in {"user-unit", "login-trigger"}
  <2>1. c = Step.unit
    BY <1>7 DEF NewContent
  <2> QED
    BY <1>7, <2>1 DEF Good
<1>8. CASE Step.fn = "gnome-keyring"
  <2>1. c = WithExport(Read(p), "SSH_AUTH_SOCK", "gcr")
    BY <1>8 DEF NewContent
  <2>2. /\ \E i \in DOMAIN c : c[i].key = "SSH_AUTH_SOCK"
        /\ \A i \in DOMAIN c : c[i].key = "SSH_AUTH_SOCK" => c[i].val = "gcr"
    BY <1>1, <2>1, WithExportIs
  <2> QED
    BY <1>8, <2>2 DEF Good
<1>9. CASE Step.fn \notin {"rc-line", "rc-export", "schedule", "tags", "unit-repoint", "user-unit", "login-trigger",
                            "gnome-keyring"}
  BY <1>9 DEF Good
<1> QED
  BY <1>2, <1>3, <1>4, <1>5, <1>6, <1>7, <1>8, <1>9

LEMMA GoodKept ==
  ASSUME StepsAgree, FilesInv, LinesInv, at # 0, stage \in Calm, NEW p \in Touches(Step), NEW c, NewContent(p, c),
         NEW i \in DOMAIN recipe, i < at, NEW s, s = recipe[i], p \in Touches(s), Good(s, Read(p))
  PROVE  Good(s, c)
<1> DEFINE old == Read(p)
           own == OwnLine(Step)
<1>1. /\ at \in DOMAIN recipe /\ Step = recipe[at] /\ StepIsTyped(Step)
      /\ IsFile(old) /\ Fits(p, old) /\ Apart(p, old) /\ Lined(old)
  BY StepKnown, ReadLined DEF Step
<1>2. SharesFile(s, Step)
  BY <1>1, Agreed DEF Leaves
<1>3. CASE Step.fn = "rc-line"
  <2> DEFINE n == Len(old) + 1
  <2>1. c = Append(old, own)
    BY <1>3 DEF NewContent, OwnLine
  <2> HIDE DEF own
  <2>2. DOMAIN c = DOMAIN old \cup {n} /\ (\A q \in DOMAIN old : c[q] = old[q]) /\ c[n] = own
    BY <1>1, <2>1, AppendIs
  <2> HIDE DEF n
  <2>3. CASE s.fn = "rc-line"
    BY <2>2, <2>3 DEF Good
  <2>4. CASE Exporter(s)
    <3> DEFINE mine == OwnLine(s)
    <3>1. own.key = mine.key => own.val = mine.val
      BY <1>2, <2>4 DEF SharesFile, Exporter, own
    <3>2. /\ \E k \in DOMAIN old : old[k].key = mine.key
          /\ \A k \in DOMAIN old : old[k].key = mine.key => old[k].val = mine.val
      BY <2>4, ExporterIsGood
    <3> HIDE DEF mine, old
    <3>3. /\ \E k \in DOMAIN c : c[k].key = mine.key
          /\ \A k \in DOMAIN c : c[k].key = mine.key => c[k].val = mine.val
      BY <2>2, <3>1, <3>2
    <3> QED
      BY <2>4, <3>3, ExporterIsGood DEF mine
  <2>5. CASE s.fn # "rc-line" /\ ~Exporter(s)
    BY <1>2, <1>3, <2>5 DEF SharesFile, Exporter, Good
  <2> QED
    BY <2>3, <2>4, <2>5
<1>4. CASE Exporter(Step)
  <2>1. c = WithExport(old, own.key, own.val)
    BY <1>4, ExporterMakes
  <2> HIDE DEF own
  <2>2. /\ \A k \in DOMAIN c : c[k].key = own.key => c[k].val = own.val
        /\ \A k \in DOMAIN old : k \in DOMAIN c /\ (old[k].key # own.key => c[k] = old[k])
        /\ \A k \in DOMAIN c : c[k].key # own.key => k \in DOMAIN old /\ c[k] = old[k]
        /\ \E k \in DOMAIN c : c[k].key = own.key
    BY <1>1, <2>1, WithExportIs
  <2>3. CASE s.fn = "rc-line"
    <3>1. PICK k \in DOMAIN old : Occurs(s.marker, old[k])
      BY <2>3 DEF Good
    <3>2. p = s.file
      BY <2>3 DEF Touches
    <3>3. old[k].key # own.key
      BY <1>1, <1>4, <2>3, <3>1, <3>2 DEF Apart, own
    <3> HIDE DEF old
    <3>4. k \in DOMAIN c /\ Occurs(s.marker, c[k])
      BY <2>2, <3>1, <3>3
    <3> QED
      BY <2>3, <3>4 DEF Good
  <2>4. CASE Exporter(s)
    <3> DEFINE mine == OwnLine(s)
    <3>1. own.key = mine.key => own.val = mine.val
      BY <1>2, <2>4 DEF SharesFile, Exporter, own
    <3>2. /\ \E k \in DOMAIN old : old[k].key = mine.key
          /\ \A k \in DOMAIN old : old[k].key = mine.key => old[k].val = mine.val
      BY <2>4, ExporterIsGood
    <3> HIDE DEF mine, old
    <3>3. /\ \E k \in DOMAIN c : c[k].key = mine.key
          /\ \A k \in DOMAIN c : c[k].key = mine.key => c[k].val = mine.val
      <4>1. CASE own.key = mine.key
        BY <2>2, <3>1, <3>2, <4>1
      <4>2. CASE own.key # mine.key
        BY <2>2, <3>2, <4>2
      <4> QED
        BY <4>1, <4>2
    <3> QED
      BY <2>4, <3>3, ExporterIsGood DEF mine
  <2>5. CASE s.fn # "rc-line" /\ ~Exporter(s)
    BY <1>2, <1>4, <2>5 DEF SharesFile, Exporter, Good
  <2> QED
    BY <2>3, <2>4, <2>5
<1>5. CASE Step.fn = "schedule"
  <2>1. s.fn = "schedule" /\ ~Finds(Step, OwnLine(s)) /\ ~Finds(s, own)
    BY <1>2, <1>5 DEF SharesFile, Exporter
  <2> DEFINE mine == OwnLine(s)
  <2>2. PICK i0 \in DOMAIN old : /\ old[i0] = mine
                                 /\ \A j \in DOMAIN old : Finds(s, old[j]) => j = i0
    BY <2>1 DEF Good
  <2>3. c = Append(OtherJobs(old, Step.name, Step.payload), own) /\ IsLine(own)
    BY <1>5, LineIs DEF NewContent, OwnLine
  <2>4. ~Finds(Step, mine) /\ ~Finds(s, own)
    BY <2>1
  <2> HIDE DEF own, mine, old
  <2>5. PICK n \in DOMAIN c : \E g \in [DOMAIN c \ {n} -> DOMAIN old] :
              JobsAt(old, Step.name, Step.payload, own, c, n, g)
    BY <1>1, <2>3, JobsAre
  <2>6. PICK g \in [DOMAIN c \ {n} -> DOMAIN old] :
              /\ c[n] = own
              /\ \A k \in DOMAIN c \ {n} : c[k] = old[g[k]]
              /\ \A k, l \in DOMAIN c \ {n} : g[k] = g[l] => k = l
              /\ \A j \in DOMAIN old : ~Occurs(Step.name, old[j]) /\ ~Occurs(Step.payload, old[j]) =>
                   \E k \in DOMAIN c \ {n} : g[k] = j
    BY <2>5 DEF JobsAt
  <2>7. PICK k0 \in DOMAIN c \ {n} : g[k0] = i0
    BY <2>2, <2>4, <2>6 DEF Finds
  <2>8. c[k0] = mine
    BY <2>2, <2>6, <2>7
  <2>9. ASSUME NEW j \in DOMAIN c, Finds(s, c[j]) PROVE j = k0
    <3>1. j # n
      BY <2>4, <2>6, <2>9
    <3>2. c[j] = old[g[j]] /\ g[j] \in DOMAIN old
      BY <2>6, <3>1
    <3>3. g[j] = i0
      BY <2>2, <2>9, <3>2
    <3> QED
      BY <2>6, <2>7, <3>1, <3>3
  <2> QED
    BY <2>1, <2>8, <2>9 DEF Good, mine
<1>6. CASE Step.fn = "tags"
  <2>1. /\ s.fn = "tags" /\ p = "node.yaml" /\ IsFile(Step.add)
        /\ ToSet(s.add) \cap Step.remove \subseteq ToSet(Step.add)
        /\ ToSet(Step.add) \cap s.remove \subseteq ToSet(s.add)
    BY <1>1, <1>2, <1>6 DEF SharesFile, Exporter, Touches, StepIsTyped, IsFile
  <2> DEFINE k   == TagKey(old)
             t   == TagsOf(old, k)
             now == Retagged(t, Step.add, Step.remove)
  <2>2. IsFile(t)
    BY <1>1, <1>6, <2>1, TagsAreList
  <2>3. ToSet(now) = (ToSet(t) \ Step.remove) \cup ToSet(Step.add) /\ Once(now)
    BY <2>1, <2>2, RetaggedHolds
  <2>4. c = WithTags(old, k, now)
    BY <1>6 DEF NewContent
  <2> HIDE DEF now
  <2>5. TagsOf(c, TagKey(c)) = now
    BY <1>1, <2>4, WithTagsIs
  <2>6. ToSet(s.add) \subseteq ToSet(t) /\ ToSet(t) \cap s.remove \subseteq ToSet(s.add)
    BY <2>1 DEF Good, Tags
  <2> HIDE DEF t
  <2>7. ToSet(s.add) \subseteq Tags(c) /\ Tags(c) \cap s.remove \subseteq ToSet(s.add)
    BY <2>1, <2>3, <2>5, <2>6 DEF Tags
  <2>8. Once(TagsOf(c, TagKey(c)))
    BY <2>3, <2>5
  <2> QED
    BY <2>1, <2>7, <2>8 DEF Good
<1>7. CASE Step.fn \notin {"rc-line", "schedule", "tags"} /\ ~Exporter(Step)
  BY <1>2, <1>7 DEF SharesFile, Exporter
<1> QED
  BY <1>3, <1>4, <1>5, <1>6, <1>7

(***************************************************************************)
(* What a step leaves as the steps before it left it.                      *)
(***************************************************************************)
\* A write that is under way is finished before anything else is done.
LEMMA FillAlone ==
  ASSUME FilesInv, RunStep, stage \notin Calm
  PROVE  (Truncate \/ Fill) /\ UNCHANGED <<unitVars, installVars, mountVars>>
<1>1. at # 0 /\ stage \notin {"begin", "enable", "arm", "rc", "next", "show", "root", "mount"}
  BY DEF FilesInv, Calm
<1>2. ~RunStarts /\ ~RcStep /\ ~UnitStep /\ ~InstallStep /\ ~MountStep
  BY <1>1 DEF RunStarts, On, RcStep, RcLine, RcExport, Schedule, ApplySelfTags,
     UnitStep, UnitRestart, RepointUnit, RepointEnable, RepointEnds, WriteUserUnit, ArmUserUnit,
     WriteLoginTrigger, ArmLoginTrigger, GnomeUnits, GnomeRcFile, GnomeNextFile, GnomeEnds,
     InstallStep, AptInstall, FlatpakInstall, Package, GitFetch, GitShow,
     MountStep, MountShare, WriteShareUnit, NextShareUnit, ArmShare, MountDevice, MountDeviceNow
<1> QED
  BY <1>2 DEF RunStep

LEMMA RunViews ==
  ASSUME FilesInv, [Next]_vars, RunStep, NEW p
  PROVE  \/ View(p)' = View(p)
         \/ /\ at # 0 /\ stage \in Calm /\ View(p) = Read(p) /\ p \in Touches(Step)
            /\ \E c : View(p)' = c /\ NewContent(p, c)
<1>1. upsets' = upsets /\ upsets \in Nat
  BY RunShape, RecipesAreTyped DEF FilesInv
<1>2. ~KillRun /\ \A q, l : ~UserEdits(q, l)
  BY <1>1 DEF KillRun, UserEdits, Disturbed, Upset
<1>3. \/ View(p)' = View(p)
      \/ KillRun /\ View(p)' = Read(p)
      \/ /\ RunStep /\ at # 0 /\ stage \in Calm /\ View(p) = Read(p) /\ p \in Touches(Step)
         /\ \E c : View(p)' = c /\ NewContent(p, c)
      \/ \E e \in Edits : UserEdits(e[1], e[2]) /\ e[1] = p /\ View(p)' = Append(View(p), e[2])
  BY ViewsBecome
<1> QED
  BY <1>2, <1>3

LEMMA ExistsStill ==
  ASSUME FilesInv, [Next]_vars, NEW p, Exists(p)
  PROVE  Exists(p)'
<1>1. CASE UNCHANGED disk
  BY <1>1 DEF Exists
<1>2. ASSUME NEW q, NEW c, disk' = Put(q, c)
      PROVE  Exists(p)'
  BY <1>2 DEF Exists, Put
<1>3. CASE Makes
  BY <1>1, <1>2, <1>3 DEF Makes, AtOnce, Begins
<1>4. CASE Truncate \/ Fill
  BY <1>2, <1>4 DEF Truncate, Fill
<1>5. CASE \E e \in Edits : UserEdits(e[1], e[2])
  BY <1>2, <1>5 DEF UserEdits, Appends
<1> QED
  BY <1>1, <1>3, <1>4, <1>5, FilesBecome

\* Where nothing may be written that s has not left to others, nothing is.
LEMMA ViewKept ==
  ASSUME StepsAgree, FilesInv, [Next]_vars, RunStep, NEW i \in DOMAIN recipe, i < at, NEW s, s = recipe[i],
         s.fn \in {"unit-repoint", "user-unit", "login-trigger", "git-extract", "mount-share", "mount-device"},
         NEW p \in Touches(s)
  PROVE  View(p)' = View(p)
<1> SUFFICES ASSUME at # 0, p \in Touches(Step)
             PROVE  FALSE
  BY RunViews
<1>1. at \in DOMAIN recipe /\ Step = recipe[at]
  BY StepKnown DEF Step
<1>2. Leaves(s, Step)
  BY <1>1, Agreed
<1>3. SharesFile(s, Step)
  BY <1>2 DEF Leaves
<1> QED
  BY <1>3 DEF SharesFile, Exporter

LEMMA GoodStays ==
  ASSUME StepsAgree, FilesInv, LinesInv, [Next]_vars, RunStep, NEW i \in DOMAIN recipe, i < at, NEW s, s = recipe[i],
         NEW p \in Touches(s), Good(s, View(p))
  PROVE  Good(s, View(p))'
<1>1. CASE View(p)' = View(p)
  BY <1>1, GoodThen
<1>2. ASSUME at # 0, stage \in Calm, View(p) = Read(p), p \in Touches(Step),
             NEW c, View(p)' = c, NewContent(p, c)
      PROVE  Good(s, View(p))'
  <2>1. Good(s, Read(p))
    BY <1>2
  <2>2. Good(s, c)
    BY <1>2, <2>1, GoodKept
  <2> QED
    BY <1>2, <2>2, GoodThen
<1> QED
  BY <1>1, <1>2, RunViews

LEMMA SharedStill ==
  ASSUME NEW s, net' = net, \A p \in ShareFiles \cup {"smbcredentials"} : View(p)' = View(p), Shared(s)
  PROVE  Shared(s)'
BY DEF Shared, ShareFiles, ShareUnits, ShareUnit, Credentials, Line, ToSet

LEMMA StandsStill ==
  ASSUME StepsAgree, FilesInv, UnitsInv, RestInv, LinesInv, [Next]_vars, RunStep, NEW i \in DOMAIN recipe, i < at,
         NEW s, s = recipe[i], Done(s)
  PROVE  Stands(s)'
<1>1. Stands(s) /\ \A p \in Touches(s) : Good(s, View(p))
  BY DEF Done
<1>2. /\ UnitsMove /\ InstallsMove /\ (mounted # "none" => mounted' # "none")
      /\ net' = net /\ priv' = priv /\ bus' = bus
  BY RunMoves, RunShape DEF UnitsMove
<1>3. at # 0 /\ Step = recipe[at] /\ at \in DOMAIN recipe /\ Leaves(s, Step)
  <2>1. at # 0
    BY RecipeLen DEF FilesInv
  <2> QED
    BY <2>1, StepKnown, Agreed DEF Step
<1>4. \A u \in UserUnit : \/ loaded'[u] = loaded[u] /\ image'[u] = image[u]
                          \/ /\ loaded'[u] \in {loaded[u], View(u)}
                             /\ image'[u] \in {image[u], loaded[u], View(u)}
  <2>1. CASE stage \notin Calm
    BY <2>1, FillAlone DEF unitVars
  <2>2. CASE stage \in Calm
    BY <1>2, <2>2, ViewIsRead DEF UnitsMove
  <2> QED
    BY <2>1, <2>2
<1>5. CASE s.fn = "unit-repoint"
  <2>1. SUFFICES ASSUME bus, NEW u \in ToSet(s.units)
                 PROVE  loaded'[u] = View(u)'
    BY <1>2, <1>5 DEF Stands
  <2>2. u \in UserUnit /\ u \in Touches(s)
    BY <1>5, RepointsUnits DEF Touches
  <2>3. View(u)' = View(u) /\ loaded[u] = View(u)
    BY <1>1, <1>5, <2>1, <2>2, ViewKept DEF Stands
  <2> QED
    BY <1>4, <2>2, <2>3
<1>6. CASE s.fn = "user-unit"
  <2>1. Exists(s.name)'
    BY <1>1, <1>6, ExistsStill DEF Stands
  <2> QED
    BY <1>1, <1>2, <1>3, <1>6, <2>1 DEF Stands, UnitsMove, Leaves
<1>7. CASE s.fn = "login-trigger"
  <2>1. s.name \in UserUnit /\ s.name \in Touches(s)
    BY <1>7, RecipeTyped DEF StepIsTyped, Touches
  <2>2. View(s.name) = s.unit
    BY <1>1, <1>7, <2>1 DEF Good
  <2>3. loaded[s.name] = s.unit /\ image[s.name] = s.unit /\ s.name \in enabled
    BY <1>1, <1>7 DEF Stands
  <2>4. loaded'[s.name] = s.unit /\ image'[s.name] = s.unit
    BY <1>4, <2>1, <2>2, <2>3
  <2>5. s.name \in enabled'
    BY <1>2, <1>3, <1>7, <2>3 DEF UnitsMove, Leaves
  <2> QED
    BY <1>7, <2>4, <2>5 DEF Stands
<1>8. CASE s.fn = "gnome-keyring"
  <2>1. bus => "gpg-agent-ssh" \in masked \ (enabled \cup works)
    BY <1>1, <1>8 DEF Stands, GpgGone
  <2>2. ~(Step.fn = "unit-repoint" /\ Step.enable /\ "gpg-agent-ssh" \in ToSet(Step.units))
    BY <1>3, <1>8 DEF Leaves
  <2>3. bus => "gpg-agent-ssh" \in masked' \ (enabled' \cup works')
    BY <1>2, <2>1, <2>2 DEF UnitsMove
  <2> QED
    BY <1>2, <1>8, <2>3 DEF Stands, GpgGone
<1>9. CASE s.fn = "apt-install"
  <2>1. Obtainable(s)
    BY <1>9, Agreed
  <2>2. net /\ Root => AptMet(s)'
    BY <1>1, <1>2, <1>9, <2>1, AptKept DEF Stands, InstallsMove
  <2> QED
    BY <1>2, <1>9, <2>2 DEF Stands, Root
<1>10. CASE s.fn = "flatpak"
  BY <1>1, <1>2, <1>10 DEF Stands, InstallsMove
<1>11. CASE s.fn = "git-extract"
  <2>1. View(s.dest)' = View(s.dest)
    BY <1>11, ViewKept DEF Touches
  <2>2. View(s.dest) = Blob(tracked) /\ (net \/ s.fetch = "require" => tracked = upstream)
    BY <1>1, <1>11 DEF Stands
  <2>3. tracked' = tracked /\ upstream' = upstream
    BY <1>2, <2>2 DEF InstallsMove
  <2>4. Blob(tracked)' = Blob(tracked)
    BY <2>3 DEF Blob, Line
  <2> QED
    BY <1>2, <1>11, <2>1, <2>2, <2>3, <2>4 DEF Stands
<1>12. CASE s.fn = "mount-share"
  <2>1. \A p \in ShareFiles \cup {"smbcredentials"} : p \in Touches(s) /\ View(p)' = View(p)
    BY <1>12, ViewKept DEF Touches, ShareFiles
  <2>2. mounted # "none" \/ Shared(s)
    BY <1>1, <1>12 DEF Stands
  <2>3. mounted' # "none" \/ Shared(s)'
    BY <1>2, <2>1, <2>2, SharedStill
  <2> QED
    BY <1>12, <2>3 DEF Stands
<1>14. CASE s.fn = "mount-device"
  <2>1. View("fstab")' = View("fstab")
    BY <1>14, ViewKept DEF Touches
  <2>2. Entered(s)'
    BY <1>1, <1>2, <1>14, <2>1 DEF Stands, Entered
  <2> QED
    BY <1>1, <1>2, <1>14, <2>2 DEF Stands
<1>13. CASE s.fn \notin {"unit-repoint", "user-unit", "login-trigger", "gnome-keyring", "apt-install", "flatpak",
                         "git-extract", "mount-share", "mount-device"}
  BY <1>13 DEF Stands
<1> QED
  BY <1>5, <1>6, <1>7, <1>8, <1>9, <1>10, <1>11, <1>12, <1>13, <1>14

LEMMA DoneStays ==
  ASSUME StepsAgree, FilesInv, UnitsInv, RestInv, LinesInv, [Next]_vars, RunStep, NEW i \in DOMAIN recipe, i < at,
         NEW s, s = recipe[i], Done(s)
  PROVE  Done(s)'
<1>1. \A p \in Touches(s) : Good(s, View(p))
  BY DEF Done
<1>2. \A p \in Touches(s) : Good(s, View(p))'
  BY <1>1, GoodStays
<1>3. Touches(s)' = Touches(s)
  BY DEF Touches, ShareUnits
<1> QED
  BY <1>2, <1>3, StandsStill DEF Done

(***************************************************************************)
(* What the step that is run comes to: it goes on, or is over and done.    *)
(***************************************************************************)
Outcome(s) ==
  \/ Within /\ SoFar(s)'
  \/ \E ok : StepEnds(ok) /\ (ok => Done(s)')

\* The functions that keep lines of a file.
Keepers == {"rc-line", "rc-export", "schedule", "tags", "unit-repoint", "user-unit", "login-trigger", "gnome-keyring"}

LEMMA GoodAnyway ==
  ASSUME NEW s, s.fn \notin Keepers, NEW p
  PROVE  Good(s, View(p)) /\ Good(s, View(p))'
BY DEF Good, Keepers

LEMMA Finished ==
  ASSUME NEW s, StepEnds(TRUE), \A p \in Touches(s) : Good(s, View(p))', Stands(s)'
  PROVE  Outcome(s)
<1>1. Touches(s)' = Touches(s)
  BY DEF Touches, ShareUnits
<1>2. Done(s)'
  BY <1>1 DEF Done
<1> QED
  BY <1>2 DEF Outcome

LEMMA NotFinished ==
  ASSUME NEW s, StepEnds(FALSE)
  PROVE  Outcome(s)
BY DEF Outcome

LEMMA GoesOn ==
  ASSUME at # 0, NEW s, s.fn \notin {"unit-repoint", "gnome-keyring", "git-extract", "mount-share"},
         NEW t, NEW n, NEW p, NEW c, NEW next, Go(t) \/ GoNth(t, n) \/ WriteFile(p, c, next) \/ AtomicWrite(p, c, next),
         held' # NoWrite /\ held'.next = "done" => EndsInWrite(s),
         s.fn = "user-unit" /\ stage' = "arm" => Exists(s.name)', s.fn = "mount-device" => Entered(s)',
         \A q \in Touches(s) : Good(s, View(q))'
  PROVE  Outcome(s)
<1>1. Touches(s)' = Touches(s)
  BY DEF Touches, ShareUnits
<1>2. SoFar(s)'
  BY <1>1 DEF SoFar, EndsInWrite
<1>3. Within
  BY DEF Within, Go, GoNth, WriteFile, AtomicWrite, Holding, runVars
<1> QED
  BY <1>2, <1>3 DEF Outcome

LEMMA Unwritten ==
  ASSUME FilesInv, stage \in Calm, UNCHANGED disk, held' = NoWrite, NEW p
  PROVE  View(p) = Read(p) /\ View(p)' = Read(p)
<1>1. View(p)' = Read(p)
  BY DEF View, Read, Exists
<1> QED
  BY <1>1, ViewIsRead

LEMMA StaysGood ==
  ASSUME FilesInv, stage \in Calm, UNCHANGED disk, held' = NoWrite, NEW s, NEW p, Good(s, Read(p))
  PROVE  Good(s, View(p))'
BY Unwritten, GoodThen

LEMMA Written ==
  ASSUME StepsAgree, FilesInv, LinesInv, at # 0, stage \in Calm, NEW s, s = Step, NEW p \in Touches(s),
         NEW c, NewContent(p, c), AtOnce(p, c) \/ Begins(p, c)
  PROVE  Good(s, View(p))'
<1>1. View(p)' = c
  BY DEF AtOnce, Begins, View, Put, Read, Exists
<1>2. Good(s, c)
  BY GoodNew
<1> QED
  BY <1>1, <1>2, GoodThen

\* The file is emptied, or the content of a write is put down.
LEMMA FillGoes ==
  ASSUME FilesInv, RunStep, stage \notin Calm, NEW s, s = Step, SoFar(s)
  PROVE  Outcome(s)
<1>1. (Truncate \/ Fill) /\ UNCHANGED <<unitVars, installVars, mountVars>>
  BY FillAlone
<1>2. at # 0 /\ held # NoWrite /\ held.path \in Touches(s) /\ stage \in Writing /\ stage \notin Calm
  BY DEF FilesInv, Stages, Calm, Writing
<1>3. \A p : View(p)' = View(p)
  <2>1. CASE Truncate
    <3>1. held' = held /\ \A p : p # held.path => Read(p)' = Read(p)
      BY <2>1 DEF Truncate, Put, Read, Exists
    <3> QED
      BY <1>2, <3>1 DEF View
  <2>2. CASE Fill
    <3>1. held' = NoWrite /\ disk' = Put(held.path, held.content)
      BY <2>2 DEF Fill, StepEnds
    <3> QED
      BY <1>2, <3>1 DEF View, Put, Read, Exists
  <2> QED
    BY <1>1, <2>1, <2>2
<1>4. Touches(s)' = Touches(s)
  BY DEF Touches, ShareUnits
<1>5. s.fn \notin {"unit-repoint", "gnome-keyring"} => \A p \in Touches(s) : Good(s, View(p))'
  <2>1. s.fn \notin {"unit-repoint", "gnome-keyring"} => \A p \in Touches(s) : Good(s, View(p))
    BY <1>2 DEF SoFar, Calm
  <2> QED
    BY <1>3, <2>1, GoodThen
<1>6. s.fn = "user-unit" /\ Fill => Exists(s.name)'
  BY <1>2 DEF Fill, Exists, Put, Touches
<1>7. s.fn = "git-extract" => /\ View(s.dest) = Blob(tracked)
                             /\ IF net THEN tracked = upstream ELSE s.fetch = "best-effort"
  BY <1>2 DEF SoFar, Calm
<1>8. CASE Fill /\ held.next = "done"
  <2>1. StepEnds(TRUE) /\ EndsInWrite(s)
    BY <1>2, <1>8 DEF Fill, SoFar
  <2>2. Stands(s)'
    <3>1. CASE s.fn = "git-extract"
      <4>1. View(s.dest)' = View(s.dest) /\ net' = net /\ tracked' = tracked /\ upstream' = upstream
        BY <1>1, <1>3, <2>1 DEF StepEnds, installVars
      <4>2. Blob(tracked)' = Blob(tracked)
        BY <4>1 DEF Blob, Line
      <4> QED
        BY <1>7, <3>1, <4>1, <4>2 DEF Stands
    <3>2. CASE s.fn = "user-unit"
      BY <1>6, <1>8, <2>1, <3>2 DEF EndsInWrite, Stands
    <3>3. CASE s.fn \in {"rc-export", "tags", "schedule"}
      BY <3>3 DEF Stands
    <3> QED
      BY <2>1, <3>1, <3>2, <3>3 DEF EndsInWrite
  <2>3. \A p \in Touches(s) : Good(s, View(p))'
    BY <1>5, <2>1 DEF EndsInWrite
  <2> QED
    BY <2>1, <2>2, <2>3, Finished
<1>9. CASE Truncate \/ held.next # "done"
  <2>1. /\ UNCHANGED runVars
        /\ \/ Truncate /\ stage' = "fill" /\ held' = held
           \/ Fill /\ stage' = held.next /\ held' = NoWrite
    BY <1>1, <1>9 DEF Truncate, Fill
  <2>2. \A t \in Calm : Past(t)' => Past(t)
    BY <1>2, <2>1 DEF Past, Calm
  <2>3. Within
    BY <1>2, <2>1 DEF Within, runVars
  <2>4. SoFar(s)'
    <3>1. CASE s.fn = "unit-repoint"
      <4>1. \A k \in DOMAIN s.units : k < nth \/ (k = nth /\ Past("enable")) => Good(s, View(s.units[k]))
        BY <3>1 DEF SoFar
      <4>2. \A k \in DOMAIN s.units : k < nth' \/ (k = nth' /\ Past("enable")') => Good(s, View(s.units[k]))'
        BY <1>3, <2>1, <2>2, <4>1, GoodThen DEF runVars, Calm
      <4>3. held' # NoWrite => held'.next # "done"
        BY <1>2, <2>1, <3>1 DEF SoFar, EndsInWrite
      <4> QED
        BY <3>1, <4>2, <4>3 DEF SoFar
    <3>2. CASE s.fn = "gnome-keyring"
      <4>1. \A k \in DOMAIN s.rcfiles : k < nth \/ (k = nth /\ Past("next")) => Good(s, View(s.rcfiles[k]))
        BY <3>2 DEF SoFar
      <4>2. \A k \in DOMAIN s.rcfiles : k < nth' \/ (k = nth' /\ Past("next")') => Good(s, View(s.rcfiles[k]))'
        BY <1>3, <2>1, <2>2, <4>1, GoodThen DEF runVars, Calm
      <4>3. GpgGone'
        BY <1>1, <1>2, <3>2 DEF SoFar, GpgGone, unitVars, Calm
      <4>4. held' # NoWrite => held'.next # "done"
        BY <1>2, <2>1, <3>2 DEF SoFar, EndsInWrite
      <4> QED
        BY <3>2, <4>2, <4>3, <4>4 DEF SoFar
    <3>3. CASE s.fn = "mount-share"
      <4>1. \A k \in DOMAIN ShareUnits : k < nth \/ (k = nth /\ Past("next")) => View(ShareUnits[k]) = ShareUnit(s.device)
        BY <3>3 DEF SoFar
      <4>2. \A k \in DOMAIN ShareUnits : k < nth' \/ (k = nth' /\ Past("next")') =>
              View(ShareUnits[k])' = ShareUnit(s.device)
        BY <1>3, <2>1, <2>2, <4>1 DEF runVars, Calm
      <4>3. held' # NoWrite => held'.next # "done"
        BY <1>2, <2>1, <3>3 DEF SoFar, EndsInWrite
      <4>4. \A p \in Touches(s) : Good(s, View(p))'
        BY <1>5, <3>3
      <4>5. s.nenv /\ net' => View("smbcredentials")' = Credentials
        BY <1>2, <1>3, <2>1, <3>3 DEF SoFar, runVars, Calm
      <4> QED
        BY <1>4, <3>3, <4>2, <4>3, <4>4, <4>5 DEF SoFar, ShareUnits, ShareUnit, Credentials, Line
    <3>4. CASE s.fn = "git-extract"
      <4>1. View(s.dest)' = View(s.dest) /\ net' = net /\ tracked' = tracked /\ upstream' = upstream
        BY <1>1, <1>3, <2>1 DEF runVars, installVars
      <4>2. Blob(tracked)' = Blob(tracked)
        BY <4>1 DEF Blob, Line
      <4>3. \A p \in Touches(s) : Good(s, View(p))'
        BY <1>5, <3>4
      <4> QED
        BY <1>4, <1>7, <3>4, <4>1, <4>2, <4>3 DEF SoFar, EndsInWrite
    <3>5. CASE s.fn \notin {"unit-repoint", "gnome-keyring", "mount-share", "git-extract"}
      <4>1. s.fn # "mount-device"
        BY <1>2 DEF FilesInv, Writers
      <4>2. held' # NoWrite /\ held'.next = "done" => EndsInWrite(s)
        BY <1>2, <2>1 DEF SoFar
      <4>3. s.fn = "user-unit" /\ stage' = "arm" => Exists(s.name)'
        BY <1>6, <2>1
      <4> QED
        BY <1>4, <1>5, <3>5, <4>1, <4>2, <4>3 DEF SoFar, EndsInWrite
    <3> QED
      BY <3>1, <3>2, <3>3, <3>4, <3>5
  <2> QED
    BY <2>3, <2>4 DEF Outcome
<1> QED
  BY <1>1, <1>8, <1>9

LEMMA LineGoes ==
  ASSUME StepsAgree, FilesInv, LinesInv, at # 0, NEW s, s = Step, RcLine
  PROVE  Outcome(s)
<1>1. s.fn = "rc-line" /\ StepEnds(TRUE) /\ Touches(s) = {s.file} /\ stage \in Calm /\ held' = NoWrite
  BY DEF RcLine, On, Touches, StepEnds, Calm
<1>2. CASE (\E i \in DOMAIN Read(s.file) : Occurs(s.marker, Read(s.file)[i])) /\ UNCHANGED disk
  <2>1. Good(s, Read(s.file))
    BY <1>1, <1>2 DEF Good
  <2> QED
    BY <1>1, <1>2, <2>1, StaysGood, Finished DEF Stands
<1>3. CASE Appends(s.file, s.line) /\ \A i \in DOMAIN Read(s.file) : ~Occurs(s.marker, Read(s.file)[i])
  <2>1. NewContent(s.file, Append(Read(s.file), s.line)) /\ AtOnce(s.file, Append(Read(s.file), s.line))
    BY <1>1, <1>3 DEF NewContent, Appends, AtOnce
  <2>2. Good(s, View(s.file))'
    BY <1>1, <2>1, Written
  <2> QED
    BY <1>1, <2>2, Finished DEF Stands
<1> QED
  BY <1>2, <1>3 DEF RcLine, Some

LEMMA ExportGoes ==
  ASSUME StepsAgree, FilesInv, LinesInv, at # 0, NEW s, s = Step, RcExport
  PROVE  Outcome(s)
<1> DEFINE c == WithExport(Read(s.file), s.var, s.val)
<1>1. s.fn = "rc-export" /\ Touches(s) = {s.file} /\ stage \in Calm
  BY DEF RcExport, On, Touches, Calm
<1>2. RcExports(s.file, s.var, s.val, "done")
  BY DEF RcExport
<1>3. NewContent(s.file, c) /\ (Begins(s.file, c) \/ AtOnce(s.file, c))
  BY <1>1, <1>2, ExportsMake DEF NewContent
<1>4. Good(s, View(s.file))'
  <2> HIDE DEF c
  <2> QED
    BY <1>1, <1>3, Written
<1>5. StepEnds(TRUE) \/ \E d : WriteFile(s.file, d, "done")
  BY <1>2 DEF RcExports
<1> QED
  BY <1>1, <1>4, <1>5, Finished, GoesOn DEF Stands, EndsInWrite

LEMMA ScheduleGoes ==
  ASSUME StepsAgree, FilesInv, LinesInv, at # 0, NEW s, s = Step, Schedule
  PROVE  Outcome(s)
<1> DEFINE c == Append(OtherJobs(Read("crontab"), s.name, s.payload), Line(s.spec, s.name, s.payload))
<1>1. s.fn = "schedule" /\ Touches(s) = {"crontab"} /\ stage \in Calm /\ AtomicWrite("crontab", c, "done")
  BY DEF Schedule, On, Touches, Calm
<1>2. NewContent("crontab", c) /\ Begins("crontab", c)
  <2>1. NewContent("crontab", c)
    BY <1>1 DEF NewContent
  <2> HIDE DEF c
  <2> QED
    BY <1>1, <2>1, WriteBegins
<1>3. Good(s, View("crontab"))'
  <2> HIDE DEF c
  <2> QED
    BY <1>1, <1>2, Written
<1> QED
  BY <1>1, <1>3, GoesOn DEF EndsInWrite

LEMMA TagsGo ==
  ASSUME StepsAgree, FilesInv, LinesInv, at # 0, NEW s, s = Step, ApplySelfTags
  PROVE  Outcome(s)
<1> DEFINE lines == Read("node.yaml")
           k     == TagKey(lines)
           t     == TagsOf(lines, k)
           now   == Retagged(t, s.add, s.remove)
           c     == WithTags(lines, k, now)
<1>1. s.fn = "tags" /\ Touches(s) = {"node.yaml"} /\ stage \in Calm
  BY DEF ApplySelfTags, On, Touches, Calm
<1>2. \/ StepEnds(FALSE)
      \/ now = t /\ StepEnds(TRUE) /\ UNCHANGED disk
      \/ now # t /\ WriteFile("node.yaml", c, "done")
  BY DEF ApplySelfTags, WithTags
<1>3. CASE now = t /\ StepEnds(TRUE) /\ UNCHANGED disk
  <2>1. IsFile(s.add) /\ IsFile(t)
    <3>1. IsFile(s.add) /\ at \in DOMAIN recipe /\ recipe[at].fn = "tags"
      BY <1>1, StepKnown DEF StepIsTyped, IsFile, Step
    <3>2. IsFile(lines) /\ Fits("node.yaml", lines)
      BY <1>1, ReadLined
    <3> QED
      BY <3>1, <3>2, TagsAreList
  <2>2. ToSet(now) = (ToSet(t) \ s.remove) \cup ToSet(s.add) /\ Once(now)
    BY <2>1, RetaggedHolds
  <2>3. Tags(lines) = ToSet(t) /\ TagsOf(lines, TagKey(lines)) = t
    BY DEF Tags
  <2> HIDE DEF now, t
  <2>4. Good(s, lines)
    BY <1>1, <1>3, <2>2, <2>3 DEF Good
  <2>5. Good(s, View("node.yaml"))'
    BY <1>1, <1>3, <2>4, StaysGood DEF StepEnds
  <2> QED
    BY <1>1, <1>3, <2>5, Finished DEF Stands
<1>4. CASE now # t /\ WriteFile("node.yaml", c, "done")
  <2>1. NewContent("node.yaml", c)
    BY <1>1, <1>4 DEF NewContent
  <2> HIDE DEF c
  <2>2. Begins("node.yaml", c)
    BY <1>4, WriteBegins
  <2>3. Good(s, View("node.yaml"))'
    BY <1>1, <2>1, <2>2, Written
  <2> QED
    BY <1>1, <1>4, <2>3, GoesOn DEF EndsInWrite
<1> QED
  BY <1>2, <1>3, <1>4, NotFinished

LEMMA RestartGoes ==
  ASSUME NEW s, s = Step, UnitRestart
  PROVE  Outcome(s)
<1>1. s.fn = "unit-restart" /\ StepEnds(TRUE) /\ Touches(s) = {}
  BY DEF UnitRestart, On, Touches
<1> QED
  BY <1>1, Finished DEF Stands

LEMMA RepointGoes ==
  ASSUME StepsAgree, FilesInv, LinesInv, LoadedInv, at # 0, [Next]_vars, RunStep, NEW s, s = Step, SoFar(s),
         RepointUnit \/ RepointEnable \/ RepointEnds
  PROVE  Outcome(s)
<1>1. /\ s.fn = "unit-repoint" /\ Touches(s) = ToSet(s.units) /\ stage \in Calm /\ nth \in Nat \ {0}
      /\ s.units \in Seq(UserUnit) /\ s.to \notin s.from
  <2>1. s.fn = "unit-repoint" /\ stage \in Calm
    BY DEF RepointUnit, RepointEnable, RepointEnds, On, Calm
  <2>2. StepIsTyped(s) /\ at \in DOMAIN recipe /\ s = recipe[at]
    BY StepKnown DEF Step
  <2> QED
    BY <2>1, <2>2, Agreed DEF StepIsTyped, Touches, FilesInv
<1>2. /\ DOMAIN s.units = 1..Len(s.units) /\ Len(s.units) \in Nat
      /\ \A k \in DOMAIN s.units : s.units[k] \in Touches(s) /\ s.units[k] \in UserUnit
      /\ \A u \in Touches(s) : \E k \in DOMAIN s.units : u = s.units[k]
  BY <1>1 DEF ToSet
<1>3. \A k \in DOMAIN s.units : k < nth \/ (k = nth /\ stage = "enable") => Good(s, View(s.units[k]))
  BY <1>1 DEF SoFar, Past
<1>4. ASSUME NEW k \in DOMAIN s.units, Good(s, View(s.units[k]))
      PROVE  Good(s, View(s.units[k]))'
  <2> DEFINE p == s.units[k]
  <2>1. p \in Touches(s)
    BY <1>2
  <2> HIDE DEF p
  <2>2. CASE View(p)' = View(p)
    BY <1>4, <2>2, GoodThen DEF p
  <2>3. ASSUME stage \in Calm, p \in Touches(Step), NEW c, View(p)' = c, NewContent(p, c)
        PROVE  Good(s, View(p))'
    <3>1. Good(s, c)
      BY <2>3, GoodNew
    <3> QED
      BY <2>3, <3>1, GoodThen
  <2> QED
    BY <2>2, <2>3, RunViews DEF p
<1>5. CASE RepointUnit
  <2>0. PICK u, new : u = s.units[nth] /\ new = Patched(Read(u), s.from, s.to)
    OBVIOUS
  <2>1. nth \in DOMAIN s.units /\ stage = "begin"
    BY <1>1, <1>2, <1>5 DEF RepointUnit, On
  <2>2. \/ Exists(u) /\ AtomicWrite(u, new, "enable")
        \/ (~Exists(u) \/ new = Read(u)) /\ Go("enable") /\ UNCHANGED disk
    BY <1>5, <2>0 DEF RepointUnit
  <2>3. Within /\ nth' = nth /\ (held' # NoWrite => held'.next = "enable")
    <3>1. Within /\ nth' = nth
      BY <2>2 DEF AtomicWrite, Holding, Go, Within, runVars
    <3>2. CASE AtomicWrite(u, new, "enable")
      BY <3>1, <3>2, WriteBegins DEF Calm
    <3>3. CASE Go("enable")
      BY <1>1, <3>1, <3>3, EndsCalm
    <3> QED
      BY <2>2, <3>2, <3>3
  <2>4. u \in Touches(s)
    BY <1>2, <2>0, <2>1
  <2>5. Exists(u) => NewContent(u, new)
    BY <1>1, <2>0 DEF NewContent
  <2>6. Lined(Read(u))
    BY <1>1, ReadLined
  <2>7. new = Read(u) => Good(s, Read(u))
    <3>0. s.to \notin s.from /\ new = Patched(Read(u), s.from, s.to)
      BY <1>1, <2>0
    <3>1. \A i \in DOMAIN new : new[i].val \notin s.from
      BY <2>6, <3>0, PatchedIs
    <3> QED
      BY <1>1, <3>1 DEF Good
  <2>8. ~Exists(u) => Good(s, Read(u))
    BY <1>1 DEF Read, Torn, Good
  <2>9. Good(s, View(u))'
    <3>1. CASE Exists(u) /\ AtomicWrite(u, new, "enable")
      <4>1. Begins(u, new)
        BY <1>1, <3>1, WriteBegins DEF Calm
      <4> QED
        BY <1>1, <2>4, <2>5, <3>1, <4>1, Written
    <3>2. CASE (~Exists(u) \/ new = Read(u)) /\ Go("enable") /\ UNCHANGED disk
      BY <1>1, <2>7, <2>8, <3>2, EndsCalm, StaysGood
    <3> QED
      BY <2>2, <3>1, <3>2
  <2>10. \A k \in DOMAIN s.units : k < nth \/ k = nth => Good(s, View(s.units[k]))'
    BY <1>3, <1>4, <2>0, <2>9
  <2>11. SoFar(s)'
    BY <1>1, <2>3, <2>10 DEF SoFar
  <2> QED
    BY <2>3, <2>11 DEF Outcome
<1>6. CASE RepointEnable
  <2>1. stage = "enable" /\ GoNth("begin", nth + 1)
    BY <1>6 DEF RepointEnable, On
  <2>2. Within /\ stage' = "begin" /\ nth' = nth + 1 /\ held' = NoWrite
    BY <1>1, <2>1, EndsCalm DEF GoNth, Within
  <2>3. \A k \in DOMAIN s.units : k < nth + 1 => k < nth \/ k = nth
    BY <1>1, <1>2
  <2>4. \A k \in DOMAIN s.units : k < nth' => Good(s, View(s.units[k]))'
    BY <1>3, <1>4, <2>1, <2>2, <2>3
  <2>5. SoFar(s)'
    BY <1>1, <2>2, <2>4 DEF SoFar, Past
  <2> QED
    BY <2>2, <2>5 DEF Outcome
<1>7. CASE RepointEnds
  <2>1. nth > Len(s.units) /\ StepEnds(TRUE) /\ UNCHANGED <<disk, bus>>
    BY <1>7 DEF RepointEnds
  <2>2. \A k \in DOMAIN s.units : k < nth
    BY <1>1, <1>2, <2>1
  <2>3. \A p \in Touches(s) : Good(s, View(p))'
    BY <1>2, <1>3, <1>4, <2>2
  <2>4. \A u \in Touches(s) : bus => loaded'[u] = Read(u)
    <3> SUFFICES ASSUME NEW u \in Touches(s), bus
                 PROVE  loaded'[u] = Read(u)
      OBVIOUS
    <3>1. u \in UserUnit
      BY <1>2
    <3>2. CASE Reload
      BY <3>1, <3>2 DEF Reload
    <3>3. CASE FoundUnits = {} /\ UNCHANGED loaded
      <4>1. ~Exists(u)
        BY <1>1, <3>3 DEF FoundUnits
      <4> QED
        BY <3>1, <3>3, <4>1 DEF LoadedInv, Read
    <3> QED
      BY <1>7, <3>2, <3>3 DEF RepointEnds, RepointReload
  <2>5. \A u : View(u)' = Read(u)
    BY <1>1, <2>1, Unwritten DEF StepEnds
  <2>6. Stands(s)'
    BY <1>1, <2>1, <2>4, <2>5 DEF Stands
  <2> QED
    BY <2>1, <2>3, <2>6, Finished
<1> QED
  BY <1>5, <1>6, <1>7

LEMMA UserUnitGoes ==
  ASSUME StepsAgree, FilesInv, LinesInv, at # 0, NEW s, s = Step, SoFar(s), WriteUserUnit \/ ArmUserUnit
  PROVE  Outcome(s)
<1> DEFINE u == s.name
<1>1. s.fn = "user-unit" /\ Touches(s) = {u} /\ stage \in Calm
  BY DEF WriteUserUnit, ArmUserUnit, On, Touches, Calm
<1> HIDE DEF u
<1>2. CASE WriteUserUnit
  <2> DEFINE next == IF s.enable THEN "arm" ELSE "done"
  <2>1. \/ (~Exists(u) \/ s.overwrite) /\ WriteFile(u, s.unit, next)
        \/ Exists(u) /\ ~s.overwrite /\ Go("arm") /\ UNCHANGED disk
        \/ Exists(u) /\ ~s.overwrite /\ ~s.enable /\ StepEnds(TRUE) /\ UNCHANGED disk
    BY <1>2 DEF WriteUserUnit, u
  <2>0. next \in Calm \cup {"done"} /\ (next = "done" => EndsInWrite(s))
    BY <1>1 DEF Calm, EndsInWrite
  <2> HIDE DEF next
  <2>2. Good(s, View(u))'
    <3>1. CASE (~Exists(u) \/ s.overwrite) /\ WriteFile(u, s.unit, next)
      <4>1. NewContent(u, s.unit)
        BY <1>1, <3>1 DEF NewContent
      <4>2. Begins(u, s.unit)
        BY <2>0, <3>1, WriteBegins
      <4> QED
        BY <1>1, <4>1, <4>2, Written
    <3>2. CASE ~s.overwrite
      BY <1>1, <3>2 DEF Good
    <3> QED
      BY <2>1, <3>1, <3>2
  <2>3. CASE WriteFile(u, s.unit, next)
    <3>1. held'.next = next /\ stage' = "write"
      BY <2>0, <2>3, WriteBegins DEF WriteFile, Holding
    <3> QED
      BY <1>1, <2>0, <2>2, <2>3, <3>1, GoesOn
  <2>4. CASE Exists(u) /\ Go("arm") /\ UNCHANGED disk
    <3>1. held' = NoWrite /\ Exists(s.name)'
      BY <1>1, <2>4, EndsCalm DEF Exists, u
    <3> QED
      BY <1>1, <2>2, <2>4, <3>1, GoesOn
  <2>5. CASE Exists(u) /\ ~s.enable /\ StepEnds(TRUE) /\ UNCHANGED disk
    <3>1. Exists(s.name)'
      BY <2>5 DEF Exists, u
    <3>2. Stands(s)'
      BY <1>1, <2>5, <3>1 DEF Stands
    <3> QED
      BY <1>1, <2>2, <2>5, <3>2, Finished
  <2> QED
    BY <2>1, <2>3, <2>4, <2>5
<1>3. CASE ArmUserUnit
  <2>1. stage = "arm" /\ UNCHANGED disk
    BY <1>3 DEF ArmUserUnit, On
  <2>2. \/ StepEnds(FALSE)
        \/ StepEnds(~s.strict)
        \/ StepEnds(TRUE) /\ enabled' = enabled \cup {u} /\ works' = works \cup {u}
    BY <1>3 DEF ArmUserUnit, u
  <2>3. held' = NoWrite
    BY <2>2, EndsCalm
  <2>4. Good(s, View(u))'
    <3>1. Good(s, View(u))
      BY <1>1, <2>1 DEF SoFar
    <3>2. View(u)' = View(u)
      BY <1>1, <2>1, <2>3, Unwritten
    <3> QED
      BY <3>1, <3>2, GoodThen
  <2>7. Exists(s.name)'
    BY <1>1, <2>1 DEF SoFar, Exists
  <2>5. CASE StepEnds(~s.strict)
    <3>1. CASE s.strict
      BY <2>5, <3>1 DEF Outcome
    <3>2. CASE ~s.strict
      <4>1. StepEnds(TRUE) /\ Stands(s)'
        BY <1>1, <2>5, <2>7, <3>2 DEF Stands, StepEnds
      <4> QED
        BY <1>1, <2>4, <4>1, Finished
    <3> QED
      BY <3>1, <3>2
  <2>6. CASE StepEnds(TRUE) /\ enabled' = enabled \cup {u} /\ works' = works \cup {u}
    <3>1. Stands(s)'
      BY <1>1, <2>6, <2>7 DEF Stands, u
    <3> QED
      BY <1>1, <2>4, <2>6, <3>1, Finished
  <2> QED
    BY <2>2, <2>5, <2>6, NotFinished
<1> QED
  BY <1>2, <1>3

LEMMA TriggerGoes ==
  ASSUME StepsAgree, FilesInv, UnitsInv, LinesInv, at # 0, NEW s, s = Step, SoFar(s),
         WriteLoginTrigger \/ ArmLoginTrigger
  PROVE  Outcome(s)
<1> DEFINE u == s.name
<1>1. s.fn = "login-trigger" /\ Touches(s) = {u} /\ stage \in Calm /\ u \in UserUnit
  <2>1. s.fn = "login-trigger" /\ stage \in Calm
    BY DEF WriteLoginTrigger, ArmLoginTrigger, On, Calm
  <2> QED
    BY <2>1, StepKnown DEF Touches, StepIsTyped
<1> HIDE DEF u
<1>2. CASE WriteLoginTrigger
  <2>1. WriteFile(u, s.unit, "arm")
    BY <1>2 DEF WriteLoginTrigger, u
  <2>2. NewContent(u, s.unit) /\ Begins(u, s.unit)
    BY <1>1, <2>1, WriteBegins DEF NewContent, Calm, Stages
  <2>3. Good(s, View(u))'
    BY <1>1, <2>2, Written
  <2>4. held'.next # "done"
    BY <2>1, WriteBegins DEF Calm
  <2> QED
    BY <1>1, <2>1, <2>3, <2>4, GoesOn
<1>3. CASE ArmLoginTrigger
  <2>1. stage = "arm" /\ UNCHANGED disk /\ StepEnds(bus /\ u \notin masked /\ CommandSucceeds)
    BY <1>3 DEF ArmLoginTrigger, On, u
  <2>2. held' = NoWrite
    BY <2>1, EndsCalm
  <2>3. Good(s, View(u)) /\ View(u) = Read(u) /\ View(u)' = View(u)
    BY <1>1, <2>1, <2>2, Unwritten DEF SoFar
  <2>4. Good(s, View(u))'
    BY <2>3, GoodThen
  <2>5. CASE bus /\ u \notin masked /\ CommandSucceeds
    <3>1. StepEnds(TRUE)
      BY <2>1, <2>5 DEF StepEnds
    <3>2. Reload /\ enabled' = enabled \cup {u} /\ image' = [image EXCEPT ![u] = Read(u)]
      BY <1>3, <2>5 DEF ArmLoginTrigger, u
    <3>3. Read(u) = s.unit
      BY <1>1, <2>3 DEF Good
    <3>4. loaded'[u] = s.unit /\ image'[u] = s.unit /\ u \in enabled'
      BY <1>1, <3>2, <3>3 DEF Reload, UnitsInv
    <3>5. Stands(s)'
      BY <1>1, <3>4 DEF Stands, u
    <3> QED
      BY <1>1, <2>4, <3>1, <3>5, Finished
  <2>6. CASE ~(bus /\ u \notin masked /\ CommandSucceeds)
    BY <2>1, <2>6 DEF Outcome
  <2> QED
    BY <2>5, <2>6
<1> QED
  BY <1>2, <1>3

LEMMA GnomeGoes ==
  ASSUME StepsAgree, FilesInv, LinesInv, at # 0, [Next]_vars, RunStep, NEW s, s = Step, SoFar(s),
         GnomeUnits \/ GnomeRcFile \/ GnomeNextFile \/ GnomeEnds
  PROVE  Outcome(s)
<1>1. /\ s.fn = "gnome-keyring" /\ Touches(s) = ToSet(s.rcfiles) /\ stage \in Calm /\ nth \in Nat \ {0}
      /\ s.rcfiles \in Seq(ToSet(s.rcfiles))
  <2>1. s.fn = "gnome-keyring" /\ stage \in Calm
    BY DEF GnomeUnits, GnomeRcFile, GnomeNextFile, GnomeEnds, On, Calm
  <2> QED
    BY <2>1, StepKnown DEF StepIsTyped, Touches, FilesInv
<1>2. /\ DOMAIN s.rcfiles = 1..Len(s.rcfiles) /\ Len(s.rcfiles) \in Nat
      /\ \A k \in DOMAIN s.rcfiles : s.rcfiles[k] \in Touches(s)
      /\ \A p \in Touches(s) : \E k \in DOMAIN s.rcfiles : p = s.rcfiles[k]
  BY <1>1 DEF ToSet
<1>3. GpgGone'
  <2>1. CASE GnomeUnits
    <3>1. bus' = bus
      BY <2>1 DEF GnomeUnits
    <3>2. bus => /\ "gpg-agent-ssh" \in masked'
                 /\ "gpg-agent-ssh" \notin enabled' /\ "gpg-agent-ssh" \notin works'
      BY <2>1 DEF GnomeUnits
    <3> QED
      BY <3>1, <3>2 DEF GpgGone
  <2>2. CASE (GnomeRcFile \/ GnomeNextFile \/ GnomeEnds)
    <3>1. UNCHANGED unitVars /\ stage # "begin"
      BY <2>2 DEF GnomeRcFile, GnomeNextFile, GnomeEnds, On
    <3>2. GpgGone
      BY <1>1, <3>1 DEF SoFar
    <3> QED
      BY <3>1, <3>2 DEF GpgGone, unitVars
  <2> QED
    BY <2>1, <2>2
<1>4. \A k \in DOMAIN s.rcfiles :
        k < nth \/ (k = nth /\ stage = "next") => Good(s, View(s.rcfiles[k]))
  BY <1>1 DEF SoFar, Past
\* What is good stays so: it is left alone, or written as it should be.
<1>5. ASSUME NEW p \in Touches(s), Good(s, View(p)) PROVE Good(s, View(p))'
  <2>1. CASE View(p)' = View(p)
    BY <1>5, <2>1, GoodThen
  <2>2. ASSUME NEW c, View(p)' = c, NewContent(p, c) PROVE Good(s, View(p))'
    <3>1. Good(s, c)
      BY <1>1, <2>2, GoodNew
    <3> QED
      BY <2>2, <3>1, GoodThen
  <2> QED
    BY <2>1, <2>2, RunViews
<1>6. ASSUME Within, held' # NoWrite => held'.next # "done",
             \A k \in DOMAIN s.rcfiles : k < nth' \/ (k = nth' /\ Past("next")') => Good(s, View(s.rcfiles[k]))'
      PROVE  Outcome(s)
  BY <1>1, <1>3, <1>6 DEF SoFar, Outcome
<1>7. CASE GnomeUnits
  <2>1. Within /\ stage' = "rc" /\ nth' = nth /\ held' = NoWrite
    BY <1>1, <1>7, EndsCalm DEF GnomeUnits, Go, runVars, Within, On
  <2>2. \A k \in DOMAIN s.rcfiles : k < nth => Good(s, View(s.rcfiles[k]))'
    BY <1>2, <1>4, <1>5
  <2> QED
    BY <1>6, <2>1, <2>2 DEF Past
<1>8. CASE GnomeNextFile
  <2>1. Within /\ stage = "next" /\ stage' = "rc" /\ nth' = nth + 1 /\ held' = NoWrite
    BY <1>1, <1>8, EndsCalm DEF GnomeNextFile, GoNth, Within, On
  <2>2. \A k \in DOMAIN s.rcfiles : k < nth + 1 => k < nth \/ k = nth
    BY <1>1, <1>2
  <2>3. \A k \in DOMAIN s.rcfiles : k < nth' => Good(s, View(s.rcfiles[k]))'
    BY <1>2, <1>4, <1>5, <2>1, <2>2
  <2> QED
    BY <1>6, <2>1, <2>3 DEF Past
<1>9. CASE GnomeRcFile
  <2>0. PICK p : p = s.rcfiles[nth]
    OBVIOUS
  <2>1. RcExports(p, "SSH_AUTH_SOCK", "gcr", "next") /\ nth \in DOMAIN s.rcfiles
    BY <1>1, <1>2, <1>9, <2>0 DEF GnomeRcFile
  <2>2. p \in Touches(s)
    BY <1>2, <2>0, <2>1
  <2>3. (\E d : WriteFile(p, d, "next")) \/ Go("next")
    BY <2>1 DEF RcExports
  <2>4. Within /\ nth' = nth
    BY <2>3 DEF WriteFile, Holding, Go, runVars, Within
  <2>5. held' # NoWrite => held'.next # "done"
    BY <1>1, <2>3, WriteBegins, EndsCalm DEF Calm
  <2> DEFINE c == WithExport(Read(p), "SSH_AUTH_SOCK", "gcr")
  <2>6. Begins(p, c) \/ AtOnce(p, c)
    BY <1>1, <2>1, ExportsMake DEF Calm, Stages
  <2>7. NewContent(p, c)
    BY <1>1 DEF NewContent
  <2> HIDE DEF c
  <2>8. Good(s, View(p))'
    BY <1>1, <2>2, <2>6, <2>7, Written
  <2>9. \A k \in DOMAIN s.rcfiles : k < nth => Good(s, View(s.rcfiles[k]))'
    BY <1>2, <1>4, <1>5
  <2>10. \A k \in DOMAIN s.rcfiles : k < nth' \/ (k = nth' /\ Past("next")') => Good(s, View(s.rcfiles[k]))'
    BY <2>0, <2>4, <2>8, <2>9
  <2> QED
    BY <1>6, <2>4, <2>5, <2>10
<1>10. CASE GnomeEnds
  <2>1. StepEnds(GnomeVerified) /\ nth > Len(s.rcfiles)
    BY <1>10 DEF GnomeEnds
  <2>2. \A k \in DOMAIN s.rcfiles : k < nth
    BY <1>1, <1>2, <2>1
  <2>3. \A p \in Touches(s) : Good(s, View(p))'
    BY <1>2, <1>4, <1>5, <2>2
  <2>4. Stands(s)'
    BY <1>1, <1>3 DEF Stands
  <2>5. Touches(s)' = Touches(s)
    BY DEF Touches, ShareUnits
  <2>6. Done(s)'
    BY <2>3, <2>4, <2>5 DEF Done
  <2> QED
    BY <2>1, <2>6 DEF Outcome
<1> QED
  BY <1>7, <1>8, <1>9, <1>10

LEMMA InstallGoes ==
  ASSUME StepsAgree, FilesInv, LinesInv, at # 0, RunStep, NEW s, s = Step, SoFar(s), InstallStep
  PROVE  Outcome(s)
<1>1. /\ s.fn \in {"apt-install", "flatpak", "package", "git-extract"} /\ stage \in Calm
      /\ Touches(s)' = Touches(s) /\ \A p : Good(s, View(p))'
  <2>1. s.fn \in {"apt-install", "flatpak", "package", "git-extract"} /\ stage \in Calm
    BY DEF InstallStep, AptInstall, FlatpakInstall, Package, GitFetch, GitShow, On, Calm
  <2> QED
    BY <2>1, GoodAnyway DEF Keepers, Touches, ShareUnits
<1>2. net' = net /\ priv' = priv /\ at \in DOMAIN recipe /\ s = recipe[at] /\ StepIsTyped(s)
  BY RunShape, StepKnown DEF Step
<1>3. ASSUME StepEnds(TRUE), Stands(s)'
      PROVE  Outcome(s)
  BY <1>1, <1>3, Finished
<1>4. CASE AptInstall
  <2> DEFINE toks == UNION {Wanted(s.packages[i], s.verify) : i \in DOMAIN s.packages}
  <2>1. s.fn = "apt-install" /\ StepEnds(TRUE)
    BY <1>4 DEF AptInstall, On
  <2>2. pkgs' = IF AptTakes(toks) THEN Installed({t.name : t \in toks}) ELSE pkgs
    BY <1>4 DEF AptInstall, AptTokens
  <2>3. Obtainable(s)
    BY <1>2, <2>1, Agreed
  <2> HIDE DEF toks
  <2>4. net /\ Root => AptMet(s)'
    BY <1>2, <2>1, <2>2, <2>3, AptInstalls DEF toks
  <2>5. Stands(s)'
    BY <1>2, <2>1, <2>4 DEF Stands, Root
  <2> QED
    BY <1>3, <2>1, <2>5
<1>5. CASE FlatpakInstall
  <2>1. s.fn = "flatpak" /\ StepEnds(s.require => flat' # {})
    BY <1>5 DEF FlatpakInstall, On
  <2>2. CASE s.require => flat' # {}
    <3>1. StepEnds(TRUE)
      BY <2>1, <2>2 DEF StepEnds
    <3>2. Stands(s)'
      BY <2>1, <2>2 DEF Stands
    <3> QED
      BY <1>3, <3>1, <3>2
  <2>3. CASE ~(s.require => flat' # {})
    BY <2>1, <2>3 DEF Outcome
  <2> QED
    BY <2>2, <2>3
<1>6. CASE Package
  <2>1. s.fn = "package" /\ StepEnds(TRUE)
    BY <1>6 DEF Package, On
  <2> QED
    BY <1>3, <2>1 DEF Stands
<1>7. CASE GitFetch
  <2>1. s.fn = "git-extract" /\ tracked' = (IF net THEN upstream ELSE tracked) /\ upstream' = upstream
    BY <1>7 DEF GitFetch, On
  <2>2. CASE StepEnds(FALSE)
    BY <2>2, NotFinished
  <2>3. CASE (net \/ s.fetch = "best-effort") /\ Go("show")
    <3>1. Within /\ stage' = "show" /\ held' = NoWrite
      BY <1>1, <2>3, EndsCalm DEF Go, runVars, Within
    <3>2. IF net' THEN tracked' = upstream' ELSE s.fetch = "best-effort"
      BY <1>2, <2>1, <2>3
    <3>3. SoFar(s)'
      BY <1>1, <2>1, <3>1, <3>2 DEF SoFar
    <3> QED
      BY <3>1, <3>3 DEF Outcome
  <2> QED
    BY <1>7, <2>2, <2>3 DEF GitFetch
<1>8. CASE GitShow
  <2>1. s.fn = "git-extract" /\ stage = "show" /\ UNCHANGED <<tracked, upstream>>
    BY <1>8 DEF GitShow, On, installVars
  <2>2. StepEnds(FALSE) \/ AtomicWrite(s.dest, Blob(tracked), "done")
    BY <1>8 DEF GitShow, Blob
  <2>3. CASE AtomicWrite(s.dest, Blob(tracked), "done")
    <3>1. Begins(s.dest, Blob(tracked)) /\ held'.next = "done"
      BY <2>3, WriteBegins
    <3>2. View(s.dest)' = Blob(tracked)
      BY <3>1 DEF Begins, View
    <3>3. Blob(tracked)' = Blob(tracked)
      BY <2>1 DEF Blob, Line
    <3>4. IF net THEN tracked = upstream ELSE s.fetch = "best-effort"
      BY <2>1 DEF SoFar
    <3>5. Within /\ EndsInWrite(s)
      BY <2>1, <2>3 DEF AtomicWrite, Holding, runVars, Within, EndsInWrite
    <3>6. SoFar(s)'
      BY <1>1, <1>2, <2>1, <3>2, <3>3, <3>4, <3>5 DEF SoFar, EndsInWrite
    <3> QED
      BY <3>5, <3>6 DEF Outcome
  <2> QED
    BY <2>2, <2>3, NotFinished
<1> QED
  BY <1>4, <1>5, <1>6, <1>7, <1>8 DEF InstallStep

LEMMA ShareGoes ==
  ASSUME FilesInv, RestInv, LinesInv, at # 0, NEW s, s = Step, SoFar(s),
         MountShare \/ WriteShareUnit \/ NextShareUnit \/ ArmShare
  PROVE  Outcome(s)
<1>1. s.fn = "mount-share" /\ stage \in Calm /\ nth \in Nat \ {0} /\ s.device # "none" /\ \A p : Good(s, View(p))'
  <2>1. s.fn = "mount-share" /\ stage \in Calm
    BY DEF MountShare, WriteShareUnit, NextShareUnit, ArmShare, On, Calm
  <2> QED
    BY <2>1, StepKnown, GoodAnyway DEF Keepers, StepIsTyped, FilesInv
<1>2. /\ DOMAIN ShareUnits = {1, 2} /\ ShareFiles = {ShareUnits[1], ShareUnits[2]}
      /\ ShareUnits[1] # ShareUnits[2] /\ "smbcredentials" \notin ShareFiles
  BY DEF ShareFiles, ShareUnits, ToSet
<1>3. \A k \in {1, 2} : k < nth \/ (k = nth /\ stage = "next") => View(ShareUnits[k]) = ShareUnit(s.device)
  BY <1>1, <1>2 DEF SoFar, Past
<1>4. ASSUME StepEnds(TRUE), mounted' # "none" \/ Shared(s)'
      PROVE  Outcome(s)
  BY <1>1, <1>4, Finished DEF Stands
<1>5. ASSUME Within, held' # NoWrite => held'.next # "done",
             s.nenv /\ net' => View("smbcredentials")' = Credentials,
             \A k \in {1, 2} : k < nth' \/ (k = nth' /\ Past("next")') => View(ShareUnits[k])' = ShareUnit(s.device)
      PROVE  Outcome(s)
  <2>1. SoFar(s)'
    BY <1>1, <1>2, <1>5 DEF SoFar, ShareUnits, ShareUnit, Credentials, Line
  <2> QED
    BY <1>5, <2>1 DEF Outcome
<1>12. stage # "begin" /\ s.nenv /\ net => View("smbcredentials") = Credentials
  BY <1>1 DEF SoFar
<1>13. net' = net
  BY DEF MountShare, WriteShareUnit, NextShareUnit, ArmShare, SystemdArms, MountsDirectly,
     StepEnds, WriteFile, Holding, Go, GoNth, runVars
<1>6. ASSUME UNCHANGED disk, held' = NoWrite, NEW p
      PROVE  View(p)' = View(p) /\ View(p) = Read(p)
  BY <1>1, <1>6, Unwritten
<1>7. ASSUME NEW q, NEW c, NEW next \in Calm, WriteFile(q, c, next)
      PROVE  /\ Within /\ nth' = nth /\ held' # NoWrite /\ held'.next = next /\ stage' \notin Calm
             /\ \A p : View(p)' = IF p = q THEN c ELSE View(p)
  <2>1. Begins(q, c) /\ held'.next = next
    BY <1>7, WriteBegins
  <2>2. Within /\ nth' = nth /\ stage' = "write" /\ UNCHANGED disk
    BY <1>7 DEF WriteFile, Holding, runVars, Within
  <2>3. \A p : View(p) = Read(p) /\ Read(p)' = Read(p)
    BY <1>1, <2>2, ViewIsRead DEF Read, Exists
  <2> QED
    BY <2>1, <2>2, <2>3 DEF Begins, View, Calm
<1>8. CASE MountShare
  <2>1. CASE mounted # "none" /\ StepEnds(TRUE)
    <3>1. mounted' = mounted
      BY <1>8 DEF MountShare, mountVars
    <3> QED
      BY <1>4, <2>1, <3>1
  <2>2. CASE WriteFile("smbcredentials", Credentials, "root")
    <3>1. /\ Within /\ nth' = nth /\ held' # NoWrite /\ held'.next = "root" /\ stage' \notin Calm
          /\ \A p : View(p)' = IF p = "smbcredentials" THEN Credentials ELSE View(p)
      BY <1>7, <2>2 DEF Calm
    <3>2. ~Past("next")'
      BY <3>1 DEF Past, Calm
    <3> QED
      BY <1>2, <1>3, <1>5, <3>1, <3>2
  <2>3. CASE Go("root") /\ UNCHANGED disk /\ (s.nenv => ~net)
    <3>1. Within /\ nth' = nth /\ held' = NoWrite /\ stage' = "root"
      BY <1>1, <2>3, EndsCalm DEF Go, runVars, Within
    <3>2. ~Past("next")'
      BY <3>1 DEF Past
    <3> QED
      BY <1>3, <1>5, <1>6, <1>13, <2>3, <3>1, <3>2
  <2> QED
    BY <1>8, <2>1, <2>2, <2>3, NotFinished DEF MountShare
<1>9. CASE WriteShareUnit
  <2>9. stage # "begin"
    BY <1>9 DEF WriteShareUnit, On
  <2> DEFINE p    == ShareUnits[nth]
             unit == ShareUnit(s.device)
  <2>1. nth \in {1, 2}
    BY <1>1, <1>9 DEF WriteShareUnit
  <2>2. CASE Read(p) = unit /\ Go("next") /\ UNCHANGED disk
    <3>1. Within /\ nth' = nth /\ held' = NoWrite
      BY <1>1, <2>2, EndsCalm DEF Go, runVars, Within
    <3>2. \A k \in {1, 2} : k < nth \/ k = nth => View(ShareUnits[k])' = ShareUnit(s.device)
      BY <1>3, <1>6, <2>2, <3>1
    <3>3. View("smbcredentials")' = View("smbcredentials")
      BY <1>6, <2>2, <3>1
    <3> QED
      BY <1>5, <1>12, <1>13, <2>9, <3>1, <3>2, <3>3
  <2>3. CASE WriteFile(p, unit, "next")
    <3>1. /\ Within /\ nth' = nth /\ held' # NoWrite /\ held'.next = "next"
          /\ \A q : View(q)' = IF q = p THEN unit ELSE View(q)
      <4> HIDE DEF p, unit
      <4> QED
        BY <1>7, <2>3 DEF Calm
    <3>2. \A k \in {1, 2} : k < nth \/ k = nth => View(ShareUnits[k])' = ShareUnit(s.device)
      BY <1>3, <3>1
    <3>3. View("smbcredentials")' = View("smbcredentials")
      BY <1>2, <2>1, <3>1
    <3> QED
      BY <1>5, <1>12, <1>13, <2>9, <3>1, <3>2, <3>3
  <2> QED
    BY <1>9, <2>2, <2>3, NotFinished DEF WriteShareUnit
<1>10. CASE NextShareUnit
  <2>1. Within /\ stage = "next" /\ stage' = "root" /\ nth' = nth + 1 /\ held' = NoWrite /\ UNCHANGED disk
    BY <1>1, <1>10, EndsCalm DEF NextShareUnit, GoNth, Within, On
  <2>2. \A k \in {1, 2} : k < nth + 1 => View(ShareUnits[k])' = ShareUnit(s.device)
    BY <1>1, <1>3, <1>6, <2>1
  <2>3. ~Past("next")'
    BY <2>1 DEF Past
  <2>4. View("smbcredentials")' = View("smbcredentials")
    BY <1>6, <2>1
  <2> QED
    BY <1>5, <1>12, <1>13, <2>1, <2>2, <2>3, <2>4
<1>11. CASE ArmShare
  <2>1. nth = 3 /\ stage # "begin" /\ UNCHANGED disk /\ (SystemdArms \/ MountsDirectly)
    BY <1>11 DEF ArmShare, On
  <2>2. held' = NoWrite
    BY <2>1, EndsCalm DEF SystemdArms, MountsDirectly
  <2>3. Shared(s)'
    <3>1. \A p \in ShareFiles : View(p) = ShareUnit(s.device)
      BY <1>2, <1>3, <2>1
    <3>2. Shared(s)
      BY <1>12, <2>1, <3>1 DEF Shared
    <3> QED
      BY <1>6, <1>13, <2>1, <2>2, <3>2, SharedStill
  <2>4. StepEnds(TRUE) \/ StepEnds(FALSE)
    <3>1. CASE SystemdArms
      BY <3>1 DEF SystemdArms
    <3>2. CASE MountsDirectly
      <4>1. CASE net
        BY <3>2, <4>1 DEF MountsDirectly, StepEnds
      <4>2. CASE ~net
        BY <3>2, <4>2 DEF MountsDirectly, StepEnds
      <4> QED
        BY <4>1, <4>2
    <3> QED
      BY <2>1, <3>1, <3>2
  <2> QED
    BY <1>4, <2>3, <2>4, NotFinished
<1> QED
  BY <1>8, <1>9, <1>10, <1>11

LEMMA DeviceGoes ==
  ASSUME FilesInv, LinesInv, at # 0, NEW s, s = Step, SoFar(s), MountDevice \/ MountDeviceNow
  PROVE  Outcome(s)
<1>1. /\ s.fn = "mount-device" /\ stage \in Calm /\ s.device # "none" /\ \A p : Good(s, View(p))'
  <2>1. s.fn = "mount-device" /\ stage \in Calm
    BY DEF MountDevice, MountDeviceNow, On, Calm
  <2> QED
    BY <2>1, StepKnown, GoodAnyway DEF Keepers, StepIsTyped
<1>2. ASSUME StepEnds(TRUE), mounted' # "none", Entered(s)'
      PROVE  Outcome(s)
  BY <1>1, <1>2, Finished DEF Stands
<1>3. ASSUME Entered(s)', Go("mount")
      PROVE  Outcome(s)
  <2>1. held' = NoWrite
    BY <1>1, <1>3, EndsCalm
  <2> QED
    BY <1>1, <1>3, <2>1, GoesOn
<1>8. CASE MountDevice
  <2>1. CASE StepEnds(FALSE)
    BY <2>1, NotFinished
  <2>2. CASE Go("mount") /\ UNCHANGED disk
             /\ (~s.fstab \/ priv # "sudo" \/ \E i \in DOMAIN Read("fstab") : Read("fstab")[i].val = s.mnt)
    <3>1. held' = NoWrite /\ priv' = priv
      BY <1>1, <2>2, EndsCalm DEF Go, runVars
    <3>2. View("fstab")' = Read("fstab")
      BY <1>1, <2>2, <3>1, Unwritten
    <3>3. Entered(s)'
      BY <2>2, <3>1, <3>2 DEF Entered
    <3> QED
      BY <1>3, <2>2, <3>3
  <2>3. CASE Go("mount") /\ Appends("fstab", Line("gogitops", s.device, s.mnt))
    <3> DEFINE x == Line("gogitops", s.device, s.mnt)
               c == Append(Read("fstab"), x)
               n == Len(Read("fstab")) + 1
    <3>1. held' = NoWrite
      BY <1>1, <2>3, EndsCalm
    <3>2. View("fstab")' = c
      BY <2>3, <3>1 DEF Appends, View, Read, Exists, Put
    <3>3. IsFile(Read("fstab")) /\ x.val = s.mnt
      BY <1>1, ReadLined, LineIs
    <3> HIDE DEF x
    <3>4. n \in DOMAIN c /\ c[n] = x
      BY <3>3, AppendIs
    <3> HIDE DEF c, n
    <3>5. Entered(s)'
      BY <3>2, <3>3, <3>4 DEF Entered
    <3> QED
      BY <1>3, <2>3, <3>5
  <2> QED
    BY <1>8, <2>1, <2>2, <2>3 DEF MountDevice, Some
<1>9. CASE MountDeviceNow
  <2>1. s.fn = "mount-device" /\ stage = "mount" /\ UNCHANGED disk /\ \E ok : StepEnds(ok)
    BY <1>9 DEF MountDeviceNow, On
  <2>2. held' = NoWrite /\ priv' = priv
    BY <2>1, EndsCalm DEF StepEnds
  <2>3. View("fstab") = Read("fstab") /\ View("fstab")' = Read("fstab") /\ Entered(s)
    BY <1>1, <2>1, <2>2, Unwritten DEF SoFar
  <2>4. Entered(s)'
    BY <2>2, <2>3 DEF Entered
  <2> QED
    BY <1>1, <1>2, <1>9, <2>4, NotFinished DEF MountDeviceNow
<1> QED
  BY <1>8, <1>9

\* Whatever the step.
LEMMA StepGoes ==
  ASSUME StepsAgree, FilesInv, UnitsInv, RestInv, LinesInv, LoadedInv, [Next]_vars, RunStep, at # 0,
         NEW s, s = Step, SoFar(s)
  PROVE  Outcome(s)
<1>1. CASE stage \notin Calm
  BY <1>1, FillGoes
<1>2. CASE stage \in Calm
  <2>1. ~Truncate /\ ~Fill /\ ~RunStarts
    BY <1>2 DEF Truncate, Fill, RunStarts, Calm
  <2>2. CASE RcStep
    BY <2>2, LineGoes, ExportGoes, ScheduleGoes, TagsGo DEF RcStep
  <2>3. CASE UnitStep
    BY <2>3, RestartGoes, RepointGoes, UserUnitGoes, TriggerGoes, GnomeGoes DEF UnitStep
  <2> QED
    BY <2>1, <2>2, <2>3, InstallGoes, ShareGoes, DeviceGoes DEF RunStep, MountStep
<1> QED
  BY <1>1, <1>2

(***************************************************************************)
(* The invariant, and what it says of a run that is over.                  *)
(***************************************************************************)
LEMMA BeginsSoFar ==
  ASSUME NEW s, StepIsTyped(s), stage' = "begin", nth' = 1, held' = NoWrite
  PROVE  SoFar(s)'
<1>1. /\ s.fn = "unit-repoint" => \A k \in DOMAIN s.units : ~(k < 1)
      /\ s.fn = "gnome-keyring" => \A k \in DOMAIN s.rcfiles : ~(k < 1)
      /\ \A k \in DOMAIN ShareUnits : ~(k < 1)
  BY DEF StepIsTyped, ShareUnits
<1> QED
  BY <1>1 DEF SoFar, Past

LEMMA GoalsInit == Init => GoalsInv
BY DEF Init, FilesInit, GoalsInv

\* What is not a run's step leaves what it has done, or disturbs it.
LEMMA IdleMoves ==
  ASSUME FilesInv, RestInv, [Next]_vars, ~RunStep, UNCHANGED fileVars
  PROVE  UNCHANGED <<unitVars, pkgs, flat, upstream, tracked>> /\ (mounted # "none" => mounted' # "none")
<1>1. upsets' = upsets /\ upsets \in Nat
  BY RecipesAreTyped DEF FilesInv, fileVars
<1>2. ~Upset
  BY <1>1 DEF Upset
<1>3. ~Disturbance /\ \A u : ~Crashes(u) /\ ~StartedByHand(u)
  BY <1>2 DEF Disturbance, KillRun, NetFlips, UserEdits, BusFlips, PushBinary, Unmount, Replug, Crashes,
     StartedByHand, Disturbed
<1>4. UNCHANGED vars \/ (Use /\ UNCHANGED <<unitVars, installVars>>) \/ Watch
  BY <1>3 DEF Next
<1>5. UNCHANGED unitVars
  BY <1>2, <1>3, UnitsSee DEF BusFlips, Disturbed
<1>6. UNCHANGED <<pkgs, flat, upstream, tracked>> /\ (mounted # "none" => mounted' # "none")
  BY <1>4 DEF vars, installVars, mountVars, Watch, Use, RestInv, MountsInv
<1> QED
  BY <1>5, <1>6

LEMMA IdleKeeps ==
  ASSUME FilesInv, RestInv, [Next]_vars, ~RunStep, UNCHANGED fileVars, NEW s
  PROVE  (Done(s) => Done(s)') /\ (SoFar(s) => SoFar(s)')
<1>5. UNCHANGED unitVars
  BY IdleMoves
<1>6. UNCHANGED <<pkgs, flat, upstream, tracked>> /\ (mounted # "none" => mounted' # "none")
  BY IdleMoves
<1>7. \A p : View(p)' = View(p)
  BY DEF View, Read, Exists, fileVars
<1>8. \A p : Good(s, View(p)) => Good(s, View(p))'
  BY <1>7, GoodThen
<1>9. Touches(s)' = Touches(s)
  BY DEF Touches, ShareUnits
<1>10. UNCHANGED <<bus, loaded, image, enabled, masked, works, net, priv, stage, nth, held>>
  BY <1>5 DEF unitVars, fileVars
<1>11. GpgGone => GpgGone'
  BY <1>10 DEF GpgGone
<1>12. AptMet(s)' <=> AptMet(s)
  BY <1>6 DEF AptMet, Has, Resolves
<1>13. Blob(tracked)' = Blob(tracked)
  BY <1>6 DEF Blob, Line
<1>17. (Entered(s) => Entered(s)') /\ \A p : Exists(p) => Exists(p)'
  BY <1>7, <1>10 DEF Entered, Exists, fileVars
<1>14. Stands(s) => Stands(s)'
  <2>1. CASE s.fn = "unit-repoint"
    BY <1>7, <1>10, <2>1 DEF Stands
  <2>2. CASE s.fn = "git-extract"
    BY <1>6, <1>7, <1>10, <1>13, <2>2 DEF Stands
  <2>3. CASE s.fn \in {"user-unit", "login-trigger", "gnome-keyring", "apt-install", "flatpak"}
    BY <1>6, <1>10, <1>11, <1>12, <1>17, <2>3 DEF Stands, Root
  <2>4. CASE s.fn \in {"mount-share", "mount-device"}
    BY <1>6, <1>7, <1>10, <1>17, <2>4, SharedStill DEF Stands
  <2>5. CASE s.fn \notin {"unit-repoint", "user-unit", "login-trigger", "gnome-keyring", "apt-install", "flatpak",
                          "git-extract", "mount-share", "mount-device"}
    BY <2>5 DEF Stands
  <2> QED
    BY <2>1, <2>2, <2>3, <2>4, <2>5
<1>15. Done(s) => Done(s)'
  BY <1>8, <1>9, <1>14 DEF Done
<1>16. SoFar(s) => SoFar(s)'
  BY <1>6, <1>7, <1>8, <1>9, <1>10, <1>11, <1>13, <1>17 DEF SoFar, Past, EndsInWrite, ShareUnits, ShareUnit, Credentials, Line
<1> QED
  BY <1>15, <1>16

LEMMA GoalsRun ==
  ASSUME StepsAgree, FilesInv, UnitsInv, RestInv, LinesInv, LoadedInv, GoalsInv, [Next]_vars, RunStep
  PROVE  GoalsInv'
<1>1. recipe' = recipe /\ recipe \in Seq(ToSet(recipe)) /\ DOMAIN recipe = 1..Len(recipe) /\ Len(recipe) \in Nat \ {0}
  BY RunShape, RecipeLen, RecipesAreTyped DEF FilesInv
<1>2. at \in 0..Len(recipe)
  BY DEF FilesInv
<1>3. ASSUME at' \in DOMAIN recipe, stage' = "begin", nth' = 1, held' = NoWrite, NEW s, s = Step'
      PROVE  SoFar(s)'
  <2>1. s = recipe[at']
    BY <1>1, <1>3 DEF Step
  <2>2. StepIsTyped(s)
    BY <1>3, <2>1, RecipeTyped
  <2> QED
    BY <1>3, <2>2, BeginsSoFar
<1>4. CASE RunStarts
  <2>1. at' = 1 /\ stage' = "begin" /\ nth' = 1 /\ held' = NoWrite
    BY <1>4 DEF RunStarts, FilesInv, Writing
  <2>2. at' \in DOMAIN recipe /\ \A i \in DOMAIN recipe : ~(i < at')
    BY <1>1, <2>1
  <2>3. \A s : s = Step' => SoFar(s)'
    BY <1>3, <2>1, <2>2
  <2> QED
    BY <1>1, <2>1, <2>2, <2>3 DEF GoalsInv
<1>5. CASE at # 0
  <2>1. CASE ~clean
    <3>1. Within \/ \E ok : StepEnds(ok)
      BY <1>5, RunShape DEF RunStarts
    <3>2. ~settled
      BY <2>1 DEF FilesInv
    <3>3. CASE Within
      BY <2>1, <3>3 DEF Within, GoalsInv
    <3>4. ASSUME NEW ok, StepEnds(ok)
          PROVE  GoalsInv'
      <4>1. CASE ok /\ at < Len(recipe)
        <5>1. at' = at + 1 /\ clean' = clean
          BY <3>4, <4>1 DEF StepEnds
        <5> QED
          BY <1>2, <2>1, <5>1 DEF GoalsInv
      <4>2. CASE ~(ok /\ at < Len(recipe))
        BY <2>1, <3>4, <4>2 DEF StepEnds, GoalsInv
      <4> QED
        BY <4>1, <4>2
    <3> QED
      BY <3>1, <3>3, <3>4
  <2>2. CASE clean
    <3>1. \A i \in DOMAIN recipe : \A s : i < at /\ s = recipe[i] => Done(s)'
      BY <1>5, <2>2, DoneStays DEF GoalsInv
    <3>2. PICK s : s = Step
      OBVIOUS
    <3>3. SoFar(s)
      BY <1>5, <2>2, <3>2 DEF GoalsInv
    <3>4. Outcome(s)
      BY <1>5, <3>2, <3>3, StepGoes
    <3>5. CASE Within /\ SoFar(s)'
      <4>1. at' = at /\ Step' = s
        BY <1>1, <3>2, <3>5 DEF Within, Step
      <4>2. \A i \in DOMAIN recipe' : \A q : i < at' /\ q = recipe'[i] => Done(q)'
        BY <1>1, <3>1, <4>1
      <4>3. \A q : q = Step' => SoFar(q)'
        BY <3>5, <4>1
      <4> QED
        BY <1>5, <4>1, <4>2, <4>3 DEF GoalsInv
    <3>6. ASSUME NEW ok, StepEnds(ok), ok => Done(s)'
          PROVE  GoalsInv'
      <4>1. CASE ok /\ at < Len(recipe)
        <5>1. at' = at + 1 /\ stage' = "begin" /\ nth' = 1 /\ held' = NoWrite
          BY <3>6, <4>1 DEF StepEnds
        <5>2. /\ at' \in DOMAIN recipe /\ at' # 0
              /\ \A i \in DOMAIN recipe : i < at' => i < at \/ i = at
          BY <1>1, <1>2, <4>1, <5>1
        <5>3. \A q : q = Step' => SoFar(q)'
          BY <1>3, <5>1, <5>2
        <5>4. \A i \in DOMAIN recipe : \A q : i < at' /\ q = recipe[i] => Done(q)'
          BY <3>1, <3>2, <3>6, <4>1, <5>2 DEF Step
        <5> QED
          BY <1>1, <5>2, <5>3, <5>4 DEF GoalsInv
      <4>2. CASE ~(ok /\ at < Len(recipe))
        <5>1. at' = 0 /\ (settled' => ok)
          BY <3>6, <4>2 DEF StepEnds
        <5>2. ok => \A i \in DOMAIN recipe : i < at \/ i = at
          BY <1>1, <1>2, <4>2
        <5>3. ok => \A i \in DOMAIN recipe : \A q : q = recipe[i] => Done(q)'
          BY <3>1, <3>2, <3>6, <5>2 DEF Step
        <5> QED
          BY <1>1, <5>1, <5>3 DEF GoalsInv
      <4> QED
        BY <4>1, <4>2
    <3> QED
      BY <3>4, <3>5, <3>6 DEF Outcome
  <2> QED
    BY <2>1, <2>2 DEF FilesInv
<1> QED
  BY <1>4, <1>5, RunShape DEF Within

LEMMA GoalsStep ==
  ASSUME StepsAgree, FilesInv, UnitsInv, RestInv, LinesInv, LoadedInv, GoalsInv, [Next]_vars
  PROVE  GoalsInv'
<1>1. recipe' = recipe
  BY RecipeKept
<1>2. CASE RunStep
  BY <1>2, GoalsRun
<1>3. CASE ~RunStep /\ UNCHANGED fileVars
  <2>1. UNCHANGED <<at, clean, settled>> /\ Step' = Step
    BY <1>3 DEF fileVars, Step
  <2>2. \A s : (Done(s) => Done(s)') /\ (SoFar(s) => SoFar(s)')
    BY <1>3, IdleKeeps
  <2> QED
    BY <1>1, <2>1, <2>2 DEF GoalsInv
<1>4. CASE KillRun
  BY <1>4 DEF KillRun, Upset, GoalsInv
<1>5. ASSUME Disturbed
      PROVE  GoalsInv'
  BY <1>5 DEF Disturbed, Upset, GoalsInv
<1> QED
  BY <1>2, <1>3, <1>4, <1>5, FilesSee DEF UserEdits

\* Between two runs a step that is done is met.
LEMMA DoneIsMet ==
  ASSUME FilesInv, at = 0, NEW s, Done(s)
  PROVE  Met(s)
<1>1. \A p : View(p) = Read(p)
  BY ViewIsRead DEF FilesInv, Calm
<1>2. Stands(s) /\ \A p \in Touches(s) : Good(s, Read(p))
  BY <1>1 DEF Done
<1>3. CASE s.fn \in {"rc-line", "rc-export"}
  BY <1>2, <1>3 DEF Touches, Good, Met, Some
<1>4. CASE s.fn = "schedule"
  <2> DEFINE c == Read("crontab")
             I == {i \in DOMAIN c : Occurs(s.payload, c[i]) \/ Occurs(s.name, c[i])}
  <2>1. PICK i0 \in DOMAIN c : c[i0] = OwnLine(s) /\ \A j \in DOMAIN c : Finds(s, c[j]) => j = i0
    BY <1>2, <1>4 DEF Touches, Good
  <2>2. OwnLine(s).key = s.name
    BY <1>4, LineIs DEF OwnLine
  <2> HIDE DEF c
  <2>3. Occurs(s.name, c[i0])
    BY <2>1, <2>2 DEF Occurs
  <2>4. \A j \in DOMAIN c : Occurs(s.payload, c[j]) \/ Occurs(s.name, c[j]) => j = i0
    BY <2>1 DEF Finds
  <2>5. I = {i0}
    BY <2>1, <2>3, <2>4
  <2> HIDE DEF I
  <2>6. Cardinality(I) = 1
    BY <2>5, FS_Singleton
  <2> QED
    BY <1>4, <2>6 DEF Met, I, c
<1>5. CASE s.fn = "tags"
  <2>1. ToSet(s.add) \subseteq Tags(Read("node.yaml")) /\ Tags(Read("node.yaml")) \cap s.remove \subseteq ToSet(s.add)
    BY <1>2, <1>5 DEF Touches, Good
  <2> QED
    BY <1>5, <2>1 DEF Met, Tags
<1>6. CASE s.fn = "unit-repoint"
  <2>1. \A u \in ToSet(s.units) : Good(s, Read(u))
    BY <1>2, <1>6 DEF Touches
  <2>2. bus => \A u \in ToSet(s.units) : loaded[u] = Read(u)
    BY <1>1, <1>2, <1>6 DEF Stands
  <2>3. \A u \in ToSet(s.units) : ~Some(Read(u), LAMBDA l : l.val \in s.from)
    BY <1>6, <2>1 DEF Good, Some
  <2> QED
    BY <1>6, <2>2, <2>3 DEF Met
<1>7. CASE s.fn = "user-unit"
  BY <1>2, <1>7 DEF Touches, Good, Stands, Met
<1>8. CASE s.fn = "login-trigger"
  BY <1>2, <1>8 DEF Touches, Good, Stands, Met
<1>9. CASE s.fn = "gnome-keyring"
  BY <1>2, <1>9 DEF Stands, Met, GpgGone
<1>10. CASE s.fn = "git-extract"
  <2>1. View(s.dest) = Blob(tracked) /\ (s.fetch = "require" => tracked = upstream)
    BY <1>2, <1>10 DEF Stands
  <2> QED
    BY <1>1, <1>10, <2>1 DEF Met, Blob
<1>11. CASE s.fn \in {"apt-install", "flatpak", "mount-share", "mount-device"}
  BY <1>1, <1>2, <1>11 DEF Stands, Shared, Met, ShareFiles
<1>12. CASE s.fn \notin {"rc-line", "rc-export", "schedule", "tags", "unit-repoint", "user-unit", "login-trigger",
                         "gnome-keyring", "git-extract", "apt-install", "flatpak", "mount-share", "mount-device"}
  BY <1>12 DEF Met
<1> QED
  BY <1>3, <1>4, <1>5, <1>6, <1>7, <1>8, <1>9, <1>10, <1>11, <1>12

LEMMA GoalsAre ==
  ASSUME FilesInv, GoalsInv
  PROVE  GoalsMet
<1> SUFFICES ASSUME at = 0, settled, NEW i \in DOMAIN recipe, NEW s, s = recipe[i]
             PROVE  Met(s)
  BY DEF GoalsMet
<1>1. Done(s)
  BY DEF GoalsInv
<1> QED
  BY <1>1, DoneIsMet

\* Whatever runs were killed and wherever, whatever the user, the network, the bus
\* and the services did meanwhile: a run of a recipe that went through undisturbed
\* has left every step met, those included whose files or units other steps of the
\* recipe write, if its steps do not ask for contrary things.
THEOREM GoalsAreMet == ASSUME StepsAgree PROVE Spec => []GoalsMet
<1> DEFINE Inv == MachineInv /\ LinesInv /\ LoadedInv /\ GoalsInv
<1>1. Init => Inv
  BY MachineInit, LinesInit, LoadedInit, GoalsInit
<1>2. Inv /\ [Next]_vars => Inv'
  <2> SUFFICES ASSUME Inv, [Next]_vars
               PROVE  Inv'
    OBVIOUS
  <2>1. MachineInv'
    BY MachineStep
  <2>2. FilesInv /\ UnitsInv /\ RestInv
    BY DEF MachineInv
  <2> QED
    BY <2>1, <2>2, LinesStep, LoadedStep, GoalsStep
<1>3. Inv => GoalsMet
  BY GoalsAre DEF MachineInv
<1> QED
  BY <1>1, <1>2, <1>3, PTL DEF Spec

(***************************************************************************)
(* Lists that are the same.                                                *)
(***************************************************************************)
\* A numbering that keeps the order and leaves nothing out is the identity.
Increasing(m, n, f) ==
  /\ f \in [1..m -> 1..n]
  /\ \A k, l \in 1..m : k < l => f[k] < f[l]
  /\ \A j \in 1..n : \E k \in 1..m : f[k] = j

LEMMA IncreasingIsIdentity ==
  ASSUME NEW m \in Nat, NEW n \in Nat, NEW f, Increasing(m, n, f)
  PROVE  m = n /\ \A k \in 1..m : f[k] = k
<1> USE DEF Increasing
<1> DEFINE Off == {k \in 1..m : f[k] # k}
<1>1. Off = {}
  <2> SUFFICES ASSUME Off # {}
               PROVE  FALSE
    OBVIOUS
  <2> DEFINE k == Min(Off)
  <2>1. k \in Off /\ \A l \in Off : k <= l
    <3>1. Off \in SUBSET Nat
      OBVIOUS
    <3> HIDE DEF Off
    <3> QED
      BY <3>1, LeastIsLeast
  <2> HIDE DEF k
  <2>2. k \in 1..m /\ f[k] # k /\ f[k] \in 1..n
    BY <2>1
  <2>3. \A l \in 1..m : l < k => f[l] = l
    BY <2>1, <2>2
  <2>4. f[k] > k
    <3>1. CASE k = 1
      BY <2>2, <3>1
    <3>2. CASE k # 1
      <4>1. k - 1 \in 1..m /\ k - 1 < k
        BY <2>2, <3>2
      <4>2. f[k - 1] = k - 1 /\ f[k - 1] < f[k]
        BY <2>2, <2>3, <4>1
      <4> QED
        BY <2>2, <4>2
    <3> QED
      BY <3>1, <3>2
  <2>5. PICK l \in 1..m : f[l] = k
    BY <2>2, <2>4
  <2>6. l < k \/ l = k \/ k < l
    BY <2>2
  <2> QED
    BY <2>2, <2>3, <2>4, <2>5, <2>6
<1>2. \A k \in 1..m : f[k] = k
  BY <1>1
<1>3. m = 0 \/ (m \in 1..m /\ f[m] \in 1..n)
  OBVIOUS
<1>4. n = 0 \/ \E k \in 1..m : f[k] = n
  OBVIOUS
<1> QED
  BY <1>2, <1>3, <1>4

LEMMA SameFile ==
  ASSUME NEW a, IsFile(a), NEW b, IsFile(b), DOMAIN a = DOMAIN b, \A i \in DOMAIN a : a[i] = b[i]
  PROVE  a = b
<1> DEFINE S == ToSet(a) \cup ToSet(b)
<1>1. a \in Seq(S) /\ b \in Seq(S)
  BY DEF IsFile
<1> HIDE DEF S
<1>2. a \in [DOMAIN a -> S] /\ b \in [DOMAIN b -> S]
  BY <1>1
<1> QED
  BY <1>2

\* The first n elements of a list are those at its first n indices.
LEMMA ThosePrefix ==
  ASSUME NEW c, IsFile(c), NEW n \in Nat, 1..n \subseteq DOMAIN c, NEW d, d = Those(c, 1..n)
  PROVE  IsFile(d) /\ DOMAIN d = 1..n /\ \A k \in 1..n : d[k] = c[k]
<1> DEFINE I == 1..n
<1>0. I \in SUBSET DOMAIN c /\ d = Those(c, I)
  OBVIOUS
<1> HIDE DEF I
<1>1. PICK g \in [DOMAIN d -> I] :
           /\ \A k \in DOMAIN d : d[k] = c[g[k]]
           /\ \A k, l \in DOMAIN d : k < l => g[k] < g[l]
           /\ \A i \in I : \E k \in DOMAIN d : g[k] = i
  BY <1>0, ThoseAre
<1>2. IsFile(d)
  BY <1>0, ThoseKeeps
<1>3. PICK m \in Nat : DOMAIN d = 1..m
  BY <1>2 DEF IsFile
<1>4. m = n /\ \A k \in 1..m : g[k] = k
  <2>1. g \in [1..m -> 1..n]
    BY <1>1, <1>3 DEF I
  <2>2. \A k, l \in 1..m : k < l => g[k] < g[l]
    BY <1>1, <1>3
  <2>3. \A i \in 1..n : \E k \in 1..m : g[k] = i
    BY <1>1, <1>3 DEF I
  <2>4. Increasing(m, n, g)
    BY <2>1, <2>2, <2>3 DEF Increasing
  <2> QED
    BY <2>4, IncreasingIsIdentity
<1>5. DOMAIN d = 1..n /\ \A k \in DOMAIN d : g[k] = k
  BY <1>3, <1>4
<1> QED
  BY <1>1, <1>2, <1>5

\* Tags that are as asked for are edited to what they are.
LEMMA TagsStay ==
  ASSUME NEW t, IsFile(t), Once(t), NEW add, IsFile(add), NEW remove,
         ToSet(add) \subseteq ToSet(t), ToSet(t) \cap remove = {}
  PROVE  Retagged(t, add, remove) = t
<1> DEFINE n == Len(t)
<1>1. DOMAIN t = 1..n /\ n \in Nat
  BY DEF IsFile
<1>2. {i \in DOMAIN t : t[i] \notin remove} = 1..n
  <2>1. \A i \in DOMAIN t : t[i] \in ToSet(t)
    BY DEF ToSet
  <2> QED
    BY <1>1, <2>1
<1> DEFINE r == Those(t, 1..n)
<1>3. r = t
  <2>1. IsFile(r) /\ DOMAIN r = 1..n /\ \A k \in 1..n : r[k] = t[k]
    BY <1>1, ThosePrefix
  <2> HIDE DEF r, n
  <2> QED
    BY <1>1, <2>1, SameFile
<1> DEFINE c == t \o add
           J == {i \in DOMAIN c : \A j \in 1..(i - 1) : c[j] # c[i]}
<1>4. Retagged(t, add, remove) = Those(c, J)
  BY <1>2, <1>3 DEF Retagged, Distinct
<1>5. IsFile(c)
  BY BothHold
<1> DEFINE S == ToSet(t) \cup ToSet(add)
<1>6. t \in Seq(S) /\ add \in Seq(S)
  BY DEF IsFile
<1> DEFINE m == Len(add)
<1>7. DOMAIN add = 1..m /\ m \in Nat
  BY DEF IsFile
<1> HIDE DEF S
<1>8. /\ DOMAIN c = 1..(n + m)
      /\ \A i \in 1..n : c[i] = t[i]
      /\ \A i \in (n + 1)..(n + m) : c[i] = add[i - n]
  BY <1>6
<1> HIDE DEF c, n, m, r
<1>9. \A i \in (n + 1)..(n + m) : \E j \in 1..n : c[j] = c[i]
  <2> SUFFICES ASSUME NEW i \in (n + 1)..(n + m)
               PROVE  \E j \in 1..n : c[j] = c[i]
    OBVIOUS
  <2> DEFINE e == i - n
  <2>1. e \in 1..m /\ c[i] = add[e]
    BY <1>1, <1>7, <1>8
  <2> HIDE DEF e
  <2>2. add[e] \in ToSet(t)
    BY <1>7, <2>1 DEF ToSet
  <2>3. PICK j \in DOMAIN t : t[j] = add[e]
    BY <2>2 DEF ToSet
  <2> QED
    BY <1>1, <1>8, <2>1, <2>3
<1>10. J = 1..n
  <2>1. ASSUME NEW i \in 1..n PROVE i \in J
    <3>1. \A j \in 1..(i - 1) : j \in 1..n /\ j # i
      BY <1>1, <2>1
    <3>2. \A j \in 1..(i - 1) : c[j] # c[i]
      BY <1>1, <1>8, <2>1, <3>1 DEF Once
    <3>3. i \in DOMAIN c
      BY <1>1, <1>7, <1>8, <2>1
    <3> QED
      BY <3>2, <3>3
  <2>2. ASSUME NEW i \in J, i \notin 1..n PROVE FALSE
    <3>1. i \in 1..(n + m) /\ i \in (n + 1)..(n + m)
      BY <1>1, <1>7, <1>8, <2>2
    <3>2. PICK j \in 1..n : c[j] = c[i]
      BY <1>9, <3>1
    <3>3. j \in 1..(i - 1)
      BY <1>1, <3>1, <3>2
    <3> QED
      BY <2>2, <3>2, <3>3
  <2> QED
    BY <2>1, <2>2
<1> HIDE DEF J
<1>11. \A i \in 1..n : i \in DOMAIN c
  BY <1>1, <1>7, <1>8
<1> DEFINE d == Those(c, 1..n)
<1>12. IsFile(d) /\ DOMAIN d = 1..n /\ \A k \in 1..n : d[k] = c[k]
  BY <1>1, <1>5, <1>11, ThosePrefix
<1> HIDE DEF d
<1>13. d = t
  BY <1>1, <1>8, <1>12, SameFile
<1> QED
  BY <1>4, <1>10, <1>13 DEF d

(***************************************************************************)
(* The crontab, that every schedule of a recipe rewrites: in one run the   *)
(* lines of the schedules come to stand last, in the recipe's order; in    *)
(* the next each is taken from where it stands and put behind the others.  *)
(***************************************************************************)
Schedules == {i \in DOMAIN recipe : recipe[i].fn = "schedule"}

\* In c, each schedule before step n has its one line, with nothing behind it but
\* the lines of later ones.
InOrder(c, n) ==
  \A i \in Schedules : i < n => \E j \in DOMAIN c :
    /\ c[j] = OwnLine(recipe[i])
    /\ \A k \in DOMAIN c : Finds(recipe[i], c[k]) => k = j
    /\ \A k \in DOMAIN c : k > j => \E l \in Schedules : i < l /\ l < n /\ c[k] = OwnLine(recipe[l])

\* Line j of b is that of a schedule before step n.
Mine(b, n, j) == \E i \in Schedules : i < n /\ b[j] = OwnLine(recipe[i])

\* c is b, the lines of the schedules before n behind all others.  Line k of c is
\* line f[k] of b.
Turned(b, n, c, f) ==
  /\ f \in [DOMAIN c -> DOMAIN b]
  /\ \A k \in DOMAIN c : c[k] = b[f[k]]
  /\ \A j \in DOMAIN b : \E k \in DOMAIN c : f[k] = j
  /\ \A k, l \in DOMAIN c : k < l =>
       IF Mine(b, n, f[k]) <=> Mine(b, n, f[l]) THEN f[k] < f[l] ELSE Mine(b, n, f[l])

LEMMA ScheduleIs ==
  ASSUME StepsAgree, FilesInv, NEW i \in Schedules, NEW j \in Schedules, i < j
  PROVE  ~Finds(recipe[j], OwnLine(recipe[i])) /\ ~Finds(recipe[i], OwnLine(recipe[j]))
<1>1. i \in DOMAIN recipe /\ j \in DOMAIN recipe /\ recipe[i].fn = "schedule" /\ recipe[j].fn = "schedule"
  BY DEF Schedules
<1>2. Touches(recipe[i]) = {"crontab"} /\ Touches(recipe[j]) = {"crontab"}
  BY <1>1 DEF Touches
<1>3. SharesFile(recipe[i], recipe[j])
  BY <1>1, <1>2, Agreed DEF Leaves
<1> QED
  BY <1>1, <1>3 DEF SharesFile, Exporter

LEMMA FindsItsOwn ==
  ASSUME NEW s, s.fn = "schedule"
  PROVE  Finds(s, OwnLine(s)) /\ IsLine(OwnLine(s))
<1>1. OwnLine(s) = Line(s.spec, s.name, s.payload)
  BY DEF OwnLine
<1> QED
  BY <1>1, LineIs DEF Finds, Occurs

LEMMA StepNumbers ==
  ASSUME FilesInv
  PROVE  DOMAIN recipe = 1..Len(recipe) /\ Len(recipe) \in Nat \ {0} /\ at \in Nat /\ Schedules \subseteq DOMAIN recipe
BY RecipeLen, RecipesAreTyped DEF FilesInv, Schedules

\* The crontab is the schedules' alone.
LEMMA CrontabAlone ==
  ASSUME StepsAgree, FilesInv, NEW i \in Schedules, NEW k \in DOMAIN recipe, "crontab" \in Touches(recipe[k])
  PROVE  k \in Schedules
<1>1. i \in DOMAIN recipe /\ recipe[i].fn = "schedule" /\ "crontab" \in Touches(recipe[i])
  BY DEF Touches, Schedules
<1>2. i \in Nat /\ k \in Nat
  BY <1>1, StepNumbers
<1>3. CASE i < k
  <2>1. SharesFile(recipe[i], recipe[k])
    BY <1>1, <1>3, Agreed DEF Leaves
  <2> QED
    BY <1>1, <2>1 DEF SharesFile, Exporter, Schedules
<1>4. CASE k < i
  <2>1. SharesFile(recipe[k], recipe[i])
    BY <1>1, <1>4, Agreed DEF Leaves
  <2> QED
    BY <1>1, <2>1 DEF SharesFile, Exporter, Schedules
<1> QED
  BY <1>2, <1>3, <1>4

\* What a schedule does to the order.
LEMMA ScheduleOrders ==
  ASSUME StepsAgree, FilesInv, at \in Schedules, NEW c, Lined(c), InOrder(c, at),
         NEW s, s = Step, NEW d, d = Append(OtherJobs(c, s.name, s.payload), OwnLine(s))
  PROVE  InOrder(d, at + 1)
<1>1. s = recipe[at] /\ s.fn = "schedule" /\ at \in DOMAIN recipe /\ at \in Nat
  BY StepNumbers DEF Step, Schedules
<1>2. PICK own : own = OwnLine(s)
  OBVIOUS
<1>3. Finds(s, own) /\ IsLine(own)
  BY <1>1, <1>2, FindsItsOwn
<1>4. PICK n \in DOMAIN d : \E g \in [DOMAIN d \ {n} -> DOMAIN c] : JobsAt(c, s.name, s.payload, own, d, n, g)
  BY <1>2, <1>3, JobsAre
<1>5. PICK g \in [DOMAIN d \ {n} -> DOMAIN c] : JobsAt(c, s.name, s.payload, own, d, n, g)
  BY <1>4
<1>6. /\ d[n] = own
      /\ \A k \in DOMAIN d \ {n} : d[k] = c[g[k]] /\ ~Finds(s, d[k])
      /\ \A k, l \in DOMAIN d \ {n} : g[k] = g[l] => k = l
      /\ \A k, l \in DOMAIN d \ {n} : k < l => g[k] < g[l]
      /\ \A k \in DOMAIN d \ {n} : k < n
      /\ \A i \in DOMAIN c : ~Finds(s, c[i]) => \E k \in DOMAIN d \ {n} : g[k] = i
  BY <1>5 DEF JobsAt, Finds
<1>7. DOMAIN d \subseteq Nat
  <2>1. Lined(d)
    BY <1>2, <1>3, JobsAre
  <2>2. DOMAIN d = 1..Len(d)
    BY <2>1 DEF Lined, IsFile
  <2> QED
    BY <2>2
<1> SUFFICES ASSUME NEW i \in Schedules, i < at + 1
             PROVE  \E j \in DOMAIN d :
                      /\ d[j] = OwnLine(recipe[i])
                      /\ \A k \in DOMAIN d : Finds(recipe[i], d[k]) => k = j
                      /\ \A k \in DOMAIN d : k > j =>
                           \E l \in Schedules : i < l /\ l < at + 1 /\ d[k] = OwnLine(recipe[l])
  BY DEF InOrder
<1>8. i \in Nat
  BY StepNumbers
<1>9. CASE i = at
  <2>1. \A k \in DOMAIN d : ~(k > n)
    BY <1>6, <1>7
  <2>2. \A k \in DOMAIN d : Finds(s, d[k]) => k = n
    BY <1>6
  <2> QED
    BY <1>1, <1>2, <1>6, <1>9, <2>1, <2>2
<1>10. CASE i < at
  <2>1. PICK t, mine : t = recipe[i] /\ mine = OwnLine(t)
    OBVIOUS
  <2>2. ~Finds(s, mine) /\ ~Finds(t, own)
    BY <1>1, <1>2, <1>10, <2>1, ScheduleIs
  <2>3. PICK j \in DOMAIN c :
          /\ c[j] = mine
          /\ \A k \in DOMAIN c : Finds(t, c[k]) => k = j
          /\ \A k \in DOMAIN c : k > j => \E l \in Schedules : i < l /\ l < at /\ c[k] = OwnLine(recipe[l])
    BY <1>10, <2>1 DEF InOrder
  <2>4. PICK k0 \in DOMAIN d \ {n} : g[k0] = j
    BY <1>6, <2>2, <2>3
  <2>5. d[k0] = mine
    BY <1>6, <2>3, <2>4
  <2>6. ASSUME NEW k \in DOMAIN d, Finds(t, d[k]) PROVE k = k0
    <3>1. k # n
      BY <1>6, <2>2, <2>6
    <3>2. g[k] \in DOMAIN c /\ d[k] = c[g[k]]
      BY <1>6, <3>1
    <3>3. g[k] = j
      BY <2>3, <2>6, <3>2
    <3> QED
      BY <1>6, <2>4, <3>1, <3>3
  <2>7. ASSUME NEW k \in DOMAIN d, k > k0
        PROVE  \E l \in Schedules : i < l /\ l < at + 1 /\ d[k] = OwnLine(recipe[l])
    <3>1. CASE k = n
      BY <1>1, <1>2, <1>6, <1>10, <3>1
    <3>2. CASE k # n
      <4>1. g[k] \in DOMAIN c /\ d[k] = c[g[k]] /\ g[k] > j
        <5>1. g[k0] < g[k]
          BY <1>6, <1>7, <2>4, <2>7, <3>2
        <5>2. g[k] \in DOMAIN c /\ j \in DOMAIN c
          BY <3>2
        <5>3. DOMAIN c \subseteq Nat
          <6>1. DOMAIN c = 1..Len(c)
            BY DEF Lined, IsFile
          <6> QED
            BY <6>1
        <5> QED
          BY <1>6, <2>4, <3>2, <5>1, <5>2, <5>3
      <4>2. PICK l \in Schedules : i < l /\ l < at /\ c[g[k]] = OwnLine(recipe[l])
        BY <2>3, <4>1
      <4>3. l < at + 1
        BY <1>1, <4>2, StepNumbers
      <4> QED
        BY <4>1, <4>2, <4>3
    <3> QED
      BY <3>1, <3>2
  <2> QED
    BY <2>1, <2>4, <2>5, <2>6, <2>7
<1>11. i = at \/ i < at
  BY <1>1, <1>8
<1> QED
  BY <1>9, <1>10, <1>11

\* The others leave the order alone.
LEMMA OthersOrder ==
  ASSUME FilesInv, at \notin Schedules, NEW c, InOrder(c, at)
  PROVE  InOrder(c, at + 1)
<1> SUFFICES ASSUME NEW i \in Schedules, i < at + 1
             PROVE  \E j \in DOMAIN c :
                      /\ c[j] = OwnLine(recipe[i])
                      /\ \A k \in DOMAIN c : Finds(recipe[i], c[k]) => k = j
                      /\ \A k \in DOMAIN c : k > j =>
                           \E l \in Schedules : i < l /\ l < at + 1 /\ c[k] = OwnLine(recipe[l])
  BY DEF InOrder
<1>1. i \in Nat /\ at \in Nat /\ Schedules \subseteq Nat
  BY StepNumbers
<1>2. i < at
  BY <1>1
<1>3. PICK j \in DOMAIN c :
        /\ c[j] = OwnLine(recipe[i])
        /\ \A k \in DOMAIN c : Finds(recipe[i], c[k]) => k = j
        /\ \A k \in DOMAIN c : k > j => \E l \in Schedules : i < l /\ l < at /\ c[k] = OwnLine(recipe[l])
  BY <1>2 DEF InOrder
<1>4. \A l \in Schedules : l < at => l < at + 1
  BY <1>1
<1> QED
  BY <1>3, <1>4

LEMMA OthersTurn ==
  ASSUME FilesInv, at \notin Schedules, NEW b, NEW c, NEW f, Turned(b, at, c, f)
  PROVE  Turned(b, at + 1, c, f)
<1>1. at \in Nat /\ Schedules \subseteq Nat
  BY StepNumbers
<1>2. \A i \in Schedules : i < at + 1 <=> i < at
  BY <1>1
<1>3. \A j : Mine(b, at + 1, j) <=> Mine(b, at, j)
  BY <1>2 DEF Mine
<1> QED
  BY <1>3 DEF Turned

\* Before the first step nothing is turned.
LEMMA TurnedAtFirst ==
  ASSUME FilesInv, NEW b, IsFile(b)
  PROVE  \E f : Turned(b, 1, b, f)
<1> DEFINE f == [k \in DOMAIN b |-> k]
<1>1. \A i \in Schedules : ~(i < 1)
  BY StepNumbers
<1>2. \A j : ~Mine(b, 1, j)
  BY <1>1 DEF Mine
<1>3. /\ f \in [DOMAIN b -> DOMAIN b]
      /\ \A k \in DOMAIN b : b[k] = b[f[k]]
      /\ \A j \in DOMAIN b : \E k \in DOMAIN b : f[k] = j
      /\ \A k, l \in DOMAIN b : k < l => f[k] < f[l]
  OBVIOUS
<1> HIDE DEF f
<1>4. \A k, l \in DOMAIN b : (Mine(b, 1, f[k]) <=> Mine(b, 1, f[l]))
  BY <1>2
<1>5. Turned(b, 1, b, f)
  BY <1>3, <1>4 DEF Turned
<1> QED
  BY <1>5

\* When all have been turned, the file is as it was.
LEMMA TurnedAtLast ==
  ASSUME FilesInv, NEW b, IsFile(b), NEW c, IsFile(c), NEW n, n = Len(recipe) + 1, InOrder(b, n),
         NEW f, Turned(b, n, c, f)
  PROVE  c = b
<1>1. /\ f \in [DOMAIN c -> DOMAIN b]
      /\ \A k \in DOMAIN c : c[k] = b[f[k]]
      /\ \A j \in DOMAIN b : \E k \in DOMAIN c : f[k] = j
      /\ \A k, l \in DOMAIN c : k < l =>
           IF Mine(b, n, f[k]) <=> Mine(b, n, f[l]) THEN f[k] < f[l] ELSE Mine(b, n, f[l])
  BY DEF Turned
<1>2. PICK m \in Nat, o \in Nat : DOMAIN c = 1..m /\ DOMAIN b = 1..o
  BY DEF IsFile
<1>3. ASSUME NEW j \in DOMAIN b, Mine(b, n, j), NEW k \in DOMAIN b, k > j
      PROVE  Mine(b, n, k)
  <2>1. PICK i \in Schedules : i < n /\ b[j] = OwnLine(recipe[i])
    BY <1>3 DEF Mine
  <2>2. PICK j1 \in DOMAIN b :
          /\ b[j1] = OwnLine(recipe[i])
          /\ \A k1 \in DOMAIN b : Finds(recipe[i], b[k1]) => k1 = j1
          /\ \A k1 \in DOMAIN b : k1 > j1 => \E l \in Schedules : i < l /\ l < n /\ b[k1] = OwnLine(recipe[l])
    BY <2>1 DEF InOrder
  <2>3. Finds(recipe[i], b[j])
    BY <2>1, FindsItsOwn DEF Schedules
  <2>4. j = j1
    BY <2>2, <2>3
  <2> QED
    BY <1>3, <2>2, <2>4 DEF Mine
<1>4. ASSUME NEW k \in DOMAIN c, NEW l \in DOMAIN c, k < l
      PROVE  f[k] < f[l]
  <2>1. f[k] \in DOMAIN b /\ f[l] \in DOMAIN b
    BY <1>1
  <2>2. CASE Mine(b, n, f[k]) <=> Mine(b, n, f[l])
    BY <1>1, <1>4, <2>2
  <2>3. CASE ~(Mine(b, n, f[k]) <=> Mine(b, n, f[l]))
    <3>1. Mine(b, n, f[l]) /\ ~Mine(b, n, f[k])
      BY <1>1, <1>4, <2>3
    <3>2. ~(f[k] > f[l]) /\ f[k] # f[l]
      BY <1>3, <2>1, <3>1
    <3> QED
      BY <1>2, <2>1, <3>2
  <2> QED
    BY <2>2, <2>3
<1>5. Increasing(m, o, f)
  BY <1>1, <1>2, <1>4 DEF Increasing
<1>6. m = o /\ \A k \in 1..m : f[k] = k
  BY <1>5, IncreasingIsIdentity
<1>7. DOMAIN c = DOMAIN b /\ \A k \in DOMAIN c : c[k] = b[k]
  BY <1>1, <1>2, <1>6
<1> QED
  BY <1>7, SameFile

\* What a schedule turns.
LEMMA ScheduleTurns ==
  ASSUME StepsAgree, FilesInv, at \in Schedules, NEW b, Lined(b), InOrder(b, Len(recipe) + 1),
         NEW c, Lined(c), NEW f, Turned(b, at, c, f),
         NEW s, s = Step, NEW d, d = Append(OtherJobs(c, s.name, s.payload), OwnLine(s))
  PROVE  \E h : Turned(b, at + 1, d, h)
<1>0. at \in Nat /\ Len(recipe) \in Nat /\ Schedules \subseteq 1..Len(recipe)
  BY StepNumbers
<1>1. s = recipe[at] /\ s.fn = "schedule" /\ at \in DOMAIN recipe
  BY StepNumbers DEF Step, Schedules
<1>2. PICK own : own = OwnLine(s)
  OBVIOUS
<1>3. Finds(s, own) /\ IsLine(own)
  BY <1>1, <1>2, FindsItsOwn
<1>4. PICK n \in DOMAIN d : \E g \in [DOMAIN d \ {n} -> DOMAIN c] : JobsAt(c, s.name, s.payload, own, d, n, g)
  BY <1>2, <1>3, JobsAre
<1>5. PICK g \in [DOMAIN d \ {n} -> DOMAIN c] : JobsAt(c, s.name, s.payload, own, d, n, g)
  BY <1>4
<1>6. /\ d[n] = own
      /\ \A k \in DOMAIN d \ {n} : d[k] = c[g[k]] /\ ~Finds(s, d[k])
      /\ \A k, l \in DOMAIN d \ {n} : k < l => g[k] < g[l]
      /\ \A k \in DOMAIN d \ {n} : k < n
      /\ \A i \in DOMAIN c : ~Finds(s, c[i]) => \E k \in DOMAIN d \ {n} : g[k] = i
  BY <1>5 DEF JobsAt, Finds
<1>7. /\ f \in [DOMAIN c -> DOMAIN b]
      /\ \A k \in DOMAIN c : c[k] = b[f[k]]
      /\ \A j \in DOMAIN b : \E k \in DOMAIN c : f[k] = j
      /\ \A k, l \in DOMAIN c : k < l =>
           IF Mine(b, at, f[k]) <=> Mine(b, at, f[l]) THEN f[k] < f[l] ELSE Mine(b, at, f[l])
  BY DEF Turned
<1>8. DOMAIN d \subseteq Nat /\ DOMAIN b \subseteq Nat
  <2>1. Lined(d)
    BY <1>2, <1>3, JobsAre
  <2>2. DOMAIN d = 1..Len(d) /\ DOMAIN b = 1..Len(b)
    BY <2>1 DEF Lined, IsFile
  <2> QED
    BY <2>2
\* Its own line, and what stands behind it.
<1>9. PICK e \in DOMAIN b :
        /\ b[e] = own
        /\ \A k \in DOMAIN b : Finds(s, b[k]) => k = e
        /\ \A k \in DOMAIN b : k > e => \E l \in Schedules : at < l /\ l < Len(recipe) + 1 /\ b[k] = OwnLine(recipe[l])
  <2>1. at < Len(recipe) + 1
    BY <1>0
  <2> QED
    BY <1>1, <1>2, <2>1 DEF InOrder
<1>10. \A j \in DOMAIN b : Mine(b, at + 1, j) <=> Mine(b, at, j) \/ j = e
  <2> SUFFICES ASSUME NEW j \in DOMAIN b
               PROVE  Mine(b, at + 1, j) <=> Mine(b, at, j) \/ j = e
    OBVIOUS
  <2>1. \A i \in Schedules : i < at + 1 <=> i < at \/ i = at
    BY <1>0
  <2>2. b[j] = OwnLine(recipe[at]) <=> j = e
    BY <1>1, <1>2, <1>3, <1>9
  <2> QED
    BY <2>1, <2>2 DEF Mine
<1>11. ~Mine(b, at, e)
  <2> SUFFICES ASSUME NEW i \in Schedules, i < at, b[e] = OwnLine(recipe[i])
               PROVE  FALSE
    BY DEF Mine
  <2>1. ~Finds(s, OwnLine(recipe[i]))
    BY <1>1, ScheduleIs
  <2> QED
    BY <1>3, <1>9, <2>1
\* The lines of the schedules before stand before it.
<1>12. \A j \in DOMAIN b : Mine(b, at, j) => j < e
  <2> SUFFICES ASSUME NEW j \in DOMAIN b, NEW i \in Schedules, i < at, b[j] = OwnLine(recipe[i]), ~(j < e)
               PROVE  FALSE
    BY DEF Mine
  <2>1. j # e
    BY <1>11 DEF Mine
  <2>2. j > e
    BY <1>8, <2>1
  <2>3. PICK l \in Schedules : at < l /\ b[j] = OwnLine(recipe[l])
    BY <1>9, <2>2
  <2>4. i < l /\ recipe[l].fn = "schedule"
    BY <1>0, <2>3 DEF Schedules
  <2>5. ~Finds(recipe[l], OwnLine(recipe[i]))
    BY <2>4, <2>3, ScheduleIs
  <2>6. Finds(recipe[l], OwnLine(recipe[l]))
    BY <2>4, FindsItsOwn
  <2> QED
    BY <2>3, <2>5, <2>6
<1> DEFINE h == [k \in DOMAIN d |-> IF k = n THEN e ELSE f[g[k]]]
<1>13. h \in [DOMAIN d -> DOMAIN b] /\ h[n] = e /\ \A k \in DOMAIN d \ {n} : h[k] = f[g[k]]
  BY <1>7
<1> HIDE DEF h
<1>14. \A k \in DOMAIN d : d[k] = b[h[k]]
  BY <1>6, <1>7, <1>9, <1>13
<1>15. \A k \in DOMAIN d \ {n} : h[k] # e
  BY <1>3, <1>6, <1>9, <1>14
<1>16. \A j \in DOMAIN b : \E k \in DOMAIN d : h[k] = j
  <2> SUFFICES ASSUME NEW j \in DOMAIN b, j # e
               PROVE  \E k \in DOMAIN d : h[k] = j
    BY <1>13
  <2>1. PICK i \in DOMAIN c : f[i] = j
    BY <1>7
  <2>2. c[i] = b[j] /\ ~Finds(s, c[i])
    BY <1>7, <1>9, <2>1
  <2>3. PICK k \in DOMAIN d \ {n} : g[k] = i
    BY <1>6, <2>2
  <2> QED
    BY <1>13, <2>1, <2>3
<1>17. ASSUME NEW k \in DOMAIN d, NEW l \in DOMAIN d, k < l
       PROVE  IF Mine(b, at + 1, h[k]) <=> Mine(b, at + 1, h[l]) THEN h[k] < h[l] ELSE Mine(b, at + 1, h[l])
  <2>1. k \in DOMAIN d \ {n} /\ h[k] \in DOMAIN b /\ h[l] \in DOMAIN b /\ h[k] # e
    <3>1. ~(n < l)
      BY <1>6, <1>8
    <3>2. k # n
      BY <1>17, <3>1
    <3> QED
      BY <1>13, <1>15, <3>2
  <2>2. Mine(b, at + 1, h[k]) <=> Mine(b, at, h[k])
    BY <1>10, <2>1
  <2>3. CASE l = n
    <3>1. h[l] = e /\ Mine(b, at + 1, h[l])
      BY <1>10, <1>13, <2>3
    <3> QED
      BY <1>12, <2>1, <2>2, <3>1
  <2>4. CASE l # n
    <3>1. l \in DOMAIN d \ {n} /\ h[l] # e
      BY <1>15, <2>4
    <3>2. Mine(b, at + 1, h[l]) <=> Mine(b, at, h[l])
      BY <1>10, <2>1, <3>1
    <3>3. g[k] < g[l] /\ g[k] \in DOMAIN c /\ g[l] \in DOMAIN c
      BY <1>6, <1>17, <2>1, <3>1
    <3>4. IF Mine(b, at, h[k]) <=> Mine(b, at, h[l]) THEN h[k] < h[l] ELSE Mine(b, at, h[l])
      BY <1>7, <1>13, <2>1, <3>1, <3>3
    <3> QED
      BY <2>2, <3>2, <3>4
  <2> QED
    BY <2>3, <2>4
<1>18. Turned(b, at + 1, d, h)
  BY <1>13, <1>14, <1>16, <1>17 DEF Turned
<1> QED
  BY <1>18

(***************************************************************************)
(* A run on what a run has left.                                           *)
(***************************************************************************)
\* What of a step that is done the next run finds, and leaves.
Lasts(s) ==
  /\ \A p \in Touches(s) : Good(s, View(p))
  /\ s.fn = "user-unit" => Exists(s.name)
  /\ s.fn = "git-extract" => View(s.dest) = Blob(tracked) /\ (net => tracked = upstream)
  /\ s.fn = "mount-share" => mounted # "none" \/ Shared(s)
  /\ s.fn = "mount-device" => Entered(s)

LEMMA DoneLasts ==
  ASSUME NEW s, Done(s)
  PROVE  Lasts(s)
<1>1. (\A p \in Touches(s) : Good(s, View(p))) /\ Stands(s)
  BY DEF Done
<1>2. CASE s.fn = "user-unit"
  BY <1>1, <1>2 DEF Stands, Lasts
<1>3. CASE s.fn = "git-extract"
  BY <1>1, <1>3 DEF Stands, Lasts
<1>4. CASE s.fn = "mount-share"
  BY <1>1, <1>4 DEF Stands, Lasts
<1>5. CASE s.fn = "mount-device"
  BY <1>1, <1>5 DEF Stands, Lasts
<1>6. CASE s.fn \notin {"user-unit", "git-extract", "mount-share", "mount-device"}
  BY <1>1, <1>6 DEF Lasts
<1> QED
  BY <1>2, <1>3, <1>4, <1>5, <1>6

\* An export that finds its own leaves it.
LEMMA ExportStays ==
  ASSUME NEW c, Lined(c), NEW var, NEW val, \E i \in DOMAIN c : c[i].key = var,
         \A i \in DOMAIN c : c[i].key = var => c[i].val = val
  PROVE  WithExport(c, var, val) = c
<1>1. IsFile(c) /\ \A i \in DOMAIN c : IsLine(c[i])
  BY DEF Lined
<1> DEFINE d == WithExport(c, var, val)
<1>2. d = Exported(c, var, val)
  BY DEF WithExport, Some
<1>3. IsFile(d)
  BY <1>1, <1>2, ExportedKeeps
<1>4. DOMAIN d = DOMAIN c /\ \A i \in DOMAIN c : d[i] = IF c[i].key = var THEN Line(c[i].lead, c[i].key, val) ELSE c[i]
  BY <1>1, <1>2, ExceptVal DEF Exported
<1>5. \A i \in DOMAIN c : d[i] = c[i]
  BY <1>1, <1>4 DEF IsLine
<1> HIDE DEF d
<1>6. d = c
  BY <1>1, <1>3, <1>4, <1>5, SameFile
<1> QED
  BY <1>6 DEF d

LEMMA PatchStays ==
  ASSUME NEW c, IsFile(c), NEW from, NEW to, \A i \in DOMAIN c : c[i].val \notin from
  PROVE  Patched(c, from, to) = c
<1> DEFINE d == Patched(c, from, to)
<1>1. IsFile(d)
  BY PatchedKeeps
<1>2. DOMAIN d = DOMAIN c /\ \A i \in DOMAIN c : d[i] = c[i]
  BY DEF Patched
<1> HIDE DEF d
<1>3. d = c
  BY <1>1, <1>2, SameFile
<1> QED
  BY <1>3 DEF d

\* Nothing but a schedule puts anything else into a file that is as it leaves it.
LEMMA RewritesSame ==
  ASSUME StepsAgree, TagsAreDecided, FilesInv, LinesInv, at # 0, stage \in Calm, NEW s, s = Step,
         s.fn # "schedule", Lasts(s), NEW p \in Touches(s), NEW c, NewContent(p, c),
         s.fn = "mount-share" /\ stage # "begin" => mounted = "none"
  PROVE  c = Read(p) /\ Exists(p)
<1>1. /\ at \in DOMAIN recipe /\ s = recipe[at] /\ StepIsTyped(s)
      /\ View(p) = Read(p) /\ IsFile(Read(p)) /\ Fits(p, Read(p)) /\ Lined(Read(p))
  BY StepKnown, ReadLined DEF Step
<1>2. Good(s, Read(p))
  BY <1>1 DEF Lasts
<1>3. \A i \in DOMAIN Read(p) : Exists(p)
  BY DEF Read, Torn
<1>4. CASE s.fn = "rc-line"
  BY <1>2, <1>4 DEF Good, NewContent
<1>5. CASE s.fn = "rc-export"
  <2>1. /\ \E i \in DOMAIN Read(p) : Read(p)[i].key = s.var
        /\ \A i \in DOMAIN Read(p) : Read(p)[i].key = s.var => Read(p)[i].val = s.val
    BY <1>2, <1>5 DEF Good
  <2>2. c = WithExport(Read(p), s.var, s.val)
    BY <1>5 DEF NewContent
  <2> QED
    BY <1>1, <1>3, <2>1, <2>2, ExportStays
<1>6. CASE s.fn = "gnome-keyring"
  <2>1. /\ \E i \in DOMAIN Read(p) : Read(p)[i].key = "SSH_AUTH_SOCK"
        /\ \A i \in DOMAIN Read(p) : Read(p)[i].key = "SSH_AUTH_SOCK" => Read(p)[i].val = "gcr"
    BY <1>2, <1>6 DEF Good
  <2>2. c = WithExport(Read(p), "SSH_AUTH_SOCK", "gcr")
    BY <1>6 DEF NewContent
  <2> QED
    BY <1>1, <1>3, <2>1, <2>2, ExportStays
<1>7. CASE s.fn = "tags"
  <2> DEFINE k == TagKey(Read(p))
             t == TagsOf(Read(p), k)
  <2>1. p = "node.yaml" /\ IsFile(s.add)
    BY <1>1, <1>7 DEF Touches, StepIsTyped, IsFile
  <2>2. IsFile(t)
    BY <1>1, <1>7, <2>1, TagsAreList
  <2>3. ToSet(s.add) \subseteq ToSet(t) /\ ToSet(t) \cap s.remove \subseteq ToSet(s.add) /\ Once(t)
    BY <1>2, <1>7 DEF Good, Tags
  <2>4. ToSet(s.add) \cap s.remove = {}
    BY <1>1, <1>7 DEF TagsAreDecided, FilesInv
  <2>5. Retagged(t, s.add, s.remove) # t
    BY <1>7 DEF NewContent
  <2> HIDE DEF t
  <2>6. ToSet(t) \cap s.remove = {}
    BY <2>3, <2>4
  <2>7. Retagged(t, s.add, s.remove) = t
    BY <2>1, <2>2, <2>3, <2>6, TagsStay
  <2> QED
    BY <2>5, <2>7
<1>8. CASE s.fn = "unit-repoint"
  <2>1. c = Patched(Read(p), s.from, s.to) /\ Exists(p)
    BY <1>8 DEF NewContent
  <2>2. \A i \in DOMAIN Read(p) : Read(p)[i].val \notin s.from
    BY <1>2, <1>8 DEF Good
  <2> QED
    BY <1>1, <2>1, <2>2, PatchStays
<1>9. CASE s.fn = "user-unit"
  <2>1. Exists(p) /\ (s.overwrite => Read(p) = s.unit)
    BY <1>2, <1>9 DEF Lasts, Good, Touches
  <2>2. c = s.unit /\ (s.overwrite \/ ~Exists(p))
    BY <1>9 DEF NewContent
  <2> QED
    BY <2>1, <2>2
<1>10. CASE s.fn = "login-trigger"
  <2>1. Read(p) = s.unit /\ c = s.unit /\ s.unit # Torn
    BY <1>1, <1>2, <1>10 DEF Good, NewContent, StepIsTyped
  <2> QED
    BY <2>1 DEF Read
<1>11. CASE s.fn = "git-extract"
  <2>1. p = s.dest /\ c = Blob(tracked) /\ Read(p) = Blob(tracked)
    BY <1>1, <1>11 DEF Lasts, Touches, NewContent
  <2>2. Blob(tracked) # Torn
    <3> DEFINE l == Line("", "binary", tracked)
    <3>1. Blob(tracked) = <<l>>
      BY DEF Blob
    <3> HIDE DEF l
    <3> QED
      BY <3>1 DEF Torn
  <2> QED
    BY <2>1, <2>2 DEF Read
<1>12. CASE s.fn = "mount-share"
  <2>1. Shared(s) /\ View(p) = Read(p)
    BY <1>1, <1>12 DEF Lasts, NewContent
  <2>2. CASE p = "smbcredentials"
    <3>1. Read(p) = Credentials /\ c = Credentials
      BY <1>12, <2>1, <2>2 DEF Shared, NewContent, ShareUnits, ToSet
    <3>2. Credentials # Torn
      BY DEF Credentials, Torn
    <3> QED
      BY <3>1, <3>2 DEF Read
  <2>3. CASE p # "smbcredentials"
    <3>1. p \in ShareFiles /\ c = ShareUnit(s.device)
      BY <1>12, <2>3 DEF NewContent, ShareFiles
    <3>2. Read(p) = ShareUnit(s.device)
      BY <2>1, <3>1 DEF Shared
    <3>3. ShareUnit(s.device) # Torn
      BY DEF ShareUnit, Torn
    <3> QED
      BY <3>1, <3>2, <3>3 DEF Read
  <2> QED
    BY <2>2, <2>3
<1>13. CASE s.fn = "mount-device"
  <2>1. p = "fstab" /\ s.fstab /\ priv = "sudo" /\ \A i \in DOMAIN Read(p) : Read(p)[i].val # s.mnt
    BY <1>13 DEF Touches, NewContent
  <2> QED
    BY <1>1, <1>13, <2>1 DEF Lasts, Entered
<1>14. CASE s.fn \notin {"rc-line", "rc-export", "gnome-keyring", "tags", "unit-repoint", "user-unit",
                         "login-trigger", "git-extract", "mount-share", "mount-device"}
  BY <1>14 DEF NewContent
<1> QED
  BY <1>4, <1>5, <1>6, <1>7, <1>8, <1>9, <1>10, <1>11, <1>12, <1>13, <1>14

\* What lasts does as long as nothing is written to its files.
LEMMA LastsStill ==
  ASSUME FilesInv, [Next]_vars, net' = net, priv' = priv, upstream' = upstream,
         tracked' = tracked \/ (net /\ tracked' = upstream), mounted # "none" => mounted' # "none",
         NEW s, Lasts(s), \A p \in Touches(s) : View(p)' = View(p)
  PROVE  Lasts(s)'
<1>1. Touches(s)' = Touches(s)
  BY DEF Touches, ShareUnits
<1>2. \A p \in Touches(s) : Good(s, View(p))'
  <2>1. \A p \in Touches(s) : Good(s, View(p))
    BY DEF Lasts
  <2> QED
    BY <2>1, GoodThen
<1>3. s.fn = "user-unit" => Exists(s.name)'
  BY ExistsStill DEF Lasts
<1>4. s.fn = "git-extract" => (View(s.dest) = Blob(tracked) /\ (net => tracked = upstream))'
  <2> SUFFICES ASSUME s.fn = "git-extract"
               PROVE  (View(s.dest) = Blob(tracked) /\ (net => tracked = upstream))'
    OBVIOUS
  <2>1. View(s.dest)' = View(s.dest)
    BY DEF Touches
  <2>2. View(s.dest) = Blob(tracked) /\ (net => tracked = upstream)
    BY DEF Lasts
  <2>3. tracked' = tracked
    BY <2>2
  <2>4. Blob(tracked)' = Blob(tracked)
    BY <2>3 DEF Blob, Line
  <2> QED
    BY <2>1, <2>2, <2>3, <2>4
<1>5. s.fn = "mount-share" => mounted' # "none" \/ Shared(s)'
  <2> SUFFICES ASSUME s.fn = "mount-share", Shared(s)
               PROVE  Shared(s)'
    BY DEF Lasts
  <2>1. \A p \in ShareFiles \cup {"smbcredentials"} : View(p)' = View(p)
    BY DEF Touches, ShareFiles
  <2> QED
    BY <2>1, SharedStill
<1>6. s.fn = "mount-device" => Entered(s)'
  BY DEF Lasts, Entered, Touches
<1> QED
  BY <1>1, <1>2, <1>3, <1>4, <1>5, <1>6 DEF Lasts

\* Each file but the crontab is as it was in b.
Same(b) ==
  /\ b = [p \in DOMAIN b |-> b[p]] /\ DOMAIN disk = DOMAIN b
  /\ \A p \in DOMAIN b : p # "crontab" \/ Schedules = {} => View(p) = b[p]

\* The crontab is that of b, turned by the schedules before step n.
TurnedFrom(b, n) ==
  Schedules # {} =>
    /\ "crontab" \in DOMAIN b /\ Lined(b["crontab"]) /\ InOrder(b["crontab"], Len(recipe) + 1)
    /\ \E f : Turned(b["crontab"], n, View("crontab"), f)

AllLast == \A i \in DOMAIN recipe : \A s : s = recipe[i] /\ s.fn # "schedule" => Lasts(s)

Repeats(b, n) == Same(b) /\ TurnedFrom(b, n) /\ AllLast

\* No file is made that was not there.
RunsOn == held # NoWrite => Exists(held.path)

\* The first step that has not turned the crontab.
Turns == IF at \in Schedules /\ held # NoWrite THEN at + 1 ELSE at

\* The write of a schedule is all that it does.
Puts == at # 0 /\ Step.fn = "schedule" /\ held # NoWrite => held.next = "done"

\* A share that is being mounted is not.
Unmounted == at # 0 /\ Step.fn = "mount-share" /\ stage # "begin" => mounted = "none"

\* A run that nothing has disturbed, and that another such went before, repeats it.
RepeatInv ==
  /\ disk = [p \in DOMAIN disk |-> disk[p]]
  /\ Puts /\ Unmounted
  /\ at # 0 /\ clean => InOrder(View("crontab"), Turns)
  /\ at = 0 /\ settled => InOrder(View("crontab"), Len(recipe) + 1)
  /\ at # 0 /\ settled => Repeats(before, Turns) /\ RunsOn

LEMMA OrderThen ==
  ASSUME recipe' = recipe, NEW n, NEW c
  PROVE  /\ InOrder(c, n) /\ View("crontab")' = c => InOrder(View("crontab"), n)'
         /\ InOrder(c, Len(recipe) + 1) /\ View("crontab")' = c => InOrder(View("crontab"), Len(recipe) + 1)'
         /\ InOrder(c, Len(recipe) + 1) => InOrder(c, Len(recipe) + 1)'
<1>1. Schedules' = Schedules
  BY DEF Schedules
<1> QED
  BY <1>1 DEF InOrder

LEMMA TurnedThen ==
  ASSUME recipe' = recipe, NEW b, NEW n, NEW f, NEW c, View("crontab")' = c
  PROVE  Turned(b, n, c, f) <=> Turned(b, n, View("crontab"), f)'
<1>1. Schedules' = Schedules
  BY DEF Schedules
<1>2. \A j : Mine(b, n, j)' <=> Mine(b, n, j)
  BY <1>1 DEF Mine
<1> QED
  BY <1>2 DEF Turned

LEMMA AllLastStill ==
  ASSUME FilesInv, [Next]_vars, recipe' = recipe, net' = net, priv' = priv, upstream' = upstream,
         tracked' = tracked \/ (net /\ tracked' = upstream), mounted # "none" => mounted' # "none", AllLast,
         \A i \in DOMAIN recipe : recipe[i].fn # "schedule" => \A p \in Touches(recipe[i]) : View(p)' = View(p)
  PROVE  AllLast'
<1> SUFFICES ASSUME NEW i \in DOMAIN recipe, NEW s, s = recipe[i], s.fn # "schedule"
             PROVE  Lasts(s)'
  BY DEF AllLast
<1>1. Lasts(s) /\ \A p \in Touches(s) : View(p)' = View(p)
  BY DEF AllLast
<1> QED
  BY <1>1, LastsStill

LEMMA RunsLast ==
  ASSUME FilesInv, UnitsInv, RestInv, [Next]_vars, RunStep, AllLast,
         \A i \in DOMAIN recipe : recipe[i].fn # "schedule" => \A p \in Touches(recipe[i]) : View(p)' = View(p)
  PROVE  AllLast'
<1>1. recipe' = recipe /\ net' = net /\ priv' = priv
  BY RunShape
<1>2. /\ upstream' = upstream /\ (tracked' = tracked \/ (net /\ tracked' = upstream))
      /\ mounted # "none" => mounted' # "none"
  BY RunMoves DEF InstallsMove
<1> QED
  BY <1>1, <1>2, AllLastStill

LEMMA PutsStep ==
  ASSUME FilesInv, [Next]_vars, Puts
  PROVE  Puts'
<1>1. recipe' = recipe
  BY RecipeKept
<1>2. CASE UNCHANGED fileVars \/ Disturbed
  <2>1. UNCHANGED <<at, held>> /\ Step' = Step
    BY <1>1, <1>2 DEF fileVars, Disturbed, Step
  <2> QED
    BY <2>1 DEF Puts
<1>3. CASE KillRun
  BY <1>3 DEF KillRun, Puts
<1>4. CASE RunStep
  <2>1. CASE RunStarts
    BY <2>1 DEF RunStarts, FilesInv, Writing, Puts
  <2>2. ASSUME NEW ok, StepEnds(ok)
        PROVE  Puts'
    BY <2>2 DEF StepEnds, Puts
  <2>3. CASE Within
    <3>1. at # 0 /\ Step' = Step
      BY <1>1, <2>3 DEF Within, Step
    <3> SUFFICES ASSUME Step.fn = "schedule"
                 PROVE  held' # NoWrite => held'.next = "done"
      BY <3>1 DEF Puts
    <3>2. Truncate \/ Fill \/ Schedule
      BY <1>4, <3>1, RunOf
    <3>3. CASE Truncate
      BY <3>1, <3>3 DEF Truncate, Puts
    <3>4. CASE Fill
      BY <3>4 DEF Fill, StepEnds
    <3>5. CASE Schedule
      BY <3>5 DEF Schedule, AtomicWrite, Holding
    <3> QED
      BY <3>2, <3>3, <3>4, <3>5
  <2> QED
    BY <1>4, <2>1, <2>2, <2>3, RunShape
<1> QED
  BY <1>2, <1>3, <1>4, FilesSee DEF UserEdits

\* A write that is under way goes on.
LEMMA PuttingDown ==
  ASSUME FilesInv, [Next]_vars, RunStep, stage \notin Calm, RunsOn
  PROVE  (\A p : View(p)' = View(p)) /\ DOMAIN disk' = DOMAIN disk /\ RunsOn'
<1>1. Truncate \/ Fill
  BY FillAlone
<1>2. held # NoWrite /\ Exists(held.path)
  BY DEF FilesInv, Stages, Calm, Writing, RunsOn
<1>3. \A p : View(p)' = View(p)
  BY RunViews
<1>4. DOMAIN disk' = DOMAIN disk
  BY <1>1, <1>2 DEF Truncate, Fill, Put, Exists
<1>5. held' = held \/ held' = NoWrite
  BY <1>1 DEF Truncate, Fill, StepEnds
<1>6. RunsOn'
  BY <1>2, <1>4, <1>5 DEF RunsOn, Exists
<1> QED
  BY <1>3, <1>4, <1>6

LEMMA UnmountedStep ==
  ASSUME FilesInv, [Next]_vars, Unmounted
  PROVE  Unmounted'
<1>1. recipe' = recipe
  BY RecipeKept
<1>2. CASE RunStep
  <2>1. CASE RunStarts \/ \E ok : StepEnds(ok)
    BY <2>1 DEF RunStarts, StepEnds, FilesInv, Unmounted
  <2>2. CASE Within /\ ~\E ok : StepEnds(ok)
    <3>1. at # 0 /\ Step' = Step
      BY <1>1, <2>2 DEF Within, Step
    <3> SUFFICES ASSUME Step.fn = "mount-share"
                 PROVE  mounted' = "none"
      BY <3>1 DEF Unmounted
    <3>2. Truncate \/ Fill \/ MountShare \/ WriteShareUnit \/ NextShareUnit \/ ArmShare
      BY <1>2, <3>1, RunOf
    <3>3. CASE Truncate \/ Fill
      <4>1. stage \notin Calm /\ stage # "begin"
        BY <3>3 DEF Truncate, Fill, Calm
      <4>2. mounted' = mounted
        BY <1>2, <4>1, FillAlone DEF mountVars
      <4> QED
        BY <3>1, <4>1, <4>2 DEF Unmounted
    <3>4. CASE MountShare
      BY <2>2, <3>4 DEF MountShare, mountVars
    <3>5. CASE WriteShareUnit \/ NextShareUnit
      BY <3>1, <3>5 DEF WriteShareUnit, NextShareUnit, On, mountVars, Unmounted
    <3>6. CASE ArmShare
      BY <2>2, <3>6 DEF ArmShare, SystemdArms, MountsDirectly
    <3> QED
      BY <3>2, <3>3, <3>4, <3>5, <3>6
  <2> QED
    BY <1>2, <2>1, <2>2, RunShape
<1>3. CASE ~RunStep
  <2>1. mounted = "none" => mounted' = "none"
    BY <1>3 DEF Next, vars, Disturbance, Crashes, StartedByHand, Use, Watch, Unmount, Replug, mountVars
  <2>2. UNCHANGED <<at, stage>> \/ at' = 0
    BY <1>3, FilesSee DEF fileVars, Disturbed, UserEdits, KillRun
  <2>3. UNCHANGED <<at, stage>> => Step' = Step
    BY <1>1 DEF Step
  <2> QED
    BY <2>1, <2>2, <2>3 DEF Unmounted
<1> QED
  BY <1>2, <1>3

\* A step that is no schedule writes nothing that is not there.
LEMMA WritesNothing ==
  ASSUME StepsAgree, TagsAreDecided, FilesInv, LinesInv, [Next]_vars, RunStep, at # 0, AllLast, RunsOn,
         Unmounted, NEW s, s = Step, s.fn # "schedule"
  PROVE  (\A p : View(p)' = View(p)) /\ DOMAIN disk' = DOMAIN disk /\ RunsOn'
<1>1. Lasts(s) /\ (s.fn = "mount-share" /\ stage # "begin" => mounted = "none")
  BY StepKnown DEF AllLast, Unmounted, Step
<1>2. CASE stage \notin Calm
  BY <1>2, PuttingDown
<1>3. CASE stage \in Calm
  <2>1. ASSUME NEW p \in Touches(s), NEW c, NewContent(p, c)
        PROVE  c = Read(p) /\ Exists(p)
    BY <1>1, <1>3, <2>1, RewritesSame
  <2>2. \A p : View(p)' = View(p)
    BY <2>1, RunViews
  <2>3. Makes
    BY <1>3, RunMakes DEF Truncate, Fill, RunStarts, Calm
  <2>4. CASE UNCHANGED disk /\ held' = NoWrite
    BY <2>2, <2>4 DEF RunsOn
  <2>5. ASSUME NEW p \in Touches(s), NEW c, NewContent(p, c), AtOnce(p, c) \/ Begins(p, c)
        PROVE  DOMAIN disk' = DOMAIN disk /\ RunsOn'
    <3>1. Exists(p)
      BY <2>1, <2>5
    <3>2. DOMAIN disk' = DOMAIN disk
      BY <2>5, <3>1 DEF AtOnce, Begins, Put, Exists
    <3>3. held' = NoWrite \/ held'.path = p
      BY <2>5 DEF AtOnce, Begins
    <3> QED
      BY <3>1, <3>2, <3>3 DEF RunsOn, Exists
  <2> QED
    BY <2>2, <2>3, <2>4, <2>5 DEF Makes
<1> QED
  BY <1>2, <1>3

\* A schedule makes a crontab with its line behind the others, and puts it down.
LEMMA SchedulePuts ==
  ASSUME FilesInv, [Next]_vars, RunStep, at # 0, NEW s, s = Step, s.fn = "schedule", stage \in Calm
  PROVE  /\ Within /\ held = NoWrite /\ held' # NoWrite /\ held'.path = "crontab" /\ disk' = disk
         /\ View("crontab")' = Append(OtherJobs(View("crontab"), s.name, s.payload), OwnLine(s))
         /\ \A p : p # "crontab" => View(p)' = View(p)
<1>1. ~Truncate /\ ~Fill
  BY DEF Truncate, Fill, Calm
<1>2. Schedule
  BY <1>1, RunOf
<1>3. held = NoWrite /\ \A p : View(p) = Read(p)
  BY ViewIsRead
<1> DEFINE d == Append(OtherJobs(Read("crontab"), s.name, s.payload), OwnLine(s))
<1>4. AtomicWrite("crontab", d, "done")
  BY <1>2 DEF Schedule, OwnLine
<1> HIDE DEF d
<1>5. Begins("crontab", d)
  BY <1>4, WriteBegins
<1>6. Within
  BY <1>4 DEF AtomicWrite, Holding, runVars, Within
<1>7. \A p : Read(p)' = Read(p)
  BY <1>5 DEF Begins, Read, Exists
<1>8. View("crontab")' = d /\ \A p : p # "crontab" => View(p)' = View(p)
  BY <1>3, <1>5, <1>7 DEF Begins, View
<1> QED
  BY <1>3, <1>5, <1>6, <1>8 DEF Begins, d

\* Putting it down is the last it does.
LEMMA ScheduleOver ==
  ASSUME FilesInv, [Next]_vars, RunStep, at # 0, Step.fn = "schedule", stage \notin Calm, Puts
  PROVE  /\ \A p : View(p)' = View(p)
         /\ held # NoWrite /\ ((Within /\ held' # NoWrite) \/ StepEnds(TRUE))
<1>1. Truncate \/ Fill
  BY FillAlone
<1>2. held # NoWrite /\ held.next = "done"
  BY DEF FilesInv, Stages, Calm, Writing, Puts
<1>3. Truncate => Within /\ held' # NoWrite
  BY <1>2 DEF Truncate, runVars, Within
<1>4. Fill => StepEnds(TRUE)
  BY <1>2 DEF Fill
<1>5. \A p : View(p)' = View(p)
  BY RunViews
<1> QED
  BY <1>1, <1>2, <1>3, <1>4, <1>5

LEMMA AtSchedule ==
  ASSUME FilesInv, at # 0
  PROVE  at \in Schedules <=> Step.fn = "schedule"
BY StepKnown DEF Schedules, Step

\* The step of a run that repeats.
LEMMA RepeatsOn ==
  ASSUME StepsAgree, TagsAreDecided, FilesInv, UnitsInv, RestInv, LinesInv, [Next]_vars, RunStep, at # 0,
         Puts, Unmounted, NEW b, NEW n, n = at, Repeats(b, Turns), RunsOn
  PROVE  \/ Within /\ (Repeats(b, Turns) /\ RunsOn)'
         \/ \E ok : StepEnds(ok) /\ Repeats(b, n + 1)' /\ RunsOn'
<1>1. recipe' = recipe /\ Schedules' = Schedules
  BY RunShape DEF Schedules
<1>2. Same(b) /\ TurnedFrom(b, Turns) /\ AllLast
  BY DEF Repeats
<1>3. PICK s : s = Step
  OBVIOUS
<1>4. ASSUME NEW c, c = View("crontab")', NEW m,
             Schedules # {} => \E f : Turned(b["crontab"], m, c, f)
      PROVE  TurnedFrom(b, m)'
  <2> SUFFICES ASSUME Schedules # {}
               PROVE  TurnedFrom(b, m)'
    BY <1>1 DEF TurnedFrom
  <2>1. "crontab" \in DOMAIN b /\ Lined(b["crontab"]) /\ InOrder(b["crontab"], Len(recipe) + 1)
    BY <1>2 DEF TurnedFrom
  <2>2. PICK f : Turned(b["crontab"], m, c, f)
    BY <1>4
  <2>3. Turned(b["crontab"], m, View("crontab"), f)'
    BY <1>1, <1>4, <2>2, TurnedThen
  <2>4. InOrder(b["crontab"], Len(recipe) + 1)'
    BY <1>1, <2>1, OrderThen
  <2> QED
    BY <2>1, <2>3, <2>4 DEF TurnedFrom
<1>5. PICK c : c = View("crontab")
  OBVIOUS
<1>6. Schedules # {} => \E f : Turned(b["crontab"], Turns, c, f)
  BY <1>2, <1>5 DEF TurnedFrom
<1>7. CASE s.fn # "schedule"
  <2>0. at \notin Schedules /\ Turns = n
    BY <1>3, <1>7, AtSchedule DEF Turns
  <2>1. (\A p : View(p)' = View(p)) /\ DOMAIN disk' = DOMAIN disk /\ RunsOn'
    BY <1>2, <1>3, <1>7, WritesNothing
  <2>2. AllLast'
    BY <1>2, <2>1, RunsLast
  <2>3. Same(b)'
    BY <1>1, <1>2, <2>1 DEF Same
  <2>4. c = View("crontab")'
    BY <1>5, <2>1
  <2>5. TurnedFrom(b, n)'
    BY <1>4, <1>6, <2>0, <2>4
  <2>6. PICK m : m = n + 1
    OBVIOUS
  <2>7. Schedules # {} => \E f : Turned(b["crontab"], m, c, f)
    BY <1>6, <2>0, <2>6, OthersTurn
  <2>8. TurnedFrom(b, m)'
    BY <1>4, <2>4, <2>7
  <2>9. CASE Within
    <3>1. Turns' = n
      BY <1>1, <2>0, <2>9 DEF Within, Turns
    <3> QED
      BY <2>1, <2>2, <2>3, <2>5, <2>9, <3>1 DEF Repeats
  <2>10. CASE \E ok : StepEnds(ok)
    BY <2>1, <2>2, <2>3, <2>6, <2>8, <2>10 DEF Repeats
  <2> QED
    BY <2>9, <2>10, RunShape DEF RunStarts
<1>8. CASE s.fn = "schedule"
  <2>0. n \in Schedules
    BY <1>3, <1>8, AtSchedule
  <2>1. "crontab" \in DOMAIN b /\ Lined(b["crontab"]) /\ InOrder(b["crontab"], Len(recipe) + 1)
    BY <1>2, <2>0 DEF TurnedFrom
  <2>2. PICK m : m = n + 1
    OBVIOUS
  <2>3. ASSUME \A p : p # "crontab" => View(p)' = View(p), DOMAIN disk' = DOMAIN disk
        PROVE  Same(b)' /\ AllLast'
    <3>1. Same(b)'
      BY <1>1, <1>2, <2>0, <2>3 DEF Same
    <3>2. \A i \in DOMAIN recipe : recipe[i].fn # "schedule" => "crontab" \notin Touches(recipe[i])
      BY <2>0, CrontabAlone DEF Schedules
    <3>3. \A i \in DOMAIN recipe : recipe[i].fn # "schedule" => \A p \in Touches(recipe[i]) : View(p)' = View(p)
      BY <2>3, <3>2
    <3>4. AllLast'
      BY <1>2, <3>3, RunsLast
    <3> QED
      BY <3>1, <3>4
  <2>4. CASE stage \in Calm
    <3> DEFINE d == Append(OtherJobs(c, s.name, s.payload), OwnLine(s))
    <3>1. /\ Within /\ held = NoWrite /\ held' # NoWrite /\ held'.path = "crontab" /\ disk' = disk
          /\ View("crontab")' = d /\ \A p : p # "crontab" => View(p)' = View(p)
      BY <1>3, <1>5, <1>8, <2>4, SchedulePuts
    <3>2. PICK u : u = d
      OBVIOUS
    <3>3. PICK f : Turned(b["crontab"], at, c, f)
      BY <1>6, <2>0, <3>1 DEF Turns
    <3>4. Lined(c)
      BY <1>5 DEF LinesInv, Sound, Lined, Fits, LineFits
    <3>5. PICK h : Turned(b["crontab"], at + 1, u, h)
      <4> HIDE DEF d
      <4>1. u = Append(OtherJobs(c, s.name, s.payload), OwnLine(s))
        BY <3>2 DEF d
      <4> QED
        BY <1>3, <2>0, <2>1, <3>3, <3>4, <4>1, ScheduleTurns
    <3> HIDE DEF d
    <3>6. u = View("crontab")' /\ Schedules # {} => \E f0 : Turned(b["crontab"], m, u, f0)
      BY <2>2, <3>5
    <3>7. TurnedFrom(b, m)'
      BY <1>4, <3>1, <3>2, <3>6
    <3>8. Same(b)' /\ AllLast'
      BY <2>3, <3>1
    <3>9. Turns' = m
      BY <1>1, <2>0, <2>2, <3>1 DEF Within, Turns
    <3>10. RunsOn'
      BY <1>2, <2>1, <3>1 DEF RunsOn, Exists, Same
    <3> QED
      BY <3>1, <3>7, <3>8, <3>9, <3>10 DEF Repeats
  <2>5. CASE stage \notin Calm
    <3>1. /\ \A p : View(p)' = View(p)
          /\ held # NoWrite /\ ((Within /\ held' # NoWrite) \/ StepEnds(TRUE))
      BY <1>3, <1>8, <2>5, ScheduleOver
    <3>2. DOMAIN disk' = DOMAIN disk /\ RunsOn'
      BY <2>5, PuttingDown
    <3>3. Same(b)' /\ AllLast'
      BY <2>3, <3>1, <3>2
    <3>4. Turns = m
      BY <2>0, <2>2, <3>1 DEF Turns
    <3>5. TurnedFrom(b, m)'
      BY <1>4, <1>5, <1>6, <3>1, <3>4
    <3>6. CASE Within /\ held' # NoWrite
      <4>1. Turns' = m
        BY <1>1, <2>0, <2>2, <3>6 DEF Within, Turns
      <4> QED
        BY <3>2, <3>3, <3>5, <3>6, <4>1 DEF Repeats
    <3>7. CASE StepEnds(TRUE)
      BY <2>2, <3>2, <3>3, <3>5, <3>7 DEF Repeats
    <3> QED
      BY <3>1, <3>6, <3>7
  <2> QED
    BY <2>4, <2>5
<1> QED
  BY <1>7, <1>8

LEMMA RepeatInit == Init => RepeatInv
<1> SUFFICES ASSUME Init
             PROVE  RepeatInv
  OBVIOUS
<1>1. disk \in Disks /\ at = 0 /\ settled = FALSE
  BY DEF Init, FilesInit
<1>2. disk = [p \in DOMAIN disk |-> disk[p]]
  BY <1>1, RecipesAreTyped
<1> QED
  BY <1>1, <1>2 DEF RepeatInv, Puts, Unmounted

LEMMA DiskIsFunction ==
  ASSUME FilesInv, [Next]_vars, disk = [p \in DOMAIN disk |-> disk[p]]
  PROVE  disk' = [p \in DOMAIN disk' |-> disk'[p]]
<1>1. \A q, c : disk' = Put(q, c) => disk' = [p \in DOMAIN disk' |-> disk'[p]]
  BY DEF Put
<1> QED
  BY <1>1, FilesBecome DEF Makes, AtOnce, Begins, Truncate, Fill, UserEdits, Appends

\* The order in a run that nothing disturbs.
LEMMA OrderOn ==
  ASSUME StepsAgree, FilesInv, LinesInv, [Next]_vars, RunStep, at # 0, Puts, NEW n, n = at,
         InOrder(View("crontab"), Turns)
  PROVE  (\/ Within /\ InOrder(View("crontab"), Turns)'
          \/ \E ok : StepEnds(ok) /\ InOrder(View("crontab"), n + 1)')
<1>1. recipe' = recipe /\ Schedules' = Schedules
  BY RunShape DEF Schedules
<1>2. PICK c, m : c = View("crontab") /\ m = n + 1
  OBVIOUS
<1>3. CASE n \in Schedules /\ stage \in Calm
  <2>1. PICK s : s = Step
    OBVIOUS
  <2>2. s.fn = "schedule"
    BY <1>3, <2>1, AtSchedule
  <2>3. PICK d : d = Append(OtherJobs(c, s.name, s.payload), OwnLine(s))
    OBVIOUS
  <2>4. Within /\ held = NoWrite /\ held' # NoWrite /\ View("crontab")' = d
    BY <1>2, <1>3, <2>1, <2>2, <2>3, SchedulePuts
  <2>5. Lined(c)
    BY <1>2 DEF LinesInv, Sound, Lined, Fits, LineFits
  <2>6. InOrder(c, at)
    BY <1>2, <2>4 DEF Turns
  <2>7. InOrder(d, m)
    BY <1>2, <1>3, <2>1, <2>3, <2>5, <2>6, ScheduleOrders
  <2>8. Turns' = m
    BY <1>1, <1>2, <1>3, <2>4 DEF Within, Turns
  <2>9. InOrder(View("crontab"), m)'
    BY <1>1, <2>4, <2>7, OrderThen
  <2> QED
    BY <2>4, <2>8, <2>9
<1>4. CASE n \in Schedules /\ stage \notin Calm
  <2>1. Step.fn = "schedule"
    BY <1>4, AtSchedule
  <2>2. /\ View("crontab")' = c
        /\ held # NoWrite /\ ((Within /\ held' # NoWrite) \/ StepEnds(TRUE))
    BY <1>2, <1>4, <2>1, ScheduleOver
  <2>3. InOrder(c, m)
    BY <1>2, <1>4, <2>2 DEF Turns
  <2>4. InOrder(View("crontab"), m)'
    BY <1>1, <2>2, <2>3, OrderThen
  <2>5. Within /\ held' # NoWrite => Turns' = m
    BY <1>1, <1>2, <1>4 DEF Within, Turns
  <2> QED
    BY <1>2, <2>2, <2>4, <2>5
<1>5. CASE n \notin Schedules
  <2>1. InOrder(c, n) /\ InOrder(c, m)
    <3>1. InOrder(c, at)
      BY <1>2, <1>5 DEF Turns
    <3> QED
      BY <1>2, <1>5, <3>1, OthersOrder
  <2>2. InOrder(View("crontab"), n)' /\ InOrder(View("crontab"), m)'
    <3>1. CASE View("crontab")' = c
      BY <1>1, <2>1, <3>1, OrderThen
    <3>2. CASE Schedules = {}
      BY <1>1, <3>2 DEF InOrder
    <3>3. View("crontab")' = c \/ Schedules = {}
      <4> SUFFICES ASSUME "crontab" \in Touches(Step), NEW i \in Schedules
                   PROVE  FALSE
        BY <1>2, RunViews
      <4> QED
        BY <1>5, StepKnown, CrontabAlone DEF Step
    <3> QED
      BY <3>1, <3>2, <3>3
  <2>3. Within => Turns' = n
    BY <1>1, <1>5 DEF Within, Turns
  <2> QED
    BY <1>2, <2>2, <2>3, RunShape DEF RunStarts
<1> QED
  BY <1>3, <1>4, <1>5

\* A run that begins after one that went through undisturbed.
LEMMA RepeatStarts ==
  ASSUME FilesInv, UnitsInv, RestInv, LinesInv, GoalsInv, RepeatInv, [Next]_vars, RunStep, RunStarts
  PROVE  RepeatInv'
<1>1. /\ at = 0 /\ at' = 1 /\ stage \in Calm /\ stage' = "begin" /\ recipe' = recipe
      /\ held' = NoWrite /\ settled' = settled /\ disk' = disk /\ held' = held
      /\ settled => before' = disk
  BY DEF RunStarts, FilesInv, Calm, Writing
<1>2. \A p : View(p)' = View(p) /\ View(p) = Read(p)
  BY <1>1, ViewIsRead DEF View, Read, Exists
<1>3. \A c : InOrder(c, 1)
  BY StepNumbers DEF InOrder
<1>4. InOrder(View("crontab"), 1)'
  BY <1>1, <1>3, OrderThen
<1>8. Turns' = 1
  BY <1>1 DEF Turns
<1>5. ASSUME settled
      PROVE  Repeats(before, Turns)' /\ RunsOn'
  <2>1. PICK b : b = disk
    OBVIOUS
  <2>2. before' = b /\ at' = 1
    BY <1>1, <1>5, <2>1
  <2>3. AllLast
    BY <1>1, <1>5, DoneLasts DEF GoalsInv, AllLast
  <2>4. AllLast'
    BY <1>2, <2>3, RunsLast
  <2>5. \A p \in DOMAIN b : View(p) = b[p]
    BY <1>2, <2>1 DEF Read, Exists
  <2>6. b = [p \in DOMAIN b |-> b[p]]
    BY <2>1 DEF RepeatInv
  <2>7. Same(b)'
    BY <1>1, <1>2, <2>1, <2>5, <2>6 DEF Same
  <2>8. TurnedFrom(b, 1)'
    <3> SUFFICES ASSUME NEW i \in Schedules
                 PROVE  TurnedFrom(b, 1)'
      BY <1>1 DEF TurnedFrom, Schedules
    <3>1. InOrder(View("crontab"), Len(recipe) + 1) /\ i < Len(recipe) + 1
      BY <1>1, <1>5, StepNumbers DEF RepeatInv
    <3>2. PICK j : j \in DOMAIN View("crontab")
      BY <3>1 DEF InOrder
    <3>3. "crontab" \in DOMAIN b
      BY <1>2, <2>1, <3>2 DEF Read, Exists, Torn
    <3>4. PICK c : c = b["crontab"]
      OBVIOUS
    <3>5. c = View("crontab")
      BY <2>5, <3>3, <3>4
    <3>6. Lined(c)
      BY <3>5 DEF LinesInv, Sound, Lined, Fits, LineFits
    <3>7. PICK f : Turned(c, 1, c, f)
      BY <3>6, TurnedAtFirst DEF Lined
    <3>8. Turned(c, 1, View("crontab"), f)'
      BY <1>1, <1>2, <3>5, <3>7, TurnedThen
    <3>9. InOrder(c, Len(recipe) + 1)'
      BY <1>1, <3>1, <3>5, OrderThen
    <3> QED
      BY <3>3, <3>4, <3>6, <3>8, <3>9 DEF TurnedFrom
  <2>9. Repeats(b, 1)'
    BY <2>4, <2>7, <2>8 DEF Repeats
  <2>10. Repeats(before, Turns)'
    BY <1>8, <2>2, <2>9
  <2> QED
    BY <1>1, <2>10 DEF RunsOn
<1>6. disk' = [p \in DOMAIN disk' |-> disk'[p]]
  BY <1>1 DEF RepeatInv
<1>7. InOrder(View("crontab"), Turns)'
  BY <1>4, <1>8
<1>9. Puts' /\ Unmounted'
  BY <1>1 DEF Puts, Unmounted
<1> QED
  BY <1>1, <1>5, <1>6, <1>7, <1>9 DEF RepeatInv

\* A run that has repeated all steps has left the files as they were.
LEMMA RepeatsEnd ==
  ASSUME FilesInv, recipe' = recipe, LinesInv', held' = NoWrite, disk' = [p \in DOMAIN disk' |-> disk'[p]],
         NEW b, NEW n, n = Len(recipe) + 1, Repeats(b, n)'
  PROVE  disk' = b
<1>1. b = [p \in DOMAIN b |-> b[p]] /\ DOMAIN disk' = DOMAIN b
  BY DEF Repeats, Same
<1>2. \A p \in DOMAIN b : View(p)' = disk'[p]
  BY <1>1 DEF View, Read, Exists
<1>3. Schedules' = Schedules
  BY DEF Schedules
<1>4. \A p \in DOMAIN b : p # "crontab" \/ Schedules = {} => View(p)' = b[p]
  BY <1>3 DEF Repeats, Same
<1>5. ASSUME Schedules # {}
      PROVE  View("crontab")' = b["crontab"]
  <2>1. PICK c, v : c = b["crontab"] /\ v = View("crontab")'
    OBVIOUS
  <2>2. Lined(c) /\ InOrder(c, Len(recipe) + 1)' /\ \E f : Turned(c, n, View("crontab"), f)'
    BY <1>3, <1>5, <2>1 DEF Repeats, TurnedFrom
  <2>3. PICK f : Turned(c, n, View("crontab"), f)'
    BY <2>2
  <2>4. Turned(c, n, v, f)
    BY <2>1, <2>3, TurnedThen
  <2>5. InOrder(c, n)
    BY <1>3, <2>2 DEF InOrder
  <2>6. IsFile(v)
    BY <2>1 DEF LinesInv, Sound, IsFile, ToSet
  <2>7. v = c
    BY <2>2, <2>4, <2>5, <2>6, TurnedAtLast DEF Lined
  <2> QED
    BY <2>1, <2>7
<1>6. \A p \in DOMAIN b : disk'[p] = b[p]
  BY <1>2, <1>4, <1>5
<1> QED
  BY <1>1, <1>6

\* A run of a recipe.
LEMMA RepeatRun ==
  ASSUME StepsAgree, TagsAreDecided, FilesInv, UnitsInv, RestInv, LinesInv, GoalsInv, RepeatInv, [Next]_vars,
         RunStep, at # 0
  PROVE  /\ RepeatInv'
         /\ settled /\ settled' /\ at' = 0 => disk' = before
<1>1. PICK n, b : n = at /\ b = before
  OBVIOUS
<1>2. recipe' = recipe /\ at \in Nat /\ Len(recipe) \in Nat /\ at \in 1..Len(recipe)
  BY RunShape, StepNumbers, StepKnown
<1>3. disk' = [p \in DOMAIN disk' |-> disk'[p]]
  BY DiskIsFunction DEF RepeatInv
<1>9. Puts' /\ Unmounted'
  BY PutsStep, UnmountedStep DEF RepeatInv
<1>4. clean => \/ Within /\ InOrder(View("crontab"), Turns)'
               \/ \E ok : StepEnds(ok) /\ InOrder(View("crontab"), n + 1)'
  BY <1>1, OrderOn DEF RepeatInv
<1>5. settled => \/ Within /\ (Repeats(b, Turns) /\ RunsOn)'
                 \/ \E ok : StepEnds(ok) /\ Repeats(b, n + 1)' /\ RunsOn'
  BY <1>1, RepeatsOn DEF RepeatInv
<1>6. ~(Within /\ \E ok : StepEnds(ok))
  BY <1>2 DEF Within, StepEnds
<1>7. CASE Within
  <2>1. at' = n /\ before' = b /\ clean' = clean /\ settled' = settled /\ n # 0
    BY <1>1, <1>7 DEF Within
  <2>2. clean => InOrder(View("crontab"), Turns)'
    BY <1>4, <1>6, <1>7
  <2>3. settled => Repeats(before, Turns)' /\ RunsOn'
    BY <1>5, <1>6, <1>7, <2>1
  <2> QED
    BY <1>3, <1>9, <2>1, <2>2, <2>3 DEF RepeatInv
<1>8. ASSUME NEW ok, StepEnds(ok)
      PROVE  /\ RepeatInv'
             /\ settled /\ settled' /\ at' = 0 => disk' = before
  <2>1. clean => InOrder(View("crontab"), n + 1)'
    BY <1>4, <1>6, <1>8
  <2>2. settled => Repeats(b, n + 1)' /\ RunsOn'
    BY <1>5, <1>6, <1>8
  <2>3. CASE ok /\ at < Len(recipe)
    <3>1. at' = n + 1 /\ clean' = clean /\ settled' = settled /\ before' = b /\ at' # 0 /\ held' = NoWrite
      BY <1>1, <1>2, <1>8, <2>3 DEF StepEnds
    <3>4. Turns' = n + 1
      BY <3>1 DEF Turns
    <3>2. clean => InOrder(View("crontab"), Turns)'
      BY <2>1, <3>4
    <3>3. settled => Repeats(before, Turns)' /\ RunsOn'
      BY <2>2, <3>1, <3>4
    <3> QED
      BY <1>3, <1>9, <3>1, <3>2, <3>3 DEF RepeatInv
  <2>4. CASE ~(ok /\ at < Len(recipe))
    <3>1. at' = 0 /\ held' = NoWrite /\ (settled' => ok /\ clean)
      BY <1>8, <2>4 DEF StepEnds
    <3>2. settled' => n + 1 = Len(recipe) + 1 /\ clean
      BY <1>1, <1>2, <2>4, <3>1
    <3>3. settled' => InOrder(View("crontab"), Len(recipe) + 1)'
      <4> SUFFICES ASSUME settled'
                   PROVE  InOrder(View("crontab"), Len(recipe) + 1)'
        OBVIOUS
      <4>1. PICK m : m = Len(recipe) + 1
        OBVIOUS
      <4>2. InOrder(View("crontab"), m)'
        BY <2>1, <3>2, <4>1
      <4> QED
        BY <1>2, <4>1, <4>2
    <3>4. settled /\ settled' => disk' = before
      <4> SUFFICES ASSUME settled, settled'
                   PROVE  disk' = b
        BY <1>1
      <4>1. LinesInv'
        BY LinesStep
      <4>2. PICK m : m = n + 1
        OBVIOUS
      <4>3. m = Len(recipe) + 1 /\ Repeats(b, m)'
        BY <2>2, <3>2, <4>2
      <4> QED
        BY <1>2, <1>3, <3>1, <4>1, <4>3, RepeatsEnd
    <3> QED
      BY <1>3, <1>9, <3>1, <3>3, <3>4 DEF RepeatInv
  <2> QED
    BY <2>3, <2>4
<1> QED
  BY <1>7, <1>8, RunShape DEF RunStarts

\* What is no step of a run.
LEMMA RepeatIdle ==
  ASSUME FilesInv, RestInv, RepeatInv, [Next]_vars, ~RunStep, UNCHANGED fileVars
  PROVE  RepeatInv'
<1>1. UNCHANGED <<recipe, at, stage, held, disk, net, priv, clean, settled, before>>
  BY DEF fileVars
<1>2. \A p : View(p)' = View(p)
  BY <1>1 DEF View, Read, Exists
<1>3. Schedules' = Schedules /\ Step' = Step
  BY <1>1 DEF Schedules, Step
<1>4. PICK c, n, b : c = View("crontab") /\ n = Turns /\ b = before
  OBVIOUS
<1>9. Turns' = n /\ Puts' /\ Unmounted'
  BY <1>1, <1>3, <1>4, PutsStep, UnmountedStep DEF Turns, RepeatInv
<1>5. /\ InOrder(View("crontab"), Turns) => InOrder(View("crontab"), Turns)'
      /\ InOrder(View("crontab"), Len(recipe) + 1) => InOrder(View("crontab"), Len(recipe) + 1)'
  <2>1. /\ InOrder(c, n) => InOrder(View("crontab"), n)'
        /\ InOrder(c, Len(recipe) + 1) => InOrder(View("crontab"), Len(recipe) + 1)'
    BY <1>1, <1>2, <1>4, OrderThen
  <2> QED
    BY <1>1, <1>4, <1>9, <2>1
<1>6. ASSUME Repeats(before, Turns)
      PROVE  Repeats(before, Turns)'
  <2>1. Same(b) /\ TurnedFrom(b, n) /\ AllLast
    BY <1>4, <1>6 DEF Repeats
  <2>2. Same(b)'
    BY <1>1, <1>2, <1>3, <2>1 DEF Same
  <2>3. AllLast'
    BY <1>1, <1>2, <2>1, IdleMoves, AllLastStill
  <2>4. TurnedFrom(b, n)'
    <3> SUFFICES ASSUME Schedules # {}
                 PROVE  TurnedFrom(b, n)'
      BY <1>3 DEF TurnedFrom
    <3>1. "crontab" \in DOMAIN b /\ Lined(b["crontab"]) /\ InOrder(b["crontab"], Len(recipe) + 1)
      BY <2>1 DEF TurnedFrom
    <3>2. PICK f : Turned(b["crontab"], n, c, f)
      BY <1>4, <2>1 DEF TurnedFrom
    <3>3. Turned(b["crontab"], n, View("crontab"), f)'
      BY <1>1, <1>2, <1>4, <3>2, TurnedThen
    <3>4. InOrder(b["crontab"], Len(recipe) + 1)'
      BY <1>1, <3>1, OrderThen
    <3> QED
      BY <3>1, <3>3, <3>4 DEF TurnedFrom
  <2>5. Repeats(b, n)'
    BY <2>2, <2>3, <2>4 DEF Repeats
  <2> QED
    BY <1>1, <1>4, <1>9, <2>5
<1>7. RunsOn => RunsOn'
  BY <1>1, <1>3 DEF RunsOn, Exists
<1>8. disk' = [p \in DOMAIN disk' |-> disk'[p]]
  BY <1>1 DEF RepeatInv
<1> QED
  BY <1>1, <1>5, <1>6, <1>7, <1>8, <1>9 DEF RepeatInv

LEMMA RepeatStep ==
  ASSUME StepsAgree, TagsAreDecided, FilesInv, UnitsInv, RestInv, LinesInv, GoalsInv, RepeatInv, [Next]_vars
  PROVE  /\ RepeatInv'
         /\ settled /\ settled' /\ at # 0 /\ at' = 0 => disk' = before
<1>1. CASE RunStep
  <2>1. CASE at # 0
    BY <1>1, <2>1, RepeatRun
  <2>2. CASE at = 0
    <3>1. RunStarts
      BY <1>1, <2>2, RunMakes DEF Truncate, Fill, FilesInv
    <3> QED
      BY <1>1, <2>2, <3>1, RepeatStarts
  <2> QED
    BY <2>1, <2>2
<1>2. CASE ~RunStep /\ UNCHANGED fileVars
  BY <1>2, RepeatIdle DEF fileVars
<1>3. disk' = [p \in DOMAIN disk' |-> disk'[p]]
  BY DiskIsFunction DEF RepeatInv
<1>6. Puts' /\ Unmounted'
  BY PutsStep, UnmountedStep DEF RepeatInv
<1>4. CASE KillRun
  BY <1>3, <1>4, <1>6 DEF KillRun, Upset, RepeatInv
<1>5. ASSUME Disturbed
      PROVE  RepeatInv' /\ ~settled'
  BY <1>3, <1>5, <1>6 DEF Disturbed, Upset, RepeatInv
<1> QED
  BY <1>1, <1>2, <1>4, <1>5, FilesSee DEF UserEdits, KillRun, Upset

\* Of two runs of a recipe in a row that nothing disturbs, the second ends with
\* every file as it began with it, whatever was killed and edited before: each
\* function finds there what it would write, and the schedules, which rewrite the
\* crontab in every run, between them put each line back where it stood.
THEOREM RepeatsChangeNothing == ASSUME StepsAgree, TagsAreDecided PROVE Spec => RepeatChangesNothing
<1> DEFINE Inv == MachineInv /\ LinesInv /\ LoadedInv /\ GoalsInv /\ RepeatInv
           Repeated == settled /\ settled' /\ at # 0 /\ at' = 0 => disk' = before
<1>1. Init => Inv
  BY MachineInit, LinesInit, LoadedInit, GoalsInit, RepeatInit
<1>2. Inv /\ [Next]_vars => Inv' /\ Repeated
  <2> SUFFICES ASSUME Inv, [Next]_vars
               PROVE  Inv' /\ Repeated
    OBVIOUS
  <2>1. MachineInv'
    BY MachineStep
  <2>2. FilesInv /\ UnitsInv /\ RestInv
    BY DEF MachineInv
  <2>3. RepeatInv' /\ Repeated
    BY <2>2, RepeatStep
  <2> QED
    BY <2>1, <2>2, <2>3, LinesStep, LoadedStep, GoalsStep
<1>3. Inv /\ [Next]_vars => [Repeated]_vars
  BY <1>2
<1> QED
  BY <1>1, <1>2, <1>3, PTL DEF Spec, RepeatChangesNothing

=============================================================================
