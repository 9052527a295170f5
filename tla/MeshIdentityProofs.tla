------------------------- MODULE MeshIdentityProofs -------------------------
(***************************************************************************)
(* Theorems about the identity of machines, for any number of machines,    *)
(* names and interfaces, and any legacy mesh.yaml.                         *)
(***************************************************************************)
EXTENDS MeshIdentity, FiniteSetTheorems, WellFoundedInduction, TLAPS

(***************************************************************************)
(* Types.                                                                  *)
(***************************************************************************)
Files  == [Name -> File]
Box    == [by : Machine \cup {Down}, at : 0..MaxStarts,
           files : UNION {[S -> File] : S \in SUBSET Name}]
Around == [name : Name, plugged : SUBSET (Dongle \cup Dock)]

\* What Clear says of main and the checkouts, of one file.
Apart(f) == f.mesh # NoEntry => f.mesh.macs \cap f.mesh.portable = {}

\* The inductive form of TypeOK: what a mailbox holds may become main.
Types ==
  /\ host \in [Machine -> Around] /\ \A m \in Machine : host[m].name \in NameOf[m]
  /\ main \in Files /\ Clear(main)
  /\ checkout \in [Machine -> Files] /\ base \in [Machine -> Files]
  /\ \A m \in Machine : Clear(checkout[m])
  /\ mailbox \in [Name -> Box]
  /\ \A h \in Name : \A k \in DOMAIN mailbox[h].files : Apart(mailbox[h].files[k])
  /\ merged \in [Machine -> 0..MaxStarts]
  /\ as \in [Machine -> Name \cup {Down}]
  /\ starts \in 0..MaxStarts /\ changes \in 0..MaxChanges /\ dropped \in BOOLEAN
  /\ writers \in [Name -> SUBSET Machine]
  /\ calm \in [Machine -> BOOLEAN]

LEMMA SomeNameIsFirst ==
  \A T \in SUBSET Name : T # {} => \E h \in T : \A k \in T : h <= k
<1> SUFFICES ASSUME NEW T \in SUBSET Name, T # {}
             PROVE  \E h \in T : \A k \in T : h <= k
  OBVIOUS
<1> DEFINE R == OpToRel(<, Nat)
<1>1. T \subseteq Nat
  BY NamesAreNumbered
<1>2. IsWellFoundedOn(R, Nat)
  BY NatLessThanWellFounded
<1> HIDE DEF R
<1>3. PICK h \in T : \A k \in T : ~(<<k, h>> \in R)
  BY <1>1, <1>2, WFMin, Zenon
<1>4. \A k \in T : ~(k < h)
  BY <1>1, <1>3 DEF R, OpToRel
<1> QED
  BY <1>1, <1>3, <1>4

LEMMA FirstOK ==
  ASSUME NEW c, NEW S \in SUBSET Name, S # {}
  PROVE  First(c, S) \in S
<1> DEFINE ahead == {h \in S : c[h].mesh # NoEntry}
           T     == IF ahead # {} THEN ahead ELSE S
<1>1. T \in SUBSET Name /\ T # {} /\ T \subseteq S
  OBVIOUS
<1>2. First(c, S) = CHOOSE h \in T : \A k \in T : h <= k
  BY DEF First
<1> HIDE DEF T
<1> QED
  BY <1>1, <1>2, SomeNameIsFirst

LEMMA NicsOK ==
  ASSUME Types, NEW m \in Machine
  PROVE  /\ DetectNICs(m) \in [macs : SUBSET Mac, portable : SUBSET Mac]
         /\ DetectNICs(m).macs \cap DetectNICs(m).portable = {}
         /\ DetectNICs(m).macs \subseteq BuiltIn[m] \cup Dock
<1> DEFINE plugged == host[m].plugged
<1>1. plugged \subseteq Dongle \cup Dock
  BY DEF Types, Around
<1>2. BuiltIn[m] \subseteq Mac /\ Dongle \subseteq Mac /\ Dock \subseteq Mac
  BY DEF Mac
<1>3. Dongle \cap (BuiltIn[m] \cup Dock) = {}
  BY FleetKnown
<1>4. DetectNICs(m) = [macs |-> BuiltIn[m] \cup (plugged \cap Dock), portable |-> plugged \cap Dongle]
  BY DEF DetectNICs
<1> HIDE DEF plugged
<1> QED
  BY <1>1, <1>2, <1>3, <1>4

LEMMA MeshOK ==
  ASSUME NEW c \in Files
  PROVE  /\ LoadMesh(c) \in [Name -> Entry \cup {NoEntry}]
         /\ \A h \in Name : LoadMesh(c)[h] = IF c[h].mesh # NoEntry THEN c[h].mesh ELSE Legacy[h]
         /\ Peers(c) \subseteq Name
         /\ \A h \in Peers(c) : LoadMesh(c)[h] \in Entry
BY FleetKnown DEF LoadMesh, Peers, Files, File

LEMMA RefreshedOK ==
  ASSUME NEW e \in Entry, NEW nic \in [macs : SUBSET Mac, portable : SUBSET Mac],
         NEW id \in Ids
  PROVE  /\ Refreshed(e, nic, id) \in Entry
         /\ Refreshed(e, nic, id).macs \cap Refreshed(e, nic, id).portable = {}
         /\ Refreshed(e, nic, id).macs \cap nic.portable = {}
         /\ Refreshed(e, nic, id).id = IF e.id = NoId THEN id ELSE e.id
BY DEF Refreshed, Entry

LEMMA RefreshOK ==
  ASSUME NEW c \in Files, Clear(c), NEW h \in Name, NEW id \in Ids,
         NEW nic \in [macs : SUBSET Mac, portable : SUBSET Mac]
  PROVE  /\ Refresh(c, h, nic, id) \in Files /\ Clear(Refresh(c, h, nic, id))
         /\ \A k \in Name : Refresh(c, h, nic, id)[k].node = c[k].node
         /\ \A k \in Name \ {h} : Refresh(c, h, nic, id)[k] = c[k]
         /\ h \notin Peers(c) => Refresh(c, h, nic, id) = c
         /\ h \in Peers(c) =>
              /\ LoadMesh(c)[h] \in Entry
              /\ Refresh(c, h, nic, id)[h].mesh = Refreshed(LoadMesh(c)[h], nic, id)
<1>1. CASE h \notin Peers(c)
  BY <1>1 DEF Refresh
<1>2. CASE h \in Peers(c)
  <2> DEFINE e == Refreshed(LoadMesh(c)[h], nic, id)
  <2>1. LoadMesh(c)[h] \in Entry
    BY <1>2, MeshOK
  <2>2. e \in Entry /\ e.macs \cap e.portable = {}
    BY <2>1, RefreshedOK
  <2>3. Refresh(c, h, nic, id) = [c EXCEPT ![h].mesh = e]
    BY <1>2 DEF Refresh
  <2> HIDE DEF e
  <2>4. /\ [c EXCEPT ![h].mesh = e] \in Files
        /\ \A k \in Name : [c EXCEPT ![h].mesh = e][k].node = c[k].node
        /\ \A k \in Name \ {h} : [c EXCEPT ![h].mesh = e][k] = c[k]
        /\ [c EXCEPT ![h].mesh = e][h].mesh = e
    BY <2>2 DEF Files, File
  <2>5. Clear([c EXCEPT ![h].mesh = e])
    BY <2>2, <2>4 DEF Clear
  <2> QED
    BY <1>2, <2>1, <2>3, <2>4, <2>5 DEF e
<1> QED
  BY <1>1, <1>2

LEMMA RegisterOK ==
  ASSUME Types, NEW c \in Files, Clear(c), NEW m \in Machine
  PROVE  LET h == host[m].name
             f == Register(c, m)
         IN  /\ f \in Files /\ Clear(f)
             /\ \A k \in Name \ {h} : f[k] = c[k]
             /\ f[h].node = [id |-> Id[m], portable |-> DetectNICs(m).portable]
             /\ f[h].mesh \in Entry
             /\ h \notin Peers(c) => f[h].mesh.id = Id[m]
             /\ h \in Peers(c) =>
                  f[h].mesh = Refreshed(LoadMesh(c)[h], DetectNICs(m), Id[m])
<1> DEFINE h == host[m].name
           nic == DetectNICs(m)
           node == [id |-> Id[m], portable |-> nic.portable]
           own == [id |-> Id[m], macs |-> nic.macs, portable |-> nic.portable]
           new == [c EXCEPT ![h].node = node]
<1>1. h \in Name
  BY DEF Types, Around
<1>2. nic \in [macs : SUBSET Mac, portable : SUBSET Mac] /\ nic.macs \cap nic.portable = {}
  BY NicsOK
<1>3. Id[m] \in Ids
  BY DEF Ids
<1>4. node \in Node /\ own \in Entry /\ own.macs \cap own.portable = {} /\ own.id = Id[m]
  BY <1>2, <1>3 DEF Node, Entry
<1>5. Register(c, m) = IF h \in Peers(c) THEN Refresh(new, h, nic, Id[m]) ELSE [new EXCEPT ![h].mesh = own]
  BY DEF Register
<1> HIDE DEF h, nic, node, own
<1>6. /\ new \in Files
      /\ \A k \in Name \ {h} : new[k] = c[k]
      /\ new[h].node = node /\ new[h].mesh = c[h].mesh
  BY <1>1, <1>4 DEF Files, File
<1>7. Clear(new)
  BY <1>6 DEF Clear
<1>8. LoadMesh(new) = LoadMesh(c) /\ Peers(new) = Peers(c)
  <2>1. \A k \in Name : new[k].mesh = c[k].mesh
    BY <1>6
  <2> QED
    BY <2>1 DEF LoadMesh, Peers
<1>9. CASE h \in Peers(c)
  <2> HIDE DEF new
  <2>1. Refreshed(LoadMesh(c)[h], nic, Id[m]) \in Entry
    BY <1>2, <1>3, <1>9, MeshOK, RefreshedOK
  <2> QED
    BY <1>1, <1>2, <1>3, <1>5, <1>6, <1>7, <1>8, <1>9, <2>1, RefreshOK DEF h, nic, node
<1>10. CASE h \notin Peers(c)
  <2> DEFINE f == [new EXCEPT ![h].mesh = own]
  <2> HIDE DEF new
  <2>1. /\ f \in Files
        /\ \A k \in Name \ {h} : f[k] = c[k]
        /\ f[h].node = node /\ f[h].mesh = own
    BY <1>1, <1>4, <1>6 DEF Files, File
  <2>2. Clear(f)
    BY <1>4, <1>7, <1>6, <2>1 DEF Clear
  <2>3. Register(c, m) = f
    BY <1>5, <1>10
  <2> HIDE DEF f
  <2> QED
    BY <1>4, <1>10, <2>1, <2>2, <2>3 DEF h, nic, node
<1> QED
  BY <1>9, <1>10

LEMMA RunsAsOK ==
  ASSUME Types, NEW c \in Files, NEW m \in Machine
  PROVE  RunsAs(c, m) \in Name /\ (RunsAs(c, m) = host[m].name \/ RunsAs(c, m) \in FindPeerByIdentity(c, m))
<1>1. FindPeerByIdentity(c, m) \in SUBSET Name
  BY MeshOK DEF FindPeerByIdentity, ById, ByMac
<1>2. host[m].name \in Name
  BY DEF Types, Around
<1> QED
  BY <1>1, <1>2, FirstOK DEF RunsAs

LEMMA ConfigOK ==
  ASSUME Types, NEW c \in Files, NEW m \in Machine
  PROVE  Config(c, m) \in Node
<1>1. [id |-> Id[m], portable |-> DetectNICs(m).portable] \in Node
  BY NicsOK DEF Node, Ids
<1>2. c[RunsAs(c, m)].node \in Node \cup {NoNode}
  BY RunsAsOK DEF Files, File
<1> QED
  BY <1>1, <1>2 DEF Config

LEMMA LoadNodeOK ==
  ASSUME Types, NEW c \in Files, Clear(c), NEW m \in Machine
  PROVE  LET n == RunsAs(c, m)
             h == host[m].name
             f == LoadNode(c, m)
         IN  /\ f \in Files /\ Clear(f)
             /\ \A k \in Name \ {n} : f[k] = c[k]
             /\ n # h \/ c[h].node # NoNode => \A k \in Name : f[k].node = c[k].node
             /\ n = h /\ c[h].node = NoNode =>
                  \/ f[h].node = NoNode
                  \/ f[h].node = [id |-> Id[m], portable |-> DetectNICs(m).portable]
             /\ f[n] # c[n] /\ n \notin Peers(c) => f[n].mesh.id = Id[m]
             /\ f[n] # c[n] /\ n \in Peers(c) =>
                  f[n].mesh = Refreshed(LoadMesh(c)[n], DetectNICs(m), Id[m])
<1> DEFINE n == RunsAs(c, m)
           h == host[m].name
           nic == DetectNICs(m)
<1>1. n \in Name /\ h \in Name /\ Id[m] \in Ids
  BY RunsAsOK DEF Types, Around, Ids
<1>2. nic \in [macs : SUBSET Mac, portable : SUBSET Mac]
  BY NicsOK
<1>3. CASE c[h].node # NoNode
  <2>1. LoadNode(c, m) = c
    BY <1>3 DEF LoadNode
  <2> QED
    BY <1>1, <1>3, <2>1
<1>4. CASE c[h].node = NoNode /\ n # h
  <2>1. LoadNode(c, m) = Refresh(c, n, nic, Id[m])
    BY <1>4 DEF LoadNode
  <2> HIDE DEF n, h, nic
  <2> QED
    BY <1>1, <1>2, <1>4, <2>1, RefreshOK DEF n, h, nic
<1>5. CASE c[h].node = NoNode /\ n = h /\ h \in FindPeerByIdentity(c, m)
  <2>1. LoadNode(c, m) = Refresh(c, h, nic, Id[m])
    BY <1>5 DEF LoadNode
  <2> HIDE DEF n, h, nic
  <2> QED
    BY <1>1, <1>2, <1>5, <2>1, RefreshOK DEF n, h, nic
<1>6. CASE c[h].node = NoNode /\ n = h /\ h \notin FindPeerByIdentity(c, m)
  <2>1. LoadNode(c, m) = Register(c, m)
    BY <1>6 DEF LoadNode
  <2> HIDE DEF n, h, nic
  <2> QED
    BY <1>1, <1>2, <1>6, <2>1, RegisterOK DEF n, h, nic
<1> QED
  BY <1>3, <1>4, <1>5, <1>6

LEMMA SyncOK ==
  ASSUME Types, NEW c \in Files, Clear(c), NEW m \in Machine, NEW node \in Node
  PROVE  LET h == host[m].name
             f == SyncSelfToMesh(c, m, node)
             nic == [DetectNICs(m) EXCEPT !.portable = @ \cup node.portable]
             id  == IF Id[m] # NoId THEN Id[m] ELSE node.id
         IN  /\ f \in Files /\ Clear(f)
             /\ \A k \in Name : f[k].node = c[k].node
             /\ \A k \in Name \ {h} : f[k] = c[k]
             /\ h \notin Peers(c) => f = c
             /\ h \in Peers(c) =>
                  /\ f[h].mesh = Refreshed(LoadMesh(c)[h], nic, id)
                  /\ f[h].mesh.macs \cap node.portable = {}
<1> DEFINE h == host[m].name
           nic == [DetectNICs(m) EXCEPT !.portable = @ \cup node.portable]
           id  == IF Id[m] # NoId THEN Id[m] ELSE node.id
<1>1. h \in Name /\ id \in Ids
  BY DEF Types, Around, Ids, Node
<1>2. DetectNICs(m) \in [macs : SUBSET Mac, portable : SUBSET Mac] /\ node.portable \in SUBSET Mac
  BY NicsOK DEF Node
<1>3. nic \in [macs : SUBSET Mac, portable : SUBSET Mac] /\ node.portable \subseteq nic.portable
  BY <1>2
<1>4. SyncSelfToMesh(c, m, node) = Refresh(c, h, nic, id)
  BY DEF SyncSelfToMesh
<1> HIDE DEF h, nic, id
<1>5. h \in Peers(c) => Refreshed(LoadMesh(c)[h], nic, id).macs \cap node.portable = {}
  BY <1>1, <1>3, MeshOK, RefreshedOK
<1> DEFINE f == Refresh(c, h, nic, id)
<1>6. /\ f \in Files /\ Clear(f)
      /\ \A k \in Name : f[k].node = c[k].node
      /\ \A k \in Name \ {h} : f[k] = c[k]
      /\ h \notin Peers(c) => f = c
      /\ h \in Peers(c) => f[h].mesh = Refreshed(LoadMesh(c)[h], nic, id)
  BY <1>1, <1>3, RefreshOK
<1>7. h \in Peers(c) => f[h].mesh.macs \cap node.portable = {}
  BY <1>5, <1>6
<1>8. f = SyncSelfToMesh(c, m, node)
  BY <1>4
<1> HIDE DEF f
<1> QED
  BY <1>6, <1>7, <1>8 DEF h, nic, id

LEMMA PushedOK ==
  ASSUME NEW box \in [Name -> Box], NEW h \in Name, NEW m \in Machine,
         NEW c \in Files, NEW b \in Files, NEW n \in 0..MaxStarts
  PROVE  LET p == Pushed(box, h, m, c, b, n)
         IN  /\ p \in [Name -> Box]
             /\ \A k \in Name \ {h} : p[k] = box[k]
             /\ p[h].by = m
             /\ \A k \in DOMAIN p[h].files :
                  k \in Name /\ p[h].files[k] = c[k] /\ c[k] # b[k]
<1> DEFINE new == [by |-> m, at |-> n, files |-> [k \in Changed(c, b) |-> c[k]]]
<1>1. Changed(c, b) \in SUBSET Name
  BY DEF Changed
<1>2. [k \in Changed(c, b) |-> c[k]] \in [Changed(c, b) -> File]
  BY <1>1 DEF Files
<1>3. new \in Box
  BY <1>1, <1>2 DEF Box
<1>4. Pushed(box, h, m, c, b, n) = [box EXCEPT ![h] = new]
  BY DEF Pushed
<1>5. \A k \in DOMAIN new.files : k \in Name /\ new.files[k] = c[k] /\ c[k] # b[k]
  BY <1>1 DEF Changed
<1>6. new.by = m
  OBVIOUS
<1> HIDE DEF new
<1> QED
  BY <1>3, <1>4, <1>5, <1>6

\* What a start leaves: everything of it that the invariants tell apart.
LEMMA StartLeaves ==
  ASSUME Types, NEW m \in Machine, Start(m)
  PROVE  LET c0 == checkout[m]
             c1 == LoadNode(c0, m)
             c2 == SyncSelfToMesh(c1, m, Config(c0, m))
             n  == RunsAs(c0, m)
             h  == host[m].name
         IN  /\ starts' = starts + 1 /\ starts' \in 0..MaxStarts
             /\ n \in Name /\ h \in Name
             /\ c0 \in Files /\ Clear(c0) /\ c1 \in Files /\ Clear(c1)
             /\ c2 \in Files /\ Clear(c2)
             /\ as' = [as EXCEPT ![m] = n]
             /\ checkout' = [checkout EXCEPT ![m] = c2]
             /\ mailbox' \in [Name -> Box]
             /\ \A k \in Name : \/ mailbox'[k] = mailbox[k]
                                \/ /\ k \in {n, h} /\ mailbox'[k].by = m
                                   /\ \A j \in DOMAIN mailbox'[k].files :
                                        /\ j \in Name
                                        /\ mailbox'[k].files[j] \in {c1[j], c2[j]} \ {base[m][j]}
             /\ writers' = [k \in Name |-> IF mailbox'[k] # mailbox[k]
                                           THEN writers[k] \cup {m} ELSE writers[k]]
             /\ calm' = [calm EXCEPT ![m] = TRUE]
             /\ UNCHANGED <<host, main, base, merged, changes, dropped>>
<1> DEFINE c0 == checkout[m]
           c1 == LoadNode(c0, m)
           node == Config(c0, m)
           c2 == SyncSelfToMesh(c1, m, node)
           n  == RunsAs(c0, m)
           h  == host[m].name
           t  == starts + 1
           b1 == Submitted(mailbox, n, m, c0, c1, t)
           b2 == Submitted(b1, h, m, c1, c2, t)
<1>1. c0 \in Files /\ Clear(c0) /\ base[m] \in Files /\ h \in Name /\ mailbox \in [Name -> Box]
  BY DEF Types, Around
<1>2. c1 \in Files /\ Clear(c1) /\ n \in Name /\ node \in Node
  <2> HIDE DEF c0
  <2> QED
    BY <1>1, LoadNodeOK, RunsAsOK, ConfigOK
<1>3. c2 \in Files /\ Clear(c2)
  <2> HIDE DEF c0, c1, node
  <2> QED
    BY <1>1, <1>2, SyncOK
<1>4. t \in 0..MaxStarts /\ starts' = t
  BY FleetKnown DEF Types, Start
<1>5. /\ as' = [as EXCEPT ![m] = n]
      /\ checkout' = [checkout EXCEPT ![m] = c2]
      /\ mailbox' \in {mailbox, b1, b2}
      /\ writers' = [k \in Name |-> IF mailbox'[k] # mailbox[k]
                                    THEN writers[k] \cup {m} ELSE writers[k]]
      /\ calm' = [calm EXCEPT ![m] = TRUE]
      /\ UNCHANGED <<host, main, base, merged, changes, dropped>>
  BY DEF Start
<1> DEFINE Fits(b) == \A k \in Name :
             \/ b[k] = mailbox[k]
             \/ /\ k \in {n, h} /\ b[k].by = m
                /\ \A j \in DOMAIN b[k].files :
                     j \in Name /\ b[k].files[j] \in {c1[j], c2[j]} \ {base[m][j]}
<1>6. /\ b1 = IF c1[n] = c0[n] THEN mailbox ELSE Pushed(mailbox, n, m, c1, base[m], t)
      /\ b2 = IF c2[h] = c1[h] THEN b1 ELSE Pushed(b1, h, m, c2, base[m], t)
  BY DEF Submitted
<1> HIDE DEF c0, c1, node, c2, n, h, t, b1, b2
<1>7. b1 \in [Name -> Box] /\ Fits(b1)
  <2>1. CASE b1 = mailbox
    BY <1>1, <2>1
  <2>2. CASE b1 = Pushed(mailbox, n, m, c1, base[m], t)
    BY <1>1, <1>2, <1>4, <2>2, PushedOK
  <2> QED
    BY <1>6, <2>1, <2>2
<1>8. b2 \in [Name -> Box] /\ Fits(b2)
  <2>1. CASE b2 = b1
    BY <1>7, <2>1
  <2>2. CASE b2 = Pushed(b1, h, m, c2, base[m], t)
    <3>1. /\ b2 \in [Name -> Box]
          /\ \A k \in Name \ {h} : b2[k] = b1[k]
          /\ b2[h].by = m
          /\ \A k \in DOMAIN b2[h].files :
               k \in Name /\ b2[h].files[k] = c2[k] /\ c2[k] # base[m][k]
      BY <1>1, <1>3, <1>4, <1>7, <2>2, PushedOK
    <3> QED
      BY <1>7, <3>1
  <2> QED
    BY <1>6, <2>1, <2>2
<1>9. mailbox' \in [Name -> Box] /\ Fits(mailbox')
  BY <1>1, <1>5, <1>7, <1>8
<1> QED
  BY <1>1, <1>2, <1>3, <1>4, <1>5, <1>9 DEF c0, c1, node, c2, n, h, t

LEMMA StartTypes ==
  ASSUME Types, NEW m \in Machine, Start(m)
  PROVE  Types'
<1> DEFINE c0 == checkout[m]
           c1 == LoadNode(c0, m)
           c2 == SyncSelfToMesh(c1, m, Config(c0, m))
           n  == RunsAs(c0, m)
<1>1. /\ starts' \in 0..MaxStarts /\ n \in Name
      /\ c1 \in Files /\ Clear(c1) /\ c2 \in Files /\ Clear(c2)
      /\ as' = [as EXCEPT ![m] = n]
      /\ checkout' = [checkout EXCEPT ![m] = c2]
      /\ mailbox' \in [Name -> Box]
      /\ \A k \in Name : \/ mailbox'[k] = mailbox[k]
                         \/ \A j \in DOMAIN mailbox'[k].files :
                              j \in Name /\ mailbox'[k].files[j] \in {c1[j], c2[j]}
      /\ writers' = [k \in Name |-> IF mailbox'[k] # mailbox[k]
                                    THEN writers[k] \cup {m} ELSE writers[k]]
      /\ calm' = [calm EXCEPT ![m] = TRUE]
      /\ UNCHANGED <<host, main, base, merged, changes, dropped>>
  BY StartLeaves
<1> HIDE DEF c0, c1, c2, n
<1>2. \A k \in Name : \A j \in DOMAIN mailbox'[k].files : Apart(mailbox'[k].files[j])
  <2>1. \A j \in Name : Apart(c1[j]) /\ Apart(c2[j])
    BY <1>1 DEF Clear, Apart
  <2>2. \A k \in Name : \A j \in DOMAIN mailbox[k].files : Apart(mailbox[k].files[j])
    BY DEF Types
  <2> QED
    BY <1>1, <2>1, <2>2
<1>3. /\ checkout' \in [Machine -> Files] /\ \A k \in Machine : Clear(checkout'[k])
      /\ as' \in [Machine -> Name \cup {Down}]
      /\ writers' \in [Name -> SUBSET Machine] /\ calm' \in [Machine -> BOOLEAN]
  BY <1>1 DEF Types
<1> QED
  BY <1>1, <1>2, <1>3 DEF Types, Clear

LEMMA RebasedOK ==
  ASSUME Types, NEW m \in Machine
  PROVE  /\ Rebased(m) \in Files /\ Clear(Rebased(m))
         /\ \A h \in Name : Rebased(m)[h].mesh \in {checkout[m][h].mesh, main[h].mesh}
<1> DEFINE c == checkout[m]
           r == Rebased(m)
<1>1. c \in Files /\ main \in Files /\ Clear(c) /\ Clear(main)
  BY DEF Types
<1>2. \A h \in Name :
        /\ r[h].mesh \in {c[h].mesh, main[h].mesh} /\ r[h].node \in {c[h].node, main[h].node}
        /\ r[h] = [mesh |-> r[h].mesh, node |-> r[h].node]
  BY DEF Rebased
<1>3. DOMAIN r = Name /\ r = [h \in Name |-> r[h]]
  BY DEF Rebased
<1> HIDE DEF c, r
<1>4. \A h \in Name : r[h] \in File
  <2> SUFFICES ASSUME NEW h \in Name PROVE r[h] \in File
    OBVIOUS
  <2>1. c[h] \in File /\ main[h] \in File
    BY <1>1 DEF Files
  <2> DEFINE mesh == r[h].mesh
             node == r[h].node
  <2>2. mesh \in Entry \cup {NoEntry} /\ node \in Node \cup {NoNode}
    BY <1>2, <2>1 DEF File
  <2>3. r[h] = [mesh |-> mesh, node |-> node]
    BY <1>2
  <2> HIDE DEF mesh, node
  <2> QED
    BY <2>2, <2>3 DEF File
<1>5. Clear(r)
  BY <1>1, <1>2 DEF Clear
<1> QED
  BY <1>2, <1>3, <1>4, <1>5 DEF Files, c, r

\* What m's pull leaves when its checkout becomes c.
Pulled(m, c) ==
  /\ c \in Files /\ Clear(c)
  /\ checkout' = [checkout EXCEPT ![m] = c]
  /\ base' = [base EXCEPT ![m] = main]
  /\ calm' = [calm EXCEPT ![m] = @ /\ c = checkout[m]]
  /\ as[m] \in Name
  /\ mailbox' \in [Name -> Box]
  /\ \A k \in Name : \/ mailbox'[k] = mailbox[k]
                     \/ /\ mailbox'[k].by = m
                        /\ \A j \in DOMAIN mailbox'[k].files :
                             j \in Name /\ mailbox'[k].files[j] = c[j] /\ c[j] # main[j]
  /\ writers' \in {writers, [writers EXCEPT ![as[m]] = @ \cup {m}]}
  /\ UNCHANGED <<host, main, merged, as, starts, changes, dropped>>

LEMMA PullLeaves ==
  ASSUME Types, NEW m \in Machine, Pull(m)
  PROVE  /\ \E c \in {Rebased(m), main} : Pulled(m, c)
         /\ \E c \in {Rebased(m), main} : Pulled(m, c) /\ (c = Rebased(m) \/ Conflicts(m))
<1>1. PICK c \in {Rebased(m), main} :
        /\ checkout' = [checkout EXCEPT ![m] = c]
        /\ calm' = [calm EXCEPT ![m] = @ /\ c = checkout[m]]
        /\ c = Rebased(m) \/ Conflicts(m)
        /\ IF c = main THEN UNCHANGED <<mailbox, writers>>
           ELSE /\ mailbox' = Pushed(mailbox, as[m], m, c, main, starts)
                /\ writers' = [writers EXCEPT ![as[m]] = @ \cup {m}]
  BY DEF Pull
<1>2. /\ as[m] # Down /\ base' = [base EXCEPT ![m] = main]
      /\ UNCHANGED <<host, main, merged, as, starts, changes, dropped>>
  BY DEF Pull
<1>3. /\ as[m] \in Name /\ main \in Files /\ Clear(main)
      /\ mailbox \in [Name -> Box] /\ starts \in 0..MaxStarts
  BY <1>2 DEF Types
<1>4. c \in Files /\ Clear(c)
  BY <1>1, <1>3, RebasedOK
<1>5. ASSUME c = main PROVE Pulled(m, c)
  BY <1>1, <1>2, <1>3, <1>4, <1>5 DEF Pulled
<1>6. ASSUME c # main PROVE Pulled(m, c)
  <2>1. mailbox' = Pushed(mailbox, as[m], m, c, main, starts)
    BY <1>1, <1>6
  <2>2. /\ mailbox' \in [Name -> Box]
        /\ \A k \in Name \ {as[m]} : mailbox'[k] = mailbox[k]
        /\ mailbox'[as[m]].by = m
        /\ \A j \in DOMAIN mailbox'[as[m]].files :
             j \in Name /\ mailbox'[as[m]].files[j] = c[j] /\ c[j] # main[j]
    <3> DEFINE h == as[m]
    <3> HIDE DEF h
    <3>1. h \in Name
      BY <1>3 DEF h
    <3>2. mailbox' = Pushed(mailbox, h, m, c, main, starts)
      BY <2>1 DEF h
    <3>3. /\ mailbox' \in [Name -> Box]
          /\ \A k \in Name \ {h} : mailbox'[k] = mailbox[k]
          /\ mailbox'[h].by = m
          /\ \A j \in DOMAIN mailbox'[h].files :
               j \in Name /\ mailbox'[h].files[j] = c[j] /\ c[j] # main[j]
      BY <1>3, <1>4, <3>1, <3>2, PushedOK
    <3> QED
      BY <3>3 DEF h
  <2> QED
    BY <1>1, <1>2, <1>3, <1>4, <1>6, <2>2 DEF Pulled
<1> QED
  BY <1>1, <1>5, <1>6

LEMMA PullTypes ==
  ASSUME Types, NEW m \in Machine, Pull(m)
  PROVE  Types'
<1> PICK c \in {Rebased(m), main} : Pulled(m, c)
  BY PullLeaves
<1>1. /\ c \in Files /\ Clear(c)
      /\ checkout' = [checkout EXCEPT ![m] = c]
      /\ base' = [base EXCEPT ![m] = main]
      /\ calm' = [calm EXCEPT ![m] = @ /\ c = checkout[m]]
      /\ as[m] \in Name
      /\ mailbox' \in [Name -> Box]
      /\ \A k \in Name : \/ mailbox'[k] = mailbox[k]
                         \/ \A j \in DOMAIN mailbox'[k].files :
                              j \in Name /\ mailbox'[k].files[j] = c[j]
      /\ writers' \in {writers, [writers EXCEPT ![as[m]] = @ \cup {m}]}
      /\ UNCHANGED <<host, main, merged, as, starts, changes, dropped>>
  BY DEF Pulled
<1>2. \A k \in Name : \A j \in DOMAIN mailbox'[k].files : Apart(mailbox'[k].files[j])
  <2>1. \A j \in Name : Apart(c[j])
    BY <1>1 DEF Clear, Apart
  <2>2. \A k \in Name : \A j \in DOMAIN mailbox[k].files : Apart(mailbox[k].files[j])
    BY DEF Types
  <2> QED
    BY <1>1, <2>1, <2>2
<1>3. checkout' \in [Machine -> Files] /\ \A k \in Machine : Clear(checkout'[k])
  BY <1>1 DEF Types
<1>4. base' \in [Machine -> Files]
  BY <1>1 DEF Types
<1>6. writers' \in [Name -> SUBSET Machine]
  <2>1. writers \in [Name -> SUBSET Machine]
    BY DEF Types
  <2>2. [writers EXCEPT ![as[m]] = @ \cup {m}] \in [Name -> SUBSET Machine]
    BY <1>1, <2>1
  <2>3. writers' \in {writers, [writers EXCEPT ![as[m]] = @ \cup {m}]}
    BY <1>1
  <2> QED
    BY <2>1, <2>2, <2>3
<1>5. calm' \in [Machine -> BOOLEAN]
  BY <1>1 DEF Types
<1> QED
  BY <1>1, <1>2, <1>3, <1>4, <1>5, <1>6 DEF Types, Clear

LEMMA MergeOK ==
  ASSUME Types, NEW h \in Name, MergeMailbox(h)
  PROVE  /\ main' \in Files /\ Clear(main') /\ merged' \in [Machine -> 0..MaxStarts]
         /\ \A k \in Name :
              \/ main'[k].mesh = main[k].mesh
              \/ k \in DOMAIN mailbox[h].files /\ main'[k].mesh = mailbox[h].files[k].mesh
         /\ \A k \in Name : main'[k] = main[k] \/ k \in DOMAIN mailbox[h].files
         /\ UNCHANGED <<host, checkout, base, mailbox, as, starts, changes, writers, calm, dropped>>
<1> DEFINE box == mailbox[h]
<1>1. box \in Box /\ main \in Files /\ Clear(main)
  BY DEF Types
<1>2. /\ main' = [k \in Name |->
             IF k \notin DOMAIN box.files THEN main[k]
             ELSE [mesh |-> box.files[k].mesh,
                   node |-> IF main[k].node = NoNode THEN box.files[k].node ELSE main[k].node]]
      /\ box.by # Down
      /\ merged' = [merged EXCEPT ![box.by] = box.at]
      /\ UNCHANGED <<host, checkout, base, mailbox, as, starts, changes, writers, calm, dropped>>
  BY DEF MergeMailbox
<1>3. \A k \in DOMAIN box.files : k \in Name /\ box.files[k] \in File /\ Apart(box.files[k])
  BY <1>1 DEF Types, Box
<1>4. box.by \in Machine /\ box.at \in 0..MaxStarts
  BY <1>1, <1>2 DEF Box
<1>5. merged' \in [Machine -> 0..MaxStarts]
  BY <1>2, <1>4 DEF Types
<1> HIDE DEF box
<1>6. \A k \in Name :
        /\ k \notin DOMAIN box.files => main'[k] = main[k]
        /\ k \in DOMAIN box.files =>
             main'[k] = [mesh |-> box.files[k].mesh,
                         node |-> IF main[k].node = NoNode THEN box.files[k].node ELSE main[k].node]
  BY <1>2
<1>7. \A k \in Name : main'[k] \in File /\ Apart(main'[k])
  <2> SUFFICES ASSUME NEW k \in Name PROVE main'[k] \in File /\ Apart(main'[k])
    OBVIOUS
  <2>1. main[k] \in File /\ Apart(main[k])
    BY <1>1 DEF Files, Clear, Apart
  <2>2. CASE k \notin DOMAIN box.files
    BY <1>6, <2>1, <2>2
  <2>3. CASE k \in DOMAIN box.files
    <3>1. box.files[k] \in File /\ Apart(box.files[k])
      BY <1>3, <2>3
    <3>2. main'[k] = [mesh |-> box.files[k].mesh,
                      node |-> IF main[k].node = NoNode THEN box.files[k].node ELSE main[k].node]
      BY <1>6, <2>3
    <3>3. main'[k].mesh = box.files[k].mesh
      BY <3>2
    <3>4. main'[k] \in File
      BY <2>1, <3>1, <3>2 DEF File
    <3> QED
      BY <3>1, <3>3, <3>4 DEF Apart
  <2> QED
    BY <2>2, <2>3
<1>8. main' \in Files
  BY <1>2, <1>7 DEF Files
<1>9. Clear(main')
  BY <1>7 DEF Clear, Apart
<1> QED
  BY <1>2, <1>5, <1>6, <1>8, <1>9 DEF box

LEMMA DeclareOK ==
  ASSUME Types, NEW h \in Name, NEW mac \in Dock, Declare(h, mac)
  PROVE  /\ main' \in Files /\ \A k \in Name : main'[k].mesh = main[k].mesh
         /\ \A k \in Name : main'[k].node # NoNode => main[k].node # NoNode
         /\ changes' \in 0..MaxChanges
         /\ UNCHANGED <<host, checkout, base, mailbox, merged, as, starts, writers, calm, dropped>>
<1>1. main \in Files /\ main[h].node # NoNode /\ mac \in Mac
  BY DEF Types, Declare, Mac
<1>2. main[h].node \in Node
  BY <1>1 DEF Files, File
<1> DEFINE node == [main[h].node EXCEPT !.portable = @ \cup {mac}]
<1>3. node \in Node
  BY <1>1, <1>2 DEF Node
<1>4. main' = [main EXCEPT ![h].node = node]
  BY <1>1, <1>2 DEF Declare, Files, File, Node
<1> HIDE DEF node
<1>5. /\ main' \in Files /\ \A k \in Name : main'[k].mesh = main[k].mesh
      /\ \A k \in Name : main'[k].node # NoNode => main[k].node # NoNode
  BY <1>1, <1>3, <1>4 DEF Files, File
<1>6. changes' \in 0..MaxChanges
  BY FleetKnown DEF Declare, Change, Types
<1> QED
  BY <1>5, <1>6 DEF Declare

LEMMA PlugOK ==
  ASSUME Types, NEW m \in Machine, NEW mac \in Dongle \cup Dock, Plug(m, mac)
  PROVE  /\ host' \in [Machine -> Around] /\ \A k \in Machine : host'[k].name = host[k].name
         /\ calm' \in [Machine -> BOOLEAN] /\ \A k \in Machine : calm'[k] => calm[k]
         /\ changes' \in 0..MaxChanges
         /\ UNCHANGED <<main, checkout, base, mailbox, merged, as, starts, writers, dropped>>
<1>1. changes' \in 0..MaxChanges
  BY FleetKnown DEF Plug, Change, Types
<1>2. \A k \in Machine : host[k] \in Around
  BY DEF Types
<1>3. host' = [n \in Machine |-> [host[n] EXCEPT !.plugged = IF n = m THEN @ \cup {mac} ELSE @ \ {mac}]]
  BY DEF Plug
<1>4. \A k \in Machine : host'[k] \in Around /\ host'[k].name = host[k].name
  BY <1>2, <1>3 DEF Around
<1>5. host' \in [Machine -> Around]
  BY <1>3, <1>4
<1>6. calm' = [n \in Machine |-> calm[n] /\ host'[n] = host[n]]
  BY DEF Plug
<1>7. \A k \in Machine : calm[k] \in BOOLEAN
  BY DEF Types
<1>8. calm' \in [Machine -> BOOLEAN] /\ \A k \in Machine : calm'[k] => calm[k]
  BY <1>6, <1>7
<1> QED
  BY <1>1, <1>4, <1>5, <1>8 DEF Plug

LEMMA RenameOK ==
  ASSUME Types, NEW m \in Machine, NEW h \in Name, Rename(m, h)
  PROVE  /\ host' \in [Machine -> Around] /\ h \in NameOf[m] /\ host'[m].name = h
         /\ \A k \in Machine \ {m} : host'[k] = host[k]
         /\ calm' = [calm EXCEPT ![m] = FALSE]
         /\ changes' \in 0..MaxChanges
         /\ UNCHANGED <<main, checkout, base, mailbox, merged, as, starts, writers, dropped>>
<1>1. changes' \in 0..MaxChanges
  BY FleetKnown DEF Rename, Change, Types
<1>2. host' = [host EXCEPT ![m].name = h] /\ h \in NameOf[m]
  BY DEF Rename
<1>3. host' \in [Machine -> Around] /\ host'[m].name = h /\ \A k \in Machine \ {m} : host'[k] = host[k]
  BY <1>2 DEF Types, Around
<1> QED
  BY <1>1, <1>2, <1>3 DEF Rename

LEMMA OtherTypes ==
  ASSUME Types,
         \/ \E h \in Name : MergeMailbox(h) \/ \E mac \in Dock : Declare(h, mac)
         \/ \E m \in Machine : \/ Reclone(m)
                               \/ \E mac \in Dongle \cup Dock : Plug(m, mac)
                               \/ \E h \in Name : Rename(m, h)
  PROVE  Types'
<1>1. ASSUME NEW h \in Name, MergeMailbox(h) PROVE Types'
  BY <1>1, MergeOK DEF Types, Clear
<1>2. ASSUME NEW h \in Name, NEW mac \in Dock, Declare(h, mac) PROVE Types'
  <2>1. Clear(main')
    BY <1>2, DeclareOK DEF Types, Clear
  <2> QED
    BY <1>2, <2>1, DeclareOK DEF Types, Clear
<1>3. ASSUME NEW m \in Machine, NEW mac \in Dongle \cup Dock, Plug(m, mac) PROVE Types'
  BY <1>3, PlugOK DEF Types, Clear
<1>4. ASSUME NEW m \in Machine, NEW h \in Name, Rename(m, h) PROVE Types'
  <2>1. \A k \in Machine : host'[k].name \in NameOf[k]
    BY <1>4, RenameOK DEF Types
  <2>2. calm' \in [Machine -> BOOLEAN]
    BY <1>4, RenameOK DEF Types
  <2>3. /\ host' \in [Machine -> Around] /\ changes' \in 0..MaxChanges
        /\ UNCHANGED <<main, checkout, base, mailbox, merged, as, starts, writers, dropped>>
    BY <1>4, RenameOK
  <2> QED
    BY <2>1, <2>2, <2>3 DEF Types, Clear
<1>5. ASSUME NEW m \in Machine, Reclone(m) PROVE Types'
  <2>1. changes' \in 0..MaxChanges
    BY <1>5, FleetKnown DEF Reclone, Change, Types
  <2>2. checkout' \in [Machine -> Files] /\ base' \in [Machine -> Files]
        /\ \A k \in Machine : Clear(checkout'[k])
    BY <1>5 DEF Reclone, Types
  <2>3. as' \in [Machine -> Name \cup {Down}] /\ calm' \in [Machine -> BOOLEAN]
    BY <1>5 DEF Reclone, Types
  <2>4. dropped' \in BOOLEAN
    BY <1>5 DEF Reclone, Types
  <2>5. UNCHANGED <<host, main, mailbox, merged, starts, writers>>
    BY <1>5 DEF Reclone
  <2> QED
    BY <2>1, <2>2, <2>3, <2>4, <2>5 DEF Types, Clear
<1> QED
  BY <1>1, <1>2, <1>3, <1>4, <1>5

LEMMA TypesInit == Init => Types
<1> SUFFICES ASSUME Init PROVE Types
  OBVIOUS
<1>1. PICK written \in SUBSET {h \in Name : Legacy[h] # NoEntry} :
        main = [h \in Name |-> IF h \in written
                  THEN [NoFile EXCEPT !.node = [id |-> NoId, portable |-> {}]] ELSE NoFile]
  BY DEF Init
<1>2. NoFile \in File /\ NoFile.mesh = NoEntry
  BY DEF NoFile, File
<1>3. [id |-> NoId, portable |-> {}] \in Node
  BY DEF Node, Ids
<1> DEFINE noted == [NoFile EXCEPT !.node = [id |-> NoId, portable |-> {}]]
<1>4. noted \in File /\ noted.mesh = NoEntry
  BY <1>2, <1>3 DEF File
<1> HIDE DEF noted
<1>5. main \in Files /\ \A h \in Name : main[h].mesh = NoEntry
  BY <1>1, <1>2, <1>4 DEF Files, noted
<1>6. \A h \in Name : << >> \in [{} -> File] /\ mailbox[h] = [by |-> Down, at |-> 0, files |-> << >>]
  BY DEF Init
<1>7. \A h \in Name : mailbox[h] \in Box /\ DOMAIN mailbox[h].files = {}
  <2>1. << >> \in UNION {[S -> File] : S \in SUBSET Name}
    <3>1. << >> \in [{} -> File]
      OBVIOUS
    <3>2. {} \in SUBSET Name
      OBVIOUS
    <3> QED
      BY <3>1, <3>2
  <2>2. 0 \in 0..MaxStarts /\ DOMAIN << >> = {}
    BY FleetKnown
  <2> DEFINE none == << >>
  <2>3. none \in UNION {[S -> File] : S \in SUBSET Name} /\ DOMAIN none = {}
    BY <2>1, <2>2
  <2>4. \A h \in Name : mailbox[h] = [by |-> Down, at |-> 0, files |-> none]
    BY <1>6
  <2> HIDE DEF none
  <2>5. [by |-> Down, at |-> 0, files |-> none] \in Box
    BY <2>2, <2>3 DEF Box
  <2>6. [by |-> Down, at |-> 0, files |-> none].files = none
    OBVIOUS
  <2> QED
    BY <2>3, <2>4, <2>5, <2>6
<1>8. mailbox \in [Name -> Box]
  BY <1>7 DEF Init
<1>9. /\ checkout = [m \in Machine |-> main] /\ base = checkout
      /\ merged = [m \in Machine |-> 0] /\ as = [m \in Machine |-> Down]
      /\ starts = 0 /\ changes = 0 /\ dropped = FALSE
      /\ writers = [h \in Name |-> {}] /\ calm = [m \in Machine |-> FALSE]
      /\ host \in [Machine -> Around] /\ \A m \in Machine : host[m].name \in NameOf[m]
  BY DEF Init, Around
<1>10. Clear(main) /\ \A m \in Machine : checkout[m] = main
  BY <1>5, <1>9 DEF Clear
<1>11. /\ merged \in [Machine -> 0..MaxStarts] /\ starts \in 0..MaxStarts
       /\ changes \in 0..MaxChanges
  BY <1>9, FleetKnown
<1> QED
  BY <1>5, <1>7, <1>8, <1>9, <1>10, <1>11 DEF Types

LEMMA TypesStep == Types /\ [Next]_vars => Types'
<1> SUFFICES ASSUME Types, [Next]_vars PROVE Types'
  OBVIOUS
<1>1. CASE UNCHANGED vars
  BY <1>1 DEF vars, Types, Clear
<1>2. CASE Next
  BY <1>2, StartTypes, PullTypes, OtherTypes DEF Next
<1> QED
  BY <1>1, <1>2

\* The types of the files, the mailboxes and the daemons, and that a MAC is never
\* identity and portable in one entry (identity.go's merge of what is detected).
THEOREM IdentityTypes == Spec => []TypeOK
<1>1. Types => TypeOK
  <2> SUFFICES ASSUME Types PROVE TypeOK
    OBVIOUS
  <2>1. \A h \in Name : mailbox[h].at \in 0..MaxStarts /\ DOMAIN mailbox[h].files \subseteq Name
    BY DEF Types, Box
  <2>2. \A m \in Machine : host[m].plugged \subseteq Dongle \cup Dock
    BY DEF Types, Around
  <2> QED
    BY <2>1, <2>2 DEF Types, TypeOK, Files
<1> QED
  BY <1>1, TypesInit, TypesStep, PTL DEF Spec

(***************************************************************************)
(* One mailbox, one writer.                                                *)
(***************************************************************************)
\* An entry that a machine wrote has an id, and a machine's id stands only under
\* its names.
Owned(h, f) ==
  f.mesh # NoEntry =>
    f.mesh.id # NoId /\ \A m \in Machine : f.mesh.id = Id[m] => h \in NameOf[m]

AllOwned(c) == \A h \in Name : Owned(h, c[h])

\* Wherever an entry is on its way between machines, it is owned; so a machine
\* that matches itself, in however old a checkout, finds a name of its own.
Ownership ==
  /\ AllOwned(main) /\ \A m \in Machine : AllOwned(checkout[m])
  /\ \A h \in Name : \A k \in DOMAIN mailbox[h].files : Owned(k, mailbox[h].files[k])
  /\ \A m \in Machine : as[m] # Down => as[m] \in NameOf[m]
  /\ \A h \in Name : \A m \in writers[h] : h \in NameOf[m]

LEMMA MatchOK ==
  ASSUME MachinesDiffer, Types, NEW c \in Files, AllOwned(c), NEW m \in Machine
  PROVE  RunsAs(c, m) \in NameOf[m]
<1>1. ASSUME NEW h \in FindPeerByIdentity(c, m) PROVE h \in NameOf[m]
  <2>1. h \in Name /\ h \in Peers(c) /\ LoadMesh(c)[h] # NoEntry
    BY <1>1 DEF FindPeerByIdentity, ById, ByMac, Peers
  <2>2. \/ LoadMesh(c)[h].id = Id[m]
        \/ /\ DetectNICs(m).macs \cap LoadMesh(c)[h].macs # {}
           /\ LoadMesh(c)[h].id \in {NoId, Id[m]}
    BY <1>1 DEF FindPeerByIdentity, ById, ByMac, MachinesDiffer
  <2>3. CASE c[h].mesh # NoEntry
    <3>1. LoadMesh(c)[h] = c[h].mesh /\ Owned(h, c[h])
      BY <2>1, <2>3, MeshOK DEF AllOwned
    <3> QED
      BY <2>2, <2>3, <3>1 DEF Owned
  <2>4. CASE c[h].mesh = NoEntry
    <3>1. LoadMesh(c)[h] = Legacy[h] /\ Legacy[h] # NoEntry
      BY <2>1, <2>4, MeshOK
    <3>2. DetectNICs(m).macs \subseteq BuiltIn[m] \cup Dock
      BY NicsOK
    <3> QED
      BY <2>1, <2>2, <3>1, <3>2 DEF MachinesDiffer
  <2> QED
    BY <2>3, <2>4
<1>2. host[m].name \in NameOf[m]
  BY DEF Types
<1> QED
  BY <1>1, <1>2, RunsAsOK

LEMMA RefreshedOwned ==
  ASSUME MachinesDiffer, NEW c \in Files, AllOwned(c), NEW m \in Machine,
         NEW h \in NameOf[m], h \in Peers(c), NEW f,
         NEW nic \in [macs : SUBSET Mac, portable : SUBSET Mac],
         f.mesh = Refreshed(LoadMesh(c)[h], nic, Id[m])
  PROVE  Owned(h, f)
<1> DEFINE e == LoadMesh(c)[h]
<1>1. h \in Name /\ e \in Entry /\ Id[m] \in Ids
  BY FleetKnown, MeshOK DEF Ids
<1>2. f.mesh.id = IF e.id = NoId THEN Id[m] ELSE e.id
  <2> HIDE DEF e
  <2> QED
    BY <1>1, RefreshedOK DEF e
<1>3. ASSUME NEW k \in Machine, e.id = Id[k] PROVE h \in NameOf[k]
  <2>1. CASE c[h].mesh # NoEntry
    BY <1>1, <1>3, <2>1, MeshOK DEF AllOwned, Owned
  <2>2. CASE c[h].mesh = NoEntry
    <3>1. e = Legacy[h] /\ Legacy[h] # NoEntry
      BY <1>1, <2>2, MeshOK, FleetKnown
    <3> QED
      BY <1>1, <1>3, <3>1 DEF MachinesDiffer
  <2> QED
    BY <2>1, <2>2
<1>4. Id[m] # NoId /\ \A k \in Machine : Id[m] = Id[k] => k = m
  BY DEF MachinesDiffer
<1> HIDE DEF e
<1> QED
  BY <1>2, <1>3, <1>4 DEF Owned

LEMMA LoadedOwned ==
  ASSUME MachinesDiffer, Types, NEW c \in Files, Clear(c), AllOwned(c), NEW m \in Machine
  PROVE  AllOwned(LoadNode(c, m))
<1> DEFINE n == RunsAs(c, m)
           f == LoadNode(c, m)
<1>1. n \in Name /\ n \in NameOf[m]
  BY MatchOK, RunsAsOK
<1>2. /\ \A k \in Name \ {n} : f[k] = c[k]
      /\ f[n] # c[n] /\ n \notin Peers(c) => f[n].mesh.id = Id[m]
      /\ f[n] # c[n] /\ n \in Peers(c) =>
           f[n].mesh = Refreshed(LoadMesh(c)[n], DetectNICs(m), Id[m])
  BY LoadNodeOK
<1> HIDE DEF n, f
<1>3. CASE f[n] = c[n]
  BY <1>2, <1>3 DEF AllOwned, f
<1>4. CASE f[n] # c[n] /\ n \notin Peers(c)
  <2>1. Owned(n, f[n])
    BY <1>1, <1>2, <1>4 DEF Owned, MachinesDiffer
  <2> QED
    BY <1>2, <2>1 DEF AllOwned, f
<1>5. CASE f[n] # c[n] /\ n \in Peers(c)
  <2>1. DetectNICs(m) \in [macs : SUBSET Mac, portable : SUBSET Mac]
    BY NicsOK
  <2>2. Owned(n, f[n])
    BY <1>1, <1>2, <1>5, <2>1, RefreshedOwned
  <2> QED
    BY <1>2, <2>2 DEF AllOwned, f
<1> QED
  BY <1>3, <1>4, <1>5

LEMMA SyncedOwned ==
  ASSUME MachinesDiffer, Types, NEW c \in Files, Clear(c), AllOwned(c), NEW m \in Machine,
         NEW node \in Node
  PROVE  AllOwned(SyncSelfToMesh(c, m, node))
<1> DEFINE h == host[m].name
           f == SyncSelfToMesh(c, m, node)
           nic == [DetectNICs(m) EXCEPT !.portable = @ \cup node.portable]
<1>1. h \in Name /\ h \in NameOf[m]
  BY DEF Types, Around
<1>2. Id[m] # NoId
  BY DEF MachinesDiffer
<1>3. /\ \A k \in Name \ {h} : f[k] = c[k]
      /\ h \notin Peers(c) => f = c
      /\ h \in Peers(c) => f[h].mesh = Refreshed(LoadMesh(c)[h], nic, Id[m])
  BY <1>2, SyncOK
<1>4. nic \in [macs : SUBSET Mac, portable : SUBSET Mac]
  BY NicsOK DEF Node
<1> HIDE DEF h, f, nic
<1>5. CASE h \notin Peers(c)
  BY <1>3, <1>5 DEF f
<1>6. CASE h \in Peers(c)
  <2>1. Owned(h, f[h])
    BY <1>1, <1>3, <1>4, <1>6, RefreshedOwned
  <2> QED
    BY <1>3, <2>1 DEF AllOwned, f
<1> QED
  BY <1>5, <1>6

LEMMA StartOwned ==
  ASSUME MachinesDiffer, Types, Ownership, NEW m \in Machine, Start(m)
  PROVE  Ownership'
<1> DEFINE c0 == checkout[m]
           c1 == LoadNode(c0, m)
           c2 == SyncSelfToMesh(c1, m, Config(c0, m))
           n  == RunsAs(c0, m)
           h  == host[m].name
<1>1. /\ c0 \in Files /\ Clear(c0) /\ c1 \in Files /\ Clear(c1)
      /\ as' = [as EXCEPT ![m] = n]
      /\ checkout' = [checkout EXCEPT ![m] = c2]
      /\ \A k \in Name : \/ mailbox'[k] = mailbox[k]
                         \/ /\ k \in {n, h}
                            /\ \A j \in DOMAIN mailbox'[k].files :
                                 j \in Name /\ mailbox'[k].files[j] \in {c1[j], c2[j]}
      /\ writers' = [k \in Name |-> IF mailbox'[k] # mailbox[k]
                                    THEN writers[k] \cup {m} ELSE writers[k]]
      /\ UNCHANGED main
  BY StartLeaves
<1>2. AllOwned(c0)
  BY DEF Ownership
<1>3. n \in NameOf[m] /\ h \in NameOf[m]
  BY <1>1, <1>2, MatchOK DEF Types
<1>4. AllOwned(c1)
  BY <1>1, <1>2, LoadedOwned
<1>5. Config(c0, m) \in Node
  BY <1>1, ConfigOK
<1>6. AllOwned(c2)
  <2> HIDE DEF c0, c1
  <2> QED
    BY <1>1, <1>4, <1>5, SyncedOwned
<1> HIDE DEF c0, c1, c2, n, h
<1>7. \A k \in Machine : AllOwned(checkout'[k])
  BY <1>1, <1>6 DEF Ownership, Types
<1>8. \A k \in Name : \A j \in DOMAIN mailbox'[k].files : Owned(j, mailbox'[k].files[j])
  <2>1. \A j \in Name : Owned(j, c1[j]) /\ Owned(j, c2[j])
    BY <1>4, <1>6 DEF AllOwned
  <2>2. \A k \in Name : \A j \in DOMAIN mailbox[k].files : Owned(j, mailbox[k].files[j])
    BY DEF Ownership
  <2> QED
    BY <1>1, <2>1, <2>2
<1>9. \A k \in Machine : as'[k] # Down => as'[k] \in NameOf[k]
  BY <1>1, <1>3 DEF Ownership, Types
<1>10. \A k \in Name : \A w \in writers'[k] : k \in NameOf[w]
  BY <1>1, <1>3 DEF Ownership
<1>11. AllOwned(main')
  BY <1>1 DEF Ownership, AllOwned
<1> QED
  BY <1>7, <1>8, <1>9, <1>10, <1>11 DEF Ownership, AllOwned

LEMMA PullOwned ==
  ASSUME Types, Ownership, NEW m \in Machine, Pull(m)
  PROVE  Ownership'
<1> PICK c \in {Rebased(m), main} : Pulled(m, c)
  BY PullLeaves
<1>1. /\ checkout' = [checkout EXCEPT ![m] = c]
      /\ \A k \in Name : \/ mailbox'[k] = mailbox[k]
                         \/ \A j \in DOMAIN mailbox'[k].files :
                              j \in Name /\ mailbox'[k].files[j] = c[j]
      /\ writers' \in {writers, [writers EXCEPT ![as[m]] = @ \cup {m}]}
      /\ as[m] \in Name
      /\ UNCHANGED <<main, as>>
  BY DEF Pulled
<1>2. AllOwned(c)
  <2>1. \A h \in Name : c[h].mesh \in {checkout[m][h].mesh, main[h].mesh}
    BY RebasedOK
  <2> QED
    BY <2>1 DEF Ownership, AllOwned, Owned
<1>3. \A k \in Machine : AllOwned(checkout'[k])
  BY <1>1, <1>2 DEF Ownership, Types
<1>4. \A k \in Name : \A j \in DOMAIN mailbox'[k].files : Owned(j, mailbox'[k].files[j])
  <2>1. \A j \in Name : Owned(j, c[j])
    BY <1>2 DEF AllOwned
  <2>2. \A k \in Name : \A j \in DOMAIN mailbox[k].files : Owned(j, mailbox[k].files[j])
    BY DEF Ownership
  <2> QED
    BY <1>1, <2>1, <2>2
<1>5. as[m] \in NameOf[m]
  BY DEF Pull, Ownership
<1>6. \A k \in Name : \A w \in writers'[k] : k \in NameOf[w]
  <2>1. \A k \in Name : writers'[k] = writers[k] \/ (k = as[m] /\ writers'[k] = writers[k] \cup {m})
    <3>1. writers \in [Name -> SUBSET Machine]
      BY DEF Types
    <3>2. CASE writers' = writers
      BY <3>2
    <3>3. CASE writers' = [writers EXCEPT ![as[m]] = @ \cup {m}]
      BY <1>1, <3>1, <3>3
    <3> QED
      BY <1>1, <3>2, <3>3
  <2> QED
    BY <1>5, <2>1 DEF Ownership
<1> QED
  BY <1>1, <1>3, <1>4, <1>6 DEF Ownership, AllOwned

LEMMA OtherOwned ==
  ASSUME Types, Ownership,
         \/ \E h \in Name : MergeMailbox(h) \/ \E mac \in Dock : Declare(h, mac)
         \/ \E m \in Machine : \/ Reclone(m)
                               \/ \E mac \in Dongle \cup Dock : Plug(m, mac)
                               \/ \E h \in Name : Rename(m, h)
  PROVE  Ownership'
<1>1. ASSUME NEW h \in Name, MergeMailbox(h) PROVE Ownership'
  <2>1. /\ \A k \in Name :
             \/ main'[k].mesh = main[k].mesh
             \/ k \in DOMAIN mailbox[h].files /\ main'[k].mesh = mailbox[h].files[k].mesh
        /\ UNCHANGED <<checkout, mailbox, as, writers>>
    BY <1>1, MergeOK
  <2>2. AllOwned(main')
    BY <2>1 DEF Ownership, AllOwned, Owned
  <2> QED
    BY <2>1, <2>2 DEF Ownership, AllOwned
<1>2. ASSUME NEW h \in Name, NEW mac \in Dock, Declare(h, mac) PROVE Ownership'
  <2>1. (\A k \in Name : main'[k].mesh = main[k].mesh) /\ UNCHANGED <<checkout, mailbox, as, writers>>
    BY <1>2, DeclareOK
  <2>2. AllOwned(main')
    BY <2>1 DEF Ownership, AllOwned, Owned
  <2> QED
    BY <2>1, <2>2 DEF Ownership, AllOwned
<1>3. ASSUME NEW m \in Machine, NEW mac \in Dongle \cup Dock, Plug(m, mac) PROVE Ownership'
  BY <1>3, PlugOK DEF Ownership, AllOwned
<1>4. ASSUME NEW m \in Machine, NEW h \in Name, Rename(m, h) PROVE Ownership'
  BY <1>4, RenameOK DEF Ownership, AllOwned
<1>5. ASSUME NEW m \in Machine, Reclone(m) PROVE Ownership'
  <2>1. \A k \in Machine : checkout'[k] \in {checkout[k], main} /\ as'[k] \in {as[k], Down}
    BY <1>5 DEF Reclone, Types
  <2>2. UNCHANGED <<main, mailbox, writers>>
    BY <1>5 DEF Reclone
  <2>3. \A k \in Machine : AllOwned(checkout'[k])
    BY <2>1 DEF Ownership
  <2> QED
    BY <2>1, <2>2, <2>3 DEF Ownership, AllOwned
<1> QED
  BY <1>1, <1>2, <1>3, <1>4, <1>5

LEMMA OwnershipInit == Init => Ownership
<1> SUFFICES ASSUME Init PROVE Ownership
  OBVIOUS
<1>1. \A h \in Name : main[h].mesh = NoEntry
  BY DEF Init, NoFile
<1>2. \A m \in Machine : checkout[m] = main /\ as[m] = Down
  BY DEF Init
<1>3. \A h \in Name : writers[h] = {} /\ DOMAIN mailbox[h].files = {}
  BY DEF Init
<1> QED
  BY <1>1, <1>2, <1>3 DEF Ownership, AllOwned, Owned

LEMMA OwnershipStep ==
  ASSUME MachinesDiffer
  PROVE  Types /\ Ownership /\ [Next]_vars => Ownership'
<1> SUFFICES ASSUME Types, Ownership, [Next]_vars PROVE Ownership'
  OBVIOUS
<1>1. CASE UNCHANGED vars
  BY <1>1 DEF vars, Ownership, AllOwned
<1>2. CASE Next
  BY <1>2, StartOwned, PullOwned, OtherOwned DEF Next
<1> QED
  BY <1>1, <1>2

\* No two machines ever push to one mailbox, whatever docks they share, however
\* they are renamed and however old the checkouts in which they look for
\* themselves (submitMeshFile's force-push).
THEOREM OneWriterEach ==
  ASSUME MachinesDiffer
  PROVE  Spec => []SingleWriter
<1>1. Types /\ Ownership => SingleWriter
  <2> SUFFICES ASSUME Types, Ownership, NEW h \in Name PROVE Cardinality(writers[h]) <= 1
    BY DEF SingleWriter
  <2>1. writers[h] \subseteq Machine /\ \A m \in writers[h] : h \in NameOf[m]
    BY DEF Types, Ownership
  <2>2. \A m, n \in writers[h] : m = n
    BY <2>1 DEF MachinesDiffer
  <2>3. CASE writers[h] = {}
    BY <2>3, FS_EmptySet
  <2>4. CASE \E m : writers[h] = {m}
    <3>1. PICK m : writers[h] = {m}
      BY <2>4
    <3>2. Cardinality({m}) = 1
      BY FS_Singleton
    <3> QED
      BY <3>1, <3>2
  <2> QED
    BY <2>2, <2>3, <2>4
<1>2. Init => Ownership
  BY OwnershipInit
<1>3. Types /\ Ownership /\ [Next]_vars => Ownership'
  BY OwnershipStep
<1> QED
  BY <1>1, <1>2, <1>3, TypesInit, TypesStep, PTL DEF Spec

(***************************************************************************)
(* What the operator declares portable.                                    *)
(***************************************************************************)
\* The property for one machine.
Declared(m) ==
  LET c == checkout[m] IN
  calm[m] /\ as[m] = host[m].name /\ as[m] \in Peers(c) /\ c[as[m]].node # NoNode
    => LoadMesh(c)[as[m]].macs \cap c[as[m]].node.portable = {}

LEMMA StartDeclares ==
  ASSUME Types, NEW m \in Machine, Start(m)
  PROVE  Declared(m)'
<1> DEFINE c0 == checkout[m]
           c1 == LoadNode(c0, m)
           node == Config(c0, m)
           c2 == SyncSelfToMesh(c1, m, node)
           n  == RunsAs(c0, m)
           h  == host[m].name
<1>1. /\ c0 \in Files /\ Clear(c0) /\ c1 \in Files /\ Clear(c1) /\ c2 \in Files
      /\ n \in Name /\ h \in Name
      /\ as' = [as EXCEPT ![m] = n] /\ checkout' = [checkout EXCEPT ![m] = c2]
      /\ UNCHANGED host
  BY StartLeaves
<1>2. as'[m] = n /\ checkout'[m] = c2 /\ host'[m].name = h
  BY <1>1 DEF Types
<1>3. node \in Node
  BY <1>1, ConfigOK
<1>4. /\ \A k \in Name : c2[k].node = c1[k].node
      /\ h \notin Peers(c1) => c2 = c1
      /\ h \in Peers(c1) => c2[h].mesh.macs \cap node.portable = {} /\ c2[h].mesh # NoEntry
  <2> DEFINE nic == [DetectNICs(m) EXCEPT !.portable = @ \cup node.portable]
             id  == IF Id[m] # NoId THEN Id[m] ELSE node.id
  <2> HIDE DEF c0, c1, node
  <2>1. /\ \A k \in Name : c2[k].node = c1[k].node
        /\ h \notin Peers(c1) => c2 = c1
        /\ h \in Peers(c1) => /\ c2[h].mesh.macs \cap node.portable = {}
                              /\ c2[h].mesh = Refreshed(LoadMesh(c1)[h], nic, id)
    BY <1>1, <1>3, SyncOK
  <2>2. nic \in [macs : SUBSET Mac, portable : SUBSET Mac] /\ id \in Ids
    BY <1>3, NicsOK DEF Node, Ids
  <2> HIDE DEF nic, id
  <2>3. h \in Peers(c1) => Refreshed(LoadMesh(c1)[h], nic, id) \in Entry
    BY <1>1, <2>2, MeshOK, RefreshedOK
  <2> QED
    BY <2>1, <2>3, FleetKnown
<1>5. ASSUME n = h, c2[h].node # NoNode PROVE c2[h].node.portable \subseteq node.portable
  <2>1. CASE c0[h].node # NoNode
    <3>1. c1[h].node = c0[h].node
      BY <1>1, <2>1, LoadNodeOK
    <3>2. node = c0[h].node
      BY <1>5, <2>1 DEF Config
    <3> QED
      BY <1>1, <1>4, <3>1, <3>2
  <2>2. CASE c0[h].node = NoNode
    <3>1. c1[h].node = NoNode \/ c1[h].node = [id |-> Id[m], portable |-> DetectNICs(m).portable]
      BY <1>1, <1>5, <2>2, LoadNodeOK
    <3>2. node = [id |-> Id[m], portable |-> DetectNICs(m).portable]
      BY <1>5, <2>2 DEF Config
    <3>3. c2[h].node = c1[h].node
      BY <1>1, <1>4
    <3> QED
      BY <1>5, <3>1, <3>2, <3>3
  <2> QED
    BY <2>1, <2>2
<1> HIDE DEF c0, c1, node, c2, n, h
<1>6. ASSUME n = h, h \in Peers(c2), c2[h].node # NoNode
      PROVE  LoadMesh(c2)[h].macs \cap c2[h].node.portable = {}
  <2>1. h \in Peers(c1)
    BY <1>4, <1>6
  <2>2. LoadMesh(c2)[h] = c2[h].mesh /\ c2[h].mesh.macs \cap node.portable = {}
    BY <1>1, <1>4, <2>1, MeshOK
  <2> QED
    BY <1>5, <1>6, <2>2
<1>7. as[m]' = n /\ checkout[m]' = c2 /\ host[m].name' = h
  BY <1>2
<1> QED
  BY <1>6, <1>7 DEF Declared, Peers, LoadMesh

\* Whatever else happens leaves what a calm machine sees as its start left it.
LEMMA CalmKept ==
  ASSUME Types, NEW m \in Machine,
         \/ \E h \in Name : MergeMailbox(h) \/ \E mac \in Dock : Declare(h, mac)
         \/ \E k \in Machine : \/ Pull(k) \/ Reclone(k)
                               \/ \E mac \in Dongle \cup Dock : Plug(k, mac)
                               \/ \E h \in Name : Rename(k, h)
                               \/ Start(k) /\ k # m,
         calm'[m]
  PROVE  /\ calm[m] /\ checkout'[m] = checkout[m] /\ as'[m] = as[m]
         /\ host'[m].name = host[m].name
<1>1. CASE \E h \in Name : MergeMailbox(h) \/ \E mac \in Dock : Declare(h, mac)
  BY <1>1 DEF MergeMailbox, Declare
<1>2. ASSUME NEW k \in Machine, Pull(k)
      PROVE  /\ calm[m] /\ checkout'[m] = checkout[m] /\ as'[m] = as[m]
             /\ host'[m].name = host[m].name
  <2> PICK c \in {Rebased(k), main} : Pulled(k, c)
    BY <1>2, PullLeaves
  <2>1. /\ checkout' = [checkout EXCEPT ![k] = c]
        /\ calm' = [calm EXCEPT ![k] = @ /\ c = checkout[k]]
        /\ UNCHANGED <<host, as>>
    BY DEF Pulled
  <2>2. calm \in [Machine -> BOOLEAN] /\ checkout \in [Machine -> Files]
    BY DEF Types
  <2> QED
    BY <2>1, <2>2
<1>3. ASSUME NEW k \in Machine, Reclone(k)
      PROVE  /\ calm[m] /\ checkout'[m] = checkout[m] /\ as'[m] = as[m]
             /\ host'[m].name = host[m].name
  <2>1. /\ checkout' = [checkout EXCEPT ![k] = main] /\ as' = [as EXCEPT ![k] = Down]
        /\ calm' = [calm EXCEPT ![k] = FALSE] /\ UNCHANGED host
    BY <1>3 DEF Reclone
  <2> QED
    BY <2>1 DEF Types
<1>4. ASSUME NEW k \in Machine, NEW mac \in Dongle \cup Dock, Plug(k, mac)
      PROVE  /\ calm[m] /\ checkout'[m] = checkout[m] /\ as'[m] = as[m]
             /\ host'[m].name = host[m].name
  BY <1>4, PlugOK
<1>5. ASSUME NEW k \in Machine, NEW h \in Name, Rename(k, h)
      PROVE  /\ calm[m] /\ checkout'[m] = checkout[m] /\ as'[m] = as[m]
             /\ host'[m].name = host[m].name
  <2>1. /\ calm' = [calm EXCEPT ![k] = FALSE] /\ UNCHANGED <<checkout, as>>
        /\ \A j \in Machine \ {k} : host'[j] = host[j]
    BY <1>5, RenameOK
  <2> QED
    BY <2>1 DEF Types
<1>6. ASSUME NEW k \in Machine, Start(k), k # m
      PROVE  /\ calm[m] /\ checkout'[m] = checkout[m] /\ as'[m] = as[m]
             /\ host'[m].name = host[m].name
  <2> DEFINE c == SyncSelfToMesh(LoadNode(checkout[k], k), k, Config(checkout[k], k))
             n == RunsAs(checkout[k], k)
  <2>1. /\ checkout' = [checkout EXCEPT ![k] = c] /\ as' = [as EXCEPT ![k] = n]
        /\ calm' = [calm EXCEPT ![k] = TRUE] /\ UNCHANGED host
    BY <1>6, StartLeaves
  <2> HIDE DEF c, n
  <2> QED
    BY <1>6, <2>1 DEF Types
<1> QED
  BY <1>1, <1>2, <1>3, <1>4, <1>5, <1>6

\* Once a daemon that runs under the name it was started with has started, no MAC
\* its node file declares portable is in the identity set of its entry
\* (SyncSelfToMesh and the portable_macs override).
THEOREM DeclaredIsHeeded == Spec => []DeclaredIsPortableByName
<1>1. Init => \A m \in Machine : Declared(m)
  BY DEF Init, Declared
<1>2. Types /\ (\A m \in Machine : Declared(m)) /\ [Next]_vars => (\A m \in Machine : Declared(m))'
  <2> SUFFICES ASSUME Types, [Next]_vars, NEW m \in Machine, Declared(m) PROVE Declared(m)'
    OBVIOUS
  <2>1. CASE UNCHANGED vars
    BY <2>1 DEF vars, Declared, Peers, LoadMesh
  <2>2. CASE Start(m)
    BY <2>2, StartDeclares
  <2>3. CASE Next /\ ~Start(m)
    <3>1. ~calm'[m] \/ /\ calm[m] /\ checkout'[m] = checkout[m] /\ as'[m] = as[m]
                       /\ host'[m].name = host[m].name
      BY <2>3, CalmKept DEF Next
    <3>2. ~calm[m]' \/ /\ calm[m] /\ checkout[m]' = checkout[m] /\ as[m]' = as[m]
                       /\ host[m].name' = host[m].name
      BY <3>1
    <3> QED
      BY <3>2 DEF Declared, Peers, LoadMesh
  <2> QED
    BY <2>1, <2>2, <2>3
<1>3. (\A m \in Machine : Declared(m)) => DeclaredIsPortableByName
  BY DEF Declared, DeclaredIsPortableByName
<1> QED
  BY <1>1, <1>2, <1>3, TypesInit, TypesStep, PTL DEF Spec

(***************************************************************************)
(* One entry for each machine.                                             *)
(***************************************************************************)
\* An entry at a name of a machine has its id; a node file is there only with an
\* entry; a machine with an entry has no legacy entry under another name.
Mine(h, f)   == f.mesh # NoEntry => \A m \in Machine : h \in NameOf[m] => f.mesh.id = Id[m]
Noded(h, f)  == f.node # NoNode => f.mesh # NoEntry \/ Legacy[h] # NoEntry
Homed(h, f)  == f.mesh # NoEntry => \A m \in Machine : h \in NameOf[m] =>
                  \A k \in NameOf[m] : Legacy[k] # NoEntry => k = h
Placed(h, f) == Mine(h, f) /\ Noded(h, f) /\ Homed(h, f)
AllPlaced(c) == \A h \in Name : Placed(h, c[h])

\* What m's checkout has over its origin/main are entries at m's names.
Ahead(c, b, m) == \A k \in Name : c[k] # b[k] => c[k].mesh # NoEntry /\ k \in NameOf[m]

Places ==
  /\ AllPlaced(main)
  /\ \A m \in Machine : /\ AllPlaced(checkout[m]) /\ AllPlaced(base[m])
                        /\ Ahead(checkout[m], base[m], m)
                        /\ \A k \in Name : base[m][k].mesh # NoEntry => main[k].mesh # NoEntry
  /\ \A h \in Name : \A k \in DOMAIN mailbox[h].files :
       /\ Placed(k, mailbox[h].files[k]) /\ mailbox[h].files[k].mesh # NoEntry
       /\ mailbox[h].by \in Machine /\ k \in NameOf[mailbox[h].by]

\* The names of m that have an entry in c.
Enrolled(c, m) == {h \in NameOf[m] : c[h].mesh # NoEntry}

\* Whatever of m is on main or on its way there is in m's checkout, once.
OnceFor(m) ==
  /\ \A h, k \in Enrolled(checkout[m], m) : h = k
  /\ Enrolled(main, m) \subseteq Enrolled(checkout[m], m)
  /\ \A h \in Name : mailbox[h].by = m =>
       \A k \in DOMAIN mailbox[h].files : checkout[m][k].mesh # NoEntry
  /\ calm[m] => Enrolled(checkout[m], m) \subseteq {as[m]}

Once == dropped \/ \A m \in Machine : OnceFor(m)

LEMMA NamesKnown == \A m \in Machine : NameOf[m] \subseteq Name
BY FleetKnown

\* The id a machine meets at a name of its own is its own, or none yet.
LEMMA PeerId ==
  ASSUME MachinesDiffer, NEW c \in Files, AllPlaced(c), NEW m \in Machine,
         NEW h \in NameOf[m], h \in Peers(c)
  PROVE  LoadMesh(c)[h].id \in {NoId, Id[m]}
<1>1. h \in Name
  BY NamesKnown
<1>2. CASE c[h].mesh # NoEntry
  BY <1>1, <1>2, MeshOK DEF AllPlaced, Placed, Mine
<1>3. CASE c[h].mesh = NoEntry
  <2>1. LoadMesh(c)[h] = Legacy[h] /\ Legacy[h] # NoEntry /\ Legacy[h] \in Entry
    BY <1>1, <1>3, MeshOK, FleetKnown
  <2>2. Legacy[h].id \in Ids
    BY <2>1 DEF Entry
  <2>3. PICK k \in Machine \cup {Down} : Legacy[h].id = NoId \/ (k \in Machine /\ Legacy[h].id = Id[k])
    BY <2>2 DEF Ids
  <2>4. \A j \in Machine : Legacy[h].id = Id[j] => j = m
    <3>1. \A j \in Machine : j # m => h \notin NameOf[j]
      BY DEF MachinesDiffer
    <3> QED
      BY <1>1, <2>1, <3>1 DEF MachinesDiffer
  <2> QED
    BY <2>1, <2>3, <2>4
<1> QED
  BY <1>2, <1>3

\* A legacy entry of its own is found by the machine, one way or the other.
LEMMA LegacyIsFound ==
  ASSUME MachinesDiffer, LegacyIsKnown, Types, NEW c \in Files, AllPlaced(c),
         NEW m \in Machine, NEW h \in NameOf[m], Legacy[h] # NoEntry
  PROVE  FindPeerByIdentity(c, m) # {}
<1>1. h \in Name /\ Id[m] # NoId
  BY NamesKnown DEF MachinesDiffer
<1>2. h \in Peers(c)
  <2>1. LoadMesh(c)[h] # NoEntry
    BY <1>1, MeshOK
  <2> QED
    BY <1>1, <2>1 DEF Peers
<1>3. LoadMesh(c)[h].id \in {NoId, Id[m]}
  BY <1>2, PeerId
<1>4. CASE LoadMesh(c)[h].id = Id[m]
  BY <1>1, <1>2, <1>4 DEF FindPeerByIdentity, ById
<1>5. CASE LoadMesh(c)[h].id # Id[m]
  <2>1. LoadMesh(c)[h] = Legacy[h]
    <3>1. c[h].mesh # NoEntry => c[h].mesh.id = Id[m]
      BY <1>1 DEF AllPlaced, Placed, Mine
    <3> QED
      BY <1>1, <1>5, <3>1, MeshOK
  <2>2. Legacy[h].macs \cap BuiltIn[m] # {}
    BY <1>5, <2>1 DEF LegacyIsKnown
  <2>3. BuiltIn[m] \subseteq DetectNICs(m).macs
    BY DEF DetectNICs
  <2>4. h \in ByMac(c, m)
    BY <1>2, <1>3, <2>1, <2>2, <2>3 DEF ByMac
  <2> QED
    BY <2>4 DEF FindPeerByIdentity
<1> QED
  BY <1>4, <1>5

\* What LoadNode writes is an entry at the name the machine runs as.
LEMMA LoadNodeWrites ==
  ASSUME Types, NEW c \in Files, Clear(c), NEW m \in Machine
  PROVE  LET n == RunsAs(c, m)
             f == LoadNode(c, m)
         IN  /\ \A k \in Name : c[k].mesh # NoEntry => f[k].mesh # NoEntry
             /\ f[n] # c[n] => f[n].mesh # NoEntry
             /\ f[n] = c[n] => c[n].mesh # NoEntry \/ c[host[m].name].node # NoNode
             /\ n # host[m].name => f[n].mesh # NoEntry
             /\ f[n] # c[n] /\ n \notin Peers(c) => FindPeerByIdentity(c, m) = {}
<1> DEFINE n == RunsAs(c, m)
           h == host[m].name
           nic == DetectNICs(m)
           f == LoadNode(c, m)
<1>1. n \in Name /\ h \in Name /\ Id[m] \in Ids
  BY RunsAsOK DEF Types, Around, Ids
<1>2. nic \in [macs : SUBSET Mac, portable : SUBSET Mac]
  BY NicsOK
<1>3. ASSUME NEW k \in Name, k \in Peers(c)
      PROVE  Refreshed(LoadMesh(c)[k], nic, Id[m]) \in Entry
  BY <1>1, <1>2, <1>3, MeshOK, RefreshedOK
<1>4. n # h => n \in Peers(c) /\ c[h].node = NoNode
  BY <1>1, RunsAsOK DEF RunsAs, FindPeerByIdentity, ById, ByMac
<1>5. \A k \in FindPeerByIdentity(c, m) : k \in Peers(c)
  BY DEF FindPeerByIdentity, ById, ByMac
<1>6. CASE c[h].node # NoNode
  <2>1. f = c
    BY <1>6 DEF LoadNode
  <2> QED
    BY <1>4, <1>6, <2>1
<1>7. ASSUME NEW k \in Peers(c), k = n, f = Refresh(c, k, nic, Id[m])
      PROVE  /\ \A j \in Name : c[j].mesh # NoEntry => f[j].mesh # NoEntry
             /\ f[n].mesh # NoEntry
  <2> HIDE DEF n, nic, f
  <2>1. /\ \A j \in Name \ {k} : f[j] = c[j]
        /\ f[k].mesh = Refreshed(LoadMesh(c)[k], nic, Id[m])
    BY <1>1, <1>2, <1>7, RefreshOK
  <2>2. f[k].mesh # NoEntry
    BY <1>1, <1>3, <1>7, <2>1, FleetKnown
  <2> QED
    BY <1>7, <2>1, <2>2
<1>8. CASE c[h].node = NoNode /\ n # h
  <2>1. f = Refresh(c, n, nic, Id[m])
    BY <1>8 DEF LoadNode
  <2> HIDE DEF n, h, nic, f
  <2> QED
    BY <1>4, <1>7, <1>8, <2>1 DEF n, h, f
<1>9. CASE c[h].node = NoNode /\ n = h /\ h \in FindPeerByIdentity(c, m)
  <2>1. f = Refresh(c, h, nic, Id[m])
    BY <1>9 DEF LoadNode
  <2> HIDE DEF n, h, nic, f
  <2> QED
    BY <1>5, <1>7, <1>9, <2>1 DEF n, h, f
<1>10. CASE c[h].node = NoNode /\ n = h /\ h \notin FindPeerByIdentity(c, m)
  <2>1. f = Register(c, m)
    BY <1>10 DEF LoadNode
  <2>2. \/ FindPeerByIdentity(c, m) = {}
        \/ n \in FindPeerByIdentity(c, m)
    <3>1. FindPeerByIdentity(c, m) \in SUBSET Name
      BY MeshOK DEF FindPeerByIdentity, ById, ByMac
    <3> QED
      BY <1>10, <3>1, FirstOK DEF RunsAs
  <2> HIDE DEF n, h, nic, f
  <2>3. (\A k \in Name \ {h} : f[k] = c[k]) /\ f[h].mesh # NoEntry
    <3> DEFINE r == Register(c, m)
    <3>1. (\A k \in Name \ {h} : r[k] = c[k]) /\ r[h].mesh \in Entry
      BY RegisterOK DEF h
    <3> HIDE DEF r
    <3> QED
      BY <2>1, <3>1, FleetKnown DEF r
  <2> QED
    BY <1>1, <1>10, <2>2, <2>3 DEF n, h, f
<1> QED
  BY <1>6, <1>8, <1>9, <1>10

\* Refreshing an entry, its own or the legacy one, leaves it at the machine's place.
LEMMA RefreshedPlaced ==
  ASSUME MachinesDiffer, LegacyIsKnown, NEW c \in Files, AllPlaced(c), NEW m \in Machine,
         NEW h \in NameOf[m], h \in Peers(c), NEW f,
         NEW nic \in [macs : SUBSET Mac, portable : SUBSET Mac],
         f.mesh = Refreshed(LoadMesh(c)[h], nic, Id[m])
  PROVE  Placed(h, f) /\ f.mesh # NoEntry
<1> DEFINE e == LoadMesh(c)[h]
<1>1. h \in Name /\ e \in Entry /\ Id[m] \in Ids
  BY NamesKnown, MeshOK DEF Ids
<1>2. f.mesh \in Entry /\ f.mesh.id = IF e.id = NoId THEN Id[m] ELSE e.id
  <2> HIDE DEF e
  <2> QED
    BY <1>1, RefreshedOK DEF e
<1>3. e.id \in {NoId, Id[m]}
  BY PeerId
<1>4. \A k \in Machine : h \in NameOf[k] => k = m
  BY DEF MachinesDiffer
<1>5. f.mesh.id = Id[m] /\ f.mesh # NoEntry
  BY <1>2, <1>3, FleetKnown
<1>6. \A k \in NameOf[m] : Legacy[k] # NoEntry => k = h
  <2>1. CASE c[h].mesh # NoEntry
    BY <1>1, <2>1 DEF AllPlaced, Placed, Homed
  <2>2. CASE c[h].mesh = NoEntry
    <3>1. Legacy[h] # NoEntry
      BY <1>1, <2>2, MeshOK, FleetKnown
    <3> QED
      BY <3>1 DEF LegacyIsKnown
  <2> QED
    BY <2>1, <2>2
<1> QED
  BY <1>4, <1>5, <1>6 DEF Placed, Mine, Noded, Homed

LEMMA LoadedPlaced ==
  ASSUME MachinesDiffer, LegacyIsKnown, Types, NEW c \in Files, Clear(c), AllOwned(c),
         AllPlaced(c), NEW m \in Machine
  PROVE  AllPlaced(LoadNode(c, m))
<1> DEFINE n == RunsAs(c, m)
           f == LoadNode(c, m)
<1>1. n \in Name /\ n \in NameOf[m]
  BY MatchOK, RunsAsOK
<1>2. /\ \A k \in Name \ {n} : f[k] = c[k]
      /\ f[n] # c[n] /\ n \notin Peers(c) => f[n].mesh.id = Id[m]
      /\ f[n] # c[n] /\ n \in Peers(c) =>
           f[n].mesh = Refreshed(LoadMesh(c)[n], DetectNICs(m), Id[m])
  BY LoadNodeOK
<1>3. /\ f[n] # c[n] => f[n].mesh # NoEntry
      /\ f[n] # c[n] /\ n \notin Peers(c) => FindPeerByIdentity(c, m) = {}
  BY LoadNodeWrites
<1> HIDE DEF n, f
<1>4. CASE f[n] = c[n]
  BY <1>2, <1>4 DEF AllPlaced, f
<1>5. CASE f[n] # c[n] /\ n \notin Peers(c)
  <2>1. f[n].mesh.id = Id[m] /\ f[n].mesh # NoEntry
    BY <1>2, <1>3, <1>5
  <2>2. \A k \in NameOf[m] : Legacy[k] = NoEntry
    BY <1>3, <1>5, LegacyIsFound
  <2>3. \A k \in Machine : n \in NameOf[k] => k = m
    BY <1>1 DEF MachinesDiffer
  <2>4. Placed(n, f[n])
    BY <2>1, <2>2, <2>3 DEF Placed, Mine, Noded, Homed
  <2> QED
    BY <1>2, <2>4 DEF AllPlaced, f
<1>6. CASE f[n] # c[n] /\ n \in Peers(c)
  <2>1. DetectNICs(m) \in [macs : SUBSET Mac, portable : SUBSET Mac]
    BY NicsOK
  <2>2. Placed(n, f[n])
    BY <1>1, <1>2, <1>6, <2>1, RefreshedPlaced
  <2> QED
    BY <1>2, <2>2 DEF AllPlaced, f
<1> QED
  BY <1>4, <1>5, <1>6

LEMMA SyncedPlaced ==
  ASSUME MachinesDiffer, LegacyIsKnown, Types, NEW c \in Files, Clear(c), AllPlaced(c),
         NEW m \in Machine, NEW node \in Node
  PROVE  LET f == SyncSelfToMesh(c, m, node)
             h == host[m].name
         IN  /\ AllPlaced(f)
             /\ \A k \in Name : f[k] # c[k] => k = h /\ f[h].mesh # NoEntry /\ h \in Peers(c)
<1> DEFINE h == host[m].name
           f == SyncSelfToMesh(c, m, node)
           nic == [DetectNICs(m) EXCEPT !.portable = @ \cup node.portable]
<1>1. h \in Name /\ h \in NameOf[m]
  BY DEF Types, Around
<1>2. Id[m] # NoId
  BY DEF MachinesDiffer
<1>3. /\ \A k \in Name \ {h} : f[k] = c[k]
      /\ h \notin Peers(c) => f = c
      /\ h \in Peers(c) => f[h].mesh = Refreshed(LoadMesh(c)[h], nic, Id[m])
  BY <1>2, SyncOK
<1>4. nic \in [macs : SUBSET Mac, portable : SUBSET Mac]
  BY NicsOK DEF Node
<1> HIDE DEF h, f, nic
<1>5. CASE h \notin Peers(c)
  BY <1>3, <1>5 DEF f
<1>6. CASE h \in Peers(c)
  <2>1. Placed(h, f[h]) /\ f[h].mesh # NoEntry
    BY <1>1, <1>3, <1>4, <1>6, RefreshedPlaced
  <2>2. AllPlaced(f)
    BY <1>3, <2>1 DEF AllPlaced
  <2> QED
    BY <1>3, <1>6, <2>1, <2>2 DEF f, h
<1> QED
  BY <1>5, <1>6

\* A machine with one entry in its checkout runs under that entry's name.
LEMMA RunsUnderEntry ==
  ASSUME MachinesDiffer, Types, NEW c \in Files, AllOwned(c), AllPlaced(c), NEW m \in Machine,
         \A h, k \in Enrolled(c, m) : h = k
  PROVE  Enrolled(c, m) \subseteq {RunsAs(c, m)}
<1> SUFFICES ASSUME NEW h \in Enrolled(c, m) PROVE RunsAs(c, m) = h
  OBVIOUS
<1>1. h \in NameOf[m] /\ h \in Name /\ c[h].mesh # NoEntry /\ c[h].mesh.id = Id[m]
  BY NamesKnown DEF Enrolled, AllPlaced, Placed, Mine
<1>2. \A k \in NameOf[m] : c[k].mesh # NoEntry \/ Legacy[k] # NoEntry => k = h
  BY <1>1 DEF AllPlaced, Placed, Homed, Enrolled
<1>3. h \in ById(c, m)
  BY <1>1, MeshOK DEF ById, Peers, MachinesDiffer
<1>4. ASSUME NEW k \in ById(c, m) PROVE k = h
  <2>1. k \in Name /\ LoadMesh(c)[k] # NoEntry /\ LoadMesh(c)[k].id = Id[m]
    BY DEF ById, Peers
  <2>2. CASE c[k].mesh # NoEntry
    BY <1>2, <2>1, <2>2, MeshOK DEF AllOwned, Owned
  <2>3. CASE c[k].mesh = NoEntry
    <3>1. Legacy[k] # NoEntry /\ Legacy[k].id = Id[m]
      BY <2>1, <2>3, MeshOK
    <3> QED
      BY <1>2, <2>1, <3>1 DEF MachinesDiffer
  <2> QED
    BY <2>2, <2>3
<1>5. FindPeerByIdentity(c, m) = {h}
  BY <1>3, <1>4 DEF FindPeerByIdentity
<1>6. CASE c[host[m].name].node # NoNode
  <2>1. host[m].name \in NameOf[m] /\ host[m].name \in Name
    BY DEF Types, Around
  <2>2. host[m].name = h
    BY <1>2, <1>6, <2>1 DEF AllPlaced, Placed, Noded
  <2> QED
    BY <1>6, <2>2 DEF RunsAs
<1>7. CASE c[host[m].name].node = NoNode
  <2>1. First(c, {h}) \in {h}
    BY <1>1, FirstOK
  <2> QED
    BY <1>5, <1>7, <2>1 DEF RunsAs
<1> QED
  BY <1>6, <1>7

\* What a start does to the places of entries in m's checkout.
LEMMA StartEnrolls ==
  ASSUME MachinesDiffer, LegacyIsKnown, Types, Ownership, Places, NEW m \in Machine
  PROVE  LET c0 == checkout[m]
             c1 == LoadNode(c0, m)
             c2 == SyncSelfToMesh(c1, m, Config(c0, m))
             n  == RunsAs(c0, m)
         IN  /\ AllPlaced(c1) /\ AllPlaced(c2)
             /\ Ahead(c1, base[m], m) /\ Ahead(c2, base[m], m)
             /\ \A k \in Name : c0[k].mesh # NoEntry => c1[k].mesh # NoEntry
             /\ \A k \in Name : c1[k].mesh # NoEntry => c2[k].mesh # NoEntry
             /\ (\A h, k \in Enrolled(c0, m) : h = k) => Enrolled(c2, m) \subseteq {n}
<1> DEFINE c0 == checkout[m]
           c1 == LoadNode(c0, m)
           node == Config(c0, m)
           c2 == SyncSelfToMesh(c1, m, node)
           n  == RunsAs(c0, m)
           h  == host[m].name
<1>1. /\ c0 \in Files /\ Clear(c0) /\ AllOwned(c0) /\ AllPlaced(c0) /\ Ahead(c0, base[m], m)
      /\ h \in Name /\ h \in NameOf[m]
  BY DEF Types, Around, Ownership, Places
<1>2. n \in NameOf[m] /\ n \in Name
  <2> HIDE DEF c0
  <2> QED
    BY <1>1, MatchOK, NamesKnown
<1>3. /\ c1 \in Files /\ Clear(c1) /\ AllPlaced(c1) /\ node \in Node
      /\ \A k \in Name \ {n} : c1[k] = c0[k]
  <2> HIDE DEF c0
  <2> QED
    BY <1>1, LoadNodeOK, LoadedPlaced, ConfigOK
<1>4. /\ \A k \in Name : c0[k].mesh # NoEntry => c1[k].mesh # NoEntry
      /\ c1[n] # c0[n] => c1[n].mesh # NoEntry
      /\ c1[n] = c0[n] => c0[n].mesh # NoEntry \/ c0[h].node # NoNode
      /\ n # h => c1[n].mesh # NoEntry
  <2> HIDE DEF c0
  <2> QED
    BY <1>1, LoadNodeWrites
<1>5. /\ AllPlaced(c2)
      /\ \A k \in Name : c2[k] # c1[k] => k = h /\ c2[h].mesh # NoEntry /\ h \in Peers(c1)
  <2> HIDE DEF c0, c1, node
  <2> QED
    BY <1>3, SyncedPlaced
<1>6. (\A i, k \in Enrolled(c0, m) : i = k) => Enrolled(c0, m) \subseteq {n}
  <2> HIDE DEF c0
  <2> QED
    BY <1>1, RunsUnderEntry
<1> HIDE DEF c0, c1, c2, node, n, h
<1>7. Ahead(c1, base[m], m)
  BY <1>1, <1>2, <1>3, <1>4 DEF Ahead
<1>8. Ahead(c2, base[m], m)
  BY <1>1, <1>5, <1>7 DEF Ahead
<1>9. \A k \in Name : c1[k].mesh # NoEntry => c2[k].mesh # NoEntry
  BY <1>5
<1>10. ASSUME \A i, k \in Enrolled(c0, m) : i = k, NEW k \in Enrolled(c2, m) PROVE k = n
  <2>1. k \in NameOf[m] /\ k \in Name /\ c2[k].mesh # NoEntry
    BY NamesKnown DEF Enrolled
  <2>2. CASE c1[k].mesh # NoEntry
    <3>1. CASE k = n
      BY <3>1
    <3>2. CASE k # n
      <4>1. k \in Enrolled(c0, m)
        BY <1>3, <2>1, <2>2, <3>2 DEF Enrolled
      <4> QED
        BY <1>6, <1>10, <4>1
    <3> QED
      BY <3>1, <3>2
  <2>3. CASE c1[k].mesh = NoEntry
    <3>1. k = h /\ h \in Peers(c1) /\ Legacy[h] # NoEntry
      BY <1>3, <1>5, <2>1, <2>3, MeshOK, FleetKnown
    <3>2. CASE c1[n].mesh # NoEntry
      BY <1>1, <1>2, <1>3, <3>1, <3>2 DEF AllPlaced, Placed, Homed
    <3>3. CASE c1[n].mesh = NoEntry
      BY <1>4, <3>1, <3>3
    <3> QED
      BY <3>2, <3>3
  <2> QED
    BY <2>2, <2>3
<1> QED
  BY <1>3, <1>4, <1>5, <1>7, <1>8, <1>9, <1>10 DEF c0, c1, c2, node, n

LEMMA StartPlaces ==
  ASSUME MachinesDiffer, LegacyIsKnown, Types, Ownership, Places, NEW m \in Machine, Start(m)
  PROVE  Places' /\ (Once => Once')
<1> DEFINE c0 == checkout[m]
           c1 == LoadNode(c0, m)
           c2 == SyncSelfToMesh(c1, m, Config(c0, m))
           n  == RunsAs(c0, m)
           h  == host[m].name
<1>1. /\ n \in Name
      /\ as' = [as EXCEPT ![m] = n]
      /\ checkout' = [checkout EXCEPT ![m] = c2]
      /\ \A k \in Name : \/ mailbox'[k] = mailbox[k]
                         \/ /\ mailbox'[k].by = m
                            /\ \A j \in DOMAIN mailbox'[k].files :
                                 /\ j \in Name
                                 /\ mailbox'[k].files[j] \in {c1[j], c2[j]} \ {base[m][j]}
      /\ calm' = [calm EXCEPT ![m] = TRUE]
      /\ UNCHANGED <<main, base, dropped>>
  BY StartLeaves
<1>2. /\ AllPlaced(c1) /\ AllPlaced(c2)
      /\ Ahead(c1, base[m], m) /\ Ahead(c2, base[m], m)
      /\ \A k \in Name : c0[k].mesh # NoEntry => c1[k].mesh # NoEntry
      /\ \A k \in Name : c1[k].mesh # NoEntry => c2[k].mesh # NoEntry
      /\ (\A i, k \in Enrolled(c0, m) : i = k) => Enrolled(c2, m) \subseteq {n}
  BY StartEnrolls
<1> HIDE DEF c1, c2, n, h
<1>3. /\ checkout'[m] = c2 /\ as'[m] = n
      /\ \A k \in Machine \ {m} : /\ checkout'[k] = checkout[k] /\ as'[k] = as[k]
                                  /\ calm'[k] = calm[k]
  BY <1>1 DEF Types
<1>4. ASSUME NEW k \in Name, mailbox'[k] # mailbox[k], NEW j \in DOMAIN mailbox'[k].files
      PROVE  /\ j \in Name /\ Placed(j, mailbox'[k].files[j])
             /\ mailbox'[k].files[j].mesh # NoEntry /\ j \in NameOf[m]
             /\ c2[j].mesh # NoEntry
  <2>1. j \in Name /\ mailbox'[k].files[j] \in {c1[j], c2[j]} \ {base[m][j]}
    BY <1>1, <1>4
  <2>2. Placed(j, mailbox'[k].files[j])
    BY <1>2, <2>1 DEF AllPlaced
  <2>3. mailbox'[k].files[j].mesh # NoEntry /\ j \in NameOf[m]
    BY <1>2, <2>1 DEF Ahead
  <2> QED
    BY <1>2, <2>1, <2>2, <2>3
<1>5. \A k \in Name : \A j \in DOMAIN mailbox'[k].files :
        /\ Placed(j, mailbox'[k].files[j]) /\ mailbox'[k].files[j].mesh # NoEntry
        /\ mailbox'[k].by \in Machine /\ j \in NameOf[mailbox'[k].by]
  <2> SUFFICES ASSUME NEW k \in Name, NEW j \in DOMAIN mailbox'[k].files
               PROVE  /\ Placed(j, mailbox'[k].files[j]) /\ mailbox'[k].files[j].mesh # NoEntry
                      /\ mailbox'[k].by \in Machine /\ j \in NameOf[mailbox'[k].by]
    OBVIOUS
  <2>1. CASE mailbox'[k] = mailbox[k]
    BY <2>1 DEF Places
  <2>2. CASE mailbox'[k] # mailbox[k]
    BY <1>1, <1>4, <2>2
  <2> QED
    BY <2>1, <2>2
<1>6. \A k \in Machine :
        /\ AllPlaced(checkout'[k]) /\ AllPlaced(base[k]) /\ Ahead(checkout'[k], base[k], k)
        /\ \A j \in Name : base[k][j].mesh # NoEntry => main[j].mesh # NoEntry
  BY <1>2, <1>3 DEF Places
<1>7. Places'
  BY <1>1, <1>5, <1>6 DEF Places, AllPlaced
<1>8. ASSUME Once, ~dropped, NEW k \in Machine PROVE OnceFor(k)'
  <2>1. OnceFor(k)
    BY <1>8 DEF Once
  <2>2. CASE k = m
    <3>1. Enrolled(c2, m) \subseteq {n}
      BY <1>2, <2>1, <2>2 DEF OnceFor, c0
    <3>2. Enrolled(c0, m) \subseteq Enrolled(c2, m)
      BY <1>2, NamesKnown DEF Enrolled
    <3>3. Enrolled(main, m) \subseteq Enrolled(c2, m)
      BY <2>1, <2>2, <3>2 DEF OnceFor, c0
    <3>4. ASSUME NEW i \in Name, mailbox'[i].by = m, NEW j \in DOMAIN mailbox'[i].files
          PROVE  c2[j].mesh # NoEntry
      <4>1. CASE mailbox'[i] = mailbox[i]
        <5>1. c0[j].mesh # NoEntry /\ j \in NameOf[m]
          BY <2>1, <2>2, <3>4, <4>1 DEF OnceFor, c0, Places
        <5> QED
          BY <1>2, <5>1, NamesKnown
      <4>2. CASE mailbox'[i] # mailbox[i]
        BY <1>4, <3>4, <4>2
      <4> QED
        BY <4>1, <4>2
    <3>5. checkout[m]' = c2 /\ as[m]' = n
      BY <1>3
    <3>6. Enrolled(checkout[m], m)' = Enrolled(c2, m) /\ Enrolled(main, m)' = Enrolled(main, m)
      BY <1>1, <3>5 DEF Enrolled
    <3> QED
      BY <2>2, <3>1, <3>3, <3>4, <3>5, <3>6 DEF OnceFor
  <2>3. CASE k # m
    <3>1. checkout[k]' = checkout[k] /\ as[k]' = as[k] /\ calm[k]' = calm[k] /\ main' = main
      BY <1>1, <1>3, <2>3
    <3>2. \A i \in Name : mailbox'[i].by = k => mailbox'[i] = mailbox[i]
      BY <1>1, <2>3
    <3> QED
      BY <2>1, <3>1, <3>2 DEF OnceFor, Enrolled
  <2> QED
    BY <2>2, <2>3
<1>9. Once => Once'
  BY <1>1, <1>8 DEF Once
<1> QED
  BY <1>7, <1>9

LEMMA RebasedPlaced ==
  ASSUME Types, Places, NEW m \in Machine
  PROVE  /\ AllPlaced(Rebased(m)) /\ Ahead(Rebased(m), main, m)
         /\ \A k \in Name : checkout[m][k].mesh # NoEntry => Rebased(m)[k].mesh # NoEntry
<1> DEFINE c == checkout[m]
           b == base[m]
           r == Rebased(m)
<1>1. /\ AllPlaced(c) /\ AllPlaced(main) /\ Ahead(c, b, m)
      /\ \A k \in Name : b[k].mesh # NoEntry => main[k].mesh # NoEntry
      /\ c \in Files /\ b \in Files /\ main \in Files /\ r \in Files
  BY RebasedOK DEF Places, Types
<1>2. \A k \in Name :
        /\ r[k].mesh = IF c[k].mesh # b[k].mesh THEN c[k].mesh ELSE main[k].mesh
        /\ r[k].node = IF main[k].node = NoNode /\ b[k].node = NoNode
                       THEN c[k].node ELSE main[k].node
  BY DEF Rebased
<1> HIDE DEF c, b, r
<1>3. ASSUME NEW k \in Name
      PROVE  /\ Placed(k, r[k])
             /\ r[k] # main[k] => r[k].mesh # NoEntry /\ k \in NameOf[m]
             /\ c[k].mesh # NoEntry => r[k].mesh # NoEntry
  <2>1. /\ Placed(k, c[k]) /\ Placed(k, main[k])
        /\ c[k] # b[k] => c[k].mesh # NoEntry /\ k \in NameOf[m]
        /\ b[k].mesh # NoEntry => main[k].mesh # NoEntry
    BY <1>1 DEF AllPlaced, Ahead
  <2>2. c[k].mesh # NoEntry => r[k].mesh # NoEntry
    BY <1>2, <2>1
  <2>3. Mine(k, r[k]) /\ Homed(k, r[k])
    BY <1>2, <2>1 DEF Placed, Mine, Homed
  <2>4. main[k].mesh # NoEntry => r[k].mesh # NoEntry
    BY <1>2, <2>1
  <2>5. Noded(k, r[k])
    BY <1>2, <2>1, <2>2, <2>4 DEF Placed, Noded
  <2>6. r[k] # main[k] => c[k] # b[k]
    <3>1. r[k] \in File /\ main[k] \in File
      BY <1>1 DEF Files
    <3>2. r[k].mesh # main[k].mesh \/ r[k].node # main[k].node \/ r[k] = main[k]
      BY <3>1 DEF File
    <3>3. r[k].mesh # main[k].mesh => c[k].mesh # b[k].mesh
      BY <1>2
    <3>4. r[k].node # main[k].node => c[k].node # b[k].node
      BY <1>2
    <3> QED
      BY <3>2, <3>3, <3>4
  <2> QED
    BY <2>1, <2>2, <2>3, <2>5, <2>6 DEF Placed
<1> QED
  BY <1>3 DEF AllPlaced, Ahead, c, r

\* A pull that resets to main finds the machine's entry there.
LEMMA ResetKeeps ==
  ASSUME Types, Places, NEW m \in Machine, OnceFor(m), Conflicts(m)
  PROVE  \A k \in NameOf[m] : checkout[m][k].mesh # NoEntry => main[k].mesh # NoEntry
<1>1. PICK h \in Name : /\ checkout[m][h].mesh # base[m][h].mesh
                        /\ main[h].mesh # base[m][h].mesh
  BY DEF Conflicts
<1>2. checkout[m][h].mesh # NoEntry /\ h \in NameOf[m]
  BY <1>1 DEF Places, Ahead
<1>3. main[h].mesh # NoEntry
  BY <1>1 DEF Places
<1> QED
  BY <1>2, <1>3 DEF OnceFor, Enrolled

LEMMA PullPlaces ==
  ASSUME Types, Places, NEW m \in Machine, Pull(m)
  PROVE  Places' /\ (Once => Once')
<1> PICK c \in {Rebased(m), main} : Pulled(m, c) /\ (c = Rebased(m) \/ Conflicts(m))
  BY PullLeaves
<1>1. /\ checkout' = [checkout EXCEPT ![m] = c] /\ base' = [base EXCEPT ![m] = main]
      /\ calm' = [calm EXCEPT ![m] = @ /\ c = checkout[m]]
      /\ \A k \in Name : \/ mailbox'[k] = mailbox[k]
                         \/ /\ mailbox'[k].by = m
                            /\ \A j \in DOMAIN mailbox'[k].files :
                                 j \in Name /\ mailbox'[k].files[j] = c[j] /\ c[j] # main[j]
      /\ UNCHANGED <<main, as, dropped>>
  BY DEF Pulled
<1>2. /\ AllPlaced(c) /\ Ahead(c, main, m) /\ AllPlaced(main)
  BY RebasedPlaced DEF Places, Ahead
<1>3. /\ checkout'[m] = c /\ base'[m] = main /\ (calm'[m] => calm[m])
      /\ \A k \in Machine \ {m} : /\ checkout'[k] = checkout[k] /\ base'[k] = base[k]
                                  /\ calm'[k] = calm[k]
  BY <1>1 DEF Types
<1>4. \A k \in Name : \A j \in DOMAIN mailbox'[k].files :
        /\ Placed(j, mailbox'[k].files[j]) /\ mailbox'[k].files[j].mesh # NoEntry
        /\ mailbox'[k].by \in Machine /\ j \in NameOf[mailbox'[k].by]
  <2> SUFFICES ASSUME NEW k \in Name, NEW j \in DOMAIN mailbox'[k].files
               PROVE  /\ Placed(j, mailbox'[k].files[j]) /\ mailbox'[k].files[j].mesh # NoEntry
                      /\ mailbox'[k].by \in Machine /\ j \in NameOf[mailbox'[k].by]
    OBVIOUS
  <2>1. CASE mailbox'[k] = mailbox[k]
    BY <2>1 DEF Places
  <2>2. CASE mailbox'[k] # mailbox[k]
    BY <1>1, <1>2, <2>2 DEF AllPlaced, Ahead
  <2> QED
    BY <2>1, <2>2
<1>5. \A k \in Machine :
        /\ AllPlaced(checkout'[k]) /\ AllPlaced(base'[k]) /\ Ahead(checkout'[k], base'[k], k)
        /\ \A j \in Name : base'[k][j].mesh # NoEntry => main[j].mesh # NoEntry
  BY <1>2, <1>3 DEF Places
<1>6. Places'
  BY <1>1, <1>2, <1>4, <1>5 DEF Places, AllPlaced
<1>7. ASSUME Once, ~dropped, NEW k \in Machine PROVE OnceFor(k)'
  <2>1. OnceFor(k)
    BY <1>7 DEF Once
  <2>2. CASE k = m
    <3>1. \A j \in NameOf[m] : checkout[m][j].mesh # NoEntry => c[j].mesh # NoEntry
      BY <2>1, <2>2, RebasedPlaced, ResetKeeps, NamesKnown
    <3>2. \A j \in NameOf[m] : c[j].mesh # NoEntry =>
             checkout[m][j].mesh # NoEntry \/ main[j].mesh # NoEntry
      BY NamesKnown, RebasedOK
    <3>3. Enrolled(c, m) = Enrolled(checkout[m], m)
      BY <2>1, <2>2, <3>1, <3>2 DEF OnceFor, Enrolled
    <3>4. ASSUME NEW i \in Name, mailbox'[i].by = m, NEW j \in DOMAIN mailbox'[i].files
          PROVE  c[j].mesh # NoEntry
      <4>1. CASE mailbox'[i] = mailbox[i]
        <5>1. checkout[m][j].mesh # NoEntry /\ j \in NameOf[m]
          BY <2>1, <2>2, <3>4, <4>1 DEF OnceFor, Places
        <5> QED
          BY <3>1, <5>1
      <4>2. CASE mailbox'[i] # mailbox[i]
        BY <1>1, <1>2, <3>4, <4>2 DEF Ahead
      <4> QED
        BY <4>1, <4>2
    <3>5. checkout[m]' = c /\ as[m]' = as[m] /\ (calm[m]' => calm[m])
      BY <1>1, <1>3
    <3>6. /\ Enrolled(checkout[m], m)' = Enrolled(checkout[m], m)
          /\ Enrolled(main, m)' = Enrolled(main, m)
      BY <1>1, <3>3, <3>5 DEF Enrolled
    <3>7. \A i \in Name : mailbox[i]'.by = m =>
            \A j \in DOMAIN mailbox[i]'.files : checkout[m]'[j].mesh # NoEntry
      BY <3>4, <3>5
    <3> QED
      BY <2>1, <2>2, <3>5, <3>6, <3>7 DEF OnceFor
  <2>3. CASE k # m
    <3>1. checkout[k]' = checkout[k] /\ as[k]' = as[k] /\ calm[k]' = calm[k] /\ main' = main
      BY <1>1, <1>3, <2>3
    <3>2. \A i \in Name : mailbox'[i].by = k => mailbox'[i] = mailbox[i]
      BY <1>1, <2>3
    <3> QED
      BY <2>1, <3>1, <3>2 DEF OnceFor, Enrolled
  <2> QED
    BY <2>2, <2>3
<1>8. Once => Once'
  BY <1>1, <1>7 DEF Once
<1> QED
  BY <1>6, <1>8

LEMMA MergePlaces ==
  ASSUME MachinesDiffer, Types, Places, NEW h \in Name, MergeMailbox(h)
  PROVE  Places' /\ (Once => Once')
<1>1. /\ \A k \in Name :
           \/ main'[k].mesh = main[k].mesh
           \/ k \in DOMAIN mailbox[h].files /\ main'[k].mesh = mailbox[h].files[k].mesh
      /\ \A k \in Name : main'[k] = main[k] \/ k \in DOMAIN mailbox[h].files
      /\ UNCHANGED <<checkout, base, mailbox, as, calm, dropped>>
  BY MergeOK
<1>2. \A k \in DOMAIN mailbox[h].files :
        /\ Placed(k, mailbox[h].files[k]) /\ mailbox[h].files[k].mesh # NoEntry
        /\ mailbox[h].by \in Machine /\ k \in NameOf[mailbox[h].by]
  BY DEF Places
<1>3. ASSUME NEW k \in Name
      PROVE  /\ Placed(k, main'[k])
             /\ main[k].mesh # NoEntry => main'[k].mesh # NoEntry
             /\ main'[k].mesh # NoEntry =>
                  main[k].mesh # NoEntry \/ k \in DOMAIN mailbox[h].files
  <2>1. Placed(k, main[k])
    BY DEF Places, AllPlaced
  <2>2. CASE main'[k] = main[k]
    BY <2>1, <2>2
  <2>3. CASE main'[k] # main[k]
    <3>1. k \in DOMAIN mailbox[h].files
      BY <1>1, <2>3
    <3>2. main'[k].mesh \in {main[k].mesh, mailbox[h].files[k].mesh}
      BY <1>1
    <3>3. Mine(k, main'[k]) /\ Homed(k, main'[k])
      BY <1>2, <2>1, <3>1, <3>2 DEF Placed, Mine, Homed
    <3>4. main[k].mesh # NoEntry => main'[k].mesh # NoEntry
      BY <1>2, <3>1, <3>2
    <3>5. main'[k].mesh # NoEntry
      <4>1. main'[k].mesh = mailbox[h].files[k].mesh
        BY <3>1 DEF MergeMailbox
      <4> QED
        BY <1>2, <3>1, <4>1
    <3> QED
      BY <3>1, <3>3, <3>4, <3>5 DEF Placed, Noded
  <2> QED
    BY <2>2, <2>3
<1>4. AllPlaced(main')
  BY <1>3 DEF AllPlaced
<1>5. Places'
  BY <1>1, <1>3, <1>4 DEF Places, AllPlaced, Ahead
<1>6. ASSUME Once, ~dropped, NEW m \in Machine PROVE OnceFor(m)'
  <2>1. OnceFor(m)
    BY <1>6 DEF Once
  <2>2. \A k \in NameOf[m] : main'[k].mesh # NoEntry => checkout[m][k].mesh # NoEntry
    <3> SUFFICES ASSUME NEW k \in NameOf[m], main'[k].mesh # NoEntry
                 PROVE  checkout[m][k].mesh # NoEntry
      OBVIOUS
    <3>1. k \in Name
      BY NamesKnown
    <3>2. CASE main[k].mesh # NoEntry
      BY <2>1, <3>2 DEF OnceFor, Enrolled
    <3>3. CASE k \in DOMAIN mailbox[h].files
      <4>1. mailbox[h].by = m
        BY <1>2, <3>3 DEF MachinesDiffer
      <4> QED
        BY <2>1, <3>3, <4>1 DEF OnceFor
    <3> QED
      BY <1>3, <3>1, <3>2, <3>3
  <2>3. Enrolled(main', m) \subseteq Enrolled(checkout[m], m)
    BY <2>2 DEF Enrolled
  <2>4. Enrolled(main, m)' = Enrolled(main', m)
    BY DEF Enrolled
  <2>5. Enrolled(checkout[m], m)' = Enrolled(checkout[m], m)
    BY <1>1 DEF Enrolled
  <2> QED
    BY <1>1, <2>1, <2>3, <2>4, <2>5 DEF OnceFor
<1>7. Once => Once'
  BY <1>1, <1>6 DEF Once
<1> QED
  BY <1>5, <1>7

LEMMA DeclarePlaces ==
  ASSUME Types, Places, NEW h \in Name, NEW mac \in Dock, Declare(h, mac)
  PROVE  Places' /\ (Once => Once')
<1>1. /\ \A k \in Name : main'[k].mesh = main[k].mesh
      /\ \A k \in Name : main'[k].node # NoNode => main[k].node # NoNode
      /\ UNCHANGED <<checkout, base, mailbox, as, calm, dropped>>
  BY DeclareOK
<1>2. AllPlaced(main')
  BY <1>1 DEF Places, AllPlaced, Placed, Mine, Noded, Homed
<1>3. Places'
  BY <1>1, <1>2 DEF Places, AllPlaced, Ahead
<1>4. \A m \in Machine : /\ Enrolled(main, m)' = Enrolled(main, m)
                         /\ Enrolled(checkout[m], m)' = Enrolled(checkout[m], m)
  BY <1>1, NamesKnown DEF Enrolled
<1>5. \A m \in Machine : OnceFor(m) => OnceFor(m)'
  BY <1>1, <1>4 DEF OnceFor
<1>6. Once => Once'
  BY <1>1, <1>5 DEF Once
<1> QED
  BY <1>3, <1>6

LEMMA ReclonePlaces ==
  ASSUME Types, Places, NEW m \in Machine, Reclone(m)
  PROVE  Places' /\ (Once => Once')
<1>1. /\ checkout' = [checkout EXCEPT ![m] = main] /\ base' = [base EXCEPT ![m] = main]
      /\ dropped' = (dropped \/ \E h \in Name : /\ checkout[m][h].mesh # NoEntry
                                                /\ main[h].mesh = NoEntry)
      /\ as' = [as EXCEPT ![m] = Down] /\ calm' = [calm EXCEPT ![m] = FALSE]
      /\ UNCHANGED <<main, mailbox>>
  BY DEF Reclone
<1>2. /\ checkout'[m] = main /\ base'[m] = main /\ ~calm'[m]
      /\ \A k \in Machine \ {m} : /\ checkout'[k] = checkout[k] /\ base'[k] = base[k]
                                  /\ as'[k] = as[k] /\ calm'[k] = calm[k]
  BY <1>1 DEF Types
<1>3. \A k \in Machine :
        /\ AllPlaced(checkout'[k]) /\ AllPlaced(base'[k]) /\ Ahead(checkout'[k], base'[k], k)
        /\ \A j \in Name : base'[k][j].mesh # NoEntry => main[j].mesh # NoEntry
  BY <1>2 DEF Places, Ahead
<1>4. Places'
  BY <1>1, <1>3 DEF Places, AllPlaced
<1>5. ASSUME Once, ~dropped', NEW k \in Machine PROVE OnceFor(k)'
  <2>1. OnceFor(k) /\ \A h \in Name : checkout[m][h].mesh # NoEntry => main[h].mesh # NoEntry
    BY <1>1, <1>5 DEF Once
  <2>2. CASE k = m
    <3>1. Enrolled(checkout[m], m) = Enrolled(main, m)
      BY <2>1, <2>2, NamesKnown DEF OnceFor, Enrolled
    <3>2. checkout[m]' = main /\ ~calm[m]' /\ main' = main /\ mailbox' = mailbox
      BY <1>1, <1>2
    <3>3. /\ Enrolled(checkout[m], m)' = Enrolled(checkout[m], m)
          /\ Enrolled(main, m)' = Enrolled(main, m)
      BY <3>1, <3>2 DEF Enrolled
    <3>4. \A i \in Name : mailbox[i].by = m =>
            \A j \in DOMAIN mailbox[i].files : main[j].mesh # NoEntry
      BY <2>1, <2>2, NamesKnown DEF OnceFor, Places
    <3> QED
      BY <2>1, <2>2, <3>2, <3>3, <3>4 DEF OnceFor
  <2>3. CASE k # m
    <3>1. /\ checkout[k]' = checkout[k] /\ as[k]' = as[k] /\ calm[k]' = calm[k]
          /\ main' = main /\ mailbox' = mailbox
      BY <1>1, <1>2, <2>3
    <3> QED
      BY <2>1, <3>1 DEF OnceFor, Enrolled
  <2> QED
    BY <2>2, <2>3
<1>6. Once => Once'
  BY <1>5 DEF Once
<1> QED
  BY <1>4, <1>6

\* Nothing about places depends on what is plugged in, or on the system's name.
LEMMA MovePlaces ==
  ASSUME Types, Places, NEW m \in Machine,
         (\E mac \in Dongle \cup Dock : Plug(m, mac)) \/ (\E h \in Name : Rename(m, h))
  PROVE  Places' /\ (Once => Once')
<1>1. /\ UNCHANGED <<main, checkout, base, mailbox, as, dropped>>
      /\ \A k \in Machine : calm'[k] => calm[k]
  <2>1. ASSUME NEW mac \in Dongle \cup Dock, Plug(m, mac)
        PROVE  /\ UNCHANGED <<main, checkout, base, mailbox, as, dropped>>
               /\ \A k \in Machine : calm'[k] => calm[k]
    BY <2>1, PlugOK
  <2>2. ASSUME NEW h \in Name, Rename(m, h)
        PROVE  /\ UNCHANGED <<main, checkout, base, mailbox, as, dropped>>
               /\ \A k \in Machine : calm'[k] => calm[k]
    BY <2>2, RenameOK DEF Types
  <2> QED
    BY <2>1, <2>2
<1>2. Places'
  BY <1>1 DEF Places, AllPlaced, Ahead
<1>3. \A k \in Machine : calm[k]' => calm[k]
  BY <1>1
<1>4. \A k \in Machine : OnceFor(k) => OnceFor(k)'
  BY <1>1, <1>3 DEF OnceFor, Enrolled
<1> QED
  BY <1>1, <1>2, <1>4 DEF Once

LEMMA PlacesInit == Init => Places /\ Once
<1> SUFFICES ASSUME Init PROVE Places /\ Once
  OBVIOUS
<1>1. PICK written \in SUBSET {h \in Name : Legacy[h] # NoEntry} :
        main = [h \in Name |-> IF h \in written
                  THEN [NoFile EXCEPT !.node = [id |-> NoId, portable |-> {}]] ELSE NoFile]
  BY DEF Init
<1>2. \A h \in Name : /\ main[h].mesh = NoEntry
                      /\ main[h].node # NoNode => Legacy[h] # NoEntry
  BY <1>1 DEF NoFile
<1>3. AllPlaced(main)
  BY <1>2 DEF AllPlaced, Placed, Mine, Noded, Homed
<1>4. \A m \in Machine : checkout[m] = main /\ base[m] = main /\ ~calm[m]
  BY DEF Init
<1>5. \A h \in Name : DOMAIN mailbox[h].files = {}
  BY DEF Init
<1>6. Places
  BY <1>2, <1>3, <1>4, <1>5 DEF Places, Ahead
<1>7. \A m \in Machine : Enrolled(main, m) = {} /\ Enrolled(checkout[m], m) = {}
  BY <1>2, <1>4, NamesKnown DEF Enrolled
<1> QED
  BY <1>4, <1>5, <1>6, <1>7 DEF Once, OnceFor

LEMMA PlacesStep ==
  ASSUME MachinesDiffer, LegacyIsKnown
  PROVE  Types /\ Ownership /\ Places /\ Once /\ [Next]_vars => Places' /\ Once'
<1> SUFFICES ASSUME Types, Ownership, Places, Once, [Next]_vars PROVE Places' /\ Once'
  OBVIOUS
<1>1. CASE UNCHANGED vars
  <2>1. UNCHANGED <<main, checkout, base, mailbox, as, calm, dropped>>
    BY <1>1 DEF vars
  <2>2. Places'
    BY <2>1 DEF Places, AllPlaced, Ahead
  <2>3. \A m \in Machine : OnceFor(m) => OnceFor(m)'
    BY <2>1 DEF OnceFor, Enrolled
  <2> QED
    BY <2>1, <2>2, <2>3 DEF Once
<1>2. CASE Next
  BY <1>2, StartPlaces, PullPlaces, MergePlaces, DeclarePlaces, ReclonePlaces, MovePlaces
     DEF Next
<1> QED
  BY <1>1, <1>2

\* Main never lists one machine-id twice, unless a clone was thrown away with an
\* enrollment still in its mailbox (FindPeerByIdentity before every registration).
THEOREM MachineListedOnce ==
  ASSUME MachinesDiffer, LegacyIsKnown
  PROVE  Spec => []OneEntryPerMachine
<1>1. Types /\ Ownership /\ Once => OneEntryPerMachine
  <2> SUFFICES ASSUME Types, Ownership, Once, ~dropped, NEW id \in Ids \ {NoId}
               PROVE  Cardinality({h \in Name : main[h].mesh # NoEntry /\ main[h].mesh.id = id}) <= 1
    BY DEF OneEntryPerMachine
  <2> DEFINE L == {h \in Name : main[h].mesh # NoEntry /\ main[h].mesh.id = id}
  <2>1. PICK m \in Machine : id = Id[m]
    BY DEF Ids
  <2>2. OnceFor(m)
    BY DEF Once
  <2>3. \A h \in L : h \in Enrolled(main, m)
    BY <2>1 DEF Ownership, AllOwned, Owned, Enrolled
  <2>4. \A h, k \in L : h = k
    BY <2>2, <2>3 DEF OnceFor
  <2>5. L = {} \/ \E h : L = {h}
    BY <2>4
  <2> SUFFICES Cardinality(L) <= 1
    OBVIOUS
  <2> HIDE DEF L
  <2>6. CASE L = {}
    BY <2>6, FS_EmptySet
  <2>7. CASE \E h : L = {h}
    <3>1. PICK h : L = {h}
      BY <2>7
    <3>2. Cardinality({h}) = 1
      BY FS_Singleton
    <3> QED
      BY <3>1, <3>2
  <2> QED
    BY <2>5, <2>6, <2>7
<1>2. Types /\ Ownership /\ Places /\ Once /\ [Next]_vars => (Types /\ Ownership /\ Places /\ Once)'
  BY TypesStep, OwnershipStep, PlacesStep
<1>3. Init => Types /\ Ownership /\ Places /\ Once
  BY TypesInit, OwnershipInit, PlacesInit
<1> QED
  BY <1>1, <1>2, <1>3, PTL DEF Spec

\* A daemon whose checkout lists its machine-id runs under that listing's name
\* (LoadNode's match, and the order of its cases).
THEOREM ListedRunsAsListed ==
  ASSUME MachinesDiffer, LegacyIsKnown
  PROVE  Spec => []RunsAsListed
<1>1. Types /\ Ownership /\ Once => RunsAsListed
  <2> SUFFICES ASSUME Types, Ownership, Once, NEW m \in Machine, NEW h \in Name,
                      calm[m], ~dropped, checkout[m][h].mesh # NoEntry,
                      checkout[m][h].mesh.id = Id[m]
               PROVE  as[m] = h
    BY DEF RunsAsListed
  <2>1. h \in NameOf[m]
    BY DEF Ownership, AllOwned, Owned
  <2> QED
    BY <2>1 DEF Once, OnceFor, Enrolled
<1>2. Types /\ Ownership /\ Places /\ Once /\ [Next]_vars => (Types /\ Ownership /\ Places /\ Once)'
  BY TypesStep, OwnershipStep, PlacesStep
<1>3. Init => Types /\ Ownership /\ Places /\ Once
  BY TypesInit, OwnershipInit, PlacesInit
<1> QED
  BY <1>1, <1>2, <1>3, PTL DEF Spec

=============================================================================
