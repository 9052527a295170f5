--------------------------- MODULE DashboardProofs ---------------------------
(***************************************************************************)
(* A theorem about the dashboard, for any daemons, names and static nodes. *)
(***************************************************************************)
EXTENDS Dashboard, TLAPS

Maybe == Address \cup {NoAddress}

LEMMA NamesAreHosts == \A a \in Address : HostOf[a] \in Host
BY DEF Host

\* What the life of a daemon, seen from outside, does to Endpoints.
LEMMA EndpointTypeStep ==
  ASSUME EndpointTypeOK, NEW a \in Address,
         StartDaemon(a) \/ StopDaemon(a) \/ Listen(a) \/ CollectHardware(a)
  PROVE  EndpointTypeOK'
<1> USE FaultsAreFew DEF EndpointTypeOK
<1>1. CASE StartDaemon(a)
  BY <1>1 DEF StartDaemon, Goes
<1>2. CASE StopDaemon(a)
  BY <1>2 DEF StopDaemon, Goes, Fault
<1>3. CASE Listen(a)
  <2>1. PICK to \in {"probing", "ready"} : Goes(a, to)
    BY <1>3 DEF Listen
  <2> QED
    BY <1>3, <2>1 DEF Listen, Goes
<1>4. CASE CollectHardware(a)
  BY <1>4 DEF CollectHardware, Goes
<1> QED
  BY <1>1, <1>2, <1>3, <1>4

LEMMA FaultCounted ==
  ASSUME EndpointTypeOK, Fault \/ UNCHANGED faults, UNCHANGED serving
  PROVE  EndpointTypeOK'
BY FaultsAreFew DEF EndpointTypeOK, Fault

\* The row of a node at an address, or of none.
LEMMA RowTyped ==
  ASSUME NEW a \in Address
  PROVE  /\ CheckNode(a).address \in Maybe
         /\ CheckNode(a).hardware => CheckNode(a).online
BY DEF CheckNode, NoRow, Maybe, Hardware, Answers

\* The types, and that no row of the page reports hardware of a node that is
\* offline: across overlapping registrations, polls of nodes that have since gone,
\* and restarts of the dashboard.
THEOREM DashboardTypes == Spec => []TypeOK
<1> USE DEF Maybe
<1>1. Init => TypeOK
  <2> SUFFICES ASSUME Init PROVE TypeOK
    OBVIOUS
  <2>1. EndpointTypeOK
    BY FaultsAreFew DEF Init, EndpointInit, EndpointTypeOK
  <2>2. NoTable \in [Host -> Maybe]
    BY DEF NoTable
  <2>3. \A h \in Host : cache[h] = NoRow /\ poll.rows[h] = NoRow
    BY DEF Init, NoRows, Resting
  <2> QED
    BY <2>1, <2>2, <2>3 DEF Init, TypeOK, Resting, NoRows, NoRow, Requests
<1>2. TypeOK /\ [Next]_vars => TypeOK'
  <2> SUFFICES ASSUME TypeOK, [Next]_vars PROVE TypeOK'
    OBVIOUS
  <2> USE DEF TypeOK
  <2>1. ASSUME NEW a \in Address, Life(a) \/ GetsReady(a) PROVE TypeOK'
    BY <2>1, EndpointTypeStep DEF Life, GetsReady
  <2>2. ASSUME NEW a \in Address, Register(a) \/ ReadTable(a) \/ Probe(a) PROVE TypeOK'
    <3>1. EndpointTypeOK'
      BY <2>2, FaultCounted DEF Register, ReadTable, Probe, endpointVars
    <3>2. request' \in [Address -> Requests]
      BY <2>2 DEF Register, ReadTable, Probe, Step, Requests
    <3> QED
      BY <2>2, <3>1, <3>2 DEF Register, ReadTable, Probe
  <2>3. ASSUME NEW a \in Address, RegisterNode(a) PROVE TypeOK'
    <3>1. EndpointTypeOK'
      BY <2>3, FaultCounted DEF RegisterNode
    <3>2. registered' \in [Host -> Maybe]
      BY <2>3, NamesAreHosts DEF RegisterNode
    <3>3. request' \in [Address -> Requests]
      BY <2>3 DEF RegisterNode, Step, Requests
    <3> QED
      BY <2>3, <3>1, <3>2, <3>3 DEF RegisterNode
  <2>4. CASE ListNodes
    <3>1. \A nodes \in {MergedNodes, [h \in Host |-> Static[h]]} : nodes \in [Host -> Maybe]
      BY StaticAreAddresses DEF MergedNodes
    <3>2. PICK nodes \in {MergedNodes, [h \in Host |-> Static[h]]} :
            poll' = [Resting EXCEPT !.polling = TRUE, !.nodes = nodes,
                                    !.asked = {h \in Host : nodes[h] # NoAddress}]
      BY <2>4 DEF ListNodes
    <3>3. /\ poll'.polling = TRUE /\ poll'.nodes = nodes /\ poll'.rows = NoRows
          /\ poll'.asked = {h \in Host : nodes[h] # NoAddress}
      BY <3>2 DEF Resting
    <3>4. DOMAIN NoRows = Host /\ \A h \in Host : NoRows[h] = NoRow
      BY DEF NoRows
    <3>5. EndpointTypeOK'
      BY <2>4, FaultCounted DEF ListNodes
    <3> QED
      BY <2>4, <3>1, <3>3, <3>4, <3>5 DEF ListNodes, NoRow
  <2>8. ASSUME NEW h \in Host, CheckListed(h) PROVE TypeOK'
    <3>1. EndpointTypeOK'
      BY <2>8 DEF CheckListed, endpointVars, EndpointTypeOK
    <3>2. /\ poll'.polling = poll.polling /\ poll'.nodes = poll.nodes /\ poll'.asked = poll.asked \ {h}
          /\ poll'.rows = [poll.rows EXCEPT ![h] = Shown(h, poll.nodes[h])]
      BY <2>8 DEF CheckListed
    <3>3. poll.nodes[h] \in Address
      BY <2>8 DEF CheckListed
    <3>4. DOMAIN poll'.rows = Host
      BY <3>2
    <3>5. \A g \in Host : poll'.rows[g] = IF g = h THEN CheckNode(poll.nodes[h]) ELSE poll.rows[g]
      BY <3>2 DEF Shown
    <3>6. \A g \in Host : /\ poll'.rows[g].address \in Maybe
                          /\ poll'.rows[g].hardware => poll'.rows[g].online
      BY <3>3, <3>5, RowTyped
    <3> QED
      BY <2>8, <3>1, <3>2, <3>4, <3>6 DEF CheckListed
  <2>5. CASE PublishPoll
    <3>1. EndpointTypeOK'
      BY <2>5 DEF PublishPoll, endpointVars, EndpointTypeOK
    <3>2. \A h \in Host : Resting.rows[h] = NoRow
      BY DEF Resting, NoRows
    <3>3. Resting.nodes \in [Host -> Maybe]
      BY DEF Resting, NoTable
    <3> QED
      BY <2>5, <3>1, <3>2, <3>3 DEF PublishPoll, Resting, NoRows, NoRow
  <2>6. CASE RestartDashboard
    <3>1. EndpointTypeOK'
      BY <2>6, FaultCounted DEF RestartDashboard
    <3>2. NoTable \in [Host -> Maybe]
      BY DEF NoTable
    <3>3. \A h \in Host : cache'[h] = NoRow /\ poll'.rows[h] = NoRow
      BY <2>6 DEF RestartDashboard, Resting, NoRows
    <3> QED
      BY <2>6, <3>1, <3>2, <3>3 DEF RestartDashboard, Resting, NoRows, NoRow, Requests
  <2>7. CASE UNCHANGED vars
    BY <2>7 DEF vars, endpointVars, EndpointTypeOK
  <2> QED
    BY <2>1, <2>2, <2>3, <2>4, <2>5, <2>6, <2>7, <2>8 DEF Next
<1> QED
  BY <1>1, <1>2, PTL DEF Spec

=============================================================================
