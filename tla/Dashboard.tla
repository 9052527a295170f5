----------------------------- MODULE Dashboard ------------------------------
(***************************************************************************)
(* The dashboard (internal/dashboard/handler.go and store.go) and the      *)
(* daemons that register with it (registerWithDashboard).  A registration  *)
(* reads the table, asks the new address for its inventory when the host   *)
(* is registered elsewhere, and upserts; requests overlap.  A background   *)
(* loop lists the nodes, static ones first, asks them all for their health *)
(* at once, and when the last has answered replaces the cache that the     *)
(* page and the API answer from.                                           *)
(*                                                                         *)
(* Left out: settings, binaries, the proxies to one node's agent (which    *)
(* resolve it as the poll does) and the history behind the 24 h uptime.    *)
(***************************************************************************)
EXTENDS Endpoints

CONSTANTS
  HostOf,     \* HostOf[a]: the name the daemon at a registers
  Announced,  \* the daemons started with -dashboard
  Static,     \* Static[h]: the address of h in mesh.d or --nodes, or NoAddress
  NoAddress

ASSUME AnnouncedServe == Announced \subseteq Address

VARIABLES
  registered, \* registered_nodes: per name, its address
  request,    \* each daemon's registration in progress
  poll,       \* the poll in progress: the nodes listed, those to ask, the answers
  cache       \* what the page shows: per name, its row

vars == <<endpointVars, registered, request, poll, cache>>

Host     == {HostOf[a] : a \in Address}
NoRow    == [address |-> NoAddress, online |-> FALSE, hardware |-> FALSE]
NoTable  == [h \in Host |-> NoAddress]
NoRows   == [h \in Host |-> NoRow]
Resting  == [polling |-> FALSE, nodes |-> NoTable, asked |-> {}, rows |-> NoRows]
Requests == {"none", "posted", "doubted", "accepted"}

ASSUME StaticAreAddresses == \A h \in Host : Static[h] \in Address \cup {NoAddress}

TypeOK ==
  /\ EndpointTypeOK
  /\ registered \in [Host -> Address \cup {NoAddress}]
  /\ request \in [Address -> Requests]
  /\ poll.polling \in BOOLEAN
  /\ poll.nodes \in [Host -> Address \cup {NoAddress}]
  /\ poll.asked \subseteq {h \in Host : poll.nodes[h] # NoAddress}
  /\ DOMAIN poll.rows = Host
  /\ \A h \in Host : \A row \in {cache[h], poll.rows[h]} :
       /\ row.address \in Address \cup {NoAddress}
       /\ row.hardware => row.online

Init ==
  /\ EndpointInit
  /\ registered = NoTable
  /\ request = [a \in Address |-> "none"]
  /\ poll = Resting
  /\ cache = NoRows

Step(a, from, to) == request[a] = from /\ request' = [request EXCEPT ![a] = to]

(***************************************************************************)
(* Registration.                                                           *)
(***************************************************************************)
\* registerWithDashboard's loop: every ten minutes, every thirty seconds after
\* a failure; from the daemon's first moments.  Requests last seconds: that one
\* starts during another is counted with the faults.
Register(a) ==
  /\ Runs(a) /\ a \in Announced /\ Step(a, "none", "posted")
  /\ IF \A b \in Address : request[b] = "none" THEN UNCHANGED faults ELSE Fault
  /\ UNCHANGED <<serving, registered, poll, cache>>

\* Mutant of Elsewhere: no guard.
ElsewhereNever(a) == FALSE

\* The host is registered at another address: the guard applies.
Elsewhere(a) == registered[HostOf[a]] \notin {NoAddress, a}

\* handleRegister reads the table.  A read that fails lets the request pass.
ReadTable(a) ==
  /\ \/ Step(a, "posted", IF Elsewhere(a) THEN "doubted" ELSE "accepted") /\ UNCHANGED faults
     \/ Step(a, "posted", "accepted") /\ Fault
  /\ UNCHANGED <<serving, registered, poll, cache>>

\* The guard asks the address: an answer without hardware ends the request, no
\* answer within two seconds lets it pass.
Probe(a) ==
  /\ \/ Answers(a) /\ ~Hardware(a) /\ Step(a, "doubted", "none") /\ UNCHANGED faults
     \/ Hardware(a) /\ Step(a, "doubted", "accepted") /\ UNCHANGED faults
     \/ ~Answers(a) /\ Step(a, "doubted", "accepted") /\ UNCHANGED faults
     \/ Answers(a) /\ ~Hardware(a) /\ Step(a, "doubted", "accepted") /\ Fault
  /\ UNCHANGED <<serving, registered, poll, cache>>

\* RegisterNode: an upsert by name, which may fail.
RegisterNode(a) ==
  /\ Step(a, "accepted", "none")
  /\ \/ registered' = [registered EXCEPT ![HostOf[a]] = a] /\ UNCHANGED faults
     \/ Fault /\ UNCHANGED registered
  /\ UNCHANGED <<serving, poll, cache>>

(***************************************************************************)
(* The poll.                                                               *)
(***************************************************************************)
\* The static nodes, then the registered ones of other names.
MergedNodes ==
  [h \in Host |-> IF Static[h] # NoAddress THEN Static[h] ELSE registered[h]]

\* The static ones alone, where the table cannot be read.
ListNodes ==
  /\ ~poll.polling
  /\ \E nodes \in {MergedNodes, [h \in Host |-> Static[h]]} :
       /\ IF nodes = MergedNodes THEN UNCHANGED faults ELSE Fault
       /\ poll' = [Resting EXCEPT !.polling = TRUE, !.nodes = nodes,
                                  !.asked = {h \in Host : nodes[h] # NoAddress}]
  /\ UNCHANGED <<serving, registered, request, cache>>

\* Mutant of CheckNode: an error on the way leaves what an earlier answer gave.
CheckNodeKeepsHardware(a) ==
  [address |-> a, online |-> Answers(a), hardware |-> Hardware(a) \/ (~Answers(a) /\ a \notin Old)]

\* checkNode: no answer, an error or a bad body leave the node offline.
CheckNode(a) ==
  IF ~Answers(a) THEN [NoRow EXCEPT !.address = a]
  ELSE [address |-> a, online |-> TRUE, hardware |-> Hardware(a)]

\* Mutant of Shown: a node that did not answer keeps the row it had.
ShownBefore(h, a) ==
  IF Answers(a) \/ cache[h] = NoRow THEN CheckNode(a) ELSE cache[h]

\* The row of a node listed at a.
Shown(h, a) == CheckNode(a)

\* Each node listed is asked in a goroutine of its own.
CheckListed(h) ==
  /\ h \in poll.asked
  /\ poll' = [poll EXCEPT !.asked = @ \ {h}, !.rows[h] = Shown(h, poll.nodes[h])]
  /\ UNCHANGED <<endpointVars, registered, request, cache>>

\* All have answered, or not: the cache is replaced.
PublishPoll ==
  /\ poll.polling /\ poll.asked = {}
  /\ cache' = poll.rows
  /\ poll' = Resting
  /\ UNCHANGED <<endpointVars, registered, request>>

\* A daemon starts, or stops; its request goes on in the dashboard.
Life(a) ==
  /\ StartDaemon(a) \/ StopDaemon(a)
  /\ UNCHANGED <<registered, request, poll, cache>>

\* The dashboard's process restarts; the table is on disk.
RestartDashboard ==
  /\ Fault
  /\ request' = [a \in Address |-> "none"]
  /\ poll' = Resting /\ cache' = NoRows
  /\ UNCHANGED <<serving, registered>>

GetsReady(a) ==
  /\ Listen(a) \/ CollectHardware(a)
  /\ UNCHANGED <<registered, request, poll, cache>>

Next ==
  \/ \E a \in Address : \/ Life(a) \/ GetsReady(a)
                        \/ Register(a) \/ ReadTable(a) \/ Probe(a) \/ RegisterNode(a)
  \/ \E h \in Host : CheckListed(h)
  \/ ListNodes \/ PublishPoll \/ RestartDashboard

\* The dashboard's loop and handlers, and the goroutines of a daemon that runs.
Fairness ==
  /\ WF_vars(ListNodes) /\ WF_vars(PublishPoll)
  /\ \A h \in Host : WF_vars(CheckListed(h))
  /\ \A a \in Address :
       /\ SF_vars(Register(a)) /\ WF_vars(ReadTable(a))
       /\ WF_vars(Probe(a)) /\ WF_vars(RegisterNode(a))
       /\ WF_vars(GetsReady(a))

Spec == Init /\ [][Next]_vars /\ Fairness

(***************************************************************************)
(* Properties.                                                             *)
(***************************************************************************)
\* The guard and the periodic registration together settle it: once a daemon
\* that reports hardware stays up, its host ends up registered at it for good,
\* however long the old one goes on registering, however the requests overlap
\* and whatever probes came back late.
NewerWins ==
  \A a \in Announced \ Old :
    <>[](serving[a] = "ready") /\ (\A b \in Announced \ (Old \cup {a}) : HostOf[b] # HostOf[a])
      => <>[](registered[HostOf[a]] = a)

\* What the page shows becomes true: a node listed at an address where its
\* daemon settles, up or down, ends up shown as it is.
ShownIsTrue ==
  \A a \in Address, s \in {"down", "ready"} :
    <>[](MergedNodes[HostOf[a]] = a /\ serving[a] = s)
      => <>[](cache[HostOf[a]] = CheckNode(a))

=============================================================================
