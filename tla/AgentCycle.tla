----------------------------- MODULE AgentCycle -----------------------------
(***************************************************************************)
(* The check cycle of one agent (Run, cycle and alertOnChange of agent.go, *)
(* checks.go, pinger.go): every interval it reads its services and pings   *)
(* its peers, compares with what it remembers of the cycle before, alerts  *)
(* on the changes and remembers the new state.  What it remembers dies     *)
(* with the daemon, and the first cycle of a daemon is silent.             *)
(*                                                                         *)
(* A cycle is one step: each service and peer is read once in it, and what *)
(* is said of one does not depend on another.  The prompt cache and the    *)
(* disk warnings, sent each cycle while they last, are left out.  A node   *)
(* that is alone in mesh.d pings nobody: Peers is empty for it.            *)
(***************************************************************************)
EXTENDS Endpoints, Parts

CONSTANTS
  Self,       \* the address of this agent
  Service,    \* Service[s]: the type of check of s, and what it looks at
  Peers       \* addresses of mesh.d's other machines

ASSUME SelfServes   == Self \in Address /\ Peers \subseteq Address \ {Self}
ASSUME PartsAreKnown == \A s \in DOMAIN Service : Service[s].parts \subseteq Part
ASSUME NamesDiffer  == DOMAIN Service \cap Peers = {}

VARIABLES
  last,       \* lastServiceState; Forgotten before the first cycle
  lastPeers,  \* lastPeerState, whose values are all true
  ran,        \* history: what some cycle of this daemon found up
  said        \* history: this daemon's last alert about each service and peer

cycleVars == <<last, lastPeers, ran, said>>

Services  == DOMAIN Service
Forgotten == [s \in Services |-> "unknown"]
Nothing   == [x \in Services \cup Peers |-> "nothing"]
Words     == {"nothing", "DOWN", "RECOVERED", "UNREACHABLE", "BACK ONLINE"}

CycleTypeOK ==
  /\ last \in [Services -> {"unknown", "running", "down", "not_configured", "error"}]
  /\ lastPeers \subseteq Peers
  /\ said \in [Services \cup Peers -> Words]
  /\ ran \subseteq Services \cup Peers

CycleInit ==
  /\ last = Forgotten /\ lastPeers = {} /\ ran = {} /\ said = Nothing

\* CheckService: systemd, tcp and process look at one part, a compose stack at
\* several, docker at what its check: names; without one it is an error, as an
\* unknown type is.
CheckService(s) ==
  CASE Service[s].type = "not_configured" -> "not_configured"
    [] Service[s].type \notin {"systemd", "tcp", "docker", "docker-compose",
                               "process", "not_configured"} -> "error"
    [] Service[s].type = "docker" /\ Service[s].parts = {} -> "error"
    [] OTHER -> IF Service[s].parts \subseteq works THEN "running" ELSE "down"

\* Checks that wait, for at most five seconds, for an answer.
Timed(s) == Service[s].type \in {"tcp", "docker", "docker-compose"}

\* What the checks say when those of slow have no answer in time.
RunAllChecks(slow) ==
  [s \in Services |-> IF s \in slow /\ CheckService(s) = "running" THEN "down" ELSE CheckService(s)]

\* The peers that answer; an answer may come after the five seconds.
PingAll(late) == {p \in Peers : Answers(p)} \ late

\* What alertOnChange says of a service, if anything.
ServiceAlert(prev, now) ==
  CASE prev = "unknown" -> "nothing"
    [] prev = "running" /\ now # "running" -> "DOWN"
    [] prev \notin {"unknown", "running"} /\ now = "running" -> "RECOVERED"
    [] OTHER -> "nothing"

\* Mutant of PeerAlert: the map is stored before it is compared with.
PeerAlertStored(p, reached) == IF p \in reached /\ p \notin reached THEN "UNREACHABLE" ELSE "nothing"

\* What it says of a peer: the map it compares with holds only those reached,
\* so that a peer in it was up.
PeerAlert(p, reached) ==
  IF p \in lastPeers /\ p \notin reached THEN "UNREACHABLE" ELSE "nothing"

AlertOnChange(now, reached) ==
  [x \in Services \cup Peers |->
    LET word == IF x \in Services THEN ServiceAlert(last[x], now[x])
                ELSE PeerAlert(x, reached)
    IN  IF word = "nothing" THEN said[x] ELSE word]

\* Mutant of Remembered: only the services that run are remembered.
RememberedRunning(now) ==
  [s \in Services |-> IF now[s] = "running" THEN now[s] ELSE last[s]]

\* The state stored for the next cycle.
Remembered(now) == now

\* One cycle.  In a daemon's first, nothing is remembered and nothing is said.
Cycle ==
  /\ Runs(Self)
  /\ \E late \in SUBSET {p \in Peers : Answers(p)}, slow \in SUBSET {s \in Services : Timed(s)} :
       LET now == RunAllChecks(slow)
       IN  /\ IF late \cup slow = {} THEN UNCHANGED faults ELSE Fault
           /\ said' = AlertOnChange(now, PingAll(late))
           /\ last' = Remembered(now)
           /\ lastPeers' = PingAll(late)
           /\ ran' = ran \cup {s \in Services : now[s] = "running"} \cup PingAll(late)
  /\ UNCHANGED <<serving, works>>

\* With the daemon goes what it remembers.
ForgetCycle ==
  /\ last' = Forgotten /\ lastPeers' = {} /\ ran' = {} /\ said' = Nothing
  /\ UNCHANGED works

\* A part of the machine breaks, or is started again by hand.
Break(x)  == x \in works /\ works' = works \ {x} /\ UNCHANGED <<endpointVars, cycleVars>>
Repair(x) == x \notin works /\ works' = works \cup {x} /\ UNCHANGED <<endpointVars, cycleVars>>

(***************************************************************************)
(* Properties.                                                             *)
(***************************************************************************)
\* "Alert on state CHANGES (not every cycle)": an operator who reads a daemon's
\* alerts in order knows, as of its last cycle, of every service that a cycle of it
\* ever found up and that is not any more, whatever came in between, and is not
\* left with DOWN for one that runs; of peers, knows of every outage (of their
\* return the code never speaks); and is never told of what was not up before.
WordIsCurrent ==
  /\ \A x \in Services \cup Peers : said[x] # "nothing" => x \in ran
  /\ \A s \in Services : CASE said[s] = "DOWN" -> last[s] # "running"
                           [] said[s] = "RECOVERED" -> last[s] = "running"
                           [] OTHER -> s \in ran => last[s] = "running"
  /\ \A p \in Peers : p \in ran \ lastPeers => said[p] = "UNREACHABLE"

\* A service that works for good in a daemon that lives on is not left called
\* DOWN.
OutageClosed ==
  \A s \in Services :
    <>[](CheckService(s) = "running" /\ Runs(Self)) => <>[](said[s] # "DOWN")

=============================================================================
