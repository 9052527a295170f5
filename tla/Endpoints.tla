----------------------------- MODULE Endpoints ------------------------------
(***************************************************************************)
(* The health APIs of the fleet's daemons, as those who call them meet     *)
(* them.  runDaemon starts the listener, the hardware probe and the        *)
(* registration in goroutines of their own: a daemon may announce itself   *)
(* before its port is bound, and serves /v1/health without an inventory    *)
(* until the probe ends.  A build of before the inventory never has one.   *)
(***************************************************************************)
EXTENDS Naturals

CONSTANTS
  Address,    \* host:port of each daemon
  Old,        \* those of builds that report no hardware
  MaxFaults   \* bound: daemons stopped, answers too late

ASSUME OldAreAddresses == Old \subseteq Address
ASSUME FaultsAreFew    == MaxFaults \in Nat

VARIABLES
  serving,    \* how far the daemon at each address is
  faults      \* faults so far

endpointVars == <<serving, faults>>

EndpointTypeOK ==
  /\ serving \in [Address -> {"down", "booting", "probing", "ready"}]
  /\ faults \in 0..MaxFaults

EndpointInit == serving = [a \in Address |-> "down"] /\ faults = 0

Runs(a)    == serving[a] # "down"
Answers(a) == serving[a] \in {"probing", "ready"}

\* hardware in the health payload
Hardware(a) == serving[a] = "ready" /\ a \notin Old

Goes(a, to) == serving' = [serving EXCEPT ![a] = to]
Fault       == faults < MaxFaults /\ faults' = faults + 1

\* The service manager starts the daemon.
StartDaemon(a) == serving[a] = "down" /\ Goes(a, "booting") /\ UNCHANGED faults

\* The port is bound; the probe may be over by then.
Listen(a) ==
  /\ serving[a] = "booting"
  /\ \E to \in IF a \in Old THEN {"ready"} ELSE {"probing", "ready"} : Goes(a, to)
  /\ UNCHANGED faults

\* collectHardware
CollectHardware(a) == serving[a] = "probing" /\ Goes(a, "ready") /\ UNCHANGED faults

\* The daemon stops: a restart, a crash, its host's sleep.
StopDaemon(a) == Runs(a) /\ Goes(a, "down") /\ Fault

=============================================================================
