------------------------------- MODULE Units --------------------------------
(***************************************************************************)
(* systemd units under the recipes' functions: stdlib_unit.go, the login   *)
(* trigger of stdlib_rc.go (Linux) and stdlib_gnome.go.  What systemd      *)
(* knows of a unit is its file as of the last daemon-reload; what a unit   *)
(* executes is what systemd knew when it was started; an empty file counts *)
(* as a masked unit.  systemctl --user fails while the user's manager is   *)
(* not there (no session, no lingering).                                   *)
(***************************************************************************)
EXTENDS RcFiles, Parts

CONSTANTS
  UserUnit,   \* units of the user's manager; their files have their names
  SystemUnit,
  Running     \* sets of units that may run at first, if they have a file

ASSUME UnitsAreParts == UserUnit \cup SystemUnit \cup UNION Running \subseteq Part

VARIABLES
  bus,        \* the user's manager answers
  loaded,     \* what it knows of its units
  image,      \* what each unit executes, or executed last
  enabled,
  masked

unitVars == <<works, bus, loaded, image, enabled, masked>>

UnitsInit ==
  /\ works \in {{u \in U : u \in UserUnit => Read(u) # Torn} : U \in Running}
  /\ bus \in BOOLEAN
  /\ loaded = [u \in UserUnit |-> Read(u)] /\ image = loaded
  /\ enabled = {} /\ masked = {}

\* systemctl --user daemon-reload
Reload == loaded' = [u \in UserUnit |-> Read(u)]

CanStart(u) == bus /\ loaded[u] # Torn /\ u \notin masked

\* A unit starts anew, with what systemd knows of it.
Starts(U) ==
  /\ works' = works \cup U
  /\ image' = [u \in UserUnit |-> IF u \in U THEN loaded[u] ELSE image[u]]

\* A candidate that is active and whose restart works; a system unit is restarted
\* through sudo -n.
Restartable(u) == u \in works /\ IF u \in UserUnit THEN CanStart(u) ELSE priv = "sudo"

\* system.unit-restart: the first candidate, the user's before the system's;
\* none is a result, too.
UnitRestart ==
  /\ On("unit-restart", "begin")
  /\ LET units == Step.user_units \o Step.system_units
         i     == SelectInSeq(units, Restartable)
     IN  IF i = 0 THEN UNCHANGED <<works, image>> ELSE Starts({units[i]})
  /\ StepEnds(TRUE) /\ UNCHANGED <<disk, bus, loaded, enabled, masked>>

\* Each from becomes to; a value stands for the text that ReplaceAll replaces.
Patched(lines, froms, to) ==
  [i \in DOMAIN lines |-> IF lines[i].val \in froms THEN [lines[i] EXCEPT !.val = to] ELSE lines[i]]

FoundUnits == {u \in ToSet(Step.units) : Exists(u)}

\* system.unit-repoint, one unit of its list.
RepointUnit ==
  /\ On("unit-repoint", "begin") /\ nth <= Len(Step.units)
  /\ LET u   == Step.units[nth]
         new == Patched(Read(u), Step.from, Step.to)
     IN  IF Exists(u) /\ new # Read(u) THEN AtomicWrite(u, new, "enable")
         ELSE Go("enable") /\ UNCHANGED disk
  /\ UNCHANGED unitVars

RepointEnable ==
  /\ On("unit-repoint", "enable")
  /\ enabled' = IF Step.enable /\ bus /\ Step.units[nth] \in FoundUnits
                THEN enabled \cup {Step.units[nth]} ELSE enabled
  /\ GoNth("begin", nth + 1) /\ UNCHANGED <<disk, works, bus, loaded, image, masked>>

\* Mutant of RepointReload: a unit that is already enabled is not reloaded for.
RepointReloadIfNew(found) == bus /\ found \ enabled # {}

\* The manager is reloaded whenever one of the units has a file, patched or not.
RepointReload(found) == bus /\ found # {}

RepointEnds ==
  /\ On("unit-repoint", "begin") /\ nth > Len(Step.units)
  /\ IF RepointReload(FoundUnits) THEN Reload ELSE UNCHANGED loaded
  /\ StepEnds(TRUE) /\ UNCHANGED <<disk, works, bus, image, enabled, masked>>

\* system.user-unit: an existing file is kept unless overwrite says otherwise.
\* With enable=false the file is all.
WriteUserUnit ==
  /\ On("user-unit", "begin")
  /\ LET next == IF Step.enable THEN "arm" ELSE "done"
     IN  CASE ~Exists(Step.name) \/ Step.overwrite -> WriteFile(Step.name, Step.unit, next)
           [] Exists(Step.name) /\ ~Step.overwrite /\ Step.enable -> Go("arm") /\ UNCHANGED disk
           [] OTHER -> StepEnds(TRUE) /\ UNCHANGED disk
  /\ UNCHANGED unitVars

\* daemon-reload, enable --now: a unit that runs already is not restarted.
ArmUserUnit ==
  /\ On("user-unit", "arm")
  /\ LET u     == Step.name
         takes == Read(u) # Torn /\ u \notin masked
     IN  CASE ~bus -> StepEnds(FALSE) /\ UNCHANGED <<works, loaded, image, enabled>>
           [] bus /\ ~takes -> StepEnds(~Step.strict) /\ Reload /\ UNCHANGED <<works, image, enabled>>
           [] OTHER ->
                /\ Reload /\ enabled' = enabled \cup {u} /\ works' = works \cup {u}
                /\ image' = [image EXCEPT ![u] = IF u \in works THEN @ ELSE Read(u)]
                /\ StepEnds(TRUE)
  /\ UNCHANGED <<disk, bus, masked>>

\* system.login-trigger: the unit is rewritten by every run.
WriteLoginTrigger ==
  /\ On("login-trigger", "begin")
  /\ WriteFile(Step.name, Step.unit, "arm") /\ UNCHANGED unitVars

\* The command of a trigger succeeds.
CommandSucceeds == Step.runs = "always" \/ (Step.runs = "online" /\ net)

\* daemon-reload, enable, start: a oneshot that has run, and succeeded or not, by
\* the time start returns.
ArmLoginTrigger ==
  /\ On("login-trigger", "arm")
  /\ IF bus THEN Reload ELSE UNCHANGED loaded
  /\ IF bus /\ Step.name \notin masked
     THEN enabled' = enabled \cup {Step.name} /\ image' = [image EXCEPT ![Step.name] = Read(Step.name)]
     ELSE UNCHANGED <<enabled, image>>
  /\ StepEnds(bus /\ Step.name \notin masked /\ CommandSucceeds)
  /\ UNCHANGED <<disk, works, bus, masked>>

\* system.gnome-keyring: every systemctl is best effort; then the rc files.
GnomeUnits ==
  /\ On("gnome-keyring", "begin")
  /\ IF bus
     THEN LET gone == {"gpg-agent-ssh", "ssh-agent"}
              gcr  == {u \in {"gcr-ssh-agent"} : CanStart(u)}
          IN  /\ enabled' = (enabled \cup gcr) \ gone /\ masked' = masked \cup {"gpg-agent-ssh"}
              /\ works' = (works \cup gcr) \ gone
              /\ image' = [u \in UserUnit |-> IF u \in gcr \ works THEN loaded[u] ELSE image[u]]
     ELSE UNCHANGED <<enabled, masked, works, image>>
  /\ Go("rc") /\ UNCHANGED <<disk, bus, loaded>>

GnomeRcFile ==
  /\ On("gnome-keyring", "rc") /\ nth <= Len(Step.rcfiles)
  /\ RcExports(Step.rcfiles[nth], "SSH_AUTH_SOCK", "gcr", "next")
  /\ UNCHANGED unitVars

GnomeNextFile == On("gnome-keyring", "next") /\ GoNth("rc", nth + 1) /\ UNCHANGED <<disk, unitVars>>

\* verify=true: the socket must be there after the enable.
GnomeVerified == Step.verify => "gcr-ssh-agent" \in works

GnomeEnds ==
  /\ On("gnome-keyring", "rc") /\ nth > Len(Step.rcfiles)
  /\ StepEnds(GnomeVerified) /\ UNCHANGED <<disk, unitVars>>

UnitStep ==
  \/ UnitRestart \/ RepointUnit \/ RepointEnable \/ RepointEnds
  \/ WriteUserUnit \/ ArmUserUnit \/ WriteLoginTrigger \/ ArmLoginTrigger
  \/ GnomeUnits \/ GnomeRcFile \/ GnomeNextFile \/ GnomeEnds

\* The user's manager goes, or comes back.  (The units it ran are left running:
\* a system-level agent may lose only its way to the bus.)
BusFlips ==
  /\ bus' = ~bus /\ Disturbed /\ UNCHANGED <<disk, net, works, loaded, image, enabled, masked>>

=============================================================================
