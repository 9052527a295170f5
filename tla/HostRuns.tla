------------------------------ MODULE HostRuns ------------------------------
(***************************************************************************)
(* A machine: a recipe that the apply loop runs over and over, and the     *)
(* agent's check cycle that watches the units the recipe's functions stop  *)
(* and start.  A run is one sequence of steps; cycles, the network, the    *)
(* user and crashes interleave with it between any two of its steps.       *)
(***************************************************************************)
EXTENDS Units, Installs, Mounts, AgentCycle

CONSTANTS
  UserLines,   \* lines that are the user's own: pairs of a file and a line
  Edits        \* those the user may yet add

\* What a step is made of.
StepIsTyped(s) ==
  /\ s.fn = "rc-line" => IsLine(s.line)
  /\ s.fn = "tags" => s.add \in Seq(ToSet(s.add))
  /\ s.fn = "unit-repoint" => s.units \in Seq(UserUnit)
  /\ s.fn = "unit-restart" => s.user_units \in Seq(UserUnit) /\ s.system_units \in Seq(SystemUnit)
  /\ s.fn \in {"user-unit", "login-trigger"} =>
       /\ s.name \in UserUnit /\ s.unit # Torn /\ s.unit \in Seq(ToSet(s.unit))
       /\ \A l \in ToSet(s.unit) : IsLine(l)
  /\ s.fn = "gnome-keyring" => /\ s.rcfiles \in Seq(ToSet(s.rcfiles))
                               /\ {"gcr-ssh-agent", "gpg-agent-ssh", "ssh-agent"} \subseteq UserUnit
  /\ s.fn = "apt-install" => s.packages \in Seq(ToSet(s.packages)) /\ s.verify \in Seq(ToSet(s.verify))
  /\ s.fn \in {"mount-share", "mount-device"} => s.device \notin {"none", "autofs"}

\* The files it may write.
Touches(s) ==
  CASE s.fn \in {"rc-line", "rc-export"} -> {s.file}
    [] s.fn = "schedule" -> {"crontab"}
    [] s.fn = "tags" -> {"node.yaml"}
    [] s.fn = "unit-repoint" -> ToSet(s.units)
    [] s.fn \in {"user-unit", "login-trigger"} -> {s.name}
    [] s.fn = "gnome-keyring" -> ToSet(s.rcfiles)
    [] s.fn = "git-extract" -> {s.dest}
    [] s.fn = "mount-share" -> {"smbcredentials"} \cup ToSet(ShareUnits)
    [] s.fn = "mount-device" -> {"fstab"}
    [] OTHER -> {}

\* A line of file p.
LineIsTyped(p, l) ==
  IsLine(l) /\ (p = "node.yaml" /\ l.key \in {"labels", "tags"} => l.val \in Seq(ToSet(l.val)))

ASSUME RecipesAreTyped ==
  /\ MaxUpsets \in Nat
  /\ \A d \in Disks : /\ d = [p \in DOMAIN d |-> d[p]]
                      /\ \A p \in DOMAIN d : /\ d[p] \in Seq(ToSet(d[p]))
                                             /\ \A l \in ToSet(d[p]) : LineIsTyped(p, l)
  /\ \A e \in Edits : LineIsTyped(e[1], e[2])
  /\ \A r \in Recipes : /\ r \in Seq(ToSet(r)) /\ r # <<>>
                        /\ \A i \in DOMAIN r : StepIsTyped(r[i])

agentVars == <<endpointVars, cycleVars>>
hostVars  == <<bus, loaded, image, enabled, masked>>
vars      == <<fileVars, unitVars, installVars, mountVars, agentVars>>

TypeOK ==
  /\ at \in 0..Len(recipe) /\ nth \in Nat \ {0} /\ upsets \in 0..MaxUpsets
  /\ stage \in {"begin", "write", "fill", "install", "enable", "arm", "rc", "next", "show",
                "root", "mount"}
  /\ (stage \in {"write", "fill", "install"}) = (held # NoWrite)
  /\ at = 0 => stage = "begin" /\ nth = 1 /\ clean /\ before = NoDisk
  /\ settled => clean
  /\ works \subseteq Part /\ enabled \cup masked \subseteq UserUnit
  /\ \A u \in works \cap UserUnit : image[u] # Torn
  /\ tracked \in Blobs /\ upstream \in Blobs /\ flat \subseteq {"system", "user"}
  /\ mounted = "autofs" => armed # "none"
  /\ systemd \in BOOLEAN /\ drive \in {"fine", "broken", "absent"}
  /\ EndpointTypeOK /\ CycleTypeOK

Init ==
  /\ FilesInit /\ UnitsInit /\ InstallsInit /\ MountsInit /\ EndpointInit /\ CycleInit

RunStep ==
  \/ (RunStarts \/ Truncate \/ Fill \/ RcStep) /\ UNCHANGED <<unitVars, installVars, mountVars>>
  \/ UnitStep /\ UNCHANGED <<installVars, mountVars>>
  \/ InstallStep /\ UNCHANGED <<unitVars, mountVars>>
  \/ MountStep /\ UNCHANGED <<unitVars, installVars>>

Disturbance ==
  \/ (KillRun \/ NetFlips \/ \E e \in Edits : UserEdits(e[1], e[2]))
     /\ UNCHANGED <<unitVars, installVars, mountVars>>
  \/ BusFlips /\ UNCHANGED <<installVars, mountVars>>
  \/ PushBinary /\ UNCHANGED <<unitVars, mountVars>>
  \/ (Unmount \/ Replug) /\ UNCHANGED <<unitVars, installVars>>

\* A unit that crashes, or that its user starts, disturbs the run of a recipe.
Crashes(u) ==
  /\ Break(u) /\ Disturbed
  /\ UNCHANGED <<disk, net, hostVars, installVars, mountVars>>

StartedByHand(u) ==
  /\ Repair(u) /\ (u \in UserUnit => CanStart(u))
  /\ image' = [v \in UserUnit |-> IF v = u THEN loaded[v] ELSE image[v]]
  /\ Disturbed
  /\ UNCHANGED <<disk, net, bus, loaded, enabled, masked, installVars, mountVars>>

Watch ==
  /\ \/ Cycle
     \/ StopDaemon(Self) /\ ForgetCycle
     \/ /\ UNCHANGED <<cycleVars, works>>
        /\ \/ \E p \in Peers : StopDaemon(p)
           \/ \E a \in Address : StartDaemon(a) \/ Listen(a)
  /\ UNCHANGED <<fileVars, hostVars, installVars, mountVars>>

Next ==
  \/ RunStep /\ UNCHANGED agentVars
  \/ Disturbance /\ UNCHANGED agentVars
  \/ Use /\ UNCHANGED <<unitVars, installVars, agentVars>>
  \/ \E u \in Part : Crashes(u) \/ StartedByHand(u)
  \/ Watch

\* The apply loop comes back, the ticker comes back, the service manager starts
\* the daemon.
Fairness ==
  /\ WF_vars(RunStep /\ UNCHANGED agentVars)
  /\ WF_vars(Cycle /\ UNCHANGED <<fileVars, hostVars, installVars, mountVars>>)

Spec == Init /\ [][Next]_vars /\ Fairness

(***************************************************************************)
(* Properties.                                                             *)
(***************************************************************************)
AptMet(s) ==
  \A i \in DOMAIN s.packages :
    \/ Has(s.packages[i].name) /\ Meets(s.packages[i].ver, pkgs[s.packages[i].name])
    \/ s.packages[i].name \in ToSet(s.verify) /\ Resolves(s.verify)

\* What a step that returned no error has done to the machine.  A function whose
\* failures are results has nothing to show without network, root or bus.
Met(s) ==
  CASE s.fn = "rc-line" -> Some(Read(s.file), LAMBDA l : Occurs(s.marker, l))
    [] s.fn = "rc-export" ->
         /\ Some(Read(s.file), LAMBDA l : l.key = s.var)
         /\ ~Some(Read(s.file), LAMBDA l : l.key = s.var /\ l.val # s.val)
    [] s.fn = "schedule" ->
         Cardinality({i \in DOMAIN Read("crontab") :
                        Occurs(s.payload, Read("crontab")[i]) \/ Occurs(s.name, Read("crontab")[i])}) = 1
    [] s.fn = "tags" ->
         LET tags == ToSet(TagsOf(Read("node.yaml"), TagKey(Read("node.yaml"))))
         IN  ToSet(s.add) \subseteq tags /\ tags \cap s.remove \subseteq ToSet(s.add)
    [] s.fn = "unit-repoint" ->
         \A u \in ToSet(s.units) : /\ ~Some(Read(u), LAMBDA l : l.val \in s.from)
                                   /\ bus => loaded[u] = Read(u)
    [] s.fn = "user-unit" -> /\ s.overwrite => Read(s.name) = s.unit
                             /\ s.strict /\ s.enable => s.name \in enabled \cap works
    [] s.fn = "login-trigger" ->
         Read(s.name) = s.unit /\ image[s.name] = s.unit /\ s.name \in enabled
    [] s.fn = "gnome-keyring" -> bus => "gpg-agent-ssh" \in masked \ (enabled \cup works)
    [] s.fn = "apt-install" -> net /\ Root => AptMet(s)
    [] s.fn = "flatpak" -> s.require => flat # {}
    [] s.fn = "git-extract" -> /\ Read(s.dest) = <<Line("", "binary", tracked)>>
                               /\ s.fetch = "require" => tracked = upstream
    [] s.fn = "mount-share" -> \/ mounted # "none"
                               \/ \A p \in ToSet(ShareUnits) : Read(p) = ShareUnit(s.device)
    [] s.fn = "mount-device" -> mounted # "none"
    [] OTHER -> TRUE

\* Wherever the runs before were cut, and whatever the user, the network and the
\* bus did: after a run that went through undisturbed every step of the recipe is
\* met, so that no later step undoes an earlier one and nothing a killed run left
\* is taken for done.
GoalsMet == at = 0 /\ settled => \A i \in DOMAIN recipe : Met(recipe[i])

\* "Idempotent": of two such runs in a row the second leaves every file as the
\* first did.
RepeatChangesNothing ==
  [][settled /\ settled' /\ at # 0 /\ at' = 0 => disk' = before]_vars

\* A recipe that repoints a unit's binary and then restarts what is active leaves
\* the first active candidate executing what its unit file says, a run killed
\* between the rename and the daemon-reload before it notwithstanding.
RestartTakesHold ==
  at = 0 /\ settled /\ bus =>
    \A i, j \in DOMAIN recipe :
      /\ i < j /\ recipe[i].fn = "unit-repoint" /\ recipe[j].fn = "unit-restart"
      => LET units == recipe[j].user_units
             k     == SelectInSeq(units, LAMBDA u : u \in works)
         IN  k # 0 /\ units[k] \in ToSet(recipe[i].units) => image[units[k]] = Read(units[k])

\* The line stands in the file and, where a write of the file is under way, in what
\* it puts down.
Holds(p, line) ==
  LET written == held # NoWrite /\ held.path = p
  IN  /\ written => Some(held.content, LAMBDA l : l = line)
      /\ ~(written /\ stage = "fill") => Some(Read(p), LAMBDA l : l = line)

\* A run is killed inside os.WriteFile, on file p.
KilledInWrite(p) == stage = "fill" /\ held.path = p /\ KillRun

\* Recipes that repoint units and then restart what is active do nothing else to
\* units.
RestartsComeLast ==
  \A r \in Recipes :
    (\E i, j \in DOMAIN r : i < j /\ r[i].fn = "unit-repoint" /\ r[j].fn = "unit-restart") =>
      /\ \A i \in DOMAIN r :
           /\ r[i].fn \notin {"user-unit", "login-trigger", "gnome-keyring"}
           /\ r[i].fn # "unit-repoint" => Touches(r[i]) \cap UserUnit = {}
      /\ \A i, j \in DOMAIN r : i < j => ~(r[i].fn = "unit-restart" /\ r[j].fn = "unit-repoint")

\* "Ensure a line exists", "rewritten in place", "never clobbering units we don't
\* own": a line of the user's that a step has read in a file is in what it makes of
\* the file, and no step, kill or edit of others takes it out, save for a run killed
\* inside os.WriteFile itself.  A line added after the read is not in it: the code
\* loses that one.
UserLinesKept ==
  [][\A own \in UserLines :
       Holds(own[1], own[2]) => Holds(own[1], own[2])' \/ KilledInWrite(own[1])]_vars

\* What a step rewrites is not this line of this file.
Spares(s, p, line) ==
  CASE s.fn = "rc-export" -> s.file = p => line.key # s.var
    [] s.fn = "schedule" -> p = "crontab" => ~Occurs(s.name, line) /\ ~Occurs(s.payload, line)
    [] s.fn = "tags" -> p = "node.yaml" => line.key \notin {"labels", "tags"}
    [] s.fn = "unit-repoint" -> p \in ToSet(s.units) => line.val \notin s.from
    [] s.fn = "user-unit" -> p = s.name => ~s.overwrite
    [] s.fn = "login-trigger" -> p # s.name
    [] s.fn = "gnome-keyring" -> p \in ToSet(s.rcfiles) => line.key # "SSH_AUTH_SOCK"
    [] s.fn = "git-extract" -> p # s.dest
    [] s.fn = "mount-share" -> p # "smbcredentials"
    [] OTHER -> TRUE

\* The user's lines are not what recipes rewrite, and a unit of the share in which
\* one stands does not begin with a line of gogitops.
LinesAreTheUsers ==
  /\ \A own \in UserLines : \A r \in Recipes : \A i \in DOMAIN r : Spares(r[i], own[1], own[2])
  /\ \A r \in Recipes : \A i \in DOMAIN r :
       r[i].fn # "mount-share" => Touches(r[i]) \cap ToSet(ShareUnits) = {}
  /\ \A e \in Edits : e[1] \notin ToSet(ShareUnits)
  /\ \A own \in UserLines : own[1] \in ToSet(ShareUnits) =>
       /\ own[2].lead # "gogitops"
       /\ \A d \in Disks : own[1] \in DOMAIN d /\ d[own[1]] # Torn => d[own[1]][1].lead # "gogitops"

\* The line a step keeps in a file, and the lines a schedule takes for its own.
OwnLine(s) ==
  CASE s.fn = "rc-line"   -> s.line
    [] s.fn = "rc-export" -> Line("", s.var, s.val)
    [] s.fn = "schedule"  -> Line(s.spec, s.name, s.payload)
    [] OTHER              -> Line("", "SSH_AUTH_SOCK", "gcr")

Finds(s, line) == Occurs(s.name, line) \/ Occurs(s.payload, line)

Exporter(s) == s.fn \in {"rc-export", "gnome-keyring"}

\* A step t that writes to a file after s leaves there what s has done.
SharesFile(s, t) ==
  CASE s.fn = "rc-line"  -> t.fn = "rc-line" \/ Exporter(t)
    [] Exporter(s)       -> /\ t.fn = "rc-line" \/ Exporter(t)
                            /\ OwnLine(t).key = OwnLine(s).key => OwnLine(t).val = OwnLine(s).val
    [] s.fn = "schedule" -> t.fn = "schedule" /\ ~Finds(t, OwnLine(s)) /\ ~Finds(s, OwnLine(t))
    [] s.fn = "tags"     -> /\ t.fn = "tags"
                            /\ ToSet(s.add) \cap t.remove \subseteq ToSet(t.add)
                            /\ ToSet(t.add) \cap s.remove \subseteq ToSet(s.add)
    [] OTHER -> FALSE

\* Nor does it disable or enable a unit that s has left otherwise.
Leaves(s, t) ==
  /\ Touches(s) \cap Touches(t) # {} => SharesFile(s, t)
  /\ t.fn = "gnome-keyring" /\ s.fn \in {"user-unit", "login-trigger"} =>
       s.name \notin {"gpg-agent-ssh", "ssh-agent"}
  /\ s.fn = "gnome-keyring" /\ t.fn = "unit-repoint" /\ t.enable => "gpg-agent-ssh" \notin ToSet(t.units)

\* The lines that may come to stand in file p, whoever puts them there.
MayStand(p, r) ==
  (UNION {ToSet(d[p]) : d \in {c \in Disks : p \in DOMAIN c}})
  \cup {e[2] : e \in {f \in Edits : f[1] = p}}
  \cup {OwnLine(r[k]) : k \in {i \in DOMAIN r : p \in Touches(r[i])}}

\* What apt-get is asked for it has, at the version asked for.
Obtainable(s) ==
  \A i \in DOMAIN s.packages :
    LET tok == s.packages[i]
    IN  IF tok.ver = "any" /\ Len(s.verify) > 1 /\ tok.name \in ToSet(s.verify)
        THEN Offers(FirstAptCandidate(tok.name, s.verify))
        ELSE Offers(tok.name) /\ Meets(tok.ver, Offered[tok.name])

\* A recipe asks for what can be had, each step for nothing that it undoes itself,
\* and none for what a later one undoes.  An export rewrites no line by which an
\* rc-line before it would be found.
StepsAgree ==
  \A r \in Recipes :
    /\ \A i \in DOMAIN r :
         /\ r[i].fn = "rc-line"      => Occurs(r[i].marker, r[i].line)
         /\ r[i].fn = "unit-repoint" => r[i].to \notin r[i].from
         /\ r[i].fn = "apt-install"  => Obtainable(r[i])
    /\ \A i, j \in DOMAIN r : i < j =>
         /\ Leaves(r[i], r[j])
         /\ r[i].fn = "rc-line" /\ Exporter(r[j]) /\ r[i].file \in Touches(r[j]) =>
              \A l \in MayStand(r[i].file, r) : l.key = OwnLine(r[j]).key => ~Occurs(r[i].marker, l)

\* No step adds to the node's tags one that it removes.
TagsAreDecided ==
  \A r \in Recipes : \A i \in DOMAIN r : r[i].fn = "tags" => ToSet(r[i].add) \cap r[i].remove = {}

\* What a step has to find, and fails without.  Of the files, those on which a
\* write was cut: an existing unit is kept, and an empty one counts as masked; an
\* empty unit of ours does not say gogitops; an empty yaml is no document.
Blocked(s) ==
  CASE s.fn = "user-unit"     -> ~bus \/ (s.strict /\ ~s.overwrite /\ Exists(s.name) /\ Read(s.name) = Torn)
    [] s.fn = "login-trigger" -> ~bus \/ s.runs = "never" \/ (s.runs = "online" /\ ~net)
    [] s.fn = "tags"          -> Read("node.yaml") = Torn
    [] s.fn = "git-extract"   -> ~net \/ upstream = Stub
    [] s.fn = "mount-share"   -> ~net \/ priv = "none" \/ \E i \in DOMAIN ShareUnits : Foreign(ShareUnits[i])
    [] s.fn = "mount-device"  -> priv # "sudo" \/ drive # "fine" \/ ~s.mkdir
    [] OTHER -> FALSE

\* Runs that are killed, edits and outages do not add up to anything else that
\* keeps a recipe from going through: once they end, it does, for good.
RunsRecover == <>[](\A i \in DOMAIN recipe : ~Blocked(recipe[i])) => <>[]settled

=============================================================================
