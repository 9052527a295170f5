------------------------------- MODULE Mounts -------------------------------
(***************************************************************************)
(* mount: steps.  A network share (netmount.go) becomes a .mount and an    *)
(* .automount unit that root writes; a local device (translateMount) is    *)
(* mounted, and entered in /etc/fstab.  Both leave alone a mount point     *)
(* that has something mounted, which findmnt says of an armed automount,   *)
(* too.  The installation of cifs-utils, and a mount point that root       *)
(* cannot make, are left out.                                              *)
(***************************************************************************)
EXTENDS RcFiles

VARIABLES
  mounted,    \* what is mounted at the mount point: a device, "autofs", "none"
  armed,      \* the share the loaded .mount unit names; "none" while there is none
  systemd,    \* the machine runs systemd
  drive       \* the local device: "fine", "broken" (mount fails) or "absent"

mountVars == <<mounted, armed, systemd, drive>>

MountsInit ==
  /\ mounted = "none" /\ armed = "none"
  /\ systemd \in BOOLEAN /\ drive \in {"fine", "broken", "absent"}

CanRoot == priv # "none"

\* credentials: kept in a file, from nenv where it answers
Credentials == <<Line("", "password", "new")>>

\* Mutant of Foreign: a unit file that is not ours is written over.
ForeignNever(p) == FALSE

\* A unit file whose first line does not say gogitops.
Foreign(p) == Exists(p) /\ (Read(p) = <<>> \/ Read(p)[1].lead # "gogitops")

ShareUnits == <<"share.mount", "share.automount">>

ShareUnit(device) == <<Line("gogitops", "What", device)>>

\* What findmnt shows is left as it is.  Credentials named by nenv are refreshed
\* from it, or must be there; a share that names a file, a guest and NFS go on
\* with what there is.
MountShare ==
  /\ On("mount-share", "begin")
  /\ CASE mounted # "none" -> StepEnds(TRUE) /\ UNCHANGED disk
       [] mounted = "none" /\ Step.nenv /\ net -> WriteFile("smbcredentials", Credentials, "root")
       [] mounted = "none" /\ (Step.nenv => ~net /\ Exists("smbcredentials")) -> Go("root") /\ UNCHANGED disk
       [] OTHER -> StepEnds(FALSE) /\ UNCHANGED disk
  /\ UNCHANGED mountVars

\* The root script: refuses foreign units, then writes each that differs.
WriteShareUnit ==
  /\ On("mount-share", "root") /\ nth <= 2
  /\ LET p    == ShareUnits[nth]
         unit == ShareUnit(Step.device)
     IN  CASE ~CanRoot \/ (nth = 1 /\ \E i \in 1..2 : Foreign(ShareUnits[i])) ->
                StepEnds(FALSE) /\ UNCHANGED disk
           [] OTHER -> IF Read(p) = unit THEN Go("next") /\ UNCHANGED disk
                       ELSE WriteFile(p, unit, "next")
  /\ UNCHANGED mountVars

NextShareUnit == On("mount-share", "next") /\ GoNth("root", nth + 1) /\ UNCHANGED <<disk, mountVars>>

\* systemd may refuse the units (for their names, which systemdEscapePath makes
\* otherwise than systemd does of a path with a dash; for a mount point that is a
\* symbolic link), and the script does not look; ls of a directory that is there
\* is taken for a mounted share.
SystemdArms ==
  /\ \/ UNCHANGED <<mounted, armed>>
     \/ armed' = Step.device /\ mounted' = IF net THEN Step.device ELSE "autofs"
  /\ StepEnds(TRUE)

\* In a container the share is mounted there and then, or it is not.
MountsDirectly ==
  /\ mounted' = IF net THEN Step.device ELSE mounted
  /\ StepEnds(net) /\ UNCHANGED armed

\* daemon-reload; the automount is enabled and started, and the share looked at,
\* which mounts it where it answers.
ArmShare ==
  /\ On("mount-share", "root") /\ nth = 3
  /\ IF systemd THEN SystemdArms ELSE MountsDirectly
  /\ UNCHANGED <<disk, systemd, drive>>

\* A local device: fstab first, then the mount.
MountDevice ==
  /\ On("mount-device", "begin")
  /\ IF drive = "absent" THEN StepEnds(FALSE) /\ UNCHANGED disk
     ELSE /\ Go("mount")
          /\ IF ~Step.fstab \/ Some(Read("fstab"), LAMBDA l : l.val = Step.mnt) \/ priv # "sudo"
             THEN UNCHANGED disk ELSE Appends("fstab", Line("gogitops", Step.device, Step.mnt))
  /\ UNCHANGED mountVars

\* Mutant of MountDeviceNow: what is mounted is mounted again, and that fails.
MountDeviceAgain ==
  /\ On("mount-device", "mount")
  /\ IF mounted = "none" /\ Step.mkdir /\ priv = "sudo" /\ drive = "fine"
     THEN StepEnds(TRUE) /\ mounted' = Step.device
     ELSE StepEnds(FALSE) /\ UNCHANGED mounted
  /\ UNCHANGED <<disk, armed, systemd, drive>>

\* The mount point is made by the agent's own user, which it may not be, unless it
\* is there (Step.mkdir); the device is mounted through sudo.
MountDeviceNow ==
  /\ On("mount-device", "mount")
  /\ CASE mounted # "none" -> StepEnds(TRUE) /\ UNCHANGED mounted
       [] mounted = "none" /\ Step.mkdir /\ priv = "sudo" /\ drive = "fine" ->
            StepEnds(TRUE) /\ mounted' = Step.device
       [] OTHER -> StepEnds(FALSE) /\ UNCHANGED mounted
  /\ UNCHANGED <<disk, armed, systemd, drive>>

MountStep ==
  \/ MountShare \/ WriteShareUnit \/ NextShareUnit \/ ArmShare \/ MountDevice \/ MountDeviceNow

\* An automount that is used mounts its share; one that idles, or whose share has
\* gone, is an automount again.  A reboot undoes a mount made by hand.
Use ==
  /\ mounted = "autofs" /\ net /\ mounted' = armed
  /\ UNCHANGED <<fileVars, armed, systemd, drive>>

Unmount ==
  /\ mounted \notin {"none", "autofs"}
  /\ mounted' = IF armed = "none" THEN "none" ELSE "autofs"
  /\ Disturbed /\ UNCHANGED <<disk, net, armed, systemd, drive>>

\* The drive is plugged in, pulled out, or breaks.
Replug ==
  /\ \E d \in {"fine", "broken", "absent"} \ {drive} : drive' = d
  /\ Disturbed /\ UNCHANGED <<disk, net, mounted, armed, systemd>>

=============================================================================
