---------------------------- MODULE MCHostRuns ------------------------------
(* A machine of nine recipes, one to a behaviour. *)
EXTENDS HostRuns

Exec(path) == <<Line("", "ExecStart", path)>>
Alias      == Line("user", "alias", "ll")
Job        == Line("user", "backup-home", "rsync")
Theirs     == Line("user", "What", "usb")

Repoint == <<[fn |-> "unit-repoint", units |-> <<"exo", "gone">>, from |-> {"/usr"}, to |-> "/home", enable |-> TRUE],
             [fn |-> "unit-restart", user_units |-> <<"gone", "exo">>, system_units |-> <<"exo-system">>]>>
Service1 == <<[fn |-> "user-unit", name |-> "exo", unit |-> Exec("/home"), overwrite |-> FALSE, strict |-> TRUE,
               enable |-> TRUE],
              [fn |-> "login-trigger", name |-> "trigger", unit |-> Exec("/mnt"), runs |-> "online"]>>
Service2 == <<[fn |-> "user-unit", name |-> "exo", unit |-> Exec("/home"), overwrite |-> TRUE, strict |-> FALSE,
               enable |-> TRUE],
              [fn |-> "user-unit", name |-> "gone", unit |-> Exec("/usr"), overwrite |-> FALSE, strict |-> TRUE,
               enable |-> FALSE]>>
Shell == <<[fn |-> "rc-line", file |-> "bashrc", marker |-> "starship", line |-> Line("", "starship", "init")],
           [fn |-> "rc-export", file |-> "bashrc", var |-> "SSH_AUTH_SOCK", val |-> "gcr"],
           [fn |-> "gnome-keyring", rcfiles |-> <<"bashrc", "zshrc">>, verify |-> FALSE]>>
Tools == <<[fn |-> "apt-install", packages |-> <<[name |-> "chromium", ver |-> "any"], [name |-> "flatpak", ver |-> "any"],
                                                 [name |-> "nginx", ver |-> "1.*"]>>,
            verify |-> <<"chromium", "chromium-browser">>],
           [fn |-> "flatpak", app |-> "obsidian", require |-> FALSE],
           [fn |-> "package", name |-> "figlet", sources |-> <<[kind |-> "pkg", name |-> "figlet"],
                                                               [kind |-> "pip", name |-> "pyfiglet"]>>],
           [fn |-> "git-extract", dest |-> "binary", fetch |-> "best-effort"]>>
Jobs == <<[fn |-> "schedule", name |-> "doctor", payload |-> "doctor.sh", spec |-> "*/5"],
          [fn |-> "schedule", name |-> "refresh-ip", payload |-> "ip.sh", spec |-> "hourly"],
          [fn |-> "tags", add |-> <<"gpu", "docker">>, remove |-> {"old"}]>>
Share == <<[fn |-> "mount-share", device |-> "nas", nenv |-> TRUE]>>
Guest == <<[fn |-> "mount-share", device |-> "nas", nenv |-> FALSE]>>
Drive == <<[fn |-> "mount-device", device |-> "sdb1", mnt |-> "/mnt/backup", fstab |-> TRUE, mkdir |-> TRUE]>>

MCRecipes == {Repoint, Service1, Service2, Shell, Tools, Jobs, Share, Guest, Drive}

Used == [exo |-> Exec("/usr"), bashrc |-> <<Alias, Line("", "SSH_AUTH_SOCK", "gpg")>>,
         crontab |-> <<Job, Line("", "none", "doctor.sh")>>,
         fstab |-> <<Line("user", "sda1", "/home")>>]
        @@ ("gcr-ssh-agent" :> Exec("gcr")) @@ ("gpg-agent-ssh" :> Exec("gpg"))
        @@ ("node.yaml" :> <<Line("user", "comment", <<>>), Line("", "tags", <<"old", "docker", "old">>)>>)
Fresh == [bashrc |-> <<>>] @@ ("node.yaml" :> <<Line("user", "comment", <<>>)>>)
         @@ ("share.automount" :> <<Theirs>>)
MCDisks == {Used, Fresh}

MCEdits     == {<<"bashrc", Alias>>, <<"crontab", Job>>}
MCUserLines == MCEdits \cup {<<"share.automount", Theirs>>, <<"fstab", Line("user", "sda1", "/home")>>,
                             <<"node.yaml", Line("user", "comment", <<>>)>>}
MCUserUnit  == {"exo", "gone", "trigger", "gcr-ssh-agent", "gpg-agent-ssh", "ssh-agent"}
MCPart      == MCUserUnit \cup {"exo-system"}
MCRunning   == {{"exo", "exo-system"}, {"gpg-agent-ssh", "exo-system"}, {"exo-system"}}
MCInside    == {<<"doctor.sh", "backup doctor.sh.bak">>}
MCGlobs     == {<<"1.*", "1.18">>}
MCOffered   == [nginx |-> "1.18", figlet |-> "2"] @@ ("chromium-browser" :> "120") @@ ("flatpak" :> "1")

\* What the theorems on the user's lines, on restarts, goals and repeats are about.
ASSUME RecipesAreSuch == LinesAreTheUsers /\ RestartsComeLast /\ StepsAgree /\ TagsAreDecided

\* State constraint: a recipe is run where what it does can differ.  Disturbances
\* that no step of it can tell are not followed any further.
Relevant ==
  /\ recipe \in {Repoint, Service1, Service2} => works \subseteq {"exo", "exo-system"}
  /\ recipe = Shell => works \cap {"exo", "trigger"} = {}
  /\ recipe \notin {Repoint, Service1, Service2, Shell} => bus /\ works = {"exo-system"}
  /\ recipe \notin {Share, Guest} => systemd
  /\ recipe # Drive => drive = "fine"
  /\ recipe # Repoint => \A a \in Address : serving[a] = "down"
  /\ recipe \notin {Tools, Share, Guest, Service1} => net
  /\ recipe # Tools => upstream = "v1"
  /\ recipe \in {Repoint, Service1, Service2, Shell, Jobs} => priv = "sudo"
MCService   == [exo |-> [type |-> "systemd", parts |-> {"exo"}], web |-> [type |-> "docker", parts |-> {"exo-system"}],
                db |-> [type |-> "docker", parts |-> {}]]
=============================================================================
