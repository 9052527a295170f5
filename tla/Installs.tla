------------------------------ MODULE Installs ------------------------------
(***************************************************************************)
(* What recipes install: system.apt-install and system.flatpak             *)
(* (stdlib_file.go), package: (translatePackage) and system.git-extract    *)
(* (stdlib_git.go).  apt-get installs all of what it is asked for or       *)
(* nothing; a package brings the command of its name.                      *)
(***************************************************************************)
EXTENDS RcFiles

CONSTANTS
  Offered,    \* Offered[p]: the version the package manager offers of p
  InPip,      \* packages pip offers
  Globs,      \* pairs: a pin such as 1.*, and a version it matches
  Blobs, Stub \* contents of the file on the binaries branch; one is too small

ASSUME StubIsABlob == Stub \in Blobs

VARIABLES
  pkgs,       \* pkgs[p]: the version installed of p, for those that are
  flat,       \* channels the flatpak app is installed through
  upstream,   \* the file on the branch of origin
  tracked     \* and on the remote-tracking ref

installVars == <<pkgs, flat, upstream, tracked>>

InstallsInit ==
  /\ pkgs = <<>> /\ flat = {}
  /\ upstream \in Blobs \ {Stub} /\ tracked = upstream

Has(p)          == p \in DOMAIN pkgs
Offers(p)       == p \in DOMAIN Offered
Resolves(names) == names = <<>> \/ \E i \in DOMAIN names : Has(names[i])
Root            == priv # "none"

\* firstAptCandidate: the first name from p on that apt offers, else p.
FirstAptCandidate(p, names) ==
  LET from == SelectInSeq(names, LAMBDA n : n = p)
      i    == SelectInSubSeq(names, from, Len(names), LAMBDA n : Offers(n))
  IN  IF i = 0 THEN p ELSE names[i]

\* A version is what a token asks for: any, that one, or one that its glob matches.
Meets(want, ver) == want = "any" \/ want = ver \/ <<want, ver>> \in Globs

\* What one token of packages= adds to the installation: nothing when dpkg has
\* it at the version asked for; an alternate of verify= counts as there when any
\* of them resolves.
Wanted(tok, verify) ==
  IF tok.ver = "any" /\ Len(verify) > 1 /\ tok.name \in ToSet(verify)
  THEN IF Resolves(verify) THEN {}
       ELSE {[name |-> FirstAptCandidate(tok.name, verify), ver |-> "any"]}
  ELSE IF Has(tok.name) /\ Meets(tok.ver, pkgs[tok.name]) THEN {} ELSE {tok}

AptTokens == UNION {Wanted(Step.packages[i], Step.verify) : i \in DOMAIN Step.packages}

\* apt-get update and install go through.
AptTakes(toks) ==
  net /\ Root /\ \A t \in toks : Offers(t.name) /\ Meets(t.ver, Offered[t.name])

Installed(names) ==
  [p \in DOMAIN pkgs \cup names |-> IF p \in names THEN Offered[p] ELSE pkgs[p]]

\* system.apt-install: whatever goes wrong is a result, not an error.
AptInstall ==
  /\ On("apt-install", "begin")
  /\ pkgs' = IF AptTakes(AptTokens) THEN Installed({t.name : t \in AptTokens}) ELSE pkgs
  /\ StepEnds(TRUE) /\ UNCHANGED <<disk, flat, upstream, tracked>>

\* system.flatpak: through the system's channel where sudo needs no password.
FlatpakInstall ==
  /\ On("flatpak", "begin")
  /\ LET channel == IF priv = "sudo" THEN "system" ELSE "user"
     IN  flat' = IF flat = {} /\ net /\ Has("flatpak") THEN {channel} ELSE flat
  /\ StepEnds(Step.require => flat' # {})
  /\ UNCHANGED <<disk, pkgs, upstream, tracked>>

\* package: its sources in order, until one works; none is as good.
Package ==
  /\ On("package", "begin")
  /\ LET takes(src) == net /\ IF src.kind = "pkg" THEN Offers(src.name) /\ priv = "sudo"
                              ELSE src.kind = "pip" /\ src.name \in InPip
         i == SelectInSeq(Step.sources, takes)
     IN  pkgs' = IF i = 0 \/ Resolves(<<Step.name>>)
                    \/ \E j \in DOMAIN Step.sources : Step.sources[j].kind = "pip" /\ Has(Step.sources[j].name)
                 THEN pkgs
                 ELSE [p \in DOMAIN pkgs \cup {Step.sources[i].name} |->
                         IF Has(p) THEN pkgs[p] ELSE "some"]
  /\ StepEnds(TRUE) /\ UNCHANGED <<disk, flat, upstream, tracked>>

\* system.git-extract fetches; a failure is an error unless fetch=best-effort.
GitFetch ==
  /\ On("git-extract", "begin")
  /\ tracked' = IF net THEN upstream ELSE tracked
  /\ IF net \/ Step.fetch = "best-effort" THEN Go("show") ELSE StepEnds(FALSE)
  /\ UNCHANGED <<disk, pkgs, flat, upstream>>

\* min_bytes
BigEnough(blob) == blob # Stub

GitShow ==
  /\ On("git-extract", "show")
  /\ IF BigEnough(tracked)
     THEN AtomicWrite(Step.dest, <<Line("", "binary", tracked)>>, "done")
     ELSE StepEnds(FALSE) /\ UNCHANGED disk
  /\ UNCHANGED installVars

InstallStep == AptInstall \/ FlatpakInstall \/ Package \/ GitFetch \/ GitShow

\* A build pushes the file.
PushBinary ==
  /\ \E b \in Blobs \ {upstream} : upstream' = b
  /\ Disturbed /\ UNCHANGED <<disk, net, pkgs, flat, tracked>>

=============================================================================
