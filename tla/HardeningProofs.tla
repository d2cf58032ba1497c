---------------------------- MODULE HardeningProofs ----------------------------
(***************************************************************************)
(* What Hardening says of a machine and Readings says of what the agent    *)
(* reports of it, for every number of commands and faults.                 *)
(*                                                                         *)
(* None of it is inductive by itself.  What a command promises is either   *)
(* done or among the invocations it has still to make, in the order that   *)
(* makes it true, and no other command takes it away again.  The proofs    *)
(* are in layers: which invocations a command is made of (HInv, with the   *)
(* platform's way back into the machine), what they have brought about so  *)
(* far (EInv), and what they find when their turn comes (PInv).            *)
(***************************************************************************)
EXTENDS Readings, FiniteSetTheorems, TLAPS

Occurs(i, s) == \E k \in 1..Len(s) : s[k] = i
Ahead(i, j, s) == \E k, l \in 1..Len(s) : k < l /\ s[k] = i /\ s[l] = j

-----------------------------------------------------------------------------
(* The invariants                                                          *)

RestartSsh == [op |-> "restart", item |-> "ssh", tries |-> IF Apt THEN 2 ELSE 1]
Allowing == Once("get", "address")

\* The invocations that a command of a type is made of.
Repertoire(type) ==
    CASE type = "apt_upgrade" ->
            {Detect, Retried("get", "index"), Retried("upgrade", "packages")}
      [] type = "install_docker" ->
            {Detect, Retried("get", "plugin"), Retried("get", "docker-repo"),
             Retried("get", "docker"), Once("enable", "docker")}
      [] type = "harden_firewall" -> {Once("get", "firewall")}
      [] type = "ssh_harden" -> {Once("write", "sshd"), RestartSsh}
      [] type = "install_crowdsec" ->
            {Detect}
            \union (IF family = "arch" THEN {} ELSE
                    {Retried("get", item) : item \in {"repo", "index", "hub", "crowdsec", "bouncer"}
                                                     \union Collections}
                    \union {Once("get", item) : item \in {"dropin-dir", "allowlist", "address"}}
                    \union {Once("write", "limits"), Once("restart", "systemd"),
                            Once("restart", "crowdsec")})
      [] type = "sysupdate" ->
            {Detect, Once("get", "updates"), Once("write", "origins"), Once("write", "periodic"),
             Once("enable", "updates")}
            \union (IF Apt THEN {Once("restart-ignored", "updates")} ELSE {})
      [] type = "docker_harden" -> {Once("write", "daemon"), Retried("restart", "docker")}
      [] OTHER -> {}

\* The type invariant, by parts.
MachineOK ==
    /\ family \in Families
    /\ platformIPs \in {"none", "unusable", "good"} /\ pending \in BOOLEAN /\ banned \in BOOLEAN
    /\ has \subseteq Items
    /\ effective \subseteq Configurations
    /\ active \subseteq Services \intersect has
    /\ enabled \subseteq Services \intersect has

CommandOK ==
    /\ command \in Types \union {"none"}
    /\ todo \in Seq(Repertoire(command))
    /\ todo # <<>> => command # "none" /\ tries \in 0..Head(todo).tries - 1
    /\ todo = <<>> => tries = 0
    /\ last \in [Types -> {"never", "running", "done", "failed", "cut"}]
    /\ \A t \in Types : last[t] = "running" <=> command = t
    /\ unfinished \subseteq Types
    /\ commands \in 0..MaxCommands

FaultsOK == faults \in 0..MaxFaults

\* The installation under way has still to allow the platform, or has done so.
Promised ==
    platformIPs = "good" /\ family # "arch" =>
        /\ command = "install_crowdsec" => "address" \in has \/ Occurs(Allowing, todo)
        /\ last["install_crowdsec"] = "done" => "address" \in has

NoEngine == family = "arch" => "crowdsec" \notin has

HInv == MachineOK /\ CommandOK /\ FaultsOK /\ Promised /\ NoEngine

\* A configuration is written and read, or will be, in this order.
Loading(c, reading) ==
    \/ Ahead(Once("write", c), reading, todo)
    \/ c \in has /\ Occurs(reading, todo)
    \/ c \in has /\ c \in effective

\* What the command under way is about has been brought about, or will be.
UnderWay ==
    /\ command = "ssh_harden" => Loading("sshd", RestartSsh)
    /\ command = "docker_harden" => Loading("daemon", Retried("restart", "docker"))
    /\ command = "install_crowdsec" /\ family # "arch" =>
        /\ Loading("limits", Once("restart", "systemd"))
        /\ \A s \in {"crowdsec", "bouncer"} :
             (s \in active /\ s \in enabled) \/ Occurs(Retried("get", s), todo)
        /\ \A c \in Collections : c \in has \/ Occurs(Retried("get", c), todo)
    /\ command = "sysupdate" /\ family # "arch" =>
        /\ "updates" \in has \/ Occurs(Once("get", "updates"), todo)
        /\ "origins" \in has \/ Occurs(Once("write", "origins"), todo)
        /\ Apt => "periodic" \in has \/ Occurs(Once("write", "periodic"), todo)
        /\ ~Apt => \/ "updates" \in active /\ "updates" \in enabled
                   \/ Occurs(Once("enable", "updates"), todo)
    /\ command = "harden_firewall" => "firewall" \in has \/ Occurs(Once("get", "firewall"), todo)

\* A docker that is there is enabled, and runs, unless an installation was cut
\* off between the two, or a restart failed.
DockerEnabled ==
    "docker" \in has \/ command = "install_docker" =>
        \/ "docker" \in enabled
        \/ "install_docker" \in unfinished
        \/ command = "install_docker" /\ Occurs(Once("enable", "docker"), todo)

DockerUp ==
    "docker" \in enabled =>
        \/ "docker" \in active
        \/ "docker_harden" \in unfinished
        \/ command = "docker_harden" /\ Occurs(Retried("restart", "docker"), todo)

\* What a command that is done leaves behind: DoneIsEffective, with what makes it
\* outlast a reboot.
Achieved(t) ==
    CASE t = "ssh_harden" -> "sshd" \in has /\ "sshd" \in effective
      [] t = "docker_harden" ->
            "daemon" \in has /\ ("docker" \in active => "daemon" \in effective)
      [] t = "install_docker" -> "docker" \in enabled \/ "install_docker" \in unfinished
      [] t = "install_crowdsec" ->
            \/ family = "arch"
            \/ /\ {"crowdsec", "bouncer"} \subseteq active \intersect enabled
               /\ Collections \subseteq has
               /\ "limits" \in has /\ "limits" \in effective
      [] t = "sysupdate" ->
            \/ family = "arch"
            \/ /\ "updates" \in has /\ "origins" \in has
               /\ Apt => "periodic" \in has
               /\ ~Apt => "updates" \in active /\ "updates" \in enabled
      [] t = "harden_firewall" -> family = "arch" \/ "firewall" \in has
      [] OTHER -> TRUE

DoneInv == \A t \in Types : last[t] = "done" => Achieved(t)

EInv == UnderWay /\ DockerEnabled /\ DockerUp /\ DoneInv

\* What must be on the machine for an invocation to work.
Requires(i) ==
    IF i.op \in {"get", "write"} THEN Needs(i.item)
    ELSE IF i.op \in {"restart", "restart-ignored", "enable"} THEN {i.item} \intersect Services ELSE {}

\* It is there, or an earlier invocation fetches it: but for the repository, whose
\* loss goes unnoticed and leaves the index without it, and for docker_harden's docker.
Prepared ==
    \A k \in 1..Len(todo) : \A n \in Requires(todo[k]) :
        \/ n \in has
        \/ \E j \in 1..k - 1 : todo[j].op = "get" /\ todo[j].item = n
        \/ n = "repo"
        \/ n = "docker" /\ todo[k].op = "restart"
        \/ /\ n = "index" /\ "repo" \notin has
           /\ \A j \in 1..Len(todo) : todo[j].item # "repo"

\* Nothing but the detection of the distribution comes before the repository.
RepositoryFirst ==
    \A k \in 1..Len(todo) : todo[k].item = "repo" => \A j \in 1..k - 1 : todo[j] = Detect

\* An invocation that can work has not failed more often than there were faults.
Patience == todo # <<>> /\ Works(Head(todo)) => tries <= faults

PInv == Prepared /\ RepositoryFirst /\ Patience

-----------------------------------------------------------------------------
(* Sequences of invocations                                                *)

\* Lists put together hold what their parts hold.
LEMMA Together ==
    ASSUME NEW S, NEW s \in Seq(S), NEW t \in Seq(S)
    PROVE  s \o t \in Seq(S)
  OBVIOUS

\* Lists of none, of one and of two.
LEMMA Short ==
    ASSUME NEW S
    PROVE  <<>> \in Seq(S) /\ \A a, b \in S : <<a>> \in Seq(S) /\ <<a, b>> \in Seq(S)
  OBVIOUS

\* A list of ten.
LEMMA Ten ==
    ASSUME NEW S, NEW a \in S, NEW b \in S, NEW c \in S, NEW d \in S, NEW e \in S,
           NEW f \in S, NEW g \in S, NEW h \in S, NEW i \in S, NEW j \in S
    PROVE  <<a, b, c, d, e, f, g, h, i, j>> \in Seq(S)
  OBVIOUS

\* The first and the rest.
LEMMA FirstAndRest ==
    ASSUME NEW S, NEW s \in Seq(S), s # <<>>
    PROVE  /\ Head(s) \in S /\ Tail(s) \in Seq(S) /\ Head(s) = s[1] /\ Len(s) \in Nat \ {0}
           /\ Len(Tail(s)) = Len(s) - 1
           /\ \A k \in 1..Len(Tail(s)) : Tail(s)[k] = s[k + 1]
  OBVIOUS

\* What lists put together hold, by place.
LEMMA Places ==
    ASSUME NEW S, NEW s \in Seq(S), NEW t \in Seq(S)
    PROVE  /\ Len(s \o t) = Len(s) + Len(t) /\ Len(s) \in Nat /\ Len(t) \in Nat
           /\ \A k \in 1..Len(s) : (s \o t)[k] = s[k]
           /\ \A k \in 1..Len(t) : (s \o t)[Len(s) + k] = t[k]
  OBVIOUS

\* What is in a part is in the list, and in the same order.
LEMMA InPart ==
    ASSUME NEW S, NEW s \in Seq(S), NEW t \in Seq(S), NEW i, NEW j
    PROVE  /\ Occurs(i, s) \/ Occurs(i, t) => Occurs(i, s \o t)
           /\ Ahead(i, j, s) \/ Ahead(i, j, t) => Ahead(i, j, s \o t)
  <1> DEFINE u == s \o t
  <1>1. /\ Len(u) = Len(s) + Len(t) /\ Len(s) \in Nat /\ Len(t) \in Nat
        /\ \A k \in 1..Len(s) : u[k] = s[k]
        /\ \A k \in 1..Len(t) : u[Len(s) + k] = t[k]
    BY Places
  <1> HIDE DEF u
  <1>2. \A k \in 1..Len(s) : k \in 1..Len(u)
    BY <1>1
  <1>3. \A k \in 1..Len(t) : Len(s) + k \in 1..Len(u)
    BY <1>1
  <1>4. \A k, l \in 1..Len(t) : k < l => Len(s) + k < Len(s) + l
    BY <1>1
  <1>5. Occurs(i, s) \/ Occurs(i, t) => Occurs(i, u)
    BY <1>1, <1>2, <1>3 DEF Occurs
  <1>6. Ahead(i, j, s) => Ahead(i, j, u)
    BY <1>1, <1>2 DEF Ahead
  <1>7. Ahead(i, j, t) => Ahead(i, j, u)
    <2> SUFFICES ASSUME NEW k \in 1..Len(t), NEW l \in 1..Len(t), k < l, t[k] = i, t[l] = j
                 PROVE  Ahead(i, j, u)
      BY DEF Ahead
    <2>1. u[Len(s) + k] = i /\ u[Len(s) + l] = j /\ Len(s) + k < Len(s) + l
      BY <1>1, <1>4
    <2> QED
      BY <1>3, <2>1 DEF Ahead
  <1> QED
    BY <1>5, <1>6, <1>7 DEF u

\* What is not the first is in the rest, and what comes after the first too.
LEMMA InRest ==
    ASSUME NEW S, NEW s \in Seq(S), NEW i, NEW j, s # <<>>
    PROVE  /\ Occurs(i, s) => Head(s) = i \/ Occurs(i, Tail(s))
           /\ Ahead(i, j, s) => (Head(s) = i /\ Occurs(j, Tail(s))) \/ Ahead(i, j, Tail(s))
  <1>1. /\ Head(s) = s[1] /\ Len(s) \in Nat /\ Len(Tail(s)) = Len(s) - 1
        /\ \A k \in 1..Len(Tail(s)) : Tail(s)[k] = s[k + 1]
    BY FirstAndRest
  <1>2. \A k \in 1..Len(s) : k # 1 => k - 1 \in 1..Len(Tail(s)) /\ Tail(s)[k - 1] = s[k]
    BY <1>1
  <1>3. Occurs(i, s) => Head(s) = i \/ Occurs(i, Tail(s))
    BY <1>1, <1>2 DEF Occurs
  <1>4. ASSUME NEW k \in 1..Len(s), NEW l \in 1..Len(s), k < l, s[k] = i, s[l] = j
        PROVE  (Head(s) = i /\ Occurs(j, Tail(s))) \/ Ahead(i, j, Tail(s))
    <2>1. l - 1 \in 1..Len(Tail(s)) /\ Tail(s)[l - 1] = j
      BY <1>2, <1>4
    <2>2. CASE k = 1
      BY <1>1, <1>4, <2>1, <2>2 DEF Occurs
    <2>3. CASE k # 1
      <3>1. k - 1 \in 1..Len(Tail(s)) /\ Tail(s)[k - 1] = i /\ k - 1 < l - 1
        BY <1>2, <1>4, <2>3
      <3> QED
        BY <2>1, <3>1 DEF Ahead
    <2> QED
      BY <2>2, <2>3
  <1> QED
    BY <1>3, <1>4 DEF Ahead

\* Nothing occurs in an empty list.
LEMMA Empty == \A i, j : ~Occurs(i, <<>>) /\ ~Ahead(i, j, <<>>)
  BY DEF Occurs, Ahead

-----------------------------------------------------------------------------
(* The executors                                                           *)

\* The families there are.
LEMMA FamilyOK ==
    ASSUME MachineOK
    PROVE  family = "debian" \/ family = "rhel" \/ family = "arch" \/ family = "unknown"
  BY HardeningAssumption DEF MachineOK, HardeningAssumption

\* The long part of an installation of CrowdSec.
Engine ==
    << Retried("get", "crowdsec"), Retried("get", "hub"),
       Retried("get", "sshd-collection"), Retried("get", "nginx-collection"),
       Retried("get", "http-cve-collection"), Once("get", "dropin-dir"),
       Once("write", "limits"), Retried("get", "bouncer"), Once("restart", "systemd"),
       Once("restart", "crowdsec") >>

\* Its repertoire, where it is not skipped.
LEMMA CrowdsecRepertoire ==
    ASSUME family # "arch"
    PROVE  LET R == Repertoire("install_crowdsec") IN
           /\ Detect \in R
           /\ \A item \in {"repo", "index", "hub", "crowdsec", "bouncer"} \union Collections :
                 Retried("get", item) \in R
           /\ \A item \in {"dropin-dir", "allowlist", "address"} : Once("get", item) \in R
           /\ Once("write", "limits") \in R /\ Once("restart", "systemd") \in R
           /\ Once("restart", "crowdsec") \in R
  BY DEF Repertoire

\* What allows the platform is made of two lists, which may be empty.
LEMMA WhitelistParts ==
    ASSUME NEW S, Once("get", "allowlist") \in S, Once("get", "address") \in S
    PROVE  LET allowlist == If(platformIPs # "none", <<Once("get", "allowlist")>>)
               address == If(platformIPs = "good", <<Once("get", "address")>>)
           IN  /\ allowlist \in Seq(S) /\ address \in Seq(S)
               /\ whitelistPlatformIPs = allowlist \o address
               /\ whitelistPlatformIPs \in Seq(S)
  BY Short, Together DEF whitelistPlatformIPs, If

\* The two parts are in it.
LEMMA EngineGood ==
    ASSUME family # "arch"
    PROVE  /\ Engine \in Seq(Repertoire("install_crowdsec"))
           /\ whitelistPlatformIPs \in Seq(Repertoire("install_crowdsec"))
           /\ Engine \o whitelistPlatformIPs \in Seq(Repertoire("install_crowdsec"))
  <1> DEFINE R == Repertoire("install_crowdsec")
  <1>1. {"hub", "crowdsec", "bouncer", "sshd-collection", "nginx-collection", "http-cve-collection"}
            \subseteq {"repo", "index", "hub", "crowdsec", "bouncer"} \union Collections
    BY DEF Collections
  <1>2. /\ Retried("get", "crowdsec") \in R /\ Retried("get", "hub") \in R
        /\ Retried("get", "sshd-collection") \in R /\ Retried("get", "nginx-collection") \in R
        /\ Retried("get", "http-cve-collection") \in R /\ Once("get", "dropin-dir") \in R
        /\ Once("write", "limits") \in R /\ Retried("get", "bouncer") \in R
        /\ Once("restart", "systemd") \in R /\ Once("restart", "crowdsec") \in R
        /\ Once("get", "allowlist") \in R /\ Once("get", "address") \in R
    BY <1>1, CrowdsecRepertoire
  <1> HIDE DEF R
  <1>3. Engine \in Seq(R)
    BY <1>2, Ten DEF Engine
  <1>4. whitelistPlatformIPs \in Seq(R)
    BY <1>2, WhitelistParts
  <1> QED
    BY <1>3, <1>4, Together DEF R

\* What comes before them is in it too.
LEMMA BeforeEngine ==
    LET before == <<Detect>> \o If(family # "arch", <<Retried("get", "repo")>>)
                             \o If(Apt, <<Retried("get", "index")>>)
    IN  /\ before \in Seq(Repertoire("install_crowdsec"))
        /\ installCrowdsec = before \o If(family # "arch", Engine \o whitelistPlatformIPs)
  <1> DEFINE R == Repertoire("install_crowdsec")
  <1>1. Detect \in R
    BY DEF Repertoire
  <1>2. family # "arch" => Retried("get", "repo") \in R /\ Retried("get", "index") \in R
    BY CrowdsecRepertoire
  <1>3. Apt => family # "arch"
    BY DEF Apt
  <1> HIDE DEF R
  <1>4. /\ <<Detect>> \in Seq(R)
        /\ If(family # "arch", <<Retried("get", "repo")>>) \in Seq(R)
        /\ If(Apt, <<Retried("get", "index")>>) \in Seq(R)
    BY <1>1, <1>2, <1>3, Short DEF If
  <1>5. installCrowdsec = <<Detect>> \o If(family # "arch", <<Retried("get", "repo")>>)
                             \o If(Apt, <<Retried("get", "index")>>)
                             \o If(family # "arch", Engine \o whitelistPlatformIPs)
    BY DEF installCrowdsec, Engine
  <1> QED
    BY <1>4, <1>5, Together DEF R

\* Every executor is a list of invocations of its repertoire.
LEMMA ExecutorGood == ASSUME NEW type \in Types PROVE Executor(type) \in Seq(Repertoire(type))
  <1>1. aptUpgrade \in Seq(Repertoire("apt_upgrade"))
    <2> DEFINE R == Repertoire("apt_upgrade")
    <2>1. Detect \in R /\ Retried("get", "index") \in R /\ Retried("upgrade", "packages") \in R
      BY DEF Repertoire
    <2> HIDE DEF R
    <2>2. /\ <<Detect>> \in Seq(R) /\ If(Apt, <<Retried("get", "index")>>) \in Seq(R)
          /\ <<Retried("upgrade", "packages")>> \in Seq(R)
      BY <2>1, Short DEF If
    <2> QED
      BY <2>2, Together DEF aptUpgrade, R
  <1>2. installDocker \in Seq(Repertoire("install_docker"))
    <2> DEFINE R == Repertoire("install_docker")
    <2>1. /\ Detect \in R /\ Retried("get", "plugin") \in R /\ Retried("get", "docker-repo") \in R
          /\ Retried("get", "docker") \in R /\ Once("enable", "docker") \in R
      BY DEF Repertoire
    <2> HIDE DEF R
    <2>2. /\ <<Detect>> \in Seq(R)
          /\ If(family = "rhel", <<Retried("get", "plugin"), Retried("get", "docker-repo")>>) \in Seq(R)
          /\ <<Retried("get", "docker"), Once("enable", "docker")>> \in Seq(R)
      BY <2>1, Short DEF If
    <2>3. <<Detect>>
          \o If(family = "rhel", <<Retried("get", "plugin"), Retried("get", "docker-repo")>>)
          \o <<Retried("get", "docker"), Once("enable", "docker")>> \in Seq(R)
      BY <2>2, Together
    <2>4. installDocker =
            IF "docker" \notin has
            THEN <<Detect>>
                 \o If(family = "rhel", <<Retried("get", "plugin"), Retried("get", "docker-repo")>>)
                 \o <<Retried("get", "docker"), Once("enable", "docker")>>
            ELSE <<>>
      BY DEF installDocker, If
    <2> QED
      BY <2>3, <2>4, Short DEF R
  <1>3. sshHarden \in Seq(Repertoire("ssh_harden"))
    <2> DEFINE R == Repertoire("ssh_harden")
    <2>1. Once("write", "sshd") \in R /\ RestartSsh \in R
      BY DEF Repertoire
    <2> HIDE DEF R
    <2> QED
      BY <2>1, Short DEF sshHarden, R, RestartSsh
  <1>4. dockerHarden \in Seq(Repertoire("docker_harden"))
    <2> DEFINE R == Repertoire("docker_harden")
    <2>1. Once("write", "daemon") \in R /\ Retried("restart", "docker") \in R
      BY DEF Repertoire
    <2> HIDE DEF R
    <2> QED
      BY <2>1, Short DEF dockerHarden, R
  <1>5. sysupdateHarden \in Seq(Repertoire("sysupdate"))
    <2> DEFINE R == Repertoire("sysupdate")
    <2>1. /\ Detect \in R /\ Once("get", "updates") \in R /\ Once("write", "origins") \in R
          /\ Once("write", "periodic") \in R /\ Once("enable", "updates") \in R
          /\ Apt => Once("restart-ignored", "updates") \in R
      BY DEF Repertoire
    <2> HIDE DEF R
    <2>2. /\ <<Detect>> \in Seq(R)
          /\ If(family # "arch", <<Once("get", "updates"), Once("write", "origins")>>) \in Seq(R)
          /\ If(Apt, <<Once("write", "periodic"), Once("restart-ignored", "updates")>>) \in Seq(R)
          /\ If(family = "rhel", <<Once("enable", "updates")>>) \in Seq(R)
      BY <2>1, Short DEF If
    <2> QED
      BY <2>2, Together DEF sysupdateHarden, R
  <1>6. installCrowdsec \in Seq(Repertoire("install_crowdsec"))
    <2>1. If(family # "arch", Engine \o whitelistPlatformIPs) \in Seq(Repertoire("install_crowdsec"))
      BY EngineGood, Short DEF If
    <2> QED
      BY <2>1, BeforeEngine, Together
  <1>7. <<Once("get", "firewall")>> \in Seq(Repertoire("harden_firewall"))
    <2>1. Once("get", "firewall") \in Repertoire("harden_firewall")
      BY DEF Repertoire
    <2> QED
      BY <2>1, Short
  <1> QED
    BY <1>1, <1>2, <1>3, <1>4, <1>5, <1>6, <1>7 DEF Executor, Types

\* The fields of an invocation.
Is(i, op, item, n) ==
    i = [op |-> op, item |-> item, tries |-> n] /\ i.op = op /\ i.item = item /\ i.tries = n

\* It has them.
LEMMA Fields ==
    ASSUME NEW i, NEW op, NEW item, NEW n
    PROVE  /\ i = [op |-> op, item |-> item, tries |-> n] => Is(i, op, item, n)
           /\ i = Once(op, item) => Is(i, op, item, 1)
           /\ i = Retried(op, item) => Is(i, op, item, 3)
  BY DEF Is, Once, Retried

\* What can be invoked is an invocation.
LEMMA InvocationWhen ==
    ASSUME NEW op \in {"check", "get", "write", "restart", "restart-ignored", "enable", "upgrade"},
           NEW n \in 1..3,
           NEW item \in Items \union {"os-release", "ssh", "systemd", "packages"}, NEW i,
           Is(i, op, item, n)
    PROVE  i \in Invocation
  BY DEF Is, Invocation

\* What the invocations of a command are about.
Trait(type, i) ==
    /\ i \in Invocation
    /\ i.op \in {"get", "write"} => i.item \in Items
    /\ i.op = "enable" => i.item \in {"docker", "updates"}
    /\ i.op = "write" => /\ i.tries = 1
                        /\ \/ type = "ssh_harden" /\ i.item = "sshd"
                           \/ type = "docker_harden" /\ i.item = "daemon"
                           \/ type = "install_crowdsec" /\ i.item = "limits"
                           \/ type = "sysupdate" /\ i.item \in {"origins", "periodic"}
    /\ i.op = "restart" => \/ i.item \in {"ssh", "systemd"}
                           \/ /\ type = "install_crowdsec" /\ i.item = "crowdsec"
                              /\ i.tries = 1
                           \/ /\ type = "docker_harden" /\ i.item = "docker"
                              /\ i = Retried("restart", "docker")
    /\ i.op = "restart-ignored" => type = "sysupdate" /\ i.item = "updates" /\ i.tries = 1 /\ Apt
    /\ i.op = "get" /\ i.item = "docker" => type = "install_docker"
    /\ i.item \in {"crowdsec", "bouncer"} => type = "install_crowdsec" /\ family # "arch"
    /\ i.item = "repo" => i.op = "get"
    /\ i.op \in {"get", "upgrade"} /\ i.item \in Downloads => i.tries = 3

\* The same, of its fields.
Fits(type, op, item, n) ==
    /\ op \in {"check", "get", "write", "restart", "restart-ignored", "enable", "upgrade"}
    /\ n \in 1..3
    /\ item \in Items \union {"os-release", "ssh", "systemd", "packages"}
    /\ op \in {"get", "write"} => item \in Items
    /\ op = "enable" => item \in {"docker", "updates"}
    /\ op = "write" => /\ n = 1
                       /\ \/ type = "ssh_harden" /\ item = "sshd"
                          \/ type = "docker_harden" /\ item = "daemon"
                          \/ type = "install_crowdsec" /\ item = "limits"
                          \/ type = "sysupdate" /\ item \in {"origins", "periodic"}
    /\ op = "restart" => \/ item \in {"ssh", "systemd"}
                         \/ type = "install_crowdsec" /\ item = "crowdsec" /\ n = 1
                         \/ type = "docker_harden" /\ item = "docker" /\ n = 3
    /\ op = "restart-ignored" => type = "sysupdate" /\ item = "updates" /\ n = 1 /\ Apt
    /\ op = "get" /\ item = "docker" => type = "install_docker"
    /\ item \in {"crowdsec", "bouncer"} => type = "install_crowdsec" /\ family # "arch"
    /\ item = "repo" => op = "get"
    /\ op \in {"get", "upgrade"} /\ item \in Downloads => n = 3

\* Such an invocation is.
LEMMA TraitWhen ==
    ASSUME NEW type, NEW op, NEW n, NEW item, NEW i, Is(i, op, item, n), Fits(type, op, item, n)
    PROVE  Trait(type, i)
  <1>1. i \in Invocation
    BY InvocationWhen DEF Fits
  <1>2. i.op = op /\ i.item = item /\ i.tries = n /\ i = [op |-> op, item |-> item, tries |-> n]
    BY DEF Is
  <1>3. op = "restart" /\ item = "docker" /\ n = 3 => i = Retried("restart", "docker")
    BY <1>2 DEF Retried
  <1> QED
    BY <1>1, <1>2, <1>3 DEF Trait, Fits

\* They are about that.
LEMMA Traits == ASSUME NEW type \in Types, NEW i \in Repertoire(type) PROVE Trait(type, i)
  <1>0. /\ "plugin" \in Items /\ "docker-repo" \in Items /\ "repo" \in Items
        /\ "index" \in Items /\ "hub" \in Items /\ "dropin-dir" \in Items
        /\ "allowlist" \in Items /\ "address" \in Items /\ "origins" \in Items
        /\ "periodic" \in Items /\ "firewall" \in Items /\ "sshd" \in Items
        /\ "daemon" \in Items /\ "limits" \in Items /\ "docker" \in Items
        /\ "crowdsec" \in Items /\ "bouncer" \in Items /\ "updates" \in Items
        /\ \A item \in Collections : item \in Items
        /\ \A item \in {"dropin-dir", "allowlist", "address", "updates", "firewall"} : item \notin Downloads
    BY DEF Items, Services, Configurations, Downloads, Collections
  <1>1. CASE type = "apt_upgrade"
    <2>1. \/ Is(i, "check", "os-release", 1)
          \/ Is(i, "get", "index", 3)
          \/ Is(i, "upgrade", "packages", 3)
      BY <1>1, Fields DEF Repertoire, Detect
    <2>2. Fits(type, "check", "os-release", 1)
      BY <1>0, <1>1 DEF Fits
    <2>3. Fits(type, "get", "index", 3)
      BY <1>0, <1>1 DEF Fits
    <2>4. Fits(type, "upgrade", "packages", 3)
      BY <1>0, <1>1 DEF Fits
    <2> QED
      BY <2>1, <2>2, <2>3, <2>4, TraitWhen
  <1>2. CASE type = "install_docker"
    <2>1. \/ Is(i, "check", "os-release", 1)
          \/ Is(i, "get", "plugin", 3)
          \/ Is(i, "get", "docker-repo", 3)
          \/ Is(i, "get", "docker", 3)
          \/ Is(i, "enable", "docker", 1)
      BY <1>2, Fields DEF Repertoire, Detect
    <2>2. Fits(type, "check", "os-release", 1)
      BY <1>0, <1>2 DEF Fits
    <2>3. Fits(type, "get", "plugin", 3)
      BY <1>0, <1>2 DEF Fits
    <2>4. Fits(type, "get", "docker-repo", 3)
      BY <1>0, <1>2 DEF Fits
    <2>5. Fits(type, "get", "docker", 3)
      BY <1>0, <1>2 DEF Fits
    <2>6. Fits(type, "enable", "docker", 1)
      BY <1>0, <1>2 DEF Fits
    <2> QED
      BY <2>1, <2>2, <2>3, <2>4, <2>5, <2>6, TraitWhen
  <1>3. CASE type = "harden_firewall"
    <2>1. Is(i, "get", "firewall", 1)
      BY <1>3, Fields DEF Repertoire, Detect
    <2>2. Fits(type, "get", "firewall", 1)
      BY <1>0, <1>3 DEF Fits
    <2> QED
      BY <2>1, <2>2, TraitWhen
  <1>4. CASE type = "sysupdate"
    <2>1. \/ Is(i, "check", "os-release", 1)
          \/ Is(i, "get", "updates", 1)
          \/ Is(i, "write", "origins", 1)
          \/ Is(i, "write", "periodic", 1)
          \/ Is(i, "enable", "updates", 1)
          \/ Apt /\ Is(i, "restart-ignored", "updates", 1)
      BY <1>4, Fields DEF Repertoire, Detect
    <2>2. Fits(type, "check", "os-release", 1)
      BY <1>0, <1>4 DEF Fits
    <2>3. Fits(type, "get", "updates", 1)
      BY <1>0, <1>4 DEF Fits
    <2>4. Fits(type, "write", "origins", 1)
      BY <1>0, <1>4 DEF Fits
    <2>5. Fits(type, "write", "periodic", 1)
      BY <1>0, <1>4 DEF Fits
    <2>6. Fits(type, "enable", "updates", 1)
      BY <1>0, <1>4 DEF Fits
    <2>7. Apt => Fits(type, "restart-ignored", "updates", 1)
      BY <1>0, <1>4 DEF Fits
    <2> QED
      BY <2>1, <2>2, <2>3, <2>4, <2>5, <2>6, <2>7, TraitWhen
  <1>5. CASE type = "docker_harden"
    <2>1. \/ Is(i, "write", "daemon", 1)
          \/ Is(i, "restart", "docker", 3)
      BY <1>5, Fields DEF Repertoire, Detect
    <2>2. Fits(type, "write", "daemon", 1)
      BY <1>0, <1>5 DEF Fits
    <2>3. Fits(type, "restart", "docker", 3)
      BY <1>0, <1>5 DEF Fits
    <2> QED
      BY <2>1, <2>2, <2>3, TraitWhen
  <1>6. CASE type = "ssh_harden"
    <2>1. \/ Is(i, "write", "sshd", 1)
          \/ \E n \in 1..2 : Is(i, "restart", "ssh", n)
      BY <1>6, Fields DEF Repertoire, RestartSsh
    <2>2. Fits(type, "write", "sshd", 1)
      BY <1>0, <1>6 DEF Fits
    <2>3. \A n \in 1..2 : Fits(type, "restart", "ssh", n)
      BY <1>6 DEF Fits
    <2> QED
      BY <2>1, <2>2, <2>3, TraitWhen
  <1>7. CASE type = "install_crowdsec"
    <2>1. \/ Is(i, "check", "os-release", 1)
          \/ /\ family # "arch"
             /\ \/ \E item \in {"repo", "index", "hub", "crowdsec", "bouncer"} \union Collections :
                      Is(i, "get", item, 3)
                \/ \E item \in {"dropin-dir", "allowlist", "address"} : Is(i, "get", item, 1)
                \/ Is(i, "write", "limits", 1)
                \/ Is(i, "restart", "systemd", 1)
                \/ Is(i, "restart", "crowdsec", 1)
      BY <1>7, Fields DEF Repertoire, Detect
    <2>2. Fits(type, "check", "os-release", 1) /\ Fits(type, "restart", "systemd", 1)
      BY <1>7 DEF Fits
    <2>3. Fits(type, "write", "limits", 1)
      BY <1>0, <1>7 DEF Fits
    <2>4. ASSUME family # "arch",
                 NEW item \in {"repo", "index", "hub", "crowdsec", "bouncer"} \union Collections
          PROVE  Fits(type, "get", item, 3)
      <3>1. item \in Items /\ item # "docker"
        BY <1>0 DEF Collections
      <3> QED
        BY <1>7, <2>4, <3>1 DEF Fits
    <2>5. ASSUME NEW item \in {"dropin-dir", "allowlist", "address"}
          PROVE  Fits(type, "get", item, 1)
      <3>1. item \in Items /\ item \notin Downloads
        BY <1>0
      <3> QED
        BY <1>7, <2>5, <3>1 DEF Fits
    <2>6. family # "arch" => Fits(type, "restart", "crowdsec", 1)
      BY <1>0, <1>7 DEF Fits
    <2> QED
      BY <2>1, <2>2, <2>3, <2>4, <2>5, <2>6, TraitWhen
  <1> QED
    BY <1>1, <1>2, <1>3, <1>4, <1>5, <1>6, <1>7 DEF Types
-----------------------------------------------------------------------------
(* What a command is made of                                               *)

\* Nothing has happened yet.
LEMMA InitInv == Init => HInv
  <1> SUFFICES ASSUME Init PROVE HInv
    OBVIOUS
  <1>1. MachineOK
    BY DEF Init, MachineOK, Items, Services
  <1>2. CommandOK
    BY HardeningAssumption, Short DEF Init, CommandOK, HardeningAssumption, Types
  <1>3. FaultsOK
    BY HardeningAssumption DEF Init, FaultsOK, HardeningAssumption
  <1>4. Promised
    BY DEF Init, Promised, Types
  <1>5. NoEngine
    BY DEF Init, NoEngine
  <1> QED
    BY <1>1, <1>2, <1>3, <1>4, <1>5 DEF HInv

\* There is a command as long as there is something to do, and it can do that.
LEMMA InCommand ==
    ASSUME CommandOK, todo # <<>>
    PROVE  /\ command \in Types /\ tries \in 0..Head(todo).tries - 1
           /\ todo \in Seq(Repertoire(command)) /\ Tail(todo) \in Seq(Repertoire(command))
           /\ Head(todo) \in Repertoire(command) /\ Trait(command, Head(todo))
           /\ Head(todo).tries \in 1..3
  <1>1. todo \in Seq(Repertoire(command)) /\ command \in Types /\ tries \in 0..Head(todo).tries - 1
    BY DEF CommandOK
  <1>2. Head(todo) \in Repertoire(command) /\ Tail(todo) \in Seq(Repertoire(command))
    BY <1>1, FirstAndRest
  <1>3. Trait(command, Head(todo))
    BY <1>1, <1>2, Traits
  <1>4. Head(todo).tries \in 1..3
    BY <1>3 DEF Trait, Invocation
  <1> QED
    BY <1>1, <1>2, <1>3, <1>4

\* An installation that knows the platform allows it.
LEMMA InstallationAllows ==
    platformIPs = "good" /\ family # "arch" => Occurs(Allowing, Executor("install_crowdsec"))
  <1> SUFFICES ASSUME platformIPs = "good", family # "arch"
               PROVE  Occurs(Allowing, Executor("install_crowdsec"))
    OBVIOUS
  <1> DEFINE R == Repertoire("install_crowdsec")
             before == <<Detect>> \o If(family # "arch", <<Retried("get", "repo")>>)
                                 \o If(Apt, <<Retried("get", "index")>>)
  <1>1. Occurs(Allowing, whitelistPlatformIPs)
    <2>1. whitelistPlatformIPs = <<Once("get", "allowlist")>> \o <<Allowing>>
      BY DEF whitelistPlatformIPs, If, Allowing
    <2>2. Len(whitelistPlatformIPs) = 2 /\ whitelistPlatformIPs[2] = Allowing
      BY <2>1
    <2> QED
      BY <2>2 DEF Occurs
  <1>2. before \in Seq(R) /\ installCrowdsec = before \o (Engine \o whitelistPlatformIPs)
    BY BeforeEngine DEF If
  <1>3. Engine \in Seq(R) /\ whitelistPlatformIPs \in Seq(R) /\ Engine \o whitelistPlatformIPs \in Seq(R)
    BY EngineGood
  <1> HIDE DEF R, before
  <1>4. Occurs(Allowing, Engine \o whitelistPlatformIPs)
    BY <1>1, <1>3, InPart
  <1>5. Occurs(Allowing, installCrowdsec)
    BY <1>2, <1>3, <1>4, InPart
  <1> QED
    BY <1>5 DEF Executor

\* Faults stay below their bound.
LEMMA FaultOK == FaultsOK /\ (Fault \/ UNCHANGED faults) => FaultsOK'
  BY HardeningAssumption DEF FaultsOK, Fault, HardeningAssumption

\* A command that ends leaves nothing to do.
LEMMA EndsOK ==
    ASSUME CommandOK, command # "none", NEW result \in {"done", "failed", "cut"},
           Ends(result), UNCHANGED <<family, commands>>
    PROVE  /\ CommandOK' /\ command' = "none"
           /\ last' = [last EXCEPT ![command] = result]
  <1>1. /\ command \in Types
        /\ last \in [Types -> {"never", "running", "done", "failed", "cut"}]
        /\ \A t \in Types : last[t] = "running" <=> command = t
    BY DEF CommandOK
  <1>2. command' = "none" /\ todo' = <<>> /\ tries' = 0 /\ last' = [last EXCEPT ![command] = result]
    BY DEF Ends
  <1>3. last' \in [Types -> {"never", "running", "done", "failed", "cut"}]
    BY <1>1, <1>2
  <1>4. \A t \in Types : last'[t] = "running" <=> command' = t
    <2> SUFFICES ASSUME NEW t \in Types PROVE last'[t] # "running"
      BY <1>2 DEF Types
    <2> QED
      BY <1>1, <1>2
  <1>5. unfinished' \subseteq Types
    BY <1>1 DEF Ends, CommandOK
  <1>6. todo' \in Seq(Repertoire(command)')
    BY <1>2, Short
  <1> QED
    BY <1>2, <1>3, <1>4, <1>5, <1>6 DEF CommandOK

\* A command that goes on has something to do, or nothing more.
LEMMA GoesOnOK ==
    ASSUME CommandOK, todo # <<>>, UNCHANGED <<family, command, last, unfinished, commands>>,
           \/ todo' = Tail(todo) /\ tries' = 0
           \/ UNCHANGED todo /\ tries' = tries + 1 /\ tries + 1 < Head(todo).tries
    PROVE  CommandOK'
  <1>1. Repertoire(command)' = Repertoire(command)
    BY DEF Repertoire, RestartSsh, Detect, Once, Retried, Apt, Collections
  <1>2. /\ command \in Types /\ tries \in 0..Head(todo).tries - 1
        /\ Tail(todo) \in Seq(Repertoire(command)) /\ Head(todo).tries \in 1..3
    BY InCommand
  <1>3. command # "none"
    BY <1>2 DEF Types
  <1>4. todo' \in Seq(Repertoire(command)')
    BY <1>1, <1>2 DEF CommandOK
  <1>5. todo' # <<>> => tries' \in 0..Head(todo').tries - 1
    <2>1. CASE todo' = Tail(todo) /\ tries' = 0
      <3> SUFFICES ASSUME todo' # <<>> PROVE 0 \in 0..Head(todo').tries - 1
        BY <2>1
      <3>1. Head(todo') \in Repertoire(command)
        BY <1>2, <2>1, FirstAndRest
      <3>2. Head(todo').tries \in 1..3
        BY <1>2, <3>1, Traits DEF Trait, Invocation
      <3> QED
        BY <3>2
    <2>2. CASE UNCHANGED todo /\ tries' = tries + 1 /\ tries + 1 < Head(todo).tries
      BY <1>2, <2>2
    <2> QED
      BY <2>1, <2>2
  <1>6. todo' = <<>> => tries' = 0
    OBVIOUS
  <1> QED
    BY <1>3, <1>4, <1>5, <1>6 DEF CommandOK

\* A command begins: what it has to do is all still to come.
LEMMA BeginKeeps == ASSUME HInv, NEW type \in Types, Begin(type) PROVE HInv'
  <1>1. /\ command = "none" /\ command' = type /\ todo' = Executor(type)
        /\ last' = [last EXCEPT ![type] = "running"] /\ commands' \in 0..MaxCommands
        /\ UNCHANGED <<given, machine, tries, unfinished, faults>>
    BY HardeningAssumption DEF HInv, CommandOK, Begin, HardeningAssumption
  <1>2. MachineOK' /\ FaultsOK' /\ NoEngine'
    BY <1>1 DEF HInv, MachineOK, FaultsOK, NoEngine, given, machine
  <1>4. todo = <<>> /\ tries' = 0
    BY <1>1 DEF HInv, CommandOK
  <1>5. todo' \in Seq(Repertoire(type)) /\ Repertoire(command)' = Repertoire(type)
    <2>1. todo' \in Seq(Repertoire(type))
      BY <1>1, ExecutorGood
    <2>2. Repertoire(command)' = Repertoire(type)
      BY <1>1 DEF given, Repertoire, RestartSsh, Detect, Once, Retried, Apt, Collections
    <2> QED
      BY <2>1, <2>2
  <1>6. todo' # <<>> => tries' \in 0..Head(todo').tries - 1
    <2> SUFFICES ASSUME todo' # <<>> PROVE 0 \in 0..Head(todo').tries - 1
      BY <1>4
    <2>1. Head(todo') \in Repertoire(type)
      BY <1>5, FirstAndRest
    <2>2. Head(todo').tries \in 1..3
      BY <2>1, Traits DEF Trait, Invocation
    <2> QED
      BY <2>2
  <1>7. /\ last' \in [Types -> {"never", "running", "done", "failed", "cut"}]
        /\ \A t \in Types : last'[t] = "running" <=> command' = t
    <2>1. /\ last \in [Types -> {"never", "running", "done", "failed", "cut"}]
          /\ \A t \in Types : last[t] = "running" <=> command = t
          /\ "none" \notin Types
      BY DEF HInv, CommandOK, Types
    <2> QED
      BY <1>1, <2>1
  <1>8. CommandOK'
    BY <1>1, <1>4, <1>5, <1>6, <1>7 DEF HInv, CommandOK, Types
  <1>9. Promised'
    <2> SUFFICES ASSUME platformIPs = "good", family # "arch"
                 PROVE  /\ type = "install_crowdsec" => Occurs(Allowing, todo')
                        /\ last'["install_crowdsec"] = "done" => "address" \in has
      BY <1>1 DEF Promised, given, machine, Occurs, Allowing, Once
    <2>1. type = "install_crowdsec" => Occurs(Allowing, todo')
      BY <1>1, InstallationAllows
    <2>2. last'["install_crowdsec"] = "done" => last["install_crowdsec"] = "done"
      BY <1>1 DEF HInv, CommandOK, Types
    <2> QED
      BY <2>1, <2>2 DEF HInv, Promised
  <1> QED
    BY <1>2, <1>8, <1>9 DEF HInv

\* A program that succeeds takes nothing away.
LEMMA DoesOK ==
    ASSUME MachineOK, NoEngine, NEW type, NEW i, Trait(type, i), Works(i), Does(i), UNCHANGED given
    PROVE  /\ MachineOK' /\ NoEngine' /\ has \subseteq has'
           /\ i = Allowing => "address" \in has'
           /\ banned' => banned
  <1> DEFINE on == CASE i.op = "get" -> Starts(i.item)
                     [] i.op = "enable" -> {i.item}
                     [] OTHER -> {}
             again == IF i.op \in {"restart", "restart-ignored"} THEN {i.item} ELSE {}
  <1>1. /\ has' = IF i.op \in {"get", "write"} THEN has \union Gets(i.item) ELSE has
        /\ active' = active \union on \union (again \intersect Services)
        /\ enabled' = enabled \union on
        /\ effective' = Read((on \ active) \union again)
        /\ banned' \in {FALSE, banned}
    BY DEF Does
  <1>2. pending' \in BOOLEAN
    <2>1. pending' = (pending /\ i.op # "upgrade")
      BY DEF Does
    <2> QED
      BY <2>1, Zenon
  <1>3. /\ has \subseteq has' /\ has' \subseteq Items
        /\ i.op \in {"get", "write"} => Gets(i.item) \subseteq has'
    BY <1>1 DEF MachineOK, Gets, Trait
  <1>4. effective' \subseteq Configurations
    BY <1>1 DEF Read, MachineOK
  <1>5. on \subseteq Services \intersect has'
    <2>1. CASE i.op = "get"
      <3>1. Starts(i.item) \subseteq {"docker", "crowdsec", "bouncer", "updates"} \intersect {i.item}
        BY DEF Starts
      <3>2. Starts(i.item) \subseteq Gets(i.item)
        BY <3>1 DEF Gets
      <3> QED
        BY <1>3, <2>1, <3>1, <3>2 DEF Services
    <2>2. CASE i.op = "enable"
      BY <1>3, <2>2 DEF Trait, Works, Services
    <2>3. CASE i.op \notin {"get", "enable"}
      BY <2>3
    <2> QED
      BY <2>1, <2>2, <2>3
  <1>6. again \intersect Services \subseteq has'
    BY <1>3 DEF Works
  <1> HIDE DEF on, again
  <1>7. MachineOK'
    BY <1>1, <1>2, <1>3, <1>4, <1>5, <1>6 DEF MachineOK, given
  <1>8. NoEngine'
    BY <1>1 DEF NoEngine, Gets, Trait, given
  <1>9. i = Allowing => "address" \in has'
    BY <1>3 DEF Allowing, Once, Gets
  <1>10. banned' => banned
    <2>1. banned' = FALSE \/ banned' = banned
      BY <1>1
    <2> QED
      BY <2>1, Zenon
  <1> QED
    BY <1>3, <1>7, <1>8, <1>9, <1>10

\* A program that fails leaves services, and the allowlist, installed.
LEMMA LeavesOK ==
    ASSUME MachineOK, NoEngine, NEW type, NEW i, Trait(type, i), Leaves(i), UNCHANGED given
    PROVE  /\ MachineOK' /\ NoEngine'
           /\ "address" \in has => "address" \in has'
           /\ banned' = banned
  <1>1. /\ has' = has \/ (i.op = "write" /\ has' = has \ {i.item})
        /\ active' \subseteq active
        /\ UNCHANGED <<effective, enabled, pending, banned>>
    BY DEF Leaves
  <1>2. \A x \in Services \union {"address"} : x \in has => x \in has'
    BY <1>1 DEF Trait, Services
  <1>3. MachineOK'
    BY <1>1, <1>2 DEF MachineOK, given
  <1>4. NoEngine'
    BY <1>1 DEF NoEngine, given
  <1> QED
    BY <1>1, <1>2, <1>3, <1>4

\* A program succeeds.
LEMMA InvokeKeeps == HInv /\ Invoke => HInv' /\ (banned' => banned)
  <1> SUFFICES ASSUME HInv, Invoke PROVE HInv' /\ (banned' => banned)
    OBVIOUS
  <1>1. /\ todo # <<>> /\ Works(Head(todo)) /\ Does(Head(todo))
        /\ todo' = Tail(todo) /\ tries' = 0
        /\ UNCHANGED <<given, command, last, unfinished, commands, faults>>
    BY DEF Invoke
  <1>2. CommandOK' /\ FaultsOK'
    BY <1>1, GoesOnOK, FaultOK DEF HInv, given
  <1>3. Trait(command, Head(todo))
    BY <1>1, InCommand DEF HInv
  <1>4. /\ MachineOK' /\ NoEngine' /\ has \subseteq has'
        /\ Head(todo) = Allowing => "address" \in has'
        /\ banned' => banned
    BY <1>1, <1>3, DoesOK DEF HInv
  <1>5. Promised'
    <2> SUFFICES ASSUME platformIPs = "good", family # "arch"
                 PROVE  /\ command = "install_crowdsec" => "address" \in has' \/ Occurs(Allowing, Tail(todo))
                        /\ last["install_crowdsec"] = "done" => "address" \in has'
      BY <1>1 DEF Promised, given, Occurs, Allowing, Once
    <2>1. /\ command = "install_crowdsec" => "address" \in has \/ Occurs(Allowing, todo)
          /\ last["install_crowdsec"] = "done" => "address" \in has
      BY DEF HInv, Promised
    <2>2. Occurs(Allowing, todo) /\ Head(todo) # Allowing => Occurs(Allowing, Tail(todo))
      BY <1>1, InRest DEF HInv, CommandOK
    <2> QED
      BY <1>4, <2>1, <2>2
  <1> QED
    BY <1>2, <1>4, <1>5 DEF HInv

\* A script that is not there: the allowlist is not fetched with one.
LEMMA ScriptLostKeeps == HInv /\ ScriptLost => HInv'
  <1> SUFFICES ASSUME HInv, ScriptLost PROVE HInv'
    OBVIOUS
  <1>1. /\ todo # <<>> /\ Head(todo).item = "repo" /\ Fault
        /\ todo' = Tail(todo) /\ tries' = 0
        /\ UNCHANGED <<given, machine, command, last, unfinished, commands>>
    BY DEF ScriptLost
  <1>2. CommandOK' /\ FaultsOK'
    BY <1>1, GoesOnOK, FaultOK DEF HInv, given
  <1>3. MachineOK' /\ NoEngine'
    BY <1>1 DEF HInv, MachineOK, NoEngine, given, machine
  <1>4. Head(todo) # Allowing
    BY <1>1 DEF Allowing, Once
  <1>5. Occurs(Allowing, todo) => Occurs(Allowing, Tail(todo))
    BY <1>1, <1>4, InRest DEF HInv, CommandOK
  <1>6. Promised'
    BY <1>1, <1>5 DEF HInv, Promised, given, machine, Occurs, Allowing, Once
  <1> QED
    BY <1>2, <1>3, <1>6 DEF HInv

\* A command that ends otherwise than done owes nothing any more.
LEMMA PromiseEnds ==
    ASSUME HInv, command \in Types, NEW result \in {"failed", "cut"},
           UNCHANGED given, command' = "none", last' = [last EXCEPT ![command] = result],
           "address" \in has => "address" \in has'
    PROVE  Promised'
  <1>1. last'["install_crowdsec"] = "done" => last["install_crowdsec"] = "done"
    BY DEF HInv, CommandOK, Types
  <1> QED
    BY <1>1 DEF HInv, Promised, given

\* A program fails.
LEMMA InvocationFailsKeeps == HInv /\ InvocationFails => HInv' /\ banned' = banned
  <1> SUFFICES ASSUME HInv, InvocationFails PROVE HInv' /\ banned' = banned
    OBVIOUS
  <1>1. /\ todo # <<>> /\ (Fault \/ UNCHANGED faults) /\ Leaves(Head(todo))
        /\ UNCHANGED <<given, commands>>
    BY DEF InvocationFails
  <1>2. Trait(command, Head(todo)) /\ command \in Types /\ command # "none"
    BY <1>1, InCommand DEF HInv, Types
  <1>3. /\ MachineOK' /\ NoEngine' /\ banned' = banned
        /\ "address" \in has => "address" \in has'
    BY <1>1, <1>2, LeavesOK DEF HInv
  <1>4. FaultsOK'
    BY <1>1, FaultOK DEF HInv
  <1>5. CASE tries + 1 < Head(todo).tries
    <2>1. tries' = tries + 1 /\ UNCHANGED <<command, todo, last, unfinished>>
      BY <1>5 DEF InvocationFails
    <2>2. CommandOK'
      BY <1>1, <1>5, <2>1, GoesOnOK DEF HInv, given
    <2>3. Promised'
      BY <1>1, <1>3, <2>1 DEF HInv, Promised, given, Occurs, Allowing, Once
    <2> QED
      BY <1>3, <1>4, <2>2, <2>3 DEF HInv
  <1>6. CASE ~(tries + 1 < Head(todo).tries)
    <2>1. Ends("failed")
      BY <1>6 DEF InvocationFails
    <2>2. CommandOK' /\ command' = "none" /\ last' = [last EXCEPT ![command] = "failed"]
      BY <1>1, <1>2, <2>1, EndsOK DEF HInv, given
    <2>3. Promised'
      BY <1>1, <1>2, <1>3, <2>2, PromiseEnds
    <2> QED
      BY <1>3, <1>4, <2>2, <2>3 DEF HInv
  <1> QED
    BY <1>5, <1>6

\* A program fails and nobody asks: it is not the one that allows the platform.
LEMMA FailureIgnoredKeeps == HInv /\ FailureIgnored => HInv' /\ banned' = banned
  <1> SUFFICES ASSUME HInv, FailureIgnored PROVE HInv' /\ banned' = banned
    OBVIOUS
  <1>1. /\ todo # <<>> /\ Head(todo).op = "restart-ignored" /\ Leaves(Head(todo))
        /\ todo' = Tail(todo) /\ tries' = 0
        /\ UNCHANGED <<given, command, last, unfinished, commands, faults>>
    BY DEF FailureIgnored
  <1>2. CommandOK' /\ FaultsOK'
    BY <1>1, GoesOnOK, FaultOK DEF HInv, given
  <1>3. Trait(command, Head(todo))
    BY <1>1, InCommand DEF HInv
  <1>4. /\ MachineOK' /\ NoEngine' /\ banned' = banned
        /\ "address" \in has => "address" \in has'
    BY <1>1, <1>3, LeavesOK DEF HInv
  <1>5. Head(todo) # Allowing
    BY <1>1 DEF Allowing, Once
  <1>6. Occurs(Allowing, todo) => Occurs(Allowing, Tail(todo))
    BY <1>1, <1>5, InRest DEF HInv, CommandOK
  <1>7. Promised'
    BY <1>1, <1>4, <1>6 DEF HInv, Promised, given, Occurs, Allowing, Once
  <1> QED
    BY <1>2, <1>4, <1>7 DEF HInv

\* A command is done: the platform is allowed if it had to be.
LEMMA FinishKeeps == HInv /\ Finish => HInv'
  <1> SUFFICES ASSUME HInv, Finish PROVE HInv'
    OBVIOUS
  <1>1. /\ command # "none" /\ todo = <<>> /\ Ends("done")
        /\ UNCHANGED <<given, machine, commands, faults>>
    BY DEF Finish
  <1>2. CommandOK' /\ command' = "none" /\ last' = [last EXCEPT ![command] = "done"]
    BY <1>1, EndsOK DEF HInv, given
  <1>3. MachineOK' /\ NoEngine' /\ FaultsOK'
    BY <1>1 DEF HInv, MachineOK, NoEngine, FaultsOK, given, machine
  <1>4. ~Occurs(Allowing, todo)
    BY <1>1 DEF Occurs
  <1>5. last'["install_crowdsec"] = "done"
            => command = "install_crowdsec" \/ last["install_crowdsec"] = "done"
    BY <1>2 DEF HInv, CommandOK, Types
  <1>6. Promised'
    BY <1>1, <1>2, <1>4, <1>5 DEF HInv, Promised, given, machine
  <1> QED
    BY <1>2, <1>3, <1>6 DEF HInv

\* The agent is killed, the machine boots.
LEMMA CutOffKeeps == HInv /\ (Kill \/ Reboot) => HInv' /\ banned' = banned
  <1> SUFFICES ASSUME HInv, Kill \/ Reboot PROVE HInv' /\ banned' = banned
    OBVIOUS
  <1>1. /\ Fault /\ CutOff /\ UNCHANGED <<given, banned, pending, enabled, commands>>
        /\ has' = has \/ has' = has \ {"firewall"}
        /\ effective' = effective \/ effective' = has \intersect Configurations
        /\ active' = active \/ active' = enabled
    BY DEF Kill, Reboot, machine
  <1>2. MachineOK' /\ NoEngine'
    BY <1>1 DEF HInv, MachineOK, NoEngine, given, Services
  <1>3. FaultsOK'
    BY <1>1, FaultOK DEF HInv
  <1>4. "address" \in has => "address" \in has'
    BY <1>1
  <1>5. CASE command = "none"
    <2>1. UNCHANGED <<command, todo, tries, last, unfinished>>
      BY <1>1, <1>5 DEF CutOff
    <2>2. Repertoire(command)' = Repertoire(command)
      BY <1>1, <2>1 DEF given, Repertoire, RestartSsh, Detect, Once, Retried, Apt, Collections
    <2>3. CommandOK'
      BY <1>1, <2>1, <2>2 DEF HInv, CommandOK
    <2>4. Promised'
      BY <1>1, <1>4, <1>5, <2>1 DEF HInv, Promised, given
    <2> QED
      BY <1>1, <1>2, <1>3, <2>3, <2>4 DEF HInv
  <1>6. CASE command # "none"
    <2>1. Ends("cut") /\ command \in Types
      BY <1>1, <1>6 DEF CutOff, HInv, CommandOK
    <2>2. CommandOK' /\ command' = "none" /\ last' = [last EXCEPT ![command] = "cut"]
      BY <1>1, <1>6, <2>1, EndsOK DEF HInv, given
    <2>3. Promised'
      BY <1>1, <1>4, <2>1, <2>2, PromiseEnds
    <2> QED
      BY <1>1, <1>2, <1>3, <2>2, <2>3 DEF HInv
  <1> QED
    BY <1>5, <1>6

\* Nothing happens to the commands.
LEMMA WorldKeeps == HInv /\ (Ban \/ TimePasses \/ UNCHANGED vars) => HInv'
  <1> SUFFICES ASSUME HInv, Ban \/ TimePasses \/ UNCHANGED vars PROVE HInv'
    OBVIOUS
  <1>1. /\ UNCHANGED <<given, has, effective, active, enabled,
                       command, todo, tries, last, unfinished, commands, faults>>
        /\ banned' \in {banned, TRUE, FALSE} /\ pending' \in {pending, TRUE}
    BY DEF Ban, TimePasses, vars, machine
  <1>2. Repertoire(command)' = Repertoire(command)
    BY <1>1 DEF given, Repertoire, RestartSsh, Detect, Once, Retried, Apt, Collections
  <1>3. CommandOK'
    BY <1>1, <1>2 DEF HInv, CommandOK
  <1>4. MachineOK' /\ NoEngine' /\ FaultsOK'
    BY <1>1 DEF HInv, MachineOK, NoEngine, FaultsOK, given
  <1>5. Promised'
    BY <1>1 DEF HInv, Promised, given, Occurs, Allowing, Once
  <1> QED
    BY <1>3, <1>4, <1>5 DEF HInv

\* CrowdSec bans the platform only where it has not been told its addresses.
LEMMA BanIsEarly == HInv /\ Ban => platformIPs # "good" \/ last["install_crowdsec"] # "done"
  BY DEF HInv, MachineOK, Ban, Promised, NoEngine

\* Every step keeps the invariant.
LEMMA NextKeeps == HInv /\ [Next]_vars => HInv'
  <1> SUFFICES ASSUME HInv, [Next]_vars PROVE HInv'
    OBVIOUS
  <1>1. CASE \E type \in Types : Begin(type)
    BY <1>1, BeginKeeps
  <1>2. CASE Invoke \/ ScriptLost \/ InvocationFails \/ FailureIgnored \/ Finish
    BY <1>2, InvokeKeeps, ScriptLostKeeps, InvocationFailsKeeps, FailureIgnoredKeeps, FinishKeeps
  <1>3. CASE Kill \/ Reboot
    BY <1>3, CutOffKeeps
  <1>4. CASE Ban \/ TimePasses \/ UNCHANGED vars
    BY <1>4, WorldKeeps
  <1> QED
    BY <1>1, <1>2, <1>3, <1>4 DEF Next


-----------------------------------------------------------------------------
(* What the invocations bring about                                        *)

\* Nothing that is there, runs or is in effect is taken away.
Kept ==
    /\ has \subseteq has' /\ active \subseteq active' /\ enabled \subseteq enabled'
    /\ \A c \in has : c \in effective => c \in effective'
    /\ "docker" \in active' /\ "daemon" \in has => "docker" \in active \/ "daemon" \in effective'
    /\ "docker" \in enabled' => "docker" \in enabled \/ "docker" \in active'

\* What an invocation is for is there.
Effect(i) ==
    /\ i.op \in {"get", "write"} /\ i.item \notin {"index", "repo"} => i.item \in has'
    /\ i.op = "get" /\ (i.item \in {"crowdsec", "bouncer"} \/ (i.item = "updates" /\ Apt))
            => i.item \in active' /\ i.item \in enabled'
    /\ i.op = "enable" => i.item \in active' /\ i.item \in enabled'
    /\ i.op = "restart" =>
        /\ i.item = "ssh" /\ "sshd" \in has => "sshd" \in effective'
        /\ i.item = "systemd" /\ "limits" \in has => "limits" \in effective'
        /\ i.item = "docker" /\ "daemon" \in has => "daemon" \in effective'
        /\ i.item = "docker" => "docker" \in active'

\* Docker is installed by nothing but its own command.
OwnDocker(type) == "docker" \in has' => "docker" \in has \/ type = "install_docker"

\* A program that succeeds does that.
LEMMA DoesEffect ==
    ASSUME MachineOK, NEW type, NEW i, Trait(type, i), Does(i)
    PROVE  Kept /\ Effect(i) /\ OwnDocker(type)
  <1> DEFINE on == CASE i.op = "get" -> Starts(i.item)
                     [] i.op = "enable" -> {i.item}
                     [] OTHER -> {}
             again == IF i.op \in {"restart", "restart-ignored"} THEN {i.item} ELSE {}
  <1>1. /\ has' = IF i.op \in {"get", "write"} THEN has \union Gets(i.item) ELSE has
        /\ active' = active \union on \union (again \intersect Services)
        /\ enabled' = enabled \union on
        /\ effective' = Read((on \ active) \union again)
    BY DEF Does
  <1>2. \A c \in has : c \in effective => c \in effective'
    BY <1>1 DEF Read
  <1>3. "daemon" \in has /\ "docker" \in (on \ active) \union again => "daemon" \in effective'
    BY <1>1 DEF Read, Configurations
  <1>4. i.op = "restart" => i.item \in again /\ (i.item = "docker" => "docker" \in again \intersect Services)
    BY DEF Services
  <1>5. /\ "sshd" \in has /\ "ssh" \in again => "sshd" \in effective'
        /\ "limits" \in has /\ "systemd" \in again => "limits" \in effective'
    BY <1>1 DEF Read, Configurations
  <1>6. i.op = "enable" => i.item \in on
    OBVIOUS
  <1>7. i.op = "get" /\ (i.item \in {"crowdsec", "bouncer"} \/ (i.item = "updates" /\ Apt))
            => i.item \in on
    BY DEF Starts
  <1>8. OwnDocker(type)
    BY <1>1 DEF OwnDocker, Gets, Trait
  <1>9. i.op \in {"get", "write"} /\ i.item \notin {"index", "repo"} => i.item \in has'
    BY <1>1 DEF Gets
  <1> HIDE DEF on, again
  <1>10. Kept
    BY <1>1, <1>2, <1>3 DEF Kept
  <1>11. Effect(i)
    BY <1>1, <1>3, <1>4, <1>5, <1>6, <1>7, <1>9 DEF Effect
  <1> QED
    BY <1>8, <1>10, <1>11

\* A script that is lost does nothing, and nothing is for it.
LEMMA LostEffect ==
    ASSUME NEW type, NEW i, Trait(type, i), i.item = "repo", UNCHANGED machine
    PROVE  Kept /\ Effect(i) /\ OwnDocker(type)
  <1>1. Kept /\ OwnDocker(type)
    BY DEF Kept, OwnDocker, machine
  <1>2. Effect(i)
    BY DEF Effect, Trait
  <1> QED
    BY <1>1, <1>2

\* A program that fails leaves at most its own file broken, or its service down.
LEMMA LeavesEffect ==
    ASSUME MachineOK, NEW type, NEW i, Trait(type, i), Leaves(i)
    PROVE  /\ UNCHANGED <<effective, enabled>> /\ has' \subseteq has /\ active' \subseteq active
           /\ \A x \in has : x \notin has' => i.op = "write" /\ i.tries = 1 /\ x = i.item
           /\ \A s \in active : s \notin active' =>
                 \/ type = "install_crowdsec" /\ s = "crowdsec" /\ i.tries = 1
                 \/ type = "docker_harden" /\ s = "docker" /\ i = Retried("restart", "docker")
                 \/ type = "sysupdate" /\ s = "updates" /\ i.tries = 1
  <1>1. /\ UNCHANGED <<effective, enabled>>
        /\ has' = has \/ (i.op = "write" /\ has' = has \ {i.item})
        /\ \/ active' = active
           \/ i.op \in {"restart", "restart-ignored"} /\ active' = active \ {i.item}
    BY DEF Leaves
  <1>2. \A x \in has : x \notin has' => i.op = "write" /\ i.tries = 1 /\ x = i.item
    BY <1>1 DEF Trait
  <1>3. \A s \in active : s \notin active' => i.op \in {"restart", "restart-ignored"} /\ s = i.item
    BY <1>1
  <1>4. "ssh" \notin active /\ "systemd" \notin active
    BY DEF MachineOK, Services
  <1>5. ASSUME NEW s \in active, s \notin active'
        PROVE  \/ type = "install_crowdsec" /\ s = "crowdsec" /\ i.tries = 1
               \/ type = "docker_harden" /\ s = "docker" /\ i = Retried("restart", "docker")
               \/ type = "sysupdate" /\ s = "updates" /\ i.tries = 1
    BY <1>3, <1>4, <1>5 DEF Trait
  <1> QED
    BY <1>1, <1>2, <1>3, <1>5

-----------------------------------------------------------------------------
(* What a command has still to bring about                                 *)

\* What was to come still is, or it is what has just been invoked.
LEMMA OccursMoves ==
    ASSUME CommandOK, todo # <<>>, todo' = Tail(todo), NEW i, Occurs(i, todo)
    PROVE  Head(todo) = i \/ Occurs(i, todo')
  BY InCommand, InRest

\* So with a configuration that is to be written and read.
LEMMA LoadingMoves ==
    ASSUME CommandOK, todo # <<>>, todo' = Tail(todo), Kept, NEW c, NEW reading, Loading(c, reading),
           Head(todo) = Once("write", c) => c \in has',
           Head(todo) = reading /\ c \in has => c \in effective'
    PROVE  \/ Ahead(Once("write", c), reading, todo')
           \/ c \in has' /\ Occurs(reading, todo')
           \/ c \in has' /\ c \in effective'
  <1>1. has \subseteq has' /\ (c \in has /\ c \in effective => c \in effective')
    BY DEF Kept
  <1>2. CASE Ahead(Once("write", c), reading, todo)
    <2>1. \/ Head(todo) = Once("write", c) /\ Occurs(reading, todo')
          \/ Ahead(Once("write", c), reading, todo')
      BY <1>2, InCommand, InRest
    <2> QED
      BY <2>1
  <1>3. CASE c \in has /\ Occurs(reading, todo)
    BY <1>1, <1>3, OccursMoves
  <1>4. CASE c \in has /\ c \in effective
    BY <1>1, <1>4
  <1> QED
    BY <1>2, <1>3, <1>4 DEF Loading

\* A command that goes on is still about what it was about.
LEMMA UnderWayMoves ==
    ASSUME HInv, UnderWay, todo # <<>>, todo' = Tail(todo), UNCHANGED <<given, command>>,
           Kept, Effect(Head(todo))
    PROVE  UnderWay'
  <1>0. CommandOK /\ UNCHANGED family
    BY DEF HInv, given
  <1>1. command = "ssh_harden" => Loading("sshd", RestartSsh)'
    <2> SUFFICES ASSUME command = "ssh_harden" PROVE Loading("sshd", RestartSsh)'
      OBVIOUS
    <2>1. Loading("sshd", RestartSsh)
      BY DEF UnderWay
    <2>2. Head(todo) = Once("write", "sshd") => "sshd" \in has'
      BY DEF Effect, Once
    <2>3. Head(todo) = RestartSsh /\ "sshd" \in has => "sshd" \in effective'
      BY DEF Effect, RestartSsh
    <2>4. RestartSsh' = RestartSsh
      BY <1>0 DEF RestartSsh, Apt
    <2> QED
      BY <1>0, <2>1, <2>2, <2>3, <2>4, LoadingMoves DEF Loading, Once
  <1>2. command = "docker_harden" => Loading("daemon", Retried("restart", "docker"))'
    <2> SUFFICES ASSUME command = "docker_harden"
                 PROVE  Loading("daemon", Retried("restart", "docker"))'
      OBVIOUS
    <2>1. Loading("daemon", Retried("restart", "docker"))
      BY DEF UnderWay
    <2>2. Head(todo) = Once("write", "daemon") => "daemon" \in has'
      BY DEF Effect, Once
    <2>3. Head(todo) = Retried("restart", "docker") /\ "daemon" \in has => "daemon" \in effective'
      BY DEF Effect, Retried
    <2> QED
      BY <1>0, <2>1, <2>2, <2>3, LoadingMoves DEF Loading, Once, Retried
  <1>3. command = "install_crowdsec" /\ family # "arch" =>
            Loading("limits", Once("restart", "systemd"))'
    <2> SUFFICES ASSUME command = "install_crowdsec", family # "arch"
                 PROVE  Loading("limits", Once("restart", "systemd"))'
      OBVIOUS
    <2>1. Loading("limits", Once("restart", "systemd"))
      BY DEF UnderWay
    <2>2. Head(todo) = Once("write", "limits") => "limits" \in has'
      BY DEF Effect, Once
    <2>3. Head(todo) = Once("restart", "systemd") /\ "limits" \in has => "limits" \in effective'
      BY DEF Effect, Once
    <2> QED
      BY <1>0, <2>1, <2>2, <2>3, LoadingMoves DEF Loading, Once
  <1>4. command = "install_crowdsec" /\ family # "arch" =>
            \A s \in {"crowdsec", "bouncer"} :
                (s \in active' /\ s \in enabled') \/ Occurs(Retried("get", s), todo')
    <2> SUFFICES ASSUME command = "install_crowdsec", family # "arch", NEW s \in {"crowdsec", "bouncer"}
                 PROVE  (s \in active' /\ s \in enabled') \/ Occurs(Retried("get", s), todo')
      OBVIOUS
    <2>1. (s \in active /\ s \in enabled) \/ Occurs(Retried("get", s), todo)
      BY DEF UnderWay
    <2>2. Head(todo) = Retried("get", s) => s \in active' /\ s \in enabled'
      BY DEF Effect, Retried
    <2> QED
      BY <1>0, <2>1, <2>2, OccursMoves DEF Kept
  <1>5. command = "install_crowdsec" /\ family # "arch" =>
            \A c \in Collections : c \in has' \/ Occurs(Retried("get", c), todo')
    <2> SUFFICES ASSUME command = "install_crowdsec", family # "arch", NEW c \in Collections
                 PROVE  c \in has' \/ Occurs(Retried("get", c), todo')
      OBVIOUS
    <2>1. c \in has \/ Occurs(Retried("get", c), todo)
      BY DEF UnderWay
    <2>2. Head(todo) = Retried("get", c) => c \in has'
      BY DEF Effect, Retried, Collections
    <2> QED
      BY <1>0, <2>1, <2>2, OccursMoves DEF Kept
  <1>6. command = "sysupdate" /\ family # "arch" =>
            /\ "updates" \in has' \/ Occurs(Once("get", "updates"), todo')
            /\ "origins" \in has' \/ Occurs(Once("write", "origins"), todo')
            /\ Apt => "periodic" \in has' \/ Occurs(Once("write", "periodic"), todo')
    <2>1. /\ Head(todo) = Once("get", "updates") => "updates" \in has'
          /\ Head(todo) = Once("write", "origins") => "origins" \in has'
          /\ Head(todo) = Once("write", "periodic") => "periodic" \in has'
      BY DEF Effect, Once
    <2> QED
      BY <1>0, <2>1, OccursMoves DEF Kept, UnderWay
  <1>7. command = "sysupdate" /\ family # "arch" /\ ~Apt =>
            \/ "updates" \in active' /\ "updates" \in enabled'
            \/ Occurs(Once("enable", "updates"), todo')
    <2>1. Head(todo) = Once("enable", "updates") => "updates" \in active' /\ "updates" \in enabled'
      BY DEF Effect, Once
    <2> QED
      BY <1>0, <2>1, OccursMoves DEF Kept, UnderWay
  <1>8. command = "harden_firewall" => "firewall" \in has' \/ Occurs(Once("get", "firewall"), todo')
    <2>1. Head(todo) = Once("get", "firewall") => "firewall" \in has'
      BY DEF Effect, Once
    <2> QED
      BY <1>0, <2>1, OccursMoves DEF Kept, UnderWay
  <1>9. Apt' = Apt
    BY <1>0 DEF Apt
  <1> QED
    BY <1>0, <1>1, <1>2, <1>3, <1>4, <1>5, <1>6, <1>7, <1>8, <1>9
       DEF UnderWay, Occurs, Once, Retried, Collections

\* Docker stays enabled, and up.
LEMMA DockerMoves ==
    ASSUME HInv, DockerEnabled, DockerUp, todo # <<>>, todo' = Tail(todo),
           UNCHANGED <<command, unfinished>>, Kept, Effect(Head(todo)), OwnDocker(command)
    PROVE  DockerEnabled' /\ DockerUp'
  <1>0. CommandOK
    BY DEF HInv
  <1>1. DockerEnabled'
    <2>1. Head(todo) = Once("enable", "docker") => "docker" \in enabled'
      BY DEF Effect, Once
    <2>2. Occurs(Once("enable", "docker"), todo)
              => "docker" \in enabled' \/ Occurs(Once("enable", "docker"), todo')
      BY <1>0, <2>1, OccursMoves
    <2> QED
      BY <2>2 DEF DockerEnabled, OwnDocker, Kept, Occurs, Once
  <1>2. DockerUp'
    <2>1. Head(todo) = Retried("restart", "docker") => "docker" \in active'
      BY DEF Effect, Retried
    <2>2. Occurs(Retried("restart", "docker"), todo)
              => "docker" \in active' \/ Occurs(Retried("restart", "docker"), todo')
      BY <1>0, <2>1, OccursMoves
    <2> QED
      BY <2>2 DEF DockerUp, Kept, Occurs, Retried
  <1> QED
    BY <1>1, <1>2

\* What was achieved is kept where nothing is taken away.
LEMMA AchievedKept ==
    ASSUME Kept, UNCHANGED <<given, unfinished>>, NEW t, Achieved(t)
    PROVE  Achieved(t)'
  <1>1. /\ has \subseteq has' /\ active \subseteq active' /\ enabled \subseteq enabled'
        /\ \A c \in has : c \in effective => c \in effective'
        /\ "docker" \in active' /\ "daemon" \in has => "docker" \in active \/ "daemon" \in effective'
        /\ family' = family /\ unfinished' = unfinished /\ Apt' = Apt
    BY DEF Kept, given, Apt
  <1>2. /\ {"crowdsec", "bouncer"} \subseteq active \intersect enabled
            => {"crowdsec", "bouncer"} \subseteq active' \intersect enabled'
        /\ Collections \subseteq has => Collections' \subseteq has'
    BY <1>1 DEF Collections
  <1> QED
    BY <1>1, <1>2 DEF Achieved

\* A program succeeds, or a script is lost.
LEMMA MovesKeepEffects == HInv /\ EInv /\ (Invoke \/ ScriptLost) => EInv'
  <1> SUFFICES ASSUME HInv, EInv, Invoke \/ ScriptLost PROVE EInv'
    OBVIOUS
  <1>1. /\ todo # <<>> /\ todo' = Tail(todo) /\ UNCHANGED <<given, command, last, unfinished>>
        /\ \/ Does(Head(todo))
           \/ Head(todo).item = "repo" /\ UNCHANGED machine
    BY DEF Invoke, ScriptLost
  <1>2. MachineOK /\ Trait(command, Head(todo))
    BY <1>1, InCommand DEF HInv
  <1>3. Kept /\ Effect(Head(todo)) /\ OwnDocker(command)
    BY <1>1, <1>2, DoesEffect, LostEffect
  <1>4. UnderWay'
    BY <1>1, <1>3, UnderWayMoves DEF EInv
  <1>5. DockerEnabled' /\ DockerUp'
    BY <1>1, <1>3, DockerMoves DEF EInv
  <1>6. DoneInv'
    <2> SUFFICES ASSUME NEW t \in Types, last[t] = "done" PROVE Achieved(t)'
      BY <1>1 DEF DoneInv, Types
    <2>1. Achieved(t)
      BY DEF EInv, DoneInv
    <2> QED
      BY <1>1, <1>3, <2>1, AchievedKept
  <1> QED
    BY <1>4, <1>5, <1>6 DEF EInv

\* What a command in its first or second place is about.
LEMMA InShort ==
    ASSUME NEW a, NEW b
    PROVE  /\ Occurs(a, <<a>>) /\ Occurs(a, <<a, b>>) /\ Occurs(b, <<a, b>>)
           /\ Ahead(a, b, <<a, b>>)
  <1>1. Len(<<a, b>>) = 2 /\ <<a, b>>[1] = a /\ <<a, b>>[2] = b /\ Len(<<a>>) = 1 /\ <<a>>[1] = a
    OBVIOUS
  <1> QED
    BY <1>1 DEF Occurs, Ahead

\* The engine brings what install_crowdsec is about, in its order.
LEMMA EngineBrings ==
    ASSUME family # "arch"
    PROVE  /\ Ahead(Once("write", "limits"), Once("restart", "systemd"), installCrowdsec)
           /\ \A s \in {"crowdsec", "bouncer"} \union Collections :
                 Occurs(Retried("get", s), installCrowdsec)
  <1> DEFINE R == Repertoire("install_crowdsec")
             before == <<Detect>> \o If(family # "arch", <<Retried("get", "repo")>>)
                                 \o If(Apt, <<Retried("get", "index")>>)
  <1>1. /\ Len(Engine) = 10 /\ Engine[7] = Once("write", "limits") /\ Engine[9] = Once("restart", "systemd")
        /\ Engine[1] = Retried("get", "crowdsec") /\ Engine[8] = Retried("get", "bouncer")
        /\ Engine[3] = Retried("get", "sshd-collection") /\ Engine[4] = Retried("get", "nginx-collection")
        /\ Engine[5] = Retried("get", "http-cve-collection")
    BY DEF Engine
  <1>2. Ahead(Once("write", "limits"), Once("restart", "systemd"), Engine)
    <2>1. 7 \in 1..10 /\ 9 \in 1..10 /\ 7 < 9
      OBVIOUS
    <2> QED
      BY <1>1, <2>1 DEF Ahead
  <1>3. /\ Occurs(Retried("get", "crowdsec"), Engine) /\ Occurs(Retried("get", "bouncer"), Engine)
        /\ Occurs(Retried("get", "sshd-collection"), Engine)
        /\ Occurs(Retried("get", "nginx-collection"), Engine)
        /\ Occurs(Retried("get", "http-cve-collection"), Engine)
    BY <1>1 DEF Occurs
  <1>4. before \in Seq(R) /\ installCrowdsec = before \o (Engine \o whitelistPlatformIPs)
    BY BeforeEngine DEF If
  <1>5. Engine \in Seq(R) /\ whitelistPlatformIPs \in Seq(R) /\ Engine \o whitelistPlatformIPs \in Seq(R)
    BY EngineGood
  <1> HIDE DEF R, before
  <1>6. \A i, j : /\ Occurs(i, Engine) => Occurs(i, installCrowdsec)
                  /\ Ahead(i, j, Engine) => Ahead(i, j, installCrowdsec)
    <2> TAKE i, j
    <2>1. /\ Occurs(i, Engine) => Occurs(i, Engine \o whitelistPlatformIPs)
          /\ Ahead(i, j, Engine) => Ahead(i, j, Engine \o whitelistPlatformIPs)
      BY <1>5, InPart
    <2> QED
      BY <1>4, <1>5, <2>1, InPart
  <1> QED
    BY <1>2, <1>3, <1>6 DEF Collections

\* The baseline of updates brings what it is about.
LEMMA SysupdateBrings ==
    ASSUME family # "arch", MachineOK
    PROVE  /\ Occurs(Once("get", "updates"), sysupdateHarden)
           /\ Occurs(Once("write", "origins"), sysupdateHarden)
           /\ Apt => Occurs(Once("write", "periodic"), sysupdateHarden)
           /\ ~Apt => Occurs(Once("enable", "updates"), sysupdateHarden)
  <1> DEFINE R == Repertoire("sysupdate")
             middle == If(family # "arch", <<Once("get", "updates"), Once("write", "origins")>>)
             apt == If(Apt, <<Once("write", "periodic"), Once("restart-ignored", "updates")>>)
             rhel == If(family = "rhel", <<Once("enable", "updates")>>)
  <1>1. /\ Detect \in R /\ Once("get", "updates") \in R /\ Once("write", "origins") \in R
        /\ Once("write", "periodic") \in R /\ Once("enable", "updates") \in R
        /\ Apt => Once("restart-ignored", "updates") \in R
    BY DEF Repertoire
  <1>2. /\ middle = <<Once("get", "updates"), Once("write", "origins")>>
        /\ Apt => apt = <<Once("write", "periodic"), Once("restart-ignored", "updates")>>
    BY DEF If
  <1>3. ~Apt => rhel = <<Once("enable", "updates")>>
    BY FamilyOK DEF If, Apt
  <1>4. sysupdateHarden = ((<<Detect>> \o middle) \o apt) \o rhel
    BY DEF sysupdateHarden
  <1> HIDE DEF R
  <1>5. <<Detect>> \in Seq(R) /\ middle \in Seq(R) /\ apt \in Seq(R) /\ rhel \in Seq(R)
    BY <1>1, Short DEF If
  <1>6. /\ Occurs(Once("get", "updates"), middle) /\ Occurs(Once("write", "origins"), middle)
        /\ Apt => Occurs(Once("write", "periodic"), apt)
        /\ ~Apt => Occurs(Once("enable", "updates"), rhel)
    BY <1>2, <1>3, InShort
  <1> HIDE DEF middle, apt, rhel
  <1>7. <<Detect>> \o middle \in Seq(R) /\ (<<Detect>> \o middle) \o apt \in Seq(R)
    BY <1>5, Together
  <1>8. \A i : Occurs(i, middle) \/ Occurs(i, apt) => Occurs(i, sysupdateHarden)
    <2> SUFFICES ASSUME NEW i, Occurs(i, middle) \/ Occurs(i, apt) PROVE Occurs(i, sysupdateHarden)
      OBVIOUS
    <2>1. Occurs(i, <<Detect>> \o middle) \/ Occurs(i, apt)
      BY <1>5, InPart
    <2>2. Occurs(i, (<<Detect>> \o middle) \o apt)
      BY <1>5, <1>7, <2>1, InPart
    <2> QED
      BY <1>4, <1>5, <1>7, <2>2, InPart
  <1>9. \A i : Occurs(i, rhel) => Occurs(i, sysupdateHarden)
    BY <1>4, <1>5, <1>7, InPart
  <1> QED
    BY <1>6, <1>8, <1>9

\* The installation of docker enables it.
LEMMA DockerBrings ==
    "docker" \notin has => Occurs(Once("enable", "docker"), installDocker)
  <1> SUFFICES ASSUME "docker" \notin has PROVE Occurs(Once("enable", "docker"), installDocker)
    OBVIOUS
  <1> DEFINE R == Repertoire("install_docker")
             rhel == If(family = "rhel", <<Retried("get", "plugin"), Retried("get", "docker-repo")>>)
             end == <<Retried("get", "docker"), Once("enable", "docker")>>
  <1>1. /\ Detect \in R /\ Retried("get", "plugin") \in R /\ Retried("get", "docker-repo") \in R
        /\ Retried("get", "docker") \in R /\ Once("enable", "docker") \in R
    BY DEF Repertoire
  <1>2. installDocker = (<<Detect>> \o rhel) \o end
    BY DEF installDocker, If
  <1> HIDE DEF R
  <1>3. <<Detect>> \in Seq(R) /\ rhel \in Seq(R) /\ end \in Seq(R)
    BY <1>1, Short DEF If
  <1>4. Occurs(Once("enable", "docker"), end)
    BY InShort
  <1> HIDE DEF rhel, end
  <1>5. <<Detect>> \o rhel \in Seq(R)
    BY <1>3, Together
  <1> QED
    BY <1>2, <1>3, <1>4, <1>5, InPart

\* A command that begins has all that it is about before it.
LEMMA BeginBrings ==
    ASSUME HInv, EInv, NEW type \in Types, Begin(type)
    PROVE  EInv'
  <1>1. /\ command = "none" /\ command' = type /\ todo' = Executor(type)
        /\ last' = [last EXCEPT ![type] = "running"]
        /\ has' = has /\ active' = active /\ enabled' = enabled /\ effective' = effective
        /\ family' = family /\ unfinished' = unfinished
    BY DEF Begin, given, machine
  <1>2. /\ RestartSsh' = RestartSsh /\ Apt' = Apt /\ Collections' = Collections
        /\ \A op, item : Once(op, item)' = Once(op, item) /\ Retried(op, item)' = Retried(op, item)
    BY <1>1 DEF RestartSsh, Apt, Collections, Once, Retried
  <1>3. type = "ssh_harden" => Ahead(Once("write", "sshd"), RestartSsh, todo')
    BY <1>1, InShort DEF Executor, sshHarden, RestartSsh
  <1>4. type = "docker_harden" => Ahead(Once("write", "daemon"), Retried("restart", "docker"), todo')
    BY <1>1, InShort DEF Executor, dockerHarden
  <1>5. type = "harden_firewall" => Occurs(Once("get", "firewall"), todo')
    BY <1>1, InShort DEF Executor
  <1>6. type = "sysupdate" /\ family # "arch" =>
            /\ Occurs(Once("get", "updates"), todo')
            /\ Occurs(Once("write", "origins"), todo')
            /\ Apt => Occurs(Once("write", "periodic"), todo')
            /\ ~Apt => Occurs(Once("enable", "updates"), todo')
    BY <1>1, SysupdateBrings DEF Executor, HInv
  <1>7. type = "install_crowdsec" /\ family # "arch" =>
            /\ Ahead(Once("write", "limits"), Once("restart", "systemd"), todo')
            /\ \A s \in {"crowdsec", "bouncer"} \union Collections : Occurs(Retried("get", s), todo')
    BY <1>1, EngineBrings DEF Executor
  <1>8. type = "install_docker" /\ "docker" \notin has => Occurs(Once("enable", "docker"), todo')
    BY <1>1, DockerBrings DEF Executor
  <1>9. UnderWay'
    <2>1. command' = "ssh_harden" => Loading("sshd", RestartSsh)'
      BY <1>1, <1>2, <1>3 DEF Loading, Once
    <2>2. command' = "docker_harden" => Loading("daemon", Retried("restart", "docker"))'
      BY <1>1, <1>4 DEF Loading, Once, Retried
    <2>3. command' = "install_crowdsec" /\ family # "arch" => Loading("limits", Once("restart", "systemd"))'
      BY <1>1, <1>7 DEF Loading, Once
    <2> QED
      BY <1>1, <1>2, <1>5, <1>6, <1>7, <2>1, <2>2, <2>3 DEF UnderWay, Occurs, Once, Retried, Collections
  <1>10. DockerEnabled'
    BY <1>1, <1>8 DEF EInv, DockerEnabled, Occurs, Once
  <1>11. DockerUp'
    BY <1>1 DEF EInv, DockerUp
  <1>12. DoneInv'
    <2> SUFFICES ASSUME NEW t \in Types, last'[t] = "done" PROVE Achieved(t)'
      BY DEF DoneInv, Types
    <2>1. last[t] = "done"
      BY <1>1 DEF HInv, CommandOK
    <2>2. Achieved(t)
      BY <2>1 DEF EInv, DoneInv
    <2> QED
      BY <1>1, <1>2, <2>2 DEF Achieved
  <1> QED
    BY <1>9, <1>10, <1>11, <1>12 DEF EInv

\* What another command has achieved is not its failure's to break.
LEMMA AchievedSurvives ==
    ASSUME HInv, DoneInv, todo # <<>>, Leaves(Head(todo)), UNCHANGED given,
           unfinished \subseteq unfinished',
           NEW t \in Types, last[t] = "done"
    PROVE  Achieved(t)'
  <1> DEFINE i == Head(todo)
  <1>1. Achieved(t)
    BY DEF DoneInv
  <1>2. t # command
    BY DEF HInv, CommandOK
  <1>3. Trait(command, i) /\ MachineOK
    BY InCommand DEF HInv
  <1>4. /\ effective' = effective /\ enabled' = enabled /\ active' \subseteq active
        /\ \A x \in has : x \notin has' => i.op = "write" /\ x = i.item
        /\ \A s \in active : s \notin active' => \/ command = "install_crowdsec" /\ s = "crowdsec"
                                                 \/ command = "docker_harden" /\ s = "docker"
                                                 \/ command = "sysupdate" /\ s = "updates"
    BY <1>3, LeavesEffect
  <1>5. i.op = "write" => \/ command = "ssh_harden" /\ i.item = "sshd"
                          \/ command = "docker_harden" /\ i.item = "daemon"
                          \/ command = "install_crowdsec" /\ i.item = "limits"
                          \/ command = "sysupdate" /\ i.item \in {"origins", "periodic"}
    BY <1>3 DEF Trait
  <1> HIDE DEF i
  <1>6. family' = family /\ Apt' = Apt /\ Collections' = Collections
    BY DEF given, Apt, Collections
  <1>7. CASE t = "ssh_harden"
    BY <1>1, <1>2, <1>4, <1>5, <1>7 DEF Achieved
  <1>8. CASE t = "docker_harden"
    BY <1>1, <1>2, <1>4, <1>5, <1>8 DEF Achieved
  <1>9. CASE t = "install_docker"
    BY <1>1, <1>4, <1>9 DEF Achieved
  <1>10. CASE t = "install_crowdsec"
    <2>1. SUFFICES ASSUME family # "arch"
                   PROVE  /\ {"crowdsec", "bouncer"} \subseteq active' \intersect enabled'
                          /\ Collections \subseteq has' /\ "limits" \in has' /\ "limits" \in effective'
      BY <1>6, <1>10 DEF Achieved
    <2>2. /\ {"crowdsec", "bouncer"} \subseteq active \intersect enabled
          /\ Collections \subseteq has /\ "limits" \in has /\ "limits" \in effective
      BY <1>1, <1>10, <2>1 DEF Achieved
    <2>3. {"crowdsec", "bouncer"} \subseteq active' \intersect enabled'
      BY <1>2, <1>4, <1>10, <2>2
    <2>4. Collections \subseteq has'
      BY <1>4, <1>5, <2>2 DEF Collections
    <2> QED
      BY <1>2, <1>4, <1>5, <1>10, <2>2, <2>3, <2>4
  <1>11. CASE t = "sysupdate"
    BY <1>1, <1>2, <1>4, <1>5, <1>6, <1>11 DEF Achieved
  <1>12. CASE t = "harden_firewall"
    BY <1>1, <1>4, <1>5, <1>6, <1>12 DEF Achieved
  <1>13. CASE t = "apt_upgrade"
    BY <1>13 DEF Achieved
  <1> QED
    BY <1>7, <1>8, <1>9, <1>10, <1>11, <1>12, <1>13 DEF Types

\* A command that has ended otherwise than done is about nothing any more, and
\* is among the unfinished.
LEMMA EndEffects ==
    ASSUME HInv, EInv, command \in Types, command' = "none", todo' = <<>>,
           unfinished' = unfinished \union {command}, enabled' = enabled,
           "docker" \in has' => "docker" \in has,
           \/ "docker" \in active => "docker" \in active' \/ command = "docker_harden"
           \/ active' = enabled
    PROVE  UnderWay' /\ DockerEnabled' /\ DockerUp'
  <1>1. UnderWay'
    BY DEF UnderWay
  <1>2. DockerEnabled'
    BY DEF EInv, DockerEnabled
  <1>3. DockerUp'
    BY DEF EInv, DockerUp
  <1> QED
    BY <1>1, <1>2, <1>3

\* What fails and is tried again is nothing a command has written.
LEMMA RetriedEffects ==
    ASSUME HInv, EInv, todo # <<>>, Leaves(Head(todo)), UNCHANGED <<given, command, todo, unfinished>>,
           tries + 1 < Head(todo).tries
    PROVE  UnderWay' /\ DockerEnabled' /\ DockerUp'
  <1> DEFINE i == Head(todo)
  <1>1. Trait(command, i) /\ MachineOK /\ i.tries \in 1..3 /\ tries \in 0..i.tries - 1
    BY InCommand DEF HInv
  <1>2. i.tries # 1
    BY <1>1
  <1>3. /\ effective' = effective /\ enabled' = enabled /\ has' = has
        /\ \A s \in active : s \notin active' =>
              command = "docker_harden" /\ s = "docker" /\ i = Retried("restart", "docker")
    <2>1. /\ effective' = effective /\ enabled' = enabled /\ has' \subseteq has
          /\ \A x \in has : x \notin has' => i.tries = 1
          /\ \A s \in active : s \notin active' =>
                \/ i.tries = 1
                \/ command = "docker_harden" /\ s = "docker" /\ i = Retried("restart", "docker")
      BY <1>1, LeavesEffect
    <2> HIDE DEF i
    <2>2. has' = has
      BY <1>2, <2>1
    <2> QED
      BY <1>2, <2>1, <2>2
  <1>4. /\ RestartSsh' = RestartSsh /\ Apt' = Apt /\ Collections' = Collections /\ family' = family
    BY DEF given, RestartSsh, Apt, Collections
  <1>5. UnderWay'
    <2>1. /\ Loading("sshd", RestartSsh)' = Loading("sshd", RestartSsh)
          /\ Loading("daemon", Retried("restart", "docker"))' = Loading("daemon", Retried("restart", "docker"))
          /\ Loading("limits", Once("restart", "systemd"))' = Loading("limits", Once("restart", "systemd"))
      BY <1>3, <1>4 DEF Loading, Once, Retried
    <2>2. command \in {"install_crowdsec", "sysupdate"} => active \subseteq active'
      BY <1>3
    <2> QED
      BY <1>3, <1>4, <2>1, <2>2 DEF EInv, UnderWay, Occurs, Once, Retried, Collections
  <1>6. DockerEnabled'
    BY <1>3 DEF EInv, DockerEnabled, Occurs, Once
  <1>7. DockerUp'
    <2>1. Occurs(i, todo)
      <3>1. i = todo[1] /\ Len(todo) \in Nat \ {0}
        BY InCommand, FirstAndRest DEF HInv
      <3> QED
        BY <3>1 DEF Occurs
    <2> HIDE DEF i
    <2>2. \/ "docker" \in active => "docker" \in active'
          \/ command = "docker_harden" /\ Occurs(Retried("restart", "docker"), todo)
      BY <1>3, <2>1
    <2> QED
      BY <1>3, <2>2 DEF EInv, DockerUp, Occurs, Retried
  <1> QED
    BY <1>5, <1>6, <1>7

\* A program fails.
LEMMA FailureKeepsEffects == HInv /\ EInv /\ InvocationFails => EInv'
  <1> SUFFICES ASSUME HInv, EInv, InvocationFails PROVE EInv'
    OBVIOUS
  <1>1. todo # <<>> /\ Leaves(Head(todo)) /\ UNCHANGED given
    BY DEF InvocationFails
  <1>2. command \in Types /\ Trait(command, Head(todo)) /\ MachineOK
    BY <1>1, InCommand DEF HInv
  <1>3. CASE tries + 1 < Head(todo).tries
    <2>1. UNCHANGED <<command, todo, last, unfinished>>
      BY <1>3 DEF InvocationFails
    <2>2. DoneInv'
      BY <1>1, <2>1, AchievedSurvives DEF EInv, DoneInv, Types
    <2>3. UnderWay' /\ DockerEnabled' /\ DockerUp'
      BY <1>1, <1>3, <2>1, RetriedEffects
    <2> QED
      BY <2>2, <2>3 DEF EInv
  <1>4. CASE ~(tries + 1 < Head(todo).tries)
    <2>1. Ends("failed")
      BY <1>4 DEF InvocationFails
    <2>2. /\ command' = "none" /\ todo' = <<>> /\ last' = [last EXCEPT ![command] = "failed"]
          /\ unfinished' = unfinished \union {command}
      BY <2>1 DEF Ends
    <2>3. DoneInv'
      <3> SUFFICES ASSUME NEW t \in Types, last'[t] = "done" PROVE Achieved(t)'
        BY DEF DoneInv, Types
      <3>1. last[t] = "done"
        BY <1>2, <2>2 DEF HInv, CommandOK
      <3> QED
        BY <1>1, <2>2, <3>1, AchievedSurvives DEF EInv
    <2>4. /\ enabled' = enabled /\ has' \subseteq has
          /\ "docker" \in active => "docker" \in active' \/ command = "docker_harden"
      BY <1>1, <1>2, LeavesEffect
    <2>5. UnderWay' /\ DockerEnabled' /\ DockerUp'
      BY <1>2, <2>2, <2>4, EndEffects
    <2> QED
      BY <2>3, <2>5 DEF EInv
  <1> QED
    BY <1>3, <1>4

\* A program fails and nobody asks: on Debian the updates do not hang on it.
LEMMA IgnoredKeepsEffects == HInv /\ EInv /\ FailureIgnored => EInv'
  <1> SUFFICES ASSUME HInv, EInv, FailureIgnored PROVE EInv'
    OBVIOUS
  <1>1. /\ todo # <<>> /\ Head(todo).op = "restart-ignored" /\ Leaves(Head(todo))
        /\ todo' = Tail(todo) /\ UNCHANGED <<given, command, last, unfinished>>
    BY DEF FailureIgnored
  <1>2. Trait(command, Head(todo)) /\ MachineOK /\ CommandOK
    BY <1>1, InCommand DEF HInv
  <1>3. command = "sysupdate" /\ Apt
    BY <1>1, <1>2 DEF Trait
  <1>4. /\ has' = has /\ enabled' = enabled
        /\ "docker" \in active => "docker" \in active'
    <2>1. has' = has /\ enabled' = enabled
      BY <1>1 DEF Leaves
    <2> QED
      BY <1>1, <1>2, <1>3, <2>1, LeavesEffect
  <1>5. Apt' = Apt /\ family' = family
    BY <1>1 DEF Apt, given
  <1>6. UnderWay'
    <2>1. \A i : i.op # "restart-ignored" /\ Occurs(i, todo) => Occurs(i, todo')
      BY <1>1, <1>2, OccursMoves
    <2>2. \A op, item : Once(op, item).op = op
      BY DEF Once
    <2>3. family # "arch" =>
              /\ "updates" \in has \/ Occurs(Once("get", "updates"), todo)
              /\ "origins" \in has \/ Occurs(Once("write", "origins"), todo)
              /\ "periodic" \in has \/ Occurs(Once("write", "periodic"), todo)
      BY <1>3 DEF EInv, UnderWay
    <2>4. family # "arch" =>
              /\ "updates" \in has' \/ Occurs(Once("get", "updates"), todo')
              /\ "origins" \in has' \/ Occurs(Once("write", "origins"), todo')
              /\ "periodic" \in has' \/ Occurs(Once("write", "periodic"), todo')
      BY <1>4, <2>1, <2>2, <2>3
    <2> QED
      BY <1>1, <1>3, <1>5, <2>4 DEF UnderWay, Occurs, Once
  <1>7. DockerEnabled' /\ DockerUp'
    BY <1>1, <1>3, <1>4 DEF EInv, DockerEnabled, DockerUp
  <1>8. DoneInv'
    BY <1>1, AchievedSurvives DEF EInv, DoneInv, Types
  <1> QED
    BY <1>6, <1>7, <1>8 DEF EInv

\* A command that comes to its end has brought about what it is about.
LEMMA FinishKeepsEffects == HInv /\ EInv /\ Finish => EInv'
  <1> SUFFICES ASSUME HInv, EInv, Finish PROVE EInv'
    OBVIOUS
  <1>1. /\ command # "none" /\ todo = <<>> /\ UNCHANGED <<given, machine>>
        /\ command' = "none" /\ todo' = <<>> /\ last' = [last EXCEPT ![command] = "done"]
        /\ unfinished' = unfinished
    BY DEF Finish, Ends
  <1>2. /\ has' = has /\ active' = active /\ enabled' = enabled /\ effective' = effective
        /\ family' = family /\ Apt' = Apt /\ Collections' = Collections
    BY <1>1 DEF given, machine, Apt, Collections
  <1>3. \A i, j : ~Occurs(i, todo) /\ ~Ahead(i, j, todo)
    BY <1>1, Empty
  <1>4. Achieved(command)
    <2>1. command \in Types
      BY <1>1 DEF HInv, CommandOK
    <2>2. \A c, r : Loading(c, r) => c \in has /\ c \in effective
      BY <1>3 DEF Loading
    <2>3. command = "ssh_harden" => Achieved(command)
      BY <2>2 DEF EInv, UnderWay, Achieved
    <2>4. command = "docker_harden" => Achieved(command)
      BY <2>2 DEF EInv, UnderWay, Achieved
    <2>5. command = "install_crowdsec" => Achieved(command)
      BY <1>3, <2>2 DEF EInv, UnderWay, Achieved
    <2>6. command = "sysupdate" => Achieved(command)
      BY <1>3 DEF EInv, UnderWay, Achieved
    <2>7. command = "install_docker" => Achieved(command)
      BY <1>3 DEF EInv, DockerEnabled, Achieved
    <2>8. command = "harden_firewall" => Achieved(command)
      BY <1>3 DEF EInv, UnderWay, Achieved
    <2>9. command = "apt_upgrade" => Achieved(command)
      BY DEF Achieved
    <2> QED
      BY <2>1, <2>3, <2>4, <2>5, <2>6, <2>7, <2>8, <2>9 DEF Types
  <1>5. DoneInv'
    <2> SUFFICES ASSUME NEW t \in Types, last'[t] = "done" PROVE Achieved(t)'
      BY DEF DoneInv, Types
    <2>1. t = command \/ last[t] = "done"
      BY <1>1 DEF HInv, CommandOK
    <2>2. Achieved(t)
      BY <1>4, <2>1 DEF EInv, DoneInv
    <2> QED
      BY <1>1, <1>2, <2>2 DEF Achieved
  <1>6. UnderWay'
    BY <1>1 DEF UnderWay
  <1>7. DockerEnabled'
    BY <1>1, <1>2, <1>3 DEF EInv, DockerEnabled
  <1>8. DockerUp'
    BY <1>1, <1>2, <1>3 DEF EInv, DockerUp
  <1> QED
    BY <1>5, <1>6, <1>7, <1>8 DEF EInv

\* The agent is killed, the machine boots: what is enabled starts, and reads what
\* is written.
LEMMA CutOffKeepsEffects == HInv /\ EInv /\ (Kill \/ Reboot) => EInv'
  <1> SUFFICES ASSUME HInv, EInv, Kill \/ Reboot PROVE EInv'
    OBVIOUS
  <1>1. /\ CutOff /\ UNCHANGED <<given, enabled>>
        /\ \/ UNCHANGED <<has, active, effective>>
           \/ /\ has' = has \/ (family = "arch" /\ has' = has \ {"firewall"})
              /\ active' = enabled /\ effective' = has \intersect Configurations
    BY DEF Kill, Reboot, machine
  <1>2. family' = family /\ Apt' = Apt /\ Collections' = Collections
    BY <1>1 DEF given, Apt, Collections
  <1>3. ASSUME NEW t \in Types, Achieved(t), unfinished \subseteq unfinished' PROVE Achieved(t)'
    <2>1. CASE UNCHANGED <<has, active, effective>>
      BY <1>1, <1>2, <1>3, <2>1 DEF Achieved
    <2>2. CASE /\ has' = has \/ (family = "arch" /\ has' = has \ {"firewall"})
               /\ active' = enabled /\ effective' = has \intersect Configurations
      <3>1. /\ \A c \in {"sshd", "daemon", "limits"} : c \in has => c \in has' /\ c \in effective'
            /\ "origins" \in has => "origins" \in has'
            /\ Collections \subseteq has => Collections \subseteq has'
            /\ family # "arch" => has' = has
        BY <2>2 DEF Configurations, Collections
      <3> QED
        BY <1>1, <1>2, <1>3, <2>2, <3>1 DEF Achieved
    <2> QED
      BY <1>1, <2>1, <2>2
  <1>4. "docker" \in has' => "docker" \in has
    BY <1>1
  <1>5. CASE command = "none"
    <2>1. UNCHANGED <<command, todo, last, unfinished>>
      BY <1>1, <1>5 DEF CutOff
    <2>2. DoneInv'
      BY <1>3, <2>1 DEF EInv, DoneInv, Types
    <2>3. UnderWay'
      BY <1>5, <2>1 DEF UnderWay
    <2>4. DockerEnabled'
      BY <1>1, <1>4, <1>5, <2>1 DEF EInv, DockerEnabled
    <2>5. DockerUp'
      BY <1>1, <1>5, <2>1 DEF EInv, DockerUp
    <2> QED
      BY <2>2, <2>3, <2>4, <2>5 DEF EInv
  <1>6. CASE command # "none"
    <2>1. /\ command' = "none" /\ todo' = <<>> /\ last' = [last EXCEPT ![command] = "cut"]
          /\ unfinished' = unfinished \union {command} /\ command \in Types
      BY <1>1, <1>6 DEF CutOff, Ends, HInv, CommandOK
    <2>2. DoneInv'
      <3> SUFFICES ASSUME NEW t \in Types, last'[t] = "done" PROVE Achieved(t)'
        BY DEF DoneInv, Types
      <3>1. last[t] = "done"
        BY <2>1 DEF HInv, CommandOK
      <3> QED
        BY <1>3, <2>1, <3>1 DEF EInv, DoneInv
    <2>3. UnderWay' /\ DockerEnabled' /\ DockerUp'
      BY <1>1, <1>4, <2>1, EndEffects
    <2> QED
      BY <2>2, <2>3 DEF EInv
  <1> QED
    BY <1>5, <1>6

\* Nothing happens to the commands, nor to what they have brought about.
LEMMA WorldKeepsEffects == EInv /\ (Ban \/ TimePasses \/ UNCHANGED vars) => EInv'
  <1> SUFFICES ASSUME EInv, Ban \/ TimePasses \/ UNCHANGED vars PROVE EInv'
    OBVIOUS
  <1>1. UNCHANGED <<family, has, effective, active, enabled, command, todo, last, unfinished>>
    BY DEF Ban, TimePasses, vars, machine, given
  <1>2. UnderWay'
    BY <1>1 DEF EInv, UnderWay, Loading, Occurs, Ahead, Once, Retried, RestartSsh, Apt, Collections
  <1>3. DockerEnabled' /\ DockerUp'
    BY <1>1 DEF EInv, DockerEnabled, DockerUp, Occurs, Once, Retried
  <1>4. DoneInv'
    BY <1>1 DEF EInv, DoneInv, Achieved, Types, Apt, Collections
  <1> QED
    BY <1>2, <1>3, <1>4 DEF EInv

\* A new machine.
LEMMA InitEffects == Init => EInv
  <1> SUFFICES ASSUME Init PROVE EInv
    OBVIOUS
  <1>1. UnderWay /\ DockerEnabled /\ DockerUp
    BY DEF Init, UnderWay, DockerEnabled, DockerUp
  <1>2. DoneInv
    BY DEF Init, DoneInv
  <1> QED
    BY <1>1, <1>2 DEF EInv

\* Every step keeps what the commands have brought about.
LEMMA NextKeepsEffects == HInv /\ EInv /\ [Next]_vars => EInv'
  <1> SUFFICES ASSUME HInv, EInv, [Next]_vars PROVE EInv'
    OBVIOUS
  <1>1. CASE \E type \in Types : Begin(type)
    BY <1>1, BeginBrings
  <1>2. CASE Invoke \/ ScriptLost
    BY <1>2, MovesKeepEffects
  <1>3. CASE InvocationFails \/ FailureIgnored
    BY <1>3, FailureKeepsEffects, IgnoredKeepsEffects
  <1>4. CASE Finish
    BY <1>4, FinishKeepsEffects
  <1>5. CASE Kill \/ Reboot
    BY <1>5, CutOffKeepsEffects
  <1>6. CASE Ban \/ TimePasses \/ UNCHANGED vars
    BY <1>6, WorldKeepsEffects
  <1> QED
    BY <1>1, <1>2, <1>3, <1>4, <1>5, <1>6 DEF Next

-----------------------------------------------------------------------------
(* What the invocations find                                               *)

Fetches(i, n) == i.op = "get" /\ i.item = n

\* A list that is prepared on a machine that has H.
PreparedWith(H, s) ==
    \A k \in 1..Len(s) : \A n \in Requires(s[k]) :
        \/ n \in H
        \/ \E j \in 1..k - 1 : Fetches(s[j], n)
        \/ n = "repo"
        \/ n = "docker" /\ s[k].op = "restart"

Fetched(s) == {n \in Items : \E j \in 1..Len(s) : Fetches(s[j], n)}

\* What a program needs is what has to be there.
LEMMA WorksWhen == \A i : Works(i) <=> Requires(i) \subseteq has
  BY DEF Works, Requires

\* Requirements are those of the family.
LEMMA SameRequired == ASSUME UNCHANGED family PROVE \A i : Requires(i)' = Requires(i)
  BY DEF Requires, Needs, Apt, Collections, Services

\* Lists put together.
LEMMA PreparedTogether ==
    ASSUME NEW S, NEW s \in Seq(S), NEW t \in Seq(S), NEW H,
           PreparedWith(H, s), PreparedWith(H \union Fetched(s), t)
    PROVE  PreparedWith(H, s \o t)
  <1> DEFINE u == s \o t
  <1>1. /\ Len(u) = Len(s) + Len(t) /\ Len(s) \in Nat /\ Len(t) \in Nat
        /\ \A k \in 1..Len(s) : u[k] = s[k]
        /\ \A k \in 1..Len(t) : u[Len(s) + k] = t[k]
    BY Places
  <1> HIDE DEF u
  <1> SUFFICES ASSUME NEW k \in 1..Len(u), NEW n \in Requires(u[k]), n # "repo",
                      ~(n = "docker" /\ u[k].op = "restart"), n \notin H
               PROVE  \E j \in 1..k - 1 : Fetches(u[j], n)
    BY DEF PreparedWith, u
  <1>2. CASE k \in 1..Len(s)
    <2>1. PICK j \in 1..k - 1 : Fetches(s[j], n)
      BY <1>1, <1>2 DEF PreparedWith
    <2>2. j \in 1..Len(s)
      BY <1>1, <1>2
    <2> QED
      BY <1>1, <2>1, <2>2
  <1>3. CASE k \notin 1..Len(s)
    <2>1. k - Len(s) \in 1..Len(t) /\ u[k] = t[k - Len(s)]
      <3>1. k - Len(s) \in 1..Len(t) /\ Len(s) + (k - Len(s)) = k
        BY <1>1, <1>3
      <3> QED
        BY <1>1, <3>1
    <2>2. n \in Fetched(s) \/ \E j \in 1..(k - Len(s)) - 1 : Fetches(t[j], n)
      BY <2>1 DEF PreparedWith
    <2>3. CASE n \in Fetched(s)
      <3>1. PICK j \in 1..Len(s) : Fetches(s[j], n)
        BY <2>3 DEF Fetched
      <3>2. j \in 1..k - 1
        BY <1>1, <1>3
      <3> QED
        BY <1>1, <3>1, <3>2
    <2>4. CASE \E j \in 1..(k - Len(s)) - 1 : Fetches(t[j], n)
      <3>1. PICK j \in 1..(k - Len(s)) - 1 : Fetches(t[j], n)
        BY <2>4
      <3>2. j \in 1..Len(t) /\ Len(s) + j \in 1..k - 1
        BY <1>1, <2>1
      <3> QED
        BY <1>1, <3>1, <3>2
    <2> QED
      BY <2>2, <2>3, <2>4
  <1> QED
    BY <1>2, <1>3

\* What lists put together fetch.
LEMMA FetchedTogether ==
    ASSUME NEW S, NEW s \in Seq(S), NEW t \in Seq(S)
    PROVE  Fetched(s) \union Fetched(t) \subseteq Fetched(s \o t)
  <1>1. /\ Len(s \o t) = Len(s) + Len(t) /\ Len(s) \in Nat /\ Len(t) \in Nat
        /\ \A k \in 1..Len(s) : (s \o t)[k] = s[k]
        /\ \A k \in 1..Len(t) : (s \o t)[Len(s) + k] = t[k]
    BY Places
  <1>2. ASSUME NEW n \in Fetched(s) PROVE n \in Fetched(s \o t)
    <2>1. PICK j \in 1..Len(s) : Fetches(s[j], n)
      BY DEF Fetched
    <2>2. j \in 1..Len(s \o t) /\ Fetches((s \o t)[j], n)
      BY <1>1, <2>1
    <2> QED
      BY <2>2 DEF Fetched
  <1>3. ASSUME NEW n \in Fetched(t) PROVE n \in Fetched(s \o t)
    <2>1. PICK j \in 1..Len(t) : Fetches(t[j], n)
      BY DEF Fetched
    <2>2. Len(s) + j \in 1..Len(s \o t) /\ Fetches((s \o t)[Len(s) + j], n)
      BY <1>1, <2>1
    <2> QED
      BY <2>2 DEF Fetched
  <1> QED
    BY <1>2, <1>3

\* More on the machine prepares no less.
LEMMA PreparedMore ==
    ASSUME NEW H, NEW G, H \subseteq G, NEW s, PreparedWith(H, s)
    PROVE  PreparedWith(G, s)
  BY DEF PreparedWith

\* Lists of which nothing needs anything that is fetched.
LEMMA PreparedPlain ==
    ASSUME NEW H, NEW s, \A k \in 1..Len(s) : Requires(s[k]) \subseteq H
    PROVE  PreparedWith(H, s)
  BY DEF PreparedWith

\* What the invocations need that need anything.
LEMMA Required ==
    /\ Requires(Detect) = {} /\ Requires(Retried("upgrade", "packages")) = {}
    /\ \A item \in {"repo", "index", "plugin", "dropin-dir", "updates", "firewall"} :
          Requires(Once("get", item)) = {} /\ Requires(Retried("get", item)) = {}
    /\ \A item \in {"sshd", "daemon", "origins", "periodic"} : Requires(Once("write", item)) = {}
    /\ Requires(RestartSsh) = {} /\ Requires(Once("restart", "systemd")) = {}
    /\ Requires(Retried("restart", "docker")) = {"docker"}
    /\ Requires(Once("enable", "docker")) = {"docker"} /\ Requires(Once("enable", "updates")) = {"updates"}
    /\ Requires(Once("restart-ignored", "updates")) = {"updates"}
    /\ Requires(Once("restart", "crowdsec")) = {"crowdsec"}
    /\ Requires(Retried("get", "docker-repo")) = {"plugin"}
    /\ Requires(Retried("get", "docker")) \subseteq {"docker-repo"}
    /\ family # "rhel" => Requires(Retried("get", "docker")) = {}
    /\ Requires(Retried("get", "crowdsec")) \subseteq {"repo"}
    /\ Requires(Retried("get", "hub")) = {"crowdsec"}
    /\ \A item \in Collections : Requires(Retried("get", item)) = {"crowdsec", "hub"}
    /\ Requires(Once("write", "limits")) = {"dropin-dir"}
    /\ Requires(Retried("get", "bouncer")) \subseteq {"repo", "index"}
    /\ ~Apt => Requires(Retried("get", "bouncer")) = {"repo"}
    /\ Requires(Once("get", "allowlist")) = {"crowdsec"}
    /\ Requires(Once("get", "address")) = {"allowlist"}
  <1> DEFINE Of(op, item, n) == Requires([op |-> op, item |-> item, tries |-> n])
  <1>1. \A op, item, n : Of(op, item, n) =
            IF op \in {"get", "write"} THEN Needs(item)
            ELSE IF op \in {"restart", "restart-ignored", "enable"} THEN {item} \intersect Services ELSE {}
    BY DEF Requires
  <1>2. /\ \A op, item : Requires(Once(op, item)) = Of(op, item, 1)
        /\ \A op, item : Requires(Retried(op, item)) = Of(op, item, 3)
        /\ Requires(Detect) = Of("check", "os-release", 1)
        /\ Requires(RestartSsh) = Of("restart", "ssh", IF Apt THEN 2 ELSE 1)
    BY DEF Once, Retried, Detect, RestartSsh
  <1> HIDE DEF Of
  <1>3. /\ \A item \in {"repo", "index", "plugin", "dropin-dir", "updates", "firewall",
                        "sshd", "daemon", "origins", "periodic"} : Needs(item) = {}
        /\ Needs("docker-repo") = {"plugin"} /\ Needs("docker") \subseteq {"docker-repo"}
        /\ family # "rhel" => Needs("docker") = {}
        /\ Needs("crowdsec") \subseteq {"repo"} /\ Needs("hub") = {"crowdsec"}
        /\ \A item \in Collections : Needs(item) = {"crowdsec", "hub"}
        /\ Needs("limits") = {"dropin-dir"} /\ Needs("bouncer") \subseteq {"repo", "index"}
        /\ ~Apt => Needs("bouncer") = {"repo"}
        /\ Needs("allowlist") = {"crowdsec"} /\ Needs("address") = {"allowlist"}
    BY DEF Needs, Collections
  <1>4. /\ {"docker"} \intersect Services = {"docker"} /\ {"updates"} \intersect Services = {"updates"}
        /\ {"crowdsec"} \intersect Services = {"crowdsec"}
        /\ {"ssh"} \intersect Services = {} /\ {"systemd"} \intersect Services = {}
    BY DEF Services
  <1> QED
    BY <1>1, <1>2, <1>3, <1>4

\* What a list of one or two fetches, and whether it is prepared.
LEMMA PreparedShort ==
    ASSUME NEW H, NEW a, NEW b
    PROVE  /\ PreparedWith(H, <<>>)
           /\ Requires(a) \subseteq H \union {"repo"} => PreparedWith(H, <<a>>)
           /\ /\ Requires(a) \subseteq H \union {"repo"}
              /\ \A n \in Requires(b) : n \in H \/ Fetches(a, n) \/ (n = "docker" /\ b.op = "restart")
              => PreparedWith(H, <<a, b>>)
           /\ \A n \in Items : Fetches(a, n) => n \in Fetched(<<a>>) /\ n \in Fetched(<<a, b>>)
  <1>1. /\ Len(<<>>) = 0 /\ Len(<<a>>) = 1 /\ Len(<<a, b>>) = 2
        /\ <<a>>[1] = a /\ <<a, b>>[1] = a /\ <<a, b>>[2] = b
    OBVIOUS
  <1>2. PreparedWith(H, <<>>)
    BY <1>1 DEF PreparedWith
  <1>3. Requires(a) \subseteq H \union {"repo"} => PreparedWith(H, <<a>>)
    BY <1>1 DEF PreparedWith
  <1>4. ASSUME Requires(a) \subseteq H \union {"repo"},
               \A n \in Requires(b) : n \in H \/ Fetches(a, n) \/ (n = "docker" /\ b.op = "restart")
        PROVE  PreparedWith(H, <<a, b>>)
    <2> DEFINE s == <<a, b>>
    <2>1. Len(s) = 2 /\ s[1] = a /\ s[2] = b
      BY <1>1
    <2> HIDE DEF s
    <2> SUFFICES ASSUME NEW k \in 1..2, NEW n \in Requires(s[k])
                 PROVE  \/ n \in H
                        \/ \E j \in 1..k - 1 : Fetches(s[j], n)
                        \/ n = "repo"
                        \/ n = "docker" /\ s[k].op = "restart"
      BY <2>1 DEF PreparedWith, s
    <2>2. CASE k = 1
      BY <1>4, <2>1, <2>2
    <2>3. CASE k = 2
      <3>1. 1 \in 1..k - 1
        BY <2>3
      <3> QED
        BY <1>4, <2>1, <2>3, <3>1
    <2> QED
      BY <2>2, <2>3
  <1>5. \A n \in Items : Fetches(a, n) => n \in Fetched(<<a>>) /\ n \in Fetched(<<a, b>>)
    <2>1. 1 \in 1..Len(<<a>>) /\ 1 \in 1..Len(<<a, b>>)
      BY <1>1
    <2> QED
      BY <1>1, <2>1 DEF Fetched
  <1> QED
    BY <1>2, <1>3, <1>4, <1>5

\* The invocations that fetch something.
LEMMA GetsFetch ==
    \A item : Fetches(Once("get", item), item) /\ Fetches(Retried("get", item), item)
  BY DEF Fetches, Once, Retried

\* The engine needs the index of apt, and makes the rest itself.
LEMMA EnginePrepared ==
    ASSUME NEW H, Apt => "index" \in H
    PROVE  PreparedWith(H, Engine) /\ "crowdsec" \in Fetched(Engine)
  <1>1. /\ Len(Engine) = 10
        /\ Engine[1] = Retried("get", "crowdsec") /\ Engine[2] = Retried("get", "hub")
        /\ Engine[3] = Retried("get", "sshd-collection") /\ Engine[4] = Retried("get", "nginx-collection")
        /\ Engine[5] = Retried("get", "http-cve-collection") /\ Engine[6] = Once("get", "dropin-dir")
        /\ Engine[7] = Once("write", "limits") /\ Engine[8] = Retried("get", "bouncer")
        /\ Engine[9] = Once("restart", "systemd") /\ Engine[10] = Once("restart", "crowdsec")
    BY DEF Engine
  <1>2. /\ Fetches(Engine[1], "crowdsec") /\ Fetches(Engine[2], "hub") /\ Fetches(Engine[6], "dropin-dir")
    BY <1>1, GetsFetch
  <1>3. /\ Requires(Engine[1]) \subseteq {"repo"} /\ Requires(Engine[2]) = {"crowdsec"}
        /\ \A k \in 3..5 : Requires(Engine[k]) = {"crowdsec", "hub"}
        /\ Requires(Engine[6]) = {} /\ Requires(Engine[7]) = {"dropin-dir"}
        /\ Requires(Engine[8]) \subseteq {"repo"} \union H
        /\ Requires(Engine[9]) = {} /\ Requires(Engine[10]) = {"crowdsec"}
    <2>1. \A k \in 3..5 : \E c \in Collections : Engine[k] = Retried("get", c)
      BY <1>1 DEF Collections
    <2>2. \A k \in 3..5 : Requires(Engine[k]) = {"crowdsec", "hub"}
      BY <2>1, Required
    <2>3. Requires(Engine[8]) \subseteq {"repo"} \union H
      <3>1. Requires(Engine[8]) \subseteq {"repo", "index"} /\ (~Apt => Requires(Engine[8]) = {"repo"})
        BY <1>1, Required
      <3> QED
        BY <3>1
    <2> QED
      BY <1>1, <2>2, <2>3, Required
  <1>4. "crowdsec" \in Items
    BY DEF Items, Services
  <1>5. PreparedWith(H, Engine)
    <2> SUFFICES ASSUME NEW k \in 1..10, NEW n \in Requires(Engine[k]), n \notin H, n # "repo"
                 PROVE  \E j \in 1..k - 1 : Fetches(Engine[j], n)
      BY <1>1 DEF PreparedWith
    <2>1. CASE k = 1 \/ k = 6 \/ k = 8 \/ k = 9
      BY <1>3, <2>1
    <2>2. CASE k = 2 \/ k = 10
      <3>1. 1 \in 1..k - 1 /\ n = "crowdsec"
        BY <1>3, <2>2
      <3> QED
        BY <1>2, <3>1
    <2>3. CASE k \in 3..5
      <3>1. 1 \in 1..k - 1 /\ 2 \in 1..k - 1 /\ n \in {"crowdsec", "hub"}
        BY <1>3, <2>3
      <3> QED
        BY <1>2, <3>1
    <2>4. CASE k = 7
      <3>1. 6 \in 1..k - 1 /\ n = "dropin-dir"
        BY <1>3, <2>4
      <3> QED
        BY <1>2, <3>1
    <2> QED
      BY <2>1, <2>2, <2>3, <2>4
  <1>6. "crowdsec" \in Fetched(Engine)
    <2>1. 1 \in 1..Len(Engine)
      BY <1>1
    <2> QED
      BY <1>2, <1>4, <2>1 DEF Fetched
  <1> HIDE DEF Engine
  <1> QED
    BY <1>5, <1>6

\* The installation of CrowdSec is prepared.
LEMMA CrowdsecPrepared == ASSUME NEW H PROVE PreparedWith(H, installCrowdsec)
  <1> DEFINE R == Repertoire("install_crowdsec")
             repo == If(family # "arch", <<Retried("get", "repo")>>)
             index == If(Apt, <<Retried("get", "index")>>)
             before == <<Detect>> \o repo \o index
             G == H \union Fetched(before)
  <1>1. /\ Detect \in R
        /\ family # "arch" => Retried("get", "repo") \in R /\ Retried("get", "index") \in R
        /\ Apt => family # "arch"
    BY CrowdsecRepertoire DEF Repertoire, Apt
  <1>2. installCrowdsec = before \o If(family # "arch", Engine \o whitelistPlatformIPs)
    BY BeforeEngine
  <1> HIDE DEF R
  <1>3. <<Detect>> \in Seq(R) /\ repo \in Seq(R) /\ index \in Seq(R)
    BY <1>1, Short DEF If
  <1>4. <<Detect>> \o repo \in Seq(R) /\ before \in Seq(R)
    BY <1>3, Together
  <1>5. \A K : PreparedWith(K, <<Detect>>) /\ PreparedWith(K, repo) /\ PreparedWith(K, index)
    <2>1. Requires(Detect) = {} /\ Requires(Retried("get", "repo")) = {} /\ Requires(Retried("get", "index")) = {}
      BY Required
    <2> QED
      BY <2>1, PreparedShort DEF If
  <1>6. Apt => "index" \in Fetched(index)
    <2>1. "index" \in Items
      BY DEF Items
    <2>2. "index" \in Fetched(<<Retried("get", "index")>>)
      BY <2>1, PreparedShort, GetsFetch
    <2> QED
      BY <2>2 DEF If
  <1> HIDE DEF repo, index
  <1>7. PreparedWith(H, <<Detect>> \o repo)
    BY <1>3, <1>5, PreparedTogether
  <1>8. PreparedWith(H, before)
    BY <1>3, <1>4, <1>5, <1>7, PreparedTogether
  <1>9. Apt => "index" \in Fetched(before)
    BY <1>3, <1>4, <1>6, FetchedTogether
  <1> HIDE DEF before
  <1>10. PreparedWith(G, Engine) /\ "crowdsec" \in Fetched(Engine)
    BY <1>9, EnginePrepared
  <1>11. PreparedWith(G \union Fetched(Engine), whitelistPlatformIPs)
    <2>1. Requires(Once("get", "allowlist")) = {"crowdsec"} /\ Requires(Once("get", "address")) = {"allowlist"}
      BY Required
    <2>2. Fetches(Once("get", "allowlist"), "allowlist")
      BY GetsFetch
    <2> DEFINE S == {Once("get", "allowlist"), Once("get", "address")}
               allowlist == If(platformIPs # "none", <<Once("get", "allowlist")>>)
               address == If(platformIPs = "good", <<Once("get", "address")>>)
               K == G \union Fetched(Engine)
    <2>3. allowlist \in Seq(S) /\ address \in Seq(S) /\ whitelistPlatformIPs = allowlist \o address
      <3>1. Once("get", "allowlist") \in S /\ Once("get", "address") \in S
        OBVIOUS
      <3> HIDE DEF S
      <3> QED
        BY <3>1, WhitelistParts
    <2>4. PreparedWith(K, allowlist)
      BY <1>10, <2>1, PreparedShort DEF If
    <2>5. platformIPs = "good" => "allowlist" \in Fetched(allowlist)
      <3>1. "allowlist" \in Items
        BY DEF Items
      <3> QED
        BY <2>2, <3>1, PreparedShort DEF If
    <2>6. PreparedWith(K \union Fetched(allowlist), address)
      BY <2>1, <2>5, PreparedShort DEF If
    <2> HIDE DEF S, allowlist, address, K
    <2>7. PreparedWith(K, whitelistPlatformIPs)
      BY <2>3, <2>4, <2>6, PreparedTogether
    <2> QED
      BY <2>7 DEF K
  <1>12. CASE family = "arch"
    <2>1. If(family # "arch", Engine \o whitelistPlatformIPs) = <<>>
      BY <1>12 DEF If
    <2>2. <<>> \in Seq(R) /\ PreparedWith(G, <<>>)
      BY Short, PreparedShort
    <2> QED
      BY <1>2, <1>4, <1>8, <2>1, <2>2, PreparedTogether
  <1>13. CASE family # "arch"
    <2>1. If(family # "arch", Engine \o whitelistPlatformIPs) = Engine \o whitelistPlatformIPs
      BY <1>13 DEF If
    <2>2. Engine \in Seq(R) /\ whitelistPlatformIPs \in Seq(R) /\ Engine \o whitelistPlatformIPs \in Seq(R)
      BY <1>13, EngineGood DEF R
    <2>3. PreparedWith(G, Engine \o whitelistPlatformIPs)
      BY <1>10, <1>11, <2>2, PreparedTogether
    <2> QED
      BY <1>2, <1>4, <1>8, <2>1, <2>2, <2>3, PreparedTogether
  <1> QED
    BY <1>12, <1>13

\* The installation of docker is prepared.
LEMMA DockerPrepared == ASSUME MachineOK, NEW H PROVE PreparedWith(H, installDocker)
  <1> DEFINE R == Repertoire("install_docker")
             rhel == If(family = "rhel", <<Retried("get", "plugin"), Retried("get", "docker-repo")>>)
             end == <<Retried("get", "docker"), Once("enable", "docker")>>
  <1>1. /\ Detect \in R /\ Retried("get", "plugin") \in R /\ Retried("get", "docker-repo") \in R
        /\ Retried("get", "docker") \in R /\ Once("enable", "docker") \in R
    BY DEF Repertoire
  <1>2. installDocker = IF "docker" \notin has THEN (<<Detect>> \o rhel) \o end ELSE <<>>
    BY DEF installDocker, If
  <1> HIDE DEF R
  <1>3. <<Detect>> \in Seq(R) /\ rhel \in Seq(R) /\ end \in Seq(R)
    BY <1>1, Short DEF If
  <1>4. PreparedWith(H, <<Detect>>)
    BY Required, PreparedShort
  <1>5. PreparedWith(H \union Fetched(<<Detect>>), rhel)
    <2>1. /\ Requires(Retried("get", "plugin")) = {} /\ Requires(Retried("get", "docker-repo")) = {"plugin"}
          /\ Fetches(Retried("get", "plugin"), "plugin")
      BY Required, GetsFetch
    <2> QED
      BY <2>1, PreparedShort DEF If
  <1>6. family = "rhel" => "docker-repo" \in Fetched(rhel)
    <2>1. Len(<<Retried("get", "plugin"), Retried("get", "docker-repo")>>) = 2
          /\ <<Retried("get", "plugin"), Retried("get", "docker-repo")>>[2] = Retried("get", "docker-repo")
      OBVIOUS
    <2>2. "docker-repo" \in Items /\ Fetches(Retried("get", "docker-repo"), "docker-repo")
      BY GetsFetch DEF Items
    <2> QED
      BY <2>1, <2>2 DEF Fetched, If
  <1>7. ASSUME NEW K, family = "rhel" => "docker-repo" \in K PROVE PreparedWith(K, end)
    <2>1. Requires(Retried("get", "docker")) \subseteq K
      <3>1. /\ Requires(Retried("get", "docker")) \subseteq {"docker-repo"}
            /\ family # "rhel" => Requires(Retried("get", "docker")) = {}
        BY Required
      <3> QED
        BY <1>7, <3>1
    <2>2. Requires(Once("enable", "docker")) = {"docker"} /\ Fetches(Retried("get", "docker"), "docker")
      BY Required, GetsFetch
    <2> QED
      BY <2>1, <2>2, PreparedShort
  <1> HIDE DEF rhel, end
  <1>8. <<Detect>> \o rhel \in Seq(R) /\ PreparedWith(H, <<Detect>> \o rhel)
        /\ (family = "rhel" => "docker-repo" \in Fetched(<<Detect>> \o rhel))
    BY <1>3, <1>4, <1>5, <1>6, Together, PreparedTogether, FetchedTogether
  <1>9. PreparedWith(H, (<<Detect>> \o rhel) \o end)
    BY <1>3, <1>7, <1>8, PreparedTogether
  <1> QED
    BY <1>2, <1>9, PreparedShort

\* The baseline of updates is prepared.
LEMMA SysupdatePrepared == ASSUME NEW H PROVE PreparedWith(H, sysupdateHarden)
  <1> DEFINE R == Repertoire("sysupdate")
             middle == If(family # "arch", <<Once("get", "updates"), Once("write", "origins")>>)
             apt == If(Apt, <<Once("write", "periodic"), Once("restart-ignored", "updates")>>)
             rhel == If(family = "rhel", <<Once("enable", "updates")>>)
  <1>1. /\ Detect \in R /\ Once("get", "updates") \in R /\ Once("write", "origins") \in R
        /\ Once("write", "periodic") \in R /\ Once("enable", "updates") \in R
        /\ Apt => Once("restart-ignored", "updates") \in R
    BY DEF Repertoire
  <1>2. sysupdateHarden = ((<<Detect>> \o middle) \o apt) \o rhel
    BY DEF sysupdateHarden
  <1> HIDE DEF R
  <1>3. <<Detect>> \in Seq(R) /\ middle \in Seq(R) /\ apt \in Seq(R) /\ rhel \in Seq(R)
    BY <1>1, Short DEF If
  <1>4. /\ Requires(Detect) = {} /\ Requires(Once("get", "updates")) = {}
        /\ Requires(Once("write", "origins")) = {} /\ Requires(Once("write", "periodic")) = {}
        /\ Requires(Once("enable", "updates")) = {"updates"}
        /\ Requires(Once("restart-ignored", "updates")) = {"updates"}
    BY Required
  <1>5. \A K : PreparedWith(K, <<Detect>>) /\ PreparedWith(K, middle)
    BY <1>4, PreparedShort DEF If
  <1>6. family # "arch" => "updates" \in Fetched(middle)
    <2>1. "updates" \in Items /\ Fetches(Once("get", "updates"), "updates")
      BY GetsFetch DEF Items, Services
    <2> QED
      BY <2>1, PreparedShort DEF If
  <1>7. \A K : (family # "arch" => "updates" \in K) => PreparedWith(K, apt) /\ PreparedWith(K, rhel)
    BY <1>4, PreparedShort DEF If, Apt
  <1> HIDE DEF middle, apt, rhel
  <1>8. <<Detect>> \o middle \in Seq(R) /\ (<<Detect>> \o middle) \o apt \in Seq(R)
    BY <1>3, Together
  <1>9. PreparedWith(H, <<Detect>> \o middle)
    BY <1>3, <1>5, PreparedTogether
  <1>10. /\ family # "arch" => "updates" \in Fetched(<<Detect>> \o middle)
         /\ family # "arch" => "updates" \in Fetched((<<Detect>> \o middle) \o apt)
    <2>1. family # "arch" => "updates" \in Fetched(<<Detect>> \o middle)
      BY <1>3, <1>6, FetchedTogether
    <2> QED
      BY <1>3, <1>8, <2>1, FetchedTogether
  <1>11. /\ PreparedWith(H \union Fetched(<<Detect>> \o middle), apt)
         /\ PreparedWith(H \union Fetched((<<Detect>> \o middle) \o apt), rhel)
    BY <1>7, <1>10
  <1>12. PreparedWith(H, (<<Detect>> \o middle) \o apt)
    BY <1>3, <1>8, <1>9, <1>11, PreparedTogether
  <1> QED
    BY <1>2, <1>3, <1>8, <1>11, <1>12, PreparedTogether

\* Every executor is prepared, whatever is on the machine.
LEMMA ExecutorPrepared ==
    ASSUME MachineOK, NEW type \in Types, NEW H
    PROVE  PreparedWith(H, Executor(type))
  <1>1. CASE type = "apt_upgrade"
    <2> DEFINE R == Repertoire("apt_upgrade")
    <2>1. \A i \in R : Requires(i) = {}
      BY Required DEF Repertoire
    <2> HIDE DEF R
    <2>2. Executor(type) \in Seq(R)
      BY <1>1, ExecutorGood DEF R
    <2>3. \A k \in 1..Len(Executor(type)) : Executor(type)[k] \in R
      BY <2>2
    <2> QED
      BY <2>1, <2>3, PreparedPlain
  <1>2. CASE type = "harden_firewall"
    <2>1. Executor(type) = <<Once("get", "firewall")>> /\ Requires(Once("get", "firewall")) = {}
      BY <1>2, Required DEF Executor
    <2> QED
      BY <2>1, PreparedShort
  <1>3. CASE type = "ssh_harden"
    <2>1. /\ Executor(type) = <<Once("write", "sshd"), RestartSsh>>
          /\ Requires(Once("write", "sshd")) = {} /\ Requires(RestartSsh) = {}
      BY <1>3, Required DEF Executor, sshHarden, RestartSsh
    <2> QED
      BY <2>1, PreparedShort
  <1>4. CASE type = "docker_harden"
    <2>1. /\ Executor(type) = <<Once("write", "daemon"), Retried("restart", "docker")>>
          /\ Requires(Once("write", "daemon")) = {} /\ Requires(Retried("restart", "docker")) = {"docker"}
          /\ Retried("restart", "docker").op = "restart"
      BY <1>4, Required DEF Executor, dockerHarden, Retried
    <2> QED
      BY <2>1, PreparedShort
  <1>5. CASE type = "sysupdate"
    BY <1>5, SysupdatePrepared DEF Executor
  <1>6. CASE type = "install_docker"
    BY <1>6, DockerPrepared DEF Executor
  <1>7. CASE type = "install_crowdsec"
    BY <1>7, CrowdsecPrepared DEF Executor
  <1> QED
    BY <1>1, <1>2, <1>3, <1>4, <1>5, <1>6, <1>7 DEF Types

-----------------------------------------------------------------------------
(* The repository comes first                                              *)

FirstIn(s) == \A k \in 1..Len(s) : s[k].item = "repo" => \A j \in 1..k - 1 : s[j] = Detect
NotIn(s) == \A k \in 1..Len(s) : s[k].item # "repo"

\* Lists put together.
LEMMA FirstTogether ==
    ASSUME NEW S, NEW s \in Seq(S), NEW t \in Seq(S)
    PROVE  /\ FirstIn(s) /\ NotIn(t) => FirstIn(s \o t)
           /\ NotIn(s) /\ NotIn(t) => NotIn(s \o t)
  <1> DEFINE u == s \o t
  <1>1. /\ Len(u) = Len(s) + Len(t) /\ Len(s) \in Nat /\ Len(t) \in Nat
        /\ \A k \in 1..Len(s) : u[k] = s[k]
        /\ \A k \in 1..Len(t) : u[Len(s) + k] = t[k]
    BY Places
  <1> HIDE DEF u
  <1>2. ASSUME NotIn(t), NEW k \in 1..Len(u), u[k].item = "repo" PROVE k \in 1..Len(s)
    <2> SUFFICES ASSUME k \notin 1..Len(s) PROVE FALSE
      OBVIOUS
    <2>1. k - Len(s) \in 1..Len(t) /\ Len(s) + (k - Len(s)) = k
      BY <1>1
    <2>2. u[k] = t[k - Len(s)]
      BY <1>1, <2>1
    <2> QED
      BY <1>2, <2>1, <2>2 DEF NotIn
  <1>3. FirstIn(s) /\ NotIn(t) => FirstIn(u)
    <2> SUFFICES ASSUME FirstIn(s), NotIn(t), NEW k \in 1..Len(u), u[k].item = "repo",
                        NEW j \in 1..k - 1
                 PROVE  u[j] = Detect
      BY DEF FirstIn
    <2>1. k \in 1..Len(s) /\ j \in 1..Len(s)
      <3>1. k \in 1..Len(s)
        BY <1>2
      <3> QED
        BY <1>1, <3>1
    <2> QED
      BY <1>1, <2>1 DEF FirstIn
  <1>4. NotIn(s) /\ NotIn(t) => NotIn(u)
    <2> SUFFICES ASSUME NotIn(s), NotIn(t), NEW k \in 1..Len(u) PROVE u[k].item # "repo"
      BY DEF NotIn
    <2> QED
      BY <1>1, <1>2 DEF NotIn
  <1> QED
    BY <1>3, <1>4 DEF u

\* So it is with what installs CrowdSec, and nothing else has a repository.
LEMMA ExecutorFirst ==
    ASSUME NEW type \in Types
    PROVE  FirstIn(Executor(type))
  <1>1. CASE type # "install_crowdsec"
    <2> DEFINE R == Repertoire(type)
    <2>1. \A i \in R : i.item # "repo"
      <3> SUFFICES ASSUME NEW i \in R PROVE i.item # "repo"
        OBVIOUS
      <3>1. CASE type \in {"apt_upgrade", "install_docker", "harden_firewall"}
        BY <3>1 DEF Repertoire, Detect, Once, Retried
      <3>2. CASE type \in {"ssh_harden", "sysupdate", "docker_harden"}
        BY <3>2 DEF Repertoire, Detect, Once, Retried, RestartSsh
      <3> QED
        BY <1>1, <3>1, <3>2 DEF Types
    <2> HIDE DEF R
    <2>2. Executor(type) \in Seq(R)
      BY ExecutorGood DEF R
    <2>3. \A k \in 1..Len(Executor(type)) : Executor(type)[k] \in R
      BY <2>2
    <2> QED
      BY <2>1, <2>3 DEF FirstIn
  <1>2. CASE type = "install_crowdsec"
    <2> DEFINE R == Repertoire("install_crowdsec")
               repo == If(family # "arch", <<Retried("get", "repo")>>)
               index == If(Apt, <<Retried("get", "index")>>)
    <2>1. /\ Detect \in R
          /\ family # "arch" => Retried("get", "repo") \in R /\ Retried("get", "index") \in R
          /\ Apt => family # "arch"
      BY CrowdsecRepertoire DEF Repertoire, Apt
    <2>2. installCrowdsec = (<<Detect>> \o repo) \o index \o If(family # "arch", Engine \o whitelistPlatformIPs)
      BY BeforeEngine
    <2> HIDE DEF R
    <2>3. <<Detect>> \in Seq(R) /\ repo \in Seq(R) /\ index \in Seq(R)
      BY <2>1, Short DEF If
    <2>4. <<Detect>> \o repo \in Seq(R) /\ (<<Detect>> \o repo) \o index \in Seq(R)
      BY <2>3, Together
    <2>5. FirstIn(<<Detect>> \o repo)
      <3> DEFINE u == <<Detect>> \o repo
      <3>1. Len(u) \in 1..2 /\ u[1] = Detect
        BY DEF If
      <3>2. Detect.item # "repo"
        BY DEF Detect, Once
      <3> HIDE DEF u
      <3>3. FirstIn(u)
        BY <3>1, <3>2 DEF FirstIn
      <3> QED
        BY <3>3 DEF u
    <2>6. NotIn(index)
      <3>1. Retried("get", "index").item # "repo"
        BY DEF Retried
      <3> QED
        BY <3>1 DEF NotIn, If
    <2> HIDE DEF repo, index
    <2>7. FirstIn((<<Detect>> \o repo) \o index)
      BY <2>3, <2>4, <2>5, <2>6, FirstTogether
    <2>8. NotIn(Engine)
      <3>1. /\ Len(Engine) = 10
            /\ \A k \in 1..10 : Engine[k].item \in {"crowdsec", "hub", "sshd-collection", "nginx-collection",
                    "http-cve-collection", "dropin-dir", "limits", "bouncer", "systemd"}
        BY DEF Engine, Once, Retried
      <3> QED
        BY <3>1 DEF NotIn
    <2>9. NotIn(whitelistPlatformIPs)
      <3>1. Once("get", "allowlist").item # "repo" /\ Once("get", "address").item # "repo"
        BY DEF Once
      <3> DEFINE S == {Once("get", "allowlist"), Once("get", "address")}
                 allowlist == If(platformIPs # "none", <<Once("get", "allowlist")>>)
                 address == If(platformIPs = "good", <<Once("get", "address")>>)
      <3>2. NotIn(allowlist) /\ NotIn(address)
        BY <3>1 DEF NotIn, If
      <3>3. allowlist \in Seq(S) /\ address \in Seq(S) /\ whitelistPlatformIPs = allowlist \o address
        <4>1. Once("get", "allowlist") \in S /\ Once("get", "address") \in S
          OBVIOUS
        <4> HIDE DEF S
        <4> QED
          BY <4>1, WhitelistParts
      <3> HIDE DEF S, allowlist, address
      <3> QED
        BY <3>2, <3>3, FirstTogether
    <2>10. /\ If(family # "arch", Engine \o whitelistPlatformIPs) \in Seq(R)
           /\ NotIn(If(family # "arch", Engine \o whitelistPlatformIPs))
      <3>1. CASE family = "arch"
        BY <3>1, Short DEF If, NotIn
      <3>2. CASE family # "arch"
        <4>1. Engine \in Seq(R) /\ whitelistPlatformIPs \in Seq(R) /\ Engine \o whitelistPlatformIPs \in Seq(R)
          BY <3>2, EngineGood DEF R
        <4>2. NotIn(Engine \o whitelistPlatformIPs)
          BY <2>8, <2>9, <4>1, FirstTogether
        <4> QED
          BY <3>2, <4>1, <4>2 DEF If
      <3> QED
        BY <3>1, <3>2
    <2>11. FirstIn(installCrowdsec)
      BY <2>2, <2>4, <2>7, <2>10, FirstTogether
    <2> QED
      BY <1>2, <2>11 DEF Executor
  <1> QED
    BY <1>1, <1>2

-----------------------------------------------------------------------------
(* The steps find what they need                                           *)

\* What cannot work has lost the repository, or is a docker that is not there.
LEMMA PreparedSteps == HInv /\ Prepared => StepsArePrepared
  <1> SUFFICES ASSUME HInv, Prepared, todo # <<>>, ~Works(Head(todo))
               PROVE  \/ command = "install_crowdsec" /\ "repo" \notin has
                      \/ command = "docker_harden" /\ "docker" \notin has
    BY DEF StepsArePrepared
  <1> DEFINE i == Head(todo)
  <1>1. Trait(command, i)
    BY InCommand DEF HInv
  <1>2. i = todo[1] /\ 1 \in 1..Len(todo)
    BY InCommand, FirstAndRest DEF HInv
  <1>3. PICK n \in Requires(i) : n \notin has
    BY WorksWhen
  <1>4. \/ n = "repo"
        \/ n = "docker" /\ i.op = "restart"
        \/ n = "index" /\ "repo" \notin has
    BY <1>2, <1>3 DEF Prepared
  <1> HIDE DEF i
  <1>5. CASE n \in {"repo", "index"}
    <2>1. i.item \in {"crowdsec", "bouncer"}
      BY <1>3, <1>5 DEF Requires, Needs, Services, Collections
    <2> QED
      BY <1>1, <1>3, <1>4, <1>5, <2>1 DEF Trait
  <1>6. CASE n = "docker" /\ i.op = "restart"
    <2>1. i.item = "docker"
      BY <1>3, <1>6 DEF Requires
    <2> QED
      BY <1>1, <1>3, <1>6, <2>1 DEF Trait
  <1> QED
    BY <1>4, <1>5, <1>6

\* The rest of a list, by place.
LEMMA RestPlaces ==
    ASSUME CommandOK, todo # <<>>, todo' = Tail(todo)
    PROVE  /\ Head(todo) = todo[1] /\ Len(todo) \in Nat \ {0}
           /\ \A k \in 1..Len(todo') : k + 1 \in 1..Len(todo) /\ todo'[k] = todo[k + 1]
  <1>1. /\ Head(todo) = todo[1] /\ Len(todo) \in Nat \ {0}
        /\ Len(Tail(todo)) = Len(todo) - 1
        /\ \A k \in 1..Len(Tail(todo)) : Tail(todo)[k] = todo[k + 1]
    BY InCommand, FirstAndRest
  <1> QED
    BY <1>1

\* The rest is prepared: what the first was to fetch is there, or its loss is known.
LEMMA PreparedMoves ==
    ASSUME HInv, Prepared, RepositoryFirst, todo # <<>>, todo' = Tail(todo), UNCHANGED family,
           \/ has' = has /\ Head(todo).item = "repo"
           \/ has' = IF Head(todo).op \in {"get", "write"} THEN has \union Gets(Head(todo).item) ELSE has
    PROVE  Prepared' /\ RepositoryFirst'
  <1>1. /\ Head(todo) = todo[1] /\ Len(todo) \in Nat \ {0}
        /\ \A k \in 1..Len(todo') : k + 1 \in 1..Len(todo) /\ todo'[k] = todo[k + 1]
    BY RestPlaces DEF HInv
  <1>2. has \subseteq has'
    OBVIOUS
  <1>3. Detect' = Detect
    BY DEF Detect, Once
  <1>4. RepositoryFirst'
    <2> SUFFICES ASSUME NEW k \in 1..Len(todo'), todo'[k].item = "repo", NEW j \in 1..k - 1
                 PROVE  todo'[j] = Detect
      BY <1>3 DEF RepositoryFirst
    <2>1. k + 1 \in 1..Len(todo) /\ todo[k + 1].item = "repo"
      BY <1>1
    <2>2. j \in 1..Len(todo') /\ j + 1 \in 1..(k + 1) - 1
      BY <1>1
    <2> QED
      BY <1>1, <2>1, <2>2 DEF RepositoryFirst
  <1>5. ASSUME NEW k \in 1..Len(todo'), NEW n \in Requires(todo'[k])
        PROVE  \/ n \in has'
               \/ \E j \in 1..k - 1 : todo'[j].op = "get" /\ todo'[j].item = n
               \/ n = "repo"
               \/ n = "docker" /\ todo'[k].op = "restart"
               \/ /\ n = "index" /\ "repo" \notin has'
                  /\ \A j \in 1..Len(todo') : todo'[j].item # "repo"
    <2>1. k + 1 \in 1..Len(todo) /\ todo'[k] = todo[k + 1]
      BY <1>1
    <2>2. \/ n \in has
          \/ \E j \in 1..(k + 1) - 1 : todo[j].op = "get" /\ todo[j].item = n
          \/ n = "repo"
          \/ n = "docker" /\ todo[k + 1].op = "restart"
          \/ /\ n = "index" /\ "repo" \notin has
             /\ \A j \in 1..Len(todo) : todo[j].item # "repo"
      BY <1>5, <2>1 DEF Prepared
    <2>3. CASE \E j \in 1..(k + 1) - 1 : todo[j].op = "get" /\ todo[j].item = n
      <3>1. PICK j \in 1..(k + 1) - 1 : todo[j].op = "get" /\ todo[j].item = n
        BY <2>3
      <3>2. CASE j # 1
        <4>1. j - 1 \in 1..k - 1 /\ j - 1 \in 1..Len(todo') /\ (j - 1) + 1 = j
          BY <3>2
        <4>2. todo'[j - 1] = todo[j]
          BY <1>1, <4>1
        <4> QED
          BY <3>1, <4>1, <4>2
      <3>3. CASE j = 1 /\ n \notin has' /\ n # "repo"
        <4>1. Head(todo).op = "get" /\ Head(todo).item = n
          BY <1>1, <3>1, <3>3
        <4>2. n = "index" /\ "repo" \notin has /\ has' = has
          BY <3>3, <4>1 DEF Gets
        <4>3. ASSUME NEW l \in 1..Len(todo') PROVE todo'[l].item # "repo"
          <5>1. 1 \in 1..(l + 1) - 1 /\ l + 1 \in 1..Len(todo) /\ todo'[l] = todo[l + 1]
            BY <1>1
          <5>2. todo[1] # Detect
            BY <1>1, <4>1 DEF Detect, Once
          <5> QED
            BY <5>1, <5>2 DEF RepositoryFirst
        <4> QED
          BY <4>2, <4>3
      <3> QED
        BY <3>2, <3>3
    <2>4. CASE n = "index" /\ "repo" \notin has /\ \A j \in 1..Len(todo) : todo[j].item # "repo"
      <3>1. Head(todo).item # "repo" /\ \A l \in 1..Len(todo') : todo'[l].item # "repo"
        BY <1>1, <2>4
      <3>2. "repo" \notin has'
        BY <2>4, <3>1 DEF Gets
      <3> QED
        BY <2>4, <3>1, <3>2
    <2> QED
      BY <1>2, <2>1, <2>2, <2>3, <2>4
  <1>6. \A i : Requires(i)' = Requires(i)
    BY SameRequired
  <1>7. Prepared'
    BY <1>5, <1>6 DEF Prepared
  <1> QED
    BY <1>4, <1>7

\* A list that stays as it is, on a machine that keeps what it has.
LEMMA PreparedStays ==
    ASSUME Prepared, RepositoryFirst, UNCHANGED <<family, has, todo>>
    PROVE  Prepared' /\ RepositoryFirst'
  <1>1. \A i : Requires(i)' = Requires(i)
    BY SameRequired
  <1>2. Detect' = Detect
    BY DEF Detect, Once
  <1> QED
    BY <1>1, <1>2 DEF Prepared, RepositoryFirst

\* A list that is empty.
LEMMA PreparedEmpty == ASSUME todo' = <<>> PROVE Prepared' /\ RepositoryFirst'
  <1>1. Len(todo') = 0
    OBVIOUS
  <1> QED
    BY <1>1 DEF Prepared, RepositoryFirst

\* A list that begins.
LEMMA PreparedBegins ==
    ASSUME MachineOK, NEW type \in Types, todo' = Executor(type), UNCHANGED <<family, has>>
    PROVE  Prepared' /\ RepositoryFirst'
  <1>1. \A i : Requires(i)' = Requires(i)
    BY SameRequired
  <1>2. Detect' = Detect
    BY DEF Detect, Once
  <1>3. PreparedWith(has, Executor(type)) /\ FirstIn(Executor(type))
    BY ExecutorPrepared, ExecutorFirst
  <1>4. Prepared'
    BY <1>1, <1>3 DEF Prepared, PreparedWith, Fetches
  <1>5. RepositoryFirst'
    BY <1>2, <1>3 DEF RepositoryFirst, FirstIn
  <1> QED
    BY <1>4, <1>5

\* What works on a machine works on one that has the same.
LEMMA SameWorks == ASSUME UNCHANGED <<family, has>> PROVE \A i : Works(i)' = Works(i)
  BY DEF Works, Needs, Apt, Collections, Services

\* A first attempt has not failed, and a command that has ended has none left.
LEMMA PatienceAnew ==
    ASSUME HInv, faults' \in {faults, faults + 1}, tries' = 0 \/ todo' = <<>>
    PROVE  Patience'
  <1>1. faults' \in Nat
    BY DEF HInv, FaultsOK
  <1> QED
    BY <1>1 DEF Patience

\* What is tried again has failed once more, and if it can work to a fault.
LEMMA PatienceAgain ==
    ASSUME HInv, PInv, InvocationFails, tries + 1 < Head(todo).tries, has' = has
    PROVE  Patience'
  <1>1. /\ todo # <<>> /\ todo' = todo /\ tries' = tries + 1 /\ family' = family
        /\ Works(Head(todo)) => faults' = faults + 1
    BY DEF InvocationFails, Fault, given
  <1>2. tries \in Nat /\ faults \in Nat
    <2>1. tries \in 0..Head(todo).tries - 1 /\ Head(todo).tries \in 1..3
      BY <1>1, InCommand DEF HInv
    <2> QED
      BY <2>1 DEF HInv, FaultsOK
  <1>3. \A i : Works(i)' = Works(i)
    BY <1>1, SameWorks
  <1>4. Works(Head(todo)) => tries' <= faults'
    BY <1>1, <1>2 DEF PInv, Patience
  <1> QED
    BY <1>1, <1>3, <1>4 DEF Patience

\* Every step finds what it needs.
LEMMA NextKeepsPrepared == HInv /\ PInv /\ [Next]_vars => PInv'
  <1> SUFFICES ASSUME HInv, PInv, [Next]_vars PROVE PInv'
    OBVIOUS
  <1>0. /\ command = "none" => todo = <<>>
        /\ todo = <<>> => tries = 0
        /\ CommandOK /\ MachineOK
    BY DEF HInv, CommandOK
  <1>1. ASSUME NEW type \in Types, Begin(type) PROVE PInv'
    <2>1. /\ command = "none" /\ todo' = Executor(type) /\ last' = [last EXCEPT ![type] = "running"]
          /\ UNCHANGED <<family, has, tries, faults>>
      BY <1>1 DEF Begin, given, machine
    <2>2. Prepared' /\ RepositoryFirst'
      BY <1>0, <2>1, PreparedBegins
    <2>3. Patience'
      BY <1>0, <2>1, PatienceAnew
    <2> QED
      BY <2>2, <2>3 DEF PInv
  <1>2. CASE Invoke \/ ScriptLost \/ FailureIgnored
    <2>1. /\ todo # <<>> /\ todo' = Tail(todo) /\ tries' = 0 /\ UNCHANGED family
          /\ faults' \in {faults, faults + 1}
          /\ \/ has' = has /\ Head(todo).item = "repo"
             \/ has' = IF Head(todo).op \in {"get", "write"} THEN has \union Gets(Head(todo).item) ELSE has
      <3>1. CASE Invoke \/ ScriptLost
        BY <3>1 DEF Invoke, ScriptLost, Fault, Does, given, machine
      <3>2. CASE FailureIgnored
        BY <3>2 DEF FailureIgnored, Leaves, given
      <3> QED
        BY <1>2, <3>1, <3>2
    <2>2. Prepared' /\ RepositoryFirst'
      BY <2>1, PreparedMoves DEF PInv
    <2>3. Patience'
      BY <2>1, PatienceAnew
    <2> QED
      BY <2>2, <2>3 DEF PInv
  <1>3. CASE InvocationFails
    <2>1. todo # <<>> /\ Leaves(Head(todo)) /\ UNCHANGED family
      BY <1>3 DEF InvocationFails, given
    <2>2. CASE tries + 1 < Head(todo).tries
      <3>1. UNCHANGED todo
        BY <1>3, <2>2 DEF InvocationFails
      <3>2. has' = has
        <4>1. /\ Trait(command, Head(todo)) /\ tries \in 0..Head(todo).tries - 1
              /\ Head(todo).tries \in 1..3
          BY <1>0, <2>1, InCommand
        <4>2. Head(todo).tries # 1
          BY <2>2, <4>1
        <4>3. has' \subseteq has /\ \A x \in has : x \notin has' => Head(todo).tries = 1
          BY <1>0, <2>1, <4>1, LeavesEffect
        <4> QED
          BY <4>2, <4>3
      <3> QED
        BY <1>3, <2>1, <2>2, <3>1, <3>2, PreparedStays, PatienceAgain DEF PInv
    <2>3. CASE ~(tries + 1 < Head(todo).tries)
      <3>1. todo' = <<>> /\ faults' \in {faults, faults + 1}
        BY <1>3, <2>3 DEF InvocationFails, Ends, Fault
      <3> QED
        BY <3>1, PreparedEmpty, PatienceAnew DEF PInv
    <2> QED
      BY <2>2, <2>3
  <1>4. CASE Finish
    <2>1. todo' = <<>> /\ faults' = faults
      BY <1>4 DEF Finish, Ends
    <2> QED
      BY <2>1, PreparedEmpty, PatienceAnew DEF PInv
  <1>5. CASE Kill \/ Reboot
    <2>1. faults' = faults + 1 /\ CutOff
      BY <1>5 DEF Kill, Reboot, Fault
    <2>2. todo' = <<>>
      BY <1>0, <2>1 DEF CutOff, Ends
    <2> QED
      BY <2>1, <2>2, PreparedEmpty, PatienceAnew DEF PInv
  <1>6. CASE Ban \/ TimePasses \/ UNCHANGED vars
    <2>1. UNCHANGED <<family, has, todo, tries, faults>>
      BY <1>6 DEF Ban, TimePasses, vars, given, machine
    <2>2. Patience'
      BY <2>1, SameWorks DEF PInv, Patience
    <2> QED
      BY <2>1, <2>2, PreparedStays DEF PInv
  <1> QED
    BY <1>1, <1>2, <1>3, <1>4, <1>5, <1>6 DEF Next

\* A new machine has nothing to do.
LEMMA InitPrepared == Init => PInv
  <1> SUFFICES ASSUME Init PROVE PInv
    OBVIOUS
  <1>1. todo = <<>> /\ Len(todo) = 0
    BY DEF Init
  <1>2. Prepared /\ RepositoryFirst
    BY <1>1 DEF Prepared, RepositoryFirst
  <1>3. Patience
    BY <1>1 DEF Patience
  <1> QED
    BY <1>2, <1>3 DEF PInv

\* A command fails at its last attempt, which could not be prepared or failed to a
\* fault; and if there were three attempts, each of them did.
LEMMA FailureSteps ==
    ASSUME HInv, PInv, Next, command # "none", last'[command] = "failed"
    PROVE  LET i == Head(todo)
           IN  \/ /\ ~Works(i)
                  /\ \/ command = "install_crowdsec" /\ "repo" \notin has
                     \/ command = "docker_harden" /\ "docker" \notin has
               \/ /\ Works(i) /\ faults' > 0
                  /\ Guarded(i) => faults' > 2
  <1> DEFINE i == Head(todo)
  <1>1. /\ command \in Types /\ last[command] = "running"
        /\ last \in [Types -> {"never", "running", "done", "failed", "cut"}]
    BY DEF HInv, CommandOK
  <1>2. \A result : Ends(result) => last'[command] = result
    BY <1>1 DEF Ends
  <1>3. InvocationFails /\ ~(tries + 1 < i.tries)
    <2>1. ~(\E type \in Types : Begin(type))
      BY DEF Begin
    <2>2. ~(Invoke \/ ScriptLost \/ FailureIgnored \/ Ban \/ TimePasses)
      BY <1>1 DEF Invoke, ScriptLost, FailureIgnored, Ban, TimePasses
    <2>3. ~(Finish \/ Kill \/ Reboot)
      BY <1>2 DEF Finish, Kill, Reboot, CutOff
    <2>4. ~(InvocationFails /\ tries + 1 < i.tries)
      BY <1>1 DEF InvocationFails
    <2> QED
      BY <2>1, <2>2, <2>3, <2>4 DEF Next
  <1>4. todo # <<>> /\ (Works(i) => faults' = faults + 1)
    BY <1>3 DEF InvocationFails, Fault
  <1>5. /\ Trait(command, i) /\ i.tries \in 1..3 /\ tries \in 0..i.tries - 1
        /\ faults \in Nat
    BY <1>4, InCommand DEF HInv, FaultsOK
  <1>6. Works(i) => tries <= faults
    BY <1>4 DEF PInv, Patience
  <1>7. StepsArePrepared
    BY PreparedSteps DEF PInv
  <1>8. Guarded(i) => i.tries = 3
    <2>1. i.op \in {"get", "upgrade"} /\ i.item \in Downloads => i.tries = 3
      BY <1>5 DEF Trait
    <2>2. i.op = "restart" /\ i.item = "docker" => i.tries = 3
      BY <1>5 DEF Trait, Retried
    <2> QED
      BY <2>1, <2>2 DEF Guarded
  <1>9. CASE ~Works(i)
    BY <1>4, <1>7, <1>9 DEF StepsArePrepared
  <1>10. CASE Works(i)
    <2>1. faults' > 0 /\ (i.tries = 3 => faults' > 2)
      BY <1>3, <1>4, <1>5, <1>6, <1>10
    <2> QED
      BY <1>8, <1>10, <2>1
  <1> QED
    BY <1>9, <1>10

-----------------------------------------------------------------------------
(* What the agent says of the machine                                      *)

\* The security audit, where nothing fails.
LEMMA AdviceHolds == DoneInv => AdviceIsCured
  <1> SUFFICES ASSUME DoneInv, NEW code \in Codes, NEW w \in Settings,
                      RecommendedAction(code) \in Types, last[RecommendedAction(code)] = "done",
                      Finds(code, w, {})
               PROVE  \/ code = "docker_not_hardened" /\ w.exposed
                      \/ code = "ssh_baseline_missing" /\ w.overridden
                      \/ code = "security_updates_pending"
                      \/ code = "firewall_not_hardened" /\ family = "arch"
    BY DEF AdviceIsCured
  <1>1. Achieved(RecommendedAction(code))
    BY DEF DoneInv
  <1>2. Seen({}) = family /\ RightTools({}) /\ \A p : p \notin {}
    BY DEF Seen, RightTools
  <1>3. CASE code = "firewall_not_hardened"
    BY <1>1, <1>2, <1>3 DEF RecommendedAction, Achieved, Finds
  <1>4. CASE code = "ssh_baseline_missing"
    BY <1>1, <1>2, <1>4 DEF RecommendedAction, Achieved, Finds
  <1>5. CASE code = "crowdsec_missing"
    <2>1. family # "arch" /\ ~crowdsecActive({})
      BY <1>2, <1>5 DEF Finds, crowdsecApplicable
    <2>2. {"crowdsec", "bouncer"} \subseteq active
      BY <1>1, <1>5, <2>1 DEF RecommendedAction, Achieved
    <2> QED
      BY <2>1, <2>2 DEF crowdsecActive
  <1>6. CASE code = "docker_not_hardened"
    BY <1>1, <1>2, <1>6 DEF RecommendedAction, Achieved, Finds
  <1>7. CASE code = "security_updates_pending"
    BY <1>7
  <1>8. CASE code \in {"reboot_required", "distro_unrecognized"}
    BY <1>8 DEF RecommendedAction, Types
  <1> QED
    BY <1>3, <1>4, <1>5, <1>6, <1>7, <1>8 DEF Codes

\* An audit that ends in a healthy machine has at most not recognised it.
LEMMA HealthyFindings ==
    ASSUME NEW w, NEW failed, Status(securityAudit(w, failed)) = "healthy"
    PROVE  \A code \in Codes : code # "distro_unrecognized" => ~Finds(code, w, failed)
  <1> DEFINE found == securityAudit(w, failed)
             high == found \intersect {"firewall_not_hardened"}
             low == found \intersect {"distro_unrecognized"}
             rest == found \ (high \union low)
  <1>1. IsFiniteSet(Codes)
    <2>1. IsFiniteSet({"firewall_not_hardened"})
      BY FS_Singleton
    <2>2. IsFiniteSet({} \union {"firewall_not_hardened"} \union {"ssh_baseline_missing"})
      BY <2>1, FS_EmptySet, FS_AddElement
    <2>3. IsFiniteSet({} \union {"firewall_not_hardened"} \union {"ssh_baseline_missing"}
                      \union {"crowdsec_missing"} \union {"docker_not_hardened"}
                      \union {"security_updates_pending"} \union {"reboot_required"}
                      \union {"distro_unrecognized"})
      BY <2>2, FS_AddElement
    <2>4. Codes = {} \union {"firewall_not_hardened"} \union {"ssh_baseline_missing"}
                      \union {"crowdsec_missing"} \union {"docker_not_hardened"}
                      \union {"security_updates_pending"} \union {"reboot_required"}
                      \union {"distro_unrecognized"}
      BY DEF Codes
    <2> QED
      BY <2>3, <2>4
  <1>2. found \subseteq Codes /\ \A code \in Codes : Finds(code, w, failed) => code \in found
    BY DEF securityAudit
  <1> HIDE DEF found
  <1>3. /\ high \subseteq Codes /\ low \subseteq Codes /\ rest \subseteq Codes
    BY <1>2
  <1>4. IsFiniteSet(high) /\ IsFiniteSet(low) /\ IsFiniteSet(rest)
    BY <1>1, <1>3, FS_Subset
  <1>5. Cardinality(high) \in Nat /\ Cardinality(low) \in Nat /\ Cardinality(rest) \in Nat
    BY <1>4, FS_CardinalityType
  <1>6. /\ auditScore(found) = 100 - 25 * Cardinality(high) - 5 * Cardinality(low)
                                   - 12 * Cardinality(rest)
    BY DEF auditScore
  <1>7. ~(auditScore(found) < 70) /\ ~(auditScore(found) < 90)
    BY DEF Status, found
  <1> HIDE DEF high, low, rest
  <1>8. Cardinality(high) = 0 /\ Cardinality(rest) = 0
    <2> DEFINE h == Cardinality(high)
               l == Cardinality(low)
               r == Cardinality(rest)
    <2>1. h \in Nat /\ l \in Nat /\ r \in Nat
      BY <1>5
    <2>2. ~(100 - 25 * h - 5 * l - 12 * r < 90)
      BY <1>6, <1>7
    <2> HIDE DEF h, l, r
    <2>3. h = 0 /\ r = 0
      BY <2>1, <2>2
    <2> QED
      BY <2>3 DEF h, r
  <1>9. high = {} /\ rest = {}
    BY <1>4, <1>8, FS_EmptySet
  <1> QED
    BY <1>2, <1>9 DEF high, low, rest

\* What such a machine is like.
LEMMA HealthyHolds == HInv /\ DoneInv => HealthyIsTrue
  <1> SUFFICES ASSUME HInv, DoneInv, NEW failed \in Failures, NEW w \in Settings,
                      Status(securityAudit(w, failed)) = "healthy"
               PROVE  /\ "firewall" \in has
                      /\ ~w.overridden
                      /\ "sshd" \in effective \/ last["ssh_harden"] # "done"
                      /\ family # "arch" => {"crowdsec", "bouncer"} \subseteq active
                      /\ \/ "docker" \notin active \/ "docker-info" \in failed
                         \/ /\ ~w.exposed \/ "docker-unit" \in failed
                            /\ "daemon" \in effective \/ last["docker_harden"] # "done"
                      /\ pending => family = "arch" \/ "updates" \in failed
                      /\ w.reboot => ~Apt \/ "reboot-required" \in failed
    BY DEF HealthyIsTrue
  <1>1. /\ ~Finds("firewall_not_hardened", w, failed) /\ ~Finds("ssh_baseline_missing", w, failed)
        /\ ~Finds("crowdsec_missing", w, failed) /\ ~Finds("docker_not_hardened", w, failed)
        /\ ~Finds("security_updates_pending", w, failed) /\ ~Finds("reboot_required", w, failed)
    BY HealthyFindings DEF Codes
  <1>2. "firewall" \in has /\ RightTools(failed)
    BY <1>1 DEF Finds
  <1>3. "sshd" \in has /\ ~w.overridden
    BY <1>1 DEF Finds
  <1>4. "sshd" \in effective \/ last["ssh_harden"] # "done"
    <2>1. "ssh_harden" \in Types
      BY DEF Types
    <2> QED
      BY <2>1 DEF DoneInv, Achieved
  <1>5. family # "arch" => {"crowdsec", "bouncer"} \subseteq active
    <2>1. ~crowdsecApplicable(failed) \/ crowdsecActive(failed)
      BY <1>1 DEF Finds
    <2>2. family # "arch" => crowdsecApplicable(failed)
      BY DEF crowdsecApplicable, Seen
    <2>3. crowdsecActive(failed) => "crowdsec" \in active /\ "bouncer" \in active
      BY DEF crowdsecActive
    <2> QED
      BY <2>1, <2>2, <2>3
  <1>6. \/ "docker" \notin active \/ "docker-info" \in failed
        \/ /\ ~w.exposed \/ "docker-unit" \in failed
           /\ "daemon" \in effective \/ last["docker_harden"] # "done"
    <2>1. "docker_harden" \in Types
      BY DEF Types
    <2>2. last["docker_harden"] = "done" /\ "docker" \in active => "daemon" \in effective
      BY <2>1 DEF DoneInv, Achieved
    <2> QED
      BY <1>1, <2>2 DEF Finds
  <1>7. pending => family = "arch" \/ "updates" \in failed
    <2>1. family # "arch" => Seen(failed) # "arch"
      BY DEF Seen
    <2> QED
      BY <1>1, <1>2, <2>1 DEF Finds
  <1>8. w.reboot => ~Apt \/ "reboot-required" \in failed
    BY <1>1 DEF Finds
  <1> QED
    BY <1>2, <1>3, <1>4, <1>5, <1>6, <1>7, <1>8

\* The scan.
LEMMA ScanHolds == ScanIsTrue
  <1> SUFFICES ASSUME NEW web \in WebServers, NEW p \in {"ss", "systemctl", "docker-inspect"}
               PROVE  CASE web = "service" -> scanVPS(web, {p}) \ CrowdSecs # {}
                        [] web = "process" -> p # "ss" => scanVPS(web, {p}) \ CrowdSecs # {}
                        [] OTHER -> scanVPS(web, {}) \subseteq CrowdSecs
    BY DEF ScanIsTrue
  <1>1. ASSUME web \in {"service", "process"}, p # "ss"
        PROVE  scanVPS(web, {p}) \ CrowdSecs # {}
    <2>1. "80" \in listeningPorts(web) \ nginxPorts(web, {p})
      BY <1>1 DEF listeningPorts, nginxPorts
    <2>2. "80" \in scanVPS(web, {p})
      BY <1>1, <2>1 DEF scanVPS
    <2> QED
      BY <2>2 DEF CrowdSecs
  <1>2. ASSUME web = "service", p = "ss" PROVE scanVPS(web, {p}) \ CrowdSecs # {}
    <2>1. "web-server" \in runningServices(web) \ baseServicesAllowed
      BY <1>2 DEF runningServices, baseServicesAllowed
    <2>2. "web-server" \in scanVPS(web, {p})
      BY <1>2, <2>1 DEF scanVPS
    <2> QED
      BY <2>2 DEF CrowdSecs
  <1>3. ASSUME web \in {"nobody", "proxy"} PROVE scanVPS(web, {}) \subseteq CrowdSecs
    <2>1. listeningPorts(web) \ nginxPorts(web, {}) \subseteq CrowdSecs
      BY <1>3 DEF listeningPorts, nginxPorts, CrowdSecs
    <2>2. runningServices(web) \ baseServicesAllowed \subseteq CrowdSecs
      BY <1>3 DEF runningServices, baseServicesAllowed, CrowdSecs
    <2> QED
      BY <2>1, <2>2 DEF scanVPS
  <1>4. web \in {"nobody", "proxy", "service", "process"}
    BY DEF WebServers
  <1> QED
    BY <1>1, <1>2, <1>3, <1>4

\* The security report.
LEMMA BansHold == BansAreReported
  <1> SUFFICES ASSUME NEW bans \in 0..1, NEW alerts \in 0..1,
                      NEW failed \in SUBSET {"decisions", "alerts"}
               PROVE  LET count == CollectSecurity(bans, alerts, failed)
                          now == bans + (IF banned THEN 1 ELSE 0)
                      IN  /\ now > 0 /\ "crowdsec" \in active /\ "decisions" \notin failed => count = now
                          /\ count > 0 => now > 0 \/ alerts > 0
    BY DEF BansAreReported
  <1> DEFINE more == IF banned THEN 1 ELSE 0
             decisions == IF "crowdsec" \in active /\ "decisions" \notin failed THEN bans + more ELSE 0
             others == IF "crowdsec" \in active /\ "alerts" \notin failed THEN alerts ELSE 0
  <1>1. CollectSecurity(bans, alerts, failed) = IF decisions > 0 THEN decisions ELSE others
    BY DEF CollectSecurity
  <1>2. more \in 0..1
    OBVIOUS
  <1>3. others = alerts \/ others = 0
    OBVIOUS
  <1>4. /\ "crowdsec" \in active /\ "decisions" \notin failed => decisions = bans + more
        /\ ~("crowdsec" \in active /\ "decisions" \notin failed) => decisions = 0
    OBVIOUS
  <1> HIDE DEF more, decisions, others
  <1>5. LET count == IF decisions > 0 THEN decisions ELSE others
        IN  /\ bans + more > 0 /\ "crowdsec" \in active /\ "decisions" \notin failed => count = bans + more
            /\ count > 0 => bans + more > 0 \/ alerts > 0
    BY <1>2, <1>3, <1>4
  <1> QED
    BY <1>1, <1>5 DEF more

-----------------------------------------------------------------------------
(* Theorems                                                                *)

\* The commands that harden a machine keep the first invariant.
THEOREM Invariance == Spec => []HInv
  BY InitInv, NextKeeps, PTL DEF Spec

\* Every variable has its type, whatever fails.
THEOREM TypeCorrect == Spec => []TypeOK
  <1>1. HInv => TypeOK
    <2> SUFFICES ASSUME HInv PROVE TypeOK
      OBVIOUS
    <2>1. todo \in Seq(Invocation)
      <3>1. todo \in Seq(Repertoire(command)) /\ command \in Types \union {"none"}
            /\ (todo # <<>> => command # "none")
        BY DEF HInv, CommandOK
      <3>2. CASE todo = <<>>
        BY <3>2, Short
      <3>3. CASE todo # <<>>
        <4>1. \A i \in Repertoire(command) : i \in Invocation
          BY <3>1, <3>3, Traits DEF Trait
        <4> QED
          BY <3>1, <4>1
      <3> QED
        BY <3>2, <3>3
    <2> QED
      BY <2>1 DEF HInv, MachineOK, CommandOK, FaultsOK, TypeOK
  <1> QED
    BY <1>1, Invariance, PTL

\* Once an installation of CrowdSec whose payload held the platform's address, as a
\* plain address, has reported success, the platform is never banned (crowdsec.go,
\* the comment above whitelistPlatformIPs).  Of a payload without one nothing is
\* said: such entries are skipped, and the installation succeeds all the same.
THEOREM NeverLockedOut == Spec => PlatformReachable
  <1>1. HInv /\ [Next]_vars
            => [~banned /\ banned' => platformIPs # "good" \/ last["install_crowdsec"] # "done"]_vars
    <2> SUFFICES ASSUME HInv, Next, ~banned, banned'
                 PROVE  platformIPs # "good" \/ last["install_crowdsec"] # "done"
      OBVIOUS
    <2>1. CASE \E type \in Types : Begin(type)
      BY <2>1 DEF Begin, machine
    <2>2. CASE Invoke \/ InvocationFails \/ FailureIgnored
      BY <2>2, InvokeKeeps, InvocationFailsKeeps, FailureIgnoredKeeps
    <2>3. CASE ScriptLost \/ Finish \/ TimePasses
      BY <2>3 DEF ScriptLost, Finish, TimePasses, machine
    <2>4. CASE Kill \/ Reboot
      BY <2>4, CutOffKeeps
    <2>5. CASE Ban
      BY <2>5, BanIsEarly
    <2> QED
      BY <2>1, <2>2, <2>3, <2>4, <2>5 DEF Next
  <1> QED
    BY <1>1, Invariance, PTL DEF Spec, PlatformReachable

\* What the commands bring about, and what they find, are kept too.
THEOREM Effects == Spec => [](EInv /\ PInv)
  <1>1. Init => EInv /\ PInv
    BY InitEffects, InitPrepared
  <1>2. HInv /\ (EInv /\ PInv) /\ [Next]_vars => (EInv /\ PInv)'
    BY NextKeepsEffects, NextKeepsPrepared
  <1> QED
    BY <1>1, <1>2, Invariance, PTL DEF Spec

\* What a command that reported success is about holds from then on, across other
\* commands, failures and reboots (install_docker.go, docker.go, ssh.go,
\* sysupdate.go, crowdsec.go and firewall.go; the exceptions are in the property's
\* own comment, the unattended-upgrades that is restarted without a check among them).
THEOREM DoneStaysDone == Spec => []DoneIsEffective
  <1>1. EInv => DoneIsEffective
    <2> SUFFICES ASSUME EInv, NEW t \in Types, last[t] = "done"
                 PROVE  CASE t = "ssh_harden" -> "sshd" \in effective
                          [] t = "docker_harden" -> "docker" \in active => "daemon" \in effective
                          [] t = "install_docker" ->
                                \/ "docker" \in active \intersect enabled
                                \/ t \in unfinished
                                \/ command = "docker_harden" \/ "docker_harden" \in unfinished
                          [] t = "install_crowdsec" ->
                                \/ family = "arch"
                                \/ /\ {"crowdsec", "bouncer"} \subseteq active
                                   /\ Collections \subseteq has
                                   /\ "limits" \in effective
                          [] t = "sysupdate" ->
                                \/ family = "arch"
                                \/ /\ {"updates", "origins"} \subseteq has
                                   /\ IF Apt THEN "periodic" \in has
                                      ELSE "updates" \in active \intersect enabled
                          [] t = "harden_firewall" -> family = "arch" \/ "firewall" \in has
                          [] OTHER -> TRUE
      BY DEF DoneIsEffective
    <2>1. Achieved(t)
      BY DEF EInv, DoneInv
    <2>2. CASE t = "install_docker"
      BY <2>1, <2>2 DEF EInv, DockerUp, Achieved
    <2>3. CASE t \in {"ssh_harden", "docker_harden", "apt_upgrade"}
      BY <2>1, <2>3 DEF Achieved
    <2>4. CASE t = "install_crowdsec"
      BY <2>1, <2>4 DEF Achieved
    <2>5. CASE t \in {"sysupdate", "harden_firewall"}
      BY <2>1, <2>5 DEF Achieved
    <2> QED
      BY <2>2, <2>3, <2>4, <2>5 DEF Types
  <1> QED
    BY <1>1, Effects, PTL

\* A command fails only at a step its own earlier steps could not prepare or
\* because of a fault, and at what withRetry guards only because of three (retry.go,
\* the order of the calls in install_docker.go and crowdsec.go).  The detection of
\* the distribution, a file, the package of the updates and services other than
\* docker are tried once (sshd under both its names); and the script that is piped
\* into bash does not fail when its download does.
THEOREM FailuresAreFaults == Spec => FailsOnlyToFaults
  <1>1. HInv /\ PInv /\ [Next]_vars =>
            [command # "none" /\ last'[command] = "failed" =>
                LET i == Head(todo)
                IN  \/ /\ ~Works(i)
                       /\ \/ command = "install_crowdsec" /\ "repo" \notin has
                          \/ command = "docker_harden" /\ "docker" \notin has
                    \/ /\ Works(i) /\ faults' > 0
                       /\ Guarded(i) => faults' > 2]_vars
    BY FailureSteps
  <1> QED
    BY <1>1, Invariance, Effects, PTL DEF Spec, FailsOnlyToFaults

\* A finding of the audit is gone once the action it recommends has succeeded, but
\* for the exceptions named with the property (security_audit.go).
THEOREM AdviceCures == Spec => []AdviceIsCured
  <1>1. EInv => AdviceIsCured
    BY AdviceHolds DEF EInv
  <1> QED
    BY <1>1, Effects, PTL

\* A machine the audit calls healthy has what the agent hardens, in effect,
\* whichever program fails while it is read, but for the four whose failure is good
\* news, which the property names (security_audit.go).
THEOREM HealthyMachines == Spec => []HealthyIsTrue
  <1>1. HInv /\ EInv => HealthyIsTrue
    BY HealthyHolds DEF EInv
  <1> QED
    BY <1>1, Invariance, Effects, PTL

\* A scan finds the web server of another, by its unit or by its ports, and nothing
\* of the agent's own but CrowdSec; and the bans there are, are reported (scan.go,
\* reporter/security.go).
THEOREM ReadingsHold == Spec => []ReadingsAreTrue
  <1>1. ReadingsAreTrue
    BY ScanHolds, BansHold DEF ReadingsAreTrue
  <1> QED
    BY <1>1, PTL
=============================================================================
