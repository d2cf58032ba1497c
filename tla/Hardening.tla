------------------------------ MODULE Hardening ------------------------------
(***************************************************************************)
(* The executors that harden a machine and keep it up to date, withRetry,  *)
(* and the machine they change.  An executor is a list of invocations of   *)
(* programs, as in module Firewall; here some of them are tried again.     *)
(* Between any two the agent may be killed, the machine rebooted and the   *)
(* platform banned by the CrowdSec that is being installed.                *)
(***************************************************************************)
EXTENDS Integers, Sequences

CONSTANTS
    Families,
    MaxCommands,
    MaxFaults       \* failed programs, kills and reboots

ASSUME HardeningAssumption ==
    /\ Families \subseteq {"debian", "rhel", "arch", "unknown"}
    /\ MaxCommands \in Nat
    /\ MaxFaults \in Nat

VARIABLES
    family,
    platformIPs,    \* the whitelist_ips in the payload of install_crowdsec
    has,            \* what is installed, downloaded, written
    effective,      \* the configurations that what is running goes by
    active,         \* the services that run
    enabled,        \* the services that a boot starts
    pending,        \* are there security updates?
    banned,         \* is the platform banned?
    command,
    todo,           \* the invocations of the command that are still to come
    tries,          \* how often the first of them has failed
    last,           \* what became of the last command of each type
    unfinished,     \* the types of commands that ever failed or were cut off
    commands,
    faults

machine == <<has, effective, active, enabled, pending, banned>>
given == <<family, platformIPs>>
vars == <<given, machine, command, todo, tries, last, unfinished, commands, faults>>

Types == {"apt_upgrade", "install_docker", "harden_firewall", "ssh_harden",
          "install_crowdsec", "sysupdate", "docker_harden"}
Services == {"docker", "crowdsec", "bouncer", "updates"}
Collections == {"sshd-collection", "nginx-collection", "http-cve-collection"}
Configurations == {"limits", "sshd", "daemon"}
Items == Services \union Collections \union Configurations
         \union {"plugin", "docker-repo", "repo", "index", "hub", "dropin-dir", "allowlist",
                 "address", "origins", "periodic", "firewall"}

Invocation == [op : {"check", "get", "write", "restart", "restart-ignored", "enable", "upgrade"},
               item : Items \union {"os-release", "ssh", "systemd", "packages"}, tries : 1..3]

TypeOK ==
    /\ family \in Families
    /\ platformIPs \in {"none", "unusable", "good"}
    /\ {pending, banned} \subseteq BOOLEAN
    /\ has \subseteq Items
    /\ effective \subseteq Configurations
    /\ active \subseteq Services \intersect has
    /\ enabled \subseteq Services \intersect has
    /\ command \in Types \union {"none"}
    /\ todo \in Seq(Invocation)
    /\ todo # <<>> => command # "none" /\ tries \in 0..Head(todo).tries - 1
    /\ last \in [Types -> {"never", "running", "done", "failed", "cut"}]
    /\ \A t \in Types : last[t] = "running" <=> command = t
    /\ unfinished \subseteq Types
    /\ commands \in 0..MaxCommands
    /\ faults \in 0..MaxFaults

\* A new machine; its image may bring docker, RHEL's a firewall.  A good list
\* holds the platform's address, an unusable one nothing that is an address.
Init ==
    /\ family \in Families
    /\ platformIPs \in {"none", "unusable", "good"}
    /\ \E docker \in SUBSET {"docker"}, firewall \in SUBSET {"firewall"} :
        /\ firewall = {} \/ family = "rhel"
        /\ has = docker \union firewall
        /\ active = docker
        /\ enabled = docker
    /\ effective = {}
    /\ pending = TRUE
    /\ banned = FALSE
    /\ command = "none"
    /\ todo = <<>>
    /\ tries = 0
    /\ last = [t \in Types |-> "never"]
    /\ unfinished = {}
    /\ commands = 0
    /\ faults = 0

-----------------------------------------------------------------------------
(* The executors                                                           *)

\* An unknown distribution is treated like Debian.
Apt == family \in {"debian", "unknown"}

Once(op, item) == [op |-> op, item |-> item, tries |-> 1]

\* Mutant: the first attempt is not counted.
RetriedOnce(op, item) == [op |-> op, item |-> item, tries |-> 2]

Retried(op, item) == [op |-> op, item |-> item, tries |-> 3]

Detect == Once("check", "os-release")
If(condition, invocations) == IF condition THEN invocations ELSE <<>>

\* Debian refreshes its index, the other families do so when they upgrade.
aptUpgrade ==
    <<Detect>> \o If(Apt, <<Retried("get", "index")>>) \o <<Retried("upgrade", "packages")>>

installDocker ==
    If("docker" \notin has,
       <<Detect>>
       \o If(family = "rhel", <<Retried("get", "plugin"), Retried("get", "docker-repo")>>)
       \o <<Retried("get", "docker"), Once("enable", "docker")>>)

\* Mutant: sshd goes on with its old configuration.
SshNotReloaded == <<Once("write", "sshd")>>

\* Where the unit ssh cannot be reloaded, sshd is; on Debian both names are good.
sshHarden ==
    <<Once("write", "sshd"), [op |-> "restart", item |-> "ssh", tries |-> IF Apt THEN 2 ELSE 1]>>

dockerHarden == <<Once("write", "daemon"), Retried("restart", "docker")>>

\* Arch is skipped.  Debian's service may be missing, its restart is not checked.
sysupdateHarden ==
    <<Detect>>
    \o If(family # "arch", <<Once("get", "updates"), Once("write", "origins")>>)
    \o If(Apt, <<Once("write", "periodic"), Once("restart-ignored", "updates")>>)
    \o If(family = "rhel", <<Once("enable", "updates")>>)

\* Mutant: the allowlist is created and nothing is added to it.
NothingAdded == If(platformIPs # "none", <<Once("get", "allowlist")>>)

\* What is no address, a network or the name of a host too, is skipped in silence.
whitelistPlatformIPs ==
    If(platformIPs # "none", <<Once("get", "allowlist")>>)
    \o If(platformIPs = "good", <<Once("get", "address")>>)

\* Mutant: the index of packages is not refreshed after the repository was added.
StaleIndex ==
    <<Detect>>
    \o If(family # "arch",
          << Retried("get", "repo"), Retried("get", "crowdsec"), Retried("get", "hub"),
             Retried("get", "sshd-collection"), Retried("get", "nginx-collection"),
             Retried("get", "http-cve-collection"), Once("get", "dropin-dir"),
             Once("write", "limits"), Retried("get", "bouncer"), Once("restart", "systemd"),
             Once("restart", "crowdsec") >> \o whitelistPlatformIPs)

\* Arch is skipped.
installCrowdsec ==
    <<Detect>>
    \o If(family # "arch", <<Retried("get", "repo")>>)
    \o If(Apt, <<Retried("get", "index")>>)
    \o If(family # "arch",
          << Retried("get", "crowdsec"), Retried("get", "hub"),
             Retried("get", "sshd-collection"), Retried("get", "nginx-collection"),
             Retried("get", "http-cve-collection"), Once("get", "dropin-dir"),
             Once("write", "limits"), Retried("get", "bouncer"), Once("restart", "systemd"),
             Once("restart", "crowdsec") >> \o whitelistPlatformIPs)

\* The firewall is in module Firewall, here it is one step.
Executor(type) ==
    CASE type = "apt_upgrade" -> aptUpgrade
      [] type = "install_docker" -> installDocker
      [] type = "harden_firewall" -> <<Once("get", "firewall")>>
      [] type = "ssh_harden" -> sshHarden
      [] type = "install_crowdsec" -> installCrowdsec
      [] type = "sysupdate" -> sysupdateHarden
      [] type = "docker_harden" -> dockerHarden

-----------------------------------------------------------------------------
(* What the programs need, do and leave behind                             *)

\* Only the distributions with apt have an engine of their own, and no
\* distribution has the bouncer.
Needs(item) ==
    CASE item = "crowdsec" -> IF Apt THEN {} ELSE {"repo"}
      [] item = "bouncer" -> IF Apt THEN {"repo", "index"} ELSE {"repo"}
      [] item = "hub" -> {"crowdsec"}
      [] item \in Collections -> {"crowdsec", "hub"}
      [] item = "limits" -> {"dropin-dir"}
      [] item = "allowlist" -> {"crowdsec"}
      [] item = "address" -> {"allowlist"}
      [] item = "docker-repo" -> {"plugin"}
      [] item = "docker" -> IF family = "rhel" THEN {"docker-repo"} ELSE {}
      [] OTHER -> {}

Works(i) ==
    CASE i.op \in {"get", "write"} -> Needs(i.item) \subseteq has
      [] i.op \in {"restart", "restart-ignored", "enable"} -> i.item \in Services => i.item \in has
      [] OTHER -> TRUE

\* An index lists what the repositories hold that are known when it is fetched.
Gets(item) == IF item = "index" /\ "repo" \notin has THEN {} ELSE {item}

\* The packages of CrowdSec, and those of Debian, start what they install.
Starts(item) ==
    IF item \in {"crowdsec", "bouncer"} \/ (item \in {"docker", "updates"} /\ Apt)
    THEN {item} ELSE {}

\* The configurations a service goes by once it has read its files.
Read(services) ==
    LET of == {c \in Configurations : \/ c = "daemon" /\ "docker" \in services
                                      \/ c = "sshd" /\ "ssh" \in services
                                      \/ c = "limits" /\ "systemd" \in services}
    IN  (effective \ of) \union (of \intersect has)

Does(i) ==
    /\ has' = IF i.op \in {"get", "write"} THEN has \union Gets(i.item) ELSE has
    /\ LET on == CASE i.op = "get" -> Starts(i.item)
                   [] i.op = "enable" -> {i.item}
                   [] OTHER -> {}
           again == IF i.op \in {"restart", "restart-ignored"} THEN {i.item} ELSE {}
       IN  /\ active' = active \union on \union (again \intersect Services)
           /\ enabled' = enabled \union on
           /\ effective' = Read((on \ active) \union again)
    /\ pending' = (pending /\ i.op # "upgrade")
    \* Some versions lift the bans of an address that is allowed.
    /\ banned' \in IF i.item = "address" THEN {FALSE, banned} ELSE {banned}

\* A file that could not be written may be empty, a service that could not be
\* restarted may be down.
Leaves(i) ==
    /\ has' \in {has} \union (IF i.op = "write" THEN {has \ {i.item}} ELSE {})
    /\ active' \in {active} \union (IF i.op \in {"restart", "restart-ignored"}
                                     THEN {active \ {i.item}} ELSE {})
    /\ UNCHANGED <<effective, enabled, pending, banned>>

-----------------------------------------------------------------------------
(* The steps of a command                                                  *)

Fault ==
    /\ faults < MaxFaults
    /\ faults' = faults + 1

\* Mutant: what became of the command is forgotten.
EndsUnreported(result) ==
    /\ command' = "none"
    /\ todo' = <<>>
    /\ tries' = 0
    /\ UNCHANGED <<last, unfinished>>

Ends(result) ==
    /\ command' = "none"
    /\ todo' = <<>>
    /\ tries' = 0
    /\ last' = [last EXCEPT ![command] = result]
    /\ unfinished' = IF result = "done" THEN unfinished ELSE unfinished \union {command}

Begin(type) ==
    /\ command = "none"
    /\ commands < MaxCommands
    /\ commands' = commands + 1
    /\ command' = type
    /\ todo' = Executor(type)
    /\ last' = [last EXCEPT ![type] = "running"]
    /\ UNCHANGED <<given, machine, tries, unfinished, faults>>

Invoke ==
    /\ todo # <<>>
    /\ Works(Head(todo))
    /\ Does(Head(todo))
    /\ todo' = Tail(todo)
    /\ tries' = 0
    /\ UNCHANGED <<given, command, last, unfinished, commands, faults>>

\* curl -s | bash: when the script cannot be downloaded, bash has nothing to do
\* and the pipe succeeds.
ScriptLost ==
    /\ todo # <<>>
    /\ Head(todo).item = "repo"
    /\ Fault
    /\ todo' = Tail(todo)
    /\ tries' = 0
    /\ UNCHANGED <<given, machine, command, last, unfinished, commands>>

\* withRetry: what has attempts left is tried again, else its error is returned.
InvocationFails ==
    /\ todo # <<>>
    /\ Head(todo).op # "restart-ignored"
    /\ IF Works(Head(todo)) THEN Fault ELSE UNCHANGED faults
    /\ Leaves(Head(todo))
    /\ IF tries + 1 < Head(todo).tries
       THEN /\ tries' = tries + 1
            /\ UNCHANGED <<command, todo, last, unfinished>>
       ELSE Ends("failed")
    /\ UNCHANGED <<given, commands>>

\* A restart whose error is dropped needs no fault to fail.
FailureIgnored ==
    /\ todo # <<>>
    /\ Head(todo).op = "restart-ignored"
    /\ Leaves(Head(todo))
    /\ todo' = Tail(todo)
    /\ tries' = 0
    /\ UNCHANGED <<given, command, last, unfinished, commands, faults>>

Finish ==
    /\ command # "none"
    /\ todo = <<>>
    /\ Ends("done")
    /\ UNCHANGED <<given, machine, commands, faults>>

-----------------------------------------------------------------------------
(* The world around                                                        *)

CutOff ==
    IF command = "none" THEN UNCHANGED <<command, todo, tries, last, unfinished>> ELSE Ends("cut")

Kill ==
    /\ command # "none"
    /\ Fault
    /\ CutOff
    /\ UNCHANGED <<given, machine, commands>>

\* What is enabled starts and reads its files; the rules of iptables are gone.
Reboot ==
    /\ Fault
    /\ CutOff
    /\ has' = IF family = "arch" THEN has \ {"firewall"} ELSE has
    /\ active' = enabled
    /\ effective' = has \intersect Configurations
    /\ UNCHANGED <<given, enabled, pending, banned, commands>>

\* The platform logs in often enough to be taken for an attacker.
Ban ==
    /\ {"crowdsec", "bouncer"} \subseteq active
    /\ "address" \notin has
    /\ banned' = TRUE
    /\ UNCHANGED <<given, has, effective, active, enabled, pending,
                   command, todo, tries, last, unfinished, commands, faults>>

\* Bans run out, updates appear.
TimePasses ==
    /\ \/ banned' = FALSE /\ UNCHANGED pending
       \/ pending' = TRUE /\ UNCHANGED banned
    /\ UNCHANGED <<given, has, effective, active, enabled,
                   command, todo, tries, last, unfinished, commands, faults>>

Next ==
    \/ \E type \in Types : Begin(type)
    \/ Invoke \/ ScriptLost \/ InvocationFails \/ FailureIgnored \/ Finish
    \/ Kill \/ Reboot \/ Ban \/ TimePasses

Spec == Init /\ [][Next]_vars

-----------------------------------------------------------------------------
(* What holds                                                              *)

\* What a command that reported success is about holds from then on, until a
\* later command of its type: across other commands, failures and reboots.  On
\* RHEL and Arch an installation of docker that was cut off after the package
\* was there reports success ever after, without having enabled the service.  The
\* updates of Debian are run by the timers of apt, which read the two files; the
\* service that is restarted without a check may be down.
DoneIsEffective ==
    \A t \in Types : last[t] = "done" =>
        CASE t = "ssh_harden" -> "sshd" \in effective
          [] t = "docker_harden" -> "docker" \in active => "daemon" \in effective
          [] t = "install_docker" ->
                \/ "docker" \in active \intersect enabled
                \/ t \in unfinished
                \/ command = "docker_harden" \/ "docker_harden" \in unfinished
          [] t = "install_crowdsec" ->
                \/ family = "arch"
                \/ /\ {"crowdsec", "bouncer"} \subseteq active
                   /\ Collections \subseteq has
                   /\ "limits" \in effective
          [] t = "sysupdate" ->
                \/ family = "arch"
                \/ /\ {"updates", "origins"} \subseteq has
                   /\ IF Apt THEN "periodic" \in has ELSE "updates" \in active \intersect enabled
          [] t = "harden_firewall" -> family = "arch" \/ "firewall" \in has
          [] OTHER -> TRUE

\* No command runs into something its own earlier steps should have prepared:
\* what cannot work is a bouncer whose repository was lost without notice, or a
\* docker that is not there.
StepsArePrepared ==
    todo # <<>> /\ ~Works(Head(todo))
        => \/ command = "install_crowdsec" /\ "repo" \notin has
           \/ command = "docker_harden" /\ "docker" \notin has

\* What the network or the lock of the packages can hold up, as retry.go:10 says.
Downloads == {"packages", "index", "plugin", "docker-repo", "docker", "repo", "crowdsec",
              "hub", "bouncer"} \union Collections

\* What withRetry is there for: a download, and the restart of docker.
Guarded(i) == \/ i.op \in {"get", "upgrade"} /\ i.item \in Downloads
              \/ i.op = "restart" /\ i.item = "docker"

\* A command that fails does so at a step it could not prepare, or because of a
\* fault; and where withRetry is there for the step, of three faults.  One fault
\* is enough for what is tried once: the detection of the distribution, a file,
\* another service that is enabled or restarted, and the package of the automatic
\* updates.
FailsOnlyToFaults ==
    [][command # "none" /\ last'[command] = "failed" =>
        LET i == Head(todo)
        IN  \/ /\ ~Works(i)
               /\ \/ command = "install_crowdsec" /\ "repo" \notin has
                  \/ command = "docker_harden" /\ "docker" \notin has
            \/ /\ Works(i) /\ faults' > 0
               /\ Guarded(i) => faults' > 2]_vars

\* The platform is never banned once an installation whose payload held its
\* address, as a plain address, has reported success.  While CrowdSec is being
\* installed it can be, and so it can after a success with any other payload.
PlatformReachable ==
    [][~banned /\ banned' => platformIPs # "good" \/ last["install_crowdsec"] # "done"]_vars
=============================================================================
