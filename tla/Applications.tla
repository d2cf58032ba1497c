---------------------------- MODULE Applications ----------------------------
(***************************************************************************)
(* deploy_app, restart_container, stop_container, delete_app,              *)
(* attach_domain_ssl and setup_nginx_proxy (internal/executor/deploy.go,   *)
(* delete.go, proxy.go): the containers of the applications, the vhost     *)
(* files, and the proxy container that loads them and keeps certificates.  *)
(***************************************************************************)
EXTENDS Integers

CONSTANTS
    Names,          \* of containers
    Images,
    Domains,
    None,
    MaxCommands,
    MaxFaults       \* failed programs, kills and reboots

ASSUME ApplicationsAssumption ==
    /\ None \notin Names \union Domains \union Images \union {"broken"}
    /\ MaxCommands \in Nat
    /\ MaxFaults \in Nat

VARIABLES
    container,      \* the state and the image of each container
    pulled,         \* the images on the machine
    network,        \* does the network satsetops-proxy exist?
    proxy,          \* the container nginx-certbot
    vhost,          \* for each domain, the container its file names
    served,         \* for each domain, the container nginx has loaded
    certified,      \* the domains certbot renews certificates of
    asked,          \* the domains certbot is asking certificates for
    asking,         \* is it at it?  nginx loads its files when it is done
    command,
    pc,             \* the step that comes next
    commands, faults,
    believed,       \* the containers, as far as reports tell
    attached,       \* the domains, as far as reports tell
    rejected,       \* has nginx refused its files when it was told to load them?
    leftover        \* domains with certificates that a deletion has left behind

docker == <<container, pulled, network>>
nginx == <<proxy, vhost, served, certified, asked, asking>>
unasked == <<asked, asking>>
beliefs == <<believed, attached>>
vars == <<container, pulled, network, proxy, vhost, served, certified, asked, asking, command, pc,
          commands, faults, believed, attached, rejected, leftover>>

Gone == [state |-> "absent", image |-> None]
Unknown == [state |-> "unknown", image |-> None]
Containers == {Gone} \union [state : {"running", "stopped"}, image : Images]

\* The limits of a deployment and the domain of a deletion may be malformed.
Command ==
    [type : {"deploy"}, name : Names, image : Images, good : BOOLEAN]
    \union [type : {"restart", "stop"}, name : Names]
    \union [type : {"delete"}, name : Names, domain : Domains \union {None}, good : BOOLEAN]
    \union [type : {"attach"}, name : Names, domain : Domains]
    \union [type : {"setup"}]
NoCommand == [type |-> "none"]

Steps == {"login", "pull", "remove", "limits", "run", "restart", "stop",
          "delete", "unlink", "forget", "write", "reload",
          "network", "config", "start", "copy", "restart proxy", "crowdsec"}

TypeOK ==
    /\ container \in [Names -> Containers]
    /\ pulled \in SUBSET Images
    /\ network \in BOOLEAN
    /\ proxy \in {"absent", "stopped", "running", "crashing"}
    /\ vhost \in [Domains -> Names \union {None, "broken"}]
    /\ served \in [Domains -> Names \union {None}]
    /\ certified \in SUBSET Domains
    /\ asked \in SUBSET Domains
    /\ asking \in BOOLEAN
    /\ command \in Command \union {NoCommand}
    /\ pc \in Steps \union {"idle"}
    /\ commands \in 0..MaxCommands
    /\ faults \in 0..MaxFaults
    /\ believed \in [Names -> Containers \union {Unknown}]
    /\ attached \in [Domains -> Names \union {None, "unknown"}]
    /\ rejected \in BOOLEAN
    /\ leftover \in SUBSET Domains
    /\ command = NoCommand <=> pc = "idle"

Init ==
    /\ container = [n \in Names |-> Gone]
    /\ pulled = {}
    /\ network = FALSE
    /\ proxy = "absent"
    /\ vhost = [d \in Domains |-> None]
    /\ served = [d \in Domains |-> None]
    /\ certified = {}
    /\ asked = {}
    /\ asking = FALSE
    /\ command = NoCommand
    /\ pc = "idle"
    /\ commands = 0
    /\ faults = 0
    /\ believed = [n \in Names |-> Gone]
    /\ attached = [d \in Domains |-> None]
    /\ rejected = FALSE
    /\ leftover = {}

Fault ==
    /\ faults < MaxFaults
    /\ faults' = faults + 1

-----------------------------------------------------------------------------
(* The proxy container, as far as the executors and their comments know it *)

\* The files nginx loads: those whose domain has a certificate.
Enabled(certificates) == {d \in Domains : vhost[d] # None /\ d \in certificates}

\* nginx resolves the name of a container when it loads the file.
Loadable(certificates) ==
    /\ \A d \in Domains : vhost[d] # "broken"
    /\ \A d \in Enabled(certificates) : container[vhost[d]].state = "running"

Loaded(certificates) == [d \in Domains |-> IF d \in Enabled(certificates) THEN vhost[d] ELSE None]

\* At a start and on SIGHUP certbot asks for what the files name.
Ask ==
    /\ asked' = asked \union {d \in Domains : vhost[d] \in Names}
    /\ asking' = TRUE

\* Is the certificate of d about to be looked after by a deletion?
Forgetting(d) == pc = "forget" /\ command.domain = d

\* Each certificate may be had or not, and the file be gone when it comes.  nginx
\* then loads its files, and keeps what it has if it cannot.
Answer ==
    /\ asking
    /\ asking' = FALSE
    /\ asked' = {}
    /\ \E new \in SUBSET asked :
          /\ certified' = certified \union new
          /\ leftover' = leftover \union {d \in new : vhost[d] = None /\ ~Forgetting(d)}
    /\ IF Loadable(certified')
       THEN served' = Loaded(certified') /\ UNCHANGED rejected
       ELSE rejected' = TRUE /\ UNCHANGED served
    /\ UNCHANGED <<docker, proxy, vhost, command, pc, commands, faults, beliefs>>

\* A start: without its files nginx does not run, and the container ends and is
\* started for ever; so it may if there is a certificate without a file.
Started ==
    \/ /\ Loadable(certified)
       /\ proxy' = "running"
       /\ served' = Loaded(certified)
       /\ Ask
       /\ UNCHANGED rejected
    \/ /\ ~Loadable(certified) \/ \E d \in certified : vhost[d] = None
       /\ proxy' = "crashing"
       /\ served' = [d \in Domains |-> None]
       /\ asked' = {} /\ asking' = FALSE
       /\ rejected' = (rejected \/ ~Loadable(certified))

-----------------------------------------------------------------------------
(* Commands, and how they end                                              *)

FirstStep(c) ==
    CASE c.type = "deploy" -> "login"
      [] c.type \in {"restart", "stop", "delete"} -> c.type
      [] c.type = "attach" -> "write"
      [] c.type = "setup" -> "network"

Begin ==
    /\ pc = "idle"
    /\ commands < MaxCommands
    /\ commands' = commands + 1
    /\ command' \in Command
    /\ pc' = FirstStep(command')
    /\ UNCHANGED <<docker, nginx, faults, beliefs, rejected, leftover>>

Goes(from, to) ==
    /\ pc = from
    /\ pc' = to
    /\ UNCHANGED <<command, commands, faults, beliefs, rejected>>

\* Mutant: the command that is over is not forgotten.
AfterReturn == command

AfterCommand == NoCommand

Returns ==
    /\ pc' = "idle"
    /\ command' = AfterCommand
    /\ UNCHANGED commands

\* The executor reports success: name and domain are as it was told.
ReportsContainer(new) ==
    /\ Returns
    /\ believed' = [believed EXCEPT ![command.name] = new]
    /\ UNCHANGED <<attached, faults>>

\* An error, or no report at all: whatever was touched is not known any more.
GivesUp ==
    /\ Returns
    /\ believed' = IF pc \in {"remove", "limits", "run", "restart", "stop", "delete"}
                      \/ (pc # "idle" /\ command.type = "delete")
                   THEN [believed EXCEPT ![command.name] = Unknown] ELSE believed
    /\ attached' = IF pc \in {"write", "unlink", "forget", "reload"}
                   THEN [attached EXCEPT ![command.domain] = "unknown"] ELSE attached

\* Errors that are the program's own, and those that are not.
Errs(from) ==
    /\ pc = from
    /\ UNCHANGED faults
    /\ GivesUp

Fails(from) ==
    /\ pc = from
    /\ Fault
    /\ GivesUp

-----------------------------------------------------------------------------
(* deployApp, restartContainer, stopContainer                              *)

\* The payload is refused, or the registry does.
Refuse ==
    /\ pc \in {"login", "restart", "stop", "delete", "write", "network"}
    /\ Returns
    /\ UNCHANGED <<docker, nginx, faults, beliefs, rejected, leftover>>

Login ==
    /\ Goes("login", "pull")
    /\ UNCHANGED <<docker, nginx, leftover>>

\* Mutant: the old container is removed before the image is there.
PullAfterRemoval ==
    /\ Goes("pull", "remove")
    /\ pulled' = pulled \union {command.image}
    /\ container' = [container EXCEPT ![command.name] = Gone]
    /\ UNCHANGED <<network, nginx, leftover>>

Pull ==
    /\ Goes("pull", "remove")
    /\ pulled' = pulled \union {command.image}
    /\ UNCHANGED <<container, network, nginx, leftover>>

PullFails ==
    /\ Fails("pull")
    /\ UNCHANGED <<docker, nginx, rejected, leftover>>

\* docker rm -f: nobody looks at its result.
Remove ==
    /\ pc = "remove"
    /\ pc' = "limits"
    /\ \/ container' = [container EXCEPT ![command.name] = Gone] /\ UNCHANGED faults
       \/ Fault /\ UNCHANGED container
    /\ UNCHANGED <<pulled, network, nginx, command, commands, beliefs, rejected, leftover>>

\* numericFromPayload comes after the old container is gone.
Limits ==
    /\ \/ Goes("limits", "run") /\ command.good
       \/ Errs("limits") /\ ~command.good /\ UNCHANGED rejected
    /\ UNCHANGED <<docker, nginx, leftover>>

\* The name is free and the network there?
CanRun == container[command.name] = Gone /\ network

Run ==
    /\ pc = "run"
    /\ CanRun
    /\ container' = [container EXCEPT ![command.name] =
                        [state |-> "running", image |-> command.image]]
    /\ ReportsContainer([state |-> "running", image |-> command.image])
    /\ UNCHANGED <<pulled, network, nginx, rejected, leftover>>

\* A container that was made and does not start keeps its name.
RunFails ==
    /\ \/ Errs("run") /\ ~CanRun /\ UNCHANGED container
       \/ /\ Fails("run")
          /\ CanRun
          /\ container' \in {container, [container EXCEPT ![command.name] =
                                [state |-> "stopped", image |-> command.image]]}
    /\ UNCHANGED <<pulled, network, nginx, rejected, leftover>>

\* docker restart starts a container that was stopped.
RestartOrStop ==
    /\ pc \in {"restart", "stop"}
    /\ container[command.name] # Gone
    /\ LET new == [container[command.name] EXCEPT !.state =
                        IF pc = "stop" THEN "stopped" ELSE "running"]
       IN  /\ container' = [container EXCEPT ![command.name] = new]
           /\ ReportsContainer(new)
    /\ UNCHANGED <<pulled, network, nginx, rejected, leftover>>

RestartOrStopFails ==
    /\ pc \in {"restart", "stop"}
    /\ \/ /\ container[command.name] = Gone
          /\ Errs(pc)
          /\ UNCHANGED container
       \/ /\ container[command.name] # Gone
          /\ Fails(pc)
          /\ container' \in {container, [container EXCEPT ![command.name].state = "stopped"]}
    /\ UNCHANGED <<pulled, network, nginx, rejected, leftover>>

-----------------------------------------------------------------------------
(* deleteApp                                                               *)

\* A container that is not there is no error.
Delete ==
    /\ Goes("delete", "unlink")
    /\ container' = [container EXCEPT ![command.name] = Gone]
    /\ UNCHANGED <<pulled, network, nginx, leftover>>

DeleteFails ==
    /\ Fails("delete")
    /\ container' \in {container, [container EXCEPT ![command.name] = Gone]}
    /\ UNCHANGED <<pulled, network, nginx, rejected, leftover>>

\* No domain: the end.
DeletedWithoutDomain ==
    /\ pc = "unlink"
    /\ command.good /\ command.domain = None
    /\ ReportsContainer(Gone)
    /\ UNCHANGED <<docker, nginx, rejected, leftover>>

\* A malformed domain is noticed when the container is gone.
DomainRefused ==
    /\ pc = "unlink"
    /\ ~command.good
    /\ Returns
    /\ believed' = [believed EXCEPT ![command.name] = Unknown]
    /\ UNCHANGED <<docker, nginx, faults, attached, rejected, leftover>>

Unlink ==
    /\ Goes("unlink", "forget")
    /\ command.good /\ command.domain # None
    /\ vhost' = [vhost EXCEPT ![command.domain] = None]
    /\ UNCHANGED <<docker, proxy, served, certified, unasked, leftover>>

UnlinkFails ==
    /\ pc = "unlink"
    /\ command.good /\ command.domain # None
    /\ Fails("unlink")
    /\ UNCHANGED <<docker, nginx, rejected, leftover>>

\* Mutant: the certificate is not looked after.
ForgetNothing ==
    /\ Goes("forget", "reload")
    /\ UNCHANGED <<docker, nginx, leftover>>

\* Three rm -f, nobody looks at their results.
Forget ==
    /\ pc = "forget"
    /\ pc' = "reload"
    /\ \/ /\ certified' = certified \ {command.domain}
          /\ UNCHANGED <<faults, leftover>>
       \/ /\ Fault
          /\ leftover' = leftover \union {command.domain}
          /\ UNCHANGED certified
    /\ UNCHANGED <<docker, proxy, vhost, served, unasked, command, commands, beliefs, rejected>>

-----------------------------------------------------------------------------
(* attachDomainSSL                                                         *)

WriteVhost ==
    /\ Goes("write", "reload")
    /\ vhost' = [vhost EXCEPT ![command.domain] = command.name]
    /\ UNCHANGED <<docker, proxy, served, certified, unasked, leftover>>

\* bash: cat > file empties the file first.
WriteVhostFails ==
    /\ Fails("write")
    /\ vhost' \in {vhost, [vhost EXCEPT ![command.domain] = "broken"]}
    /\ UNCHANGED <<docker, proxy, served, certified, unasked, rejected, leftover>>

\* Mutant: nginx is not told.
ReloadForgotten ==
    /\ pc = "reload"
    /\ Returns
    /\ attached' = [attached EXCEPT ![command.domain] =
                        IF command.type = "attach" THEN command.name ELSE None]
    /\ believed' = IF command.type = "delete" THEN [believed EXCEPT ![command.name] = Gone]
                                              ELSE believed
    /\ UNCHANGED <<docker, nginx, faults, rejected, leftover>>

\* docker kill --signal=HUP, the last step of attachDomainSSL and deleteApp.
Reload ==
    /\ pc = "reload"
    /\ proxy = "running"
    /\ Ask
    /\ Returns
    /\ attached' = [attached EXCEPT ![command.domain] =
                        IF command.type = "attach" THEN command.name ELSE None]
    /\ believed' = IF command.type = "delete" THEN [believed EXCEPT ![command.name] = Gone]
                                              ELSE believed
    /\ UNCHANGED <<docker, proxy, vhost, served, certified, faults, rejected, leftover>>

ReloadFails ==
    /\ IF proxy = "running" THEN Fails("reload") ELSE Errs("reload")
    /\ UNCHANGED <<docker, nginx, rejected, leftover>>

-----------------------------------------------------------------------------
(* setupNginxProxy                                                         *)

EnsureNetwork ==
    /\ Goes("network", "config")
    /\ network' = TRUE
    /\ UNCHANGED <<container, pulled, nginx, leftover>>

\* The two configuration files are always written anew.
WriteConfig ==
    /\ Goes("config", "start")
    /\ UNCHANGED <<docker, nginx, leftover>>

EnsureRunning ==
    /\ pc = "start"
    /\ pc' = "copy"
    /\ IF proxy \in {"absent", "stopped"} THEN Started
                                          ELSE UNCHANGED <<proxy, served, unasked, rejected>>
    /\ UNCHANGED <<docker, vhost, certified, command, commands, faults, beliefs, leftover>>

\* A container that was made and does not start is started the next time.
EnsureRunningFails ==
    /\ Fails("start")
    /\ proxy' \in IF proxy = "absent" THEN {"absent", "stopped"} ELSE {proxy}
    /\ UNCHANGED <<docker, vhost, served, certified, unasked, rejected, leftover>>

CopyRedirector ==
    /\ Goes("copy", "restart proxy")
    /\ UNCHANGED <<docker, nginx, leftover>>

RestartProxy ==
    /\ pc = "restart proxy"
    /\ pc' = "crowdsec"
    /\ Started
    /\ UNCHANGED <<docker, vhost, certified, command, commands, faults, beliefs, leftover>>

\* CrowdSec may not be installed.
CrowdsecLogs ==
    /\ pc = "crowdsec"
    /\ Returns
    /\ UNCHANGED <<docker, nginx, faults, beliefs, rejected, leftover>>

SetupFails ==
    /\ \E from \in {"network", "config", "copy", "restart proxy"} : Fails(from)
    /\ UNCHANGED <<docker, nginx, rejected, leftover>>

-----------------------------------------------------------------------------
\* The agent is killed in the middle of a command, which is not repeated.
Kill ==
    /\ Fault
    /\ pc # "idle"
    /\ GivesUp
    /\ leftover' = IF pc = "forget" THEN leftover \union {command.domain} ELSE leftover
    /\ UNCHANGED <<docker, nginx, rejected>>

\* Docker starts what was not stopped; nginx loads its files.
Reboot ==
    /\ Fault
    /\ pc = "idle"
    /\ IF proxy \in {"running", "crashing"} THEN Started
                                            ELSE UNCHANGED <<proxy, served, unasked, rejected>>
    /\ UNCHANGED <<docker, vhost, certified, command, pc, commands, beliefs, leftover>>

Next ==
    \/ Begin \/ Refuse
    \/ Login \/ Pull \/ PullFails \/ Remove \/ Limits \/ Run \/ RunFails
    \/ RestartOrStop \/ RestartOrStopFails
    \/ Delete \/ DeleteFails \/ DeletedWithoutDomain \/ DomainRefused
    \/ Unlink \/ UnlinkFails \/ Forget
    \/ WriteVhost \/ WriteVhostFails \/ Reload \/ ReloadFails
    \/ EnsureNetwork \/ WriteConfig \/ EnsureRunning \/ EnsureRunningFails
    \/ CopyRedirector \/ RestartProxy \/ CrowdsecLogs \/ SetupFails
    \/ Answer \/ Kill \/ Reboot

Spec == Init /\ [][Next]_vars

-----------------------------------------------------------------------------
(* What holds                                                              *)

\* Past the point where it touches the container, a command is under way.
Replacing(n) ==
    /\ command # NoCommand
    /\ command.type \in {"deploy", "delete"} /\ command.name = n
    /\ pc \in {"limits", "run", "unlink", "forget", "reload"}

\* A container is what the last successful report made of it, as long as no
\* command on it went wrong later than docker pull: other commands, kills and
\* reboots do not change it, and neither does a deployment that cannot be had.
ReportedContainers ==
    \A n \in Names : believed[n] = container[n] \/ believed[n] = Unknown \/ Replacing(n)

\* A domain is served by the container it was last attached to, and by none when
\* it was deleted, provided it has a certificate, nginx runs, is done with asking
\* and has never refused its files: attach_domain_ssl does not notice that.
ReportedDomains ==
    \A d \in Domains :
        \/ attached[d] = "unknown"
        \/ command # NoCommand /\ command.type \in {"attach", "delete"} /\ command.domain = d
        \/ /\ vhost[d] = attached[d]
           /\ proxy = "running" /\ ~asking /\ ~rejected
                => served[d] = IF d \in certified THEN attached[d] ELSE None

\* What was last reported of containers and domains holds.
ReportsHold == ReportedContainers /\ ReportedDomains

\* The comment in deleteApp: no certificate is kept for a domain without a file.
\* One is only after a best-effort rm that failed, a kill just before it, or a
\* certificate that came after it.
NoOrphanCertificate ==
    \A d \in certified : vhost[d] = None => d \in leftover \/ Forgetting(d)
=============================================================================
