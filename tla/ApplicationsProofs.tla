-------------------------- MODULE ApplicationsProofs --------------------------
(***************************************************************************)
(* What Applications says of the commands on containers and domains, for   *)
(* every set of names, images and domains and every number of commands and *)
(* faults.                                                                 *)
(*                                                                         *)
(* That a report still holds when the next command comes rests on what     *)
(* each step of a command knows of the steps before it: the container a    *)
(* deletion has taken away, the file that was written or removed before    *)
(* nginx is told.  StepInv says this, and Served what nginx has loaded.    *)
(***************************************************************************)
EXTENDS Applications, TLAPS

\* The type invariant, by parts.
DockerOK ==
    /\ container \in [Names -> Containers]
    /\ pulled \in SUBSET Images
    /\ network \in BOOLEAN

NginxOK ==
    /\ proxy \in {"absent", "stopped", "running", "crashing"}
    /\ vhost \in [Domains -> Names \union {None, "broken"}]
    /\ served \in [Domains -> Names \union {None}]
    /\ certified \in SUBSET Domains
    /\ asked \in SUBSET Domains
    /\ asking \in BOOLEAN

FlowOK ==
    /\ command \in Command \union {NoCommand}
    /\ pc \in Steps \union {"idle"}
    /\ commands \in 0..MaxCommands
    /\ faults \in 0..MaxFaults
    /\ command = NoCommand <=> pc = "idle"

BeliefOK ==
    /\ believed \in [Names -> Containers \union {Unknown}]
    /\ attached \in [Domains -> Names \union {None, "unknown"}]
    /\ rejected \in BOOLEAN
    /\ leftover \in SUBSET Domains

\* What a step of a command knows.
StepInv ==
    /\ pc \in {"login", "pull", "remove", "limits", "run"} => command.type = "deploy"
    /\ pc = "restart" => command.type = "restart"
    /\ pc = "stop" => command.type = "stop"
    /\ pc \in {"delete", "unlink", "forget"} => command.type = "delete"
    /\ pc = "write" => command.type = "attach"
    /\ pc = "reload" => command.type \in {"attach", "delete"}
    /\ pc \in {"network", "config", "start", "copy", "restart proxy", "crowdsec"}
        => command.type = "setup"
    /\ pc \in {"unlink", "forget", "reload"} /\ command.type = "delete"
        => container[command.name] = Gone
    /\ pc \in {"forget", "reload"} => command.domain \in Domains
    /\ pc = "forget" => vhost[command.domain] = None
    /\ pc = "reload" =>
        vhost[command.domain] = IF command.type = "attach" THEN command.name ELSE None

\* The domain is being changed.
Changing(d) == pc \in {"forget", "reload"} /\ command.domain = d

\* nginx has loaded the file of the domain, if it is in a state to.
Served(d) ==
    /\ vhost[d] = attached[d]
    /\ proxy = "running" /\ ~asking /\ ~rejected
        => served[d] = IF d \in certified THEN attached[d] ELSE None

DomainInv == \A d \in Domains : attached[d] = "unknown" \/ Changing(d) \/ Served(d)

AInv ==
    /\ DockerOK /\ NginxOK /\ FlowOK /\ BeliefOK
    /\ StepInv /\ ReportedContainers /\ DomainInv /\ NoOrphanCertificate

-----------------------------------------------------------------------------
\* The parts make up the type invariant.
LEMMA TypeParts == TypeOK <=> DockerOK /\ NginxOK /\ FlowOK /\ BeliefOK
  BY DEF TypeOK, DockerOK, NginxOK, FlowOK, BeliefOK

\* The fields of a command.
LEMMA Commands ==
    ASSUME NEW c \in Command
    PROVE  /\ c # NoCommand
           /\ c.type \in {"deploy", "restart", "stop", "delete", "attach", "setup"}
           /\ c.type # "setup" => c.name \in Names
           /\ c.type = "deploy" => c.image \in Images
           /\ c.type = "attach" => c.domain \in Domains
           /\ c.type = "delete" => c.domain \in Domains \union {None}
  <1>1. NoCommand.type = "none"
    BY DEF NoCommand
  <1>2. CASE c \in [type : {"deploy"}, name : Names, image : Images, good : BOOLEAN]
    BY <1>1, <1>2
  <1>3. CASE c \in [type : {"restart", "stop"}, name : Names]
    BY <1>1, <1>3
  <1>4. CASE c \in [type : {"delete"}, name : Names, domain : Domains \union {None}, good : BOOLEAN]
    BY <1>1, <1>4
  <1>5. CASE c \in [type : {"attach"}, name : Names, domain : Domains]
    BY <1>1, <1>5
  <1>6. CASE c \in [type : {"setup"}]
    BY <1>1, <1>6
  <1> QED
    BY <1>2, <1>3, <1>4, <1>5, <1>6 DEF Command

\* Between two steps of a command there is one.
LEMMA InCommand == FlowOK /\ pc # "idle" => command \in Command /\ command # NoCommand
  BY Commands DEF FlowOK

\* Nothing has happened yet.
LEMMA InitInv == Init => AInv
  <1> SUFFICES ASSUME Init PROVE AInv
    OBVIOUS
  <1>1. DockerOK
    BY DEF Init, DockerOK, Containers
  <1>2. NginxOK
    BY DEF Init, NginxOK
  <1>3. FlowOK
    BY ApplicationsAssumption DEF Init, FlowOK, ApplicationsAssumption
  <1>4. BeliefOK
    BY DEF Init, BeliefOK, Containers
  <1>5. StepInv
    BY DEF Init, StepInv
  <1>6. ReportedContainers /\ NoOrphanCertificate
    BY DEF Init, ReportedContainers, NoOrphanCertificate
  <1>7. DomainInv
    BY DEF Init, DomainInv, Served
  <1> QED
    BY <1>1, <1>2, <1>3, <1>4, <1>5, <1>6, <1>7 DEF AInv

\* Between two commands nothing is said of the steps, and nothing excused.
LEMMA Idle ==
    pc' = "idle" => /\ StepInv'
                    /\ \A n : ~Replacing(n)'
                    /\ \A d : ~Changing(d)' /\ ~Forgetting(d)'
  BY DEF StepInv, Replacing, Changing, Forgetting

\* What a step leaves alone keeps its type.
LEMMA TypesKept ==
    /\ DockerOK /\ UNCHANGED docker => DockerOK'
    /\ NginxOK /\ UNCHANGED nginx => NginxOK'
    /\ BeliefOK /\ UNCHANGED <<beliefs, rejected, leftover>> => BeliefOK'
  <1>1. DockerOK /\ UNCHANGED docker => DockerOK'
    BY DEF DockerOK, docker
  <1>2. NginxOK /\ UNCHANGED nginx => NginxOK'
    BY DEF NginxOK, nginx
  <1>3. BeliefOK /\ UNCHANGED <<beliefs, rejected, leftover>> => BeliefOK'
    BY DEF BeliefOK, beliefs
  <1> QED
    BY <1>1, <1>2, <1>3

\* Faults stay below their bound.
LEMMA FaultOK == FlowOK /\ (Fault \/ UNCHANGED faults) => faults' \in 0..MaxFaults
  BY ApplicationsAssumption DEF FlowOK, Fault, ApplicationsAssumption

\* A command goes on to its next step.
LEMMA FlowGoes ==
    ASSUME FlowOK, pc # "idle", pc' \in Steps, UNCHANGED <<command, commands>>,
           Fault \/ UNCHANGED faults
    PROVE  FlowOK'
  <1>1. command # NoCommand /\ command \in Command
    BY InCommand
  <1>2. pc' # "idle"
    BY DEF Steps
  <1> QED
    BY <1>1, <1>2, FaultOK DEF FlowOK

\* A command is over and forgotten.
LEMMA FlowReturns ==
    ASSUME FlowOK, Returns, Fault \/ UNCHANGED faults
    PROVE  FlowOK' /\ pc' = "idle" /\ command' = NoCommand
  BY FaultOK DEF FlowOK, Returns, AfterCommand

\* Steps that touch no container and know no less of them.
LEMMA ContainersKept ==
    ASSUME ReportedContainers, UNCHANGED <<container, believed>>,
           \A n \in Names : Replacing(n) => Replacing(n)'
    PROVE  ReportedContainers'
  BY DEF ReportedContainers

\* Steps that touch neither a file nor nginx.
LEMMA DomainsKept ==
    ASSUME DomainInv, UNCHANGED <<vhost, attached, proxy, served, certified, asking, rejected>>,
           \A d \in Domains : Changing(d) => Changing(d)'
    PROVE  DomainInv'
  BY DEF DomainInv, Served

\* Steps that touch neither a file nor a certificate.
LEMMA CertificatesKept ==
    ASSUME NoOrphanCertificate, UNCHANGED <<certified, vhost, leftover>>,
           \A d \in Domains : Forgetting(d) => Forgetting(d)', certified \in SUBSET Domains
    PROVE  NoOrphanCertificate'
  BY DEF NoOrphanCertificate

\* A command ends without a success: what it touched is not known any more.
LEMMA GivenUp ==
    ASSUME AInv, pc # "idle", GivesUp, Fault \/ UNCHANGED faults,
           \A n \in Names : \/ container'[n] = container[n]
                            \/ /\ n = command.name
                               /\ pc \in {"remove", "limits", "run", "restart", "stop", "delete"},
           \A d \in Domains : vhost'[d] = vhost[d] \/ (d = command.domain /\ pc = "write"),
           UNCHANGED <<served, certified, asking, rejected>>,
           proxy' = proxy \/ proxy' # "running",
           leftover' \in SUBSET Domains
    PROVE  FlowOK' /\ BeliefOK' /\ StepInv' /\ ReportedContainers' /\ DomainInv'
  <1> DEFINE touched == \/ pc \in {"remove", "limits", "run", "restart", "stop", "delete"}
                        \/ pc # "idle" /\ command.type = "delete"
  <1>1. FlowOK' /\ pc' = "idle" /\ command' = NoCommand
    BY FlowReturns DEF AInv, GivesUp
  <1>2. /\ believed' = IF touched THEN [believed EXCEPT ![command.name] = Unknown] ELSE believed
        /\ attached' = IF pc \in {"write", "unlink", "forget", "reload"}
                       THEN [attached EXCEPT ![command.domain] = "unknown"] ELSE attached
    BY DEF GivesUp
  <1>3. BeliefOK'
    <2>1. /\ believed \in [Names -> Containers \union {Unknown}] /\ rejected \in BOOLEAN
          /\ attached \in [Domains -> Names \union {None, "unknown"}]
      BY DEF AInv, BeliefOK
    <2>2. believed' \in [Names -> Containers \union {Unknown}]
      BY <1>2, <2>1
    <2>3. attached' \in [Domains -> Names \union {None, "unknown"}]
      BY <1>2, <2>1
    <2> QED
      BY <2>1, <2>2, <2>3 DEF BeliefOK
  <1>4. ASSUME NEW n \in Names
        PROVE  believed'[n] = container'[n] \/ believed'[n] = Unknown
    <2>1. believed[n] = container[n] \/ believed[n] = Unknown \/ Replacing(n)
      BY DEF AInv, ReportedContainers
    <2>2. believed \in [Names -> Containers \union {Unknown}]
      BY DEF AInv, BeliefOK
    <2>3. CASE touched /\ n = command.name
      BY <1>2, <2>2, <2>3
    <2>4. CASE touched /\ n # command.name
      <3>1. ~Replacing(n)
        BY <2>4 DEF Replacing
      <3> QED
        BY <1>2, <2>1, <2>2, <2>4, <3>1
    <2>5. CASE ~touched
      <3>1. ~Replacing(n)
        BY <2>5 DEF AInv, StepInv, Replacing
      <3>2. container'[n] = container[n]
        BY <2>5
      <3> QED
        BY <1>2, <2>1, <2>5, <3>1, <3>2
    <2> QED
      BY <2>3, <2>4, <2>5
  <1>5. ASSUME NEW d \in Domains
        PROVE  attached'[d] = "unknown" \/ Served(d)'
    <2>1. attached[d] = "unknown" \/ Changing(d) \/ Served(d)
      BY DEF AInv, DomainInv
    <2>2. attached \in [Domains -> Names \union {None, "unknown"}]
      BY DEF AInv, BeliefOK
    <2>3. CASE pc \in {"write", "unlink", "forget", "reload"} /\ d = command.domain
      BY <1>2, <2>2, <2>3
    <2>4. CASE ~(pc \in {"write", "unlink", "forget", "reload"} /\ d = command.domain)
      <3>1. attached'[d] = attached[d] /\ vhost'[d] = vhost[d] /\ ~Changing(d)
        BY <1>2, <2>2, <2>4 DEF Changing
      <3>2. Served(d) => Served(d)'
        BY <3>1 DEF Served
      <3> QED
        BY <2>1, <3>1, <3>2
    <2> QED
      BY <2>3, <2>4
  <1> QED
    BY <1>1, <1>3, <1>4, <1>5, Idle DEF ReportedContainers, DomainInv

-----------------------------------------------------------------------------
(* The actions                                                             *)

\* A command begins.
LEMMA BeginKeeps == AInv /\ Begin => AInv'
  <1> SUFFICES ASSUME AInv, Begin PROVE AInv'
    OBVIOUS
  <1>1. /\ pc = "idle" /\ command' \in Command /\ pc' = FirstStep(command')
        /\ commands' \in 0..MaxCommands /\ faults' = faults
        /\ UNCHANGED <<docker, nginx, beliefs, rejected, leftover>>
    BY ApplicationsAssumption DEF Begin, AInv, FlowOK, ApplicationsAssumption
  <1>2. /\ command' # NoCommand
        /\ command'.type \in {"deploy", "restart", "stop", "delete", "attach", "setup"}
    BY <1>1, Commands
  <1>3. \/ (pc' = "login" /\ command'.type = "deploy")
        \/ (pc' = "restart" /\ command'.type = "restart")
        \/ (pc' = "stop" /\ command'.type = "stop")
        \/ (pc' = "delete" /\ command'.type = "delete")
        \/ (pc' = "write" /\ command'.type = "attach")
        \/ (pc' = "network" /\ command'.type = "setup")
    BY <1>1, <1>2 DEF FirstStep
  <1>4. FlowOK'
    <2>1. pc' \in Steps /\ pc' # "idle"
      BY <1>3 DEF Steps
    <2> QED
      BY <1>1, <1>2, <2>1 DEF AInv, FlowOK
  <1>5. DockerOK' /\ NginxOK' /\ BeliefOK'
    BY <1>1, TypesKept DEF AInv
  <1>6. StepInv'
    BY <1>3 DEF StepInv
  <1>7. \A x : ~Replacing(x) /\ ~Changing(x) /\ ~Forgetting(x)
    BY <1>1 DEF Replacing, Changing, Forgetting
  <1>8. ReportedContainers' /\ DomainInv' /\ NoOrphanCertificate'
    <2>1. certified \in SUBSET Domains
      BY DEF AInv, NginxOK
    <2> QED
      BY <1>1, <1>7, <2>1, ContainersKept, DomainsKept, CertificatesKept DEF AInv, docker, nginx, beliefs
  <1> QED
    BY <1>4, <1>5, <1>6, <1>8 DEF AInv

\* A step that changes nothing but where the command is.
LEMMA NothingKeeps ==
    ASSUME AInv, UNCHANGED <<docker, nginx, beliefs, rejected, leftover>>, FlowOK', StepInv',
           \A n : Replacing(n) => Replacing(n)',
           \A d : Changing(d) => Changing(d)',
           \A d : Forgetting(d) => Forgetting(d)'
    PROVE  AInv'
  <1>1. DockerOK' /\ NginxOK' /\ BeliefOK'
    BY TypesKept DEF AInv
  <1>2. ReportedContainers' /\ DomainInv'
    BY ContainersKept, DomainsKept DEF AInv, docker, nginx, beliefs
  <1>3. certified \in SUBSET Domains
    BY DEF AInv, NginxOK
  <1>4. NoOrphanCertificate'
    BY <1>3, CertificatesKept DEF AInv, nginx
  <1> QED
    BY <1>1, <1>2, <1>4 DEF AInv

\* A payload or a login is refused.
LEMMA RefuseKeeps == AInv /\ Refuse => AInv'
  <1> SUFFICES ASSUME AInv, Refuse PROVE AInv'
    OBVIOUS
  <1>1. FlowOK' /\ pc' = "idle"
    BY FlowReturns DEF AInv, Refuse
  <1>2. \A x : ~Replacing(x) /\ ~Changing(x) /\ ~Forgetting(x)
    BY DEF Refuse, Replacing, Changing, Forgetting
  <1> QED
    BY <1>1, <1>2, Idle, NothingKeeps DEF Refuse

\* The logs of the proxy are handed to CrowdSec.
LEMMA CrowdsecLogsKeeps == AInv /\ CrowdsecLogs => AInv'
  <1> SUFFICES ASSUME AInv, CrowdsecLogs PROVE AInv'
    OBVIOUS
  <1>1. FlowOK' /\ pc' = "idle"
    BY FlowReturns DEF AInv, CrowdsecLogs
  <1>2. \A x : ~Replacing(x) /\ ~Changing(x) /\ ~Forgetting(x)
    BY DEF CrowdsecLogs, Replacing, Changing, Forgetting
  <1> QED
    BY <1>1, <1>2, Idle, NothingKeeps DEF CrowdsecLogs

\* The steps that prepare something the model has no state for.
LEMMA PreparationKeeps == AInv /\ (Login \/ WriteConfig \/ CopyRedirector) => AInv'
  <1> SUFFICES ASSUME AInv, Login \/ WriteConfig \/ CopyRedirector PROVE AInv'
    OBVIOUS
  <1>1. /\ UNCHANGED <<docker, nginx, leftover, command, commands, faults, beliefs, rejected>>
        /\ pc \in {"login", "config", "copy"}
        /\ pc = "login" => pc' = "pull"
        /\ pc = "config" => pc' = "start"
        /\ pc = "copy" => pc' = "restart proxy"
    BY DEF Login, WriteConfig, CopyRedirector, Goes
  <1>2. FlowOK'
    BY <1>1, FlowGoes DEF AInv, Steps
  <1>3. StepInv'
    BY <1>1 DEF AInv, StepInv
  <1>4. \A x : ~Replacing(x) /\ ~Changing(x) /\ ~Forgetting(x)
    BY <1>1 DEF Replacing, Changing, Forgetting
  <1> QED
    BY <1>1, <1>2, <1>3, <1>4, NothingKeeps

\* An image is pulled, the network is made: no container is touched.
LEMMA PullKeeps == AInv /\ (Pull \/ EnsureNetwork) => AInv'
  <1> SUFFICES ASSUME AInv, Pull \/ EnsureNetwork PROVE AInv'
    OBVIOUS
  <1>1. /\ UNCHANGED <<container, nginx, leftover, command, commands, faults, beliefs, rejected>>
        /\ pc \in {"pull", "network"}
        /\ pc = "pull" => pc' = "remove"
        /\ pc = "network" => pc' = "config"
    BY DEF Pull, EnsureNetwork, Goes
  <1>2. FlowOK'
    BY <1>1, FlowGoes DEF AInv, Steps
  <1>3. StepInv'
    BY <1>1 DEF AInv, StepInv
  <1>4. \A x : ~Replacing(x) /\ ~Changing(x) /\ ~Forgetting(x)
    BY <1>1 DEF Replacing, Changing, Forgetting
  <1>5. pulled' \in SUBSET Images /\ network' \in BOOLEAN
    <2>1. CASE Pull
      <3>1. command \in Command /\ command.type = "deploy"
        BY <2>1, InCommand DEF AInv, StepInv, Pull, Goes
      <3>2. command.image \in Images
        BY <3>1, Commands
      <3> QED
        BY <2>1, <3>2 DEF Pull, AInv, DockerOK
    <2>2. CASE EnsureNetwork
      BY <2>2 DEF EnsureNetwork, AInv, DockerOK
    <2> QED
      BY <2>1, <2>2
  <1>6. DockerOK' /\ NginxOK' /\ BeliefOK'
    BY <1>1, <1>5, TypesKept DEF AInv, DockerOK
  <1>7. ReportedContainers' /\ DomainInv'
    BY <1>1, <1>4, ContainersKept, DomainsKept DEF AInv, nginx, beliefs
  <1>8. certified \in SUBSET Domains
    BY DEF AInv, NginxOK
  <1>9. NoOrphanCertificate'
    BY <1>1, <1>4, <1>8, CertificatesKept DEF AInv, nginx
  <1> QED
    BY <1>2, <1>3, <1>6, <1>7, <1>9 DEF AInv

-----------------------------------------------------------------------------
(* Commands that end without a success                                     *)

\* Such a command leaves nginx as it is.
LEMMA GivenUpKeeps ==
    ASSUME AInv, pc # "idle", GivesUp, Fault \/ UNCHANGED faults, DockerOK',
           \A n \in Names : \/ container'[n] = container[n]
                            \/ /\ n = command.name
                               /\ pc \in {"remove", "limits", "run", "restart", "stop", "delete"},
           UNCHANGED <<nginx, rejected>>,
           leftover' \in SUBSET Domains, leftover \subseteq leftover',
           \A d \in Domains : Forgetting(d) => d \in leftover'
    PROVE  AInv'
  <1>1. FlowOK' /\ BeliefOK' /\ StepInv' /\ ReportedContainers' /\ DomainInv'
    BY GivenUp DEF nginx
  <1>2. NginxOK'
    BY TypesKept DEF AInv
  <1>3. NoOrphanCertificate'
    BY DEF AInv, NginxOK, NoOrphanCertificate, nginx
  <1> QED
    BY <1>1, <1>2, <1>3 DEF AInv

\* A program fails and has changed nothing.
LEMMA FailsKeeps ==
    AInv /\ (PullFails \/ UnlinkFails \/ ReloadFails \/ SetupFails) => AInv'
  <1> SUFFICES ASSUME AInv, PullFails \/ UnlinkFails \/ ReloadFails \/ SetupFails PROVE AInv'
    OBVIOUS
  <1>1. /\ UNCHANGED <<docker, nginx, rejected, leftover>>
        /\ GivesUp /\ (Fault \/ UNCHANGED faults)
        /\ pc # "idle" /\ pc # "forget"
    BY DEF PullFails, UnlinkFails, ReloadFails, SetupFails, Fails, Errs
  <1>2. DockerOK' /\ container' = container /\ leftover \in SUBSET Domains
    BY <1>1, TypesKept DEF AInv, docker, BeliefOK
  <1>3. \A d : ~Forgetting(d)
    BY <1>1 DEF Forgetting
  <1> QED
    BY <1>1, <1>2, <1>3, GivenUpKeeps

\* The limits of a container are refused.
LEMMA LimitsKeeps == AInv /\ Limits => AInv'
  <1> SUFFICES ASSUME AInv, Limits PROVE AInv'
    OBVIOUS
  <1>1. UNCHANGED <<docker, nginx, leftover, rejected>> /\ pc = "limits"
    BY DEF Limits, Goes, Errs
  <1>2. \A d : ~Forgetting(d) /\ ~Changing(d)
    BY <1>1 DEF Forgetting, Changing
  <1>3. CASE Goes("limits", "run")
    <2>1. FlowOK'
      BY <1>1, <1>3, FlowGoes DEF AInv, Goes, Steps
    <2>2. StepInv' /\ \A n : Replacing(n) => Replacing(n)'
      BY <1>1, <1>3 DEF AInv, StepInv, Goes, Replacing
    <2> QED
      BY <1>1, <1>2, <1>3, <2>1, <2>2, NothingKeeps DEF Goes
  <1>4. CASE Errs("limits")
    <2>1. DockerOK' /\ container' = container /\ leftover \in SUBSET Domains
      BY <1>1, TypesKept DEF AInv, docker, BeliefOK
    <2> QED
      BY <1>1, <1>2, <1>4, <2>1, GivenUpKeeps DEF Errs
  <1> QED
    BY <1>3, <1>4 DEF Limits

\* docker run, restart, stop or rm fails: whatever it has done to the container.
LEMMA ContainerFailsKeeps ==
    AInv /\ (RunFails \/ RestartOrStopFails \/ DeleteFails) => AInv'
  <1> SUFFICES ASSUME AInv, RunFails \/ RestartOrStopFails \/ DeleteFails PROVE AInv'
    OBVIOUS
  <1>1. /\ UNCHANGED <<pulled, network, nginx, rejected, leftover>>
        /\ GivesUp /\ (Fault \/ UNCHANGED faults)
        /\ pc \in {"run", "restart", "stop", "delete"}
    BY DEF RunFails, RestartOrStopFails, DeleteFails, Fails, Errs
  <1>2. command \in Command /\ (pc = "run" => command.type = "deploy")
        /\ (pc \in {"restart", "stop", "delete"} => command.type = pc)
    BY <1>1, InCommand DEF AInv, StepInv
  <1>3. /\ command.name \in Names
        /\ pc = "run" => command.image \in Images
    BY <1>1, <1>2, Commands
  <1>4. container \in [Names -> Containers]
    BY DEF AInv, DockerOK
  <1>5. \/ container' = container
        \/ \E c \in Containers : container' = [container EXCEPT ![command.name] = c]
    <2>1. CASE RunFails
      BY <1>1, <1>3, <2>1 DEF RunFails, Containers, Errs, Fails
    <2>2. CASE RestartOrStopFails
      <3>1. container[command.name] # Gone =>
                [container[command.name] EXCEPT !.state = "stopped"] \in Containers
        BY <1>3, <1>4 DEF Containers, Gone
      <3>2. \/ container' = container
            \/ /\ container[command.name] # Gone
               /\ container' = [container EXCEPT ![command.name].state = "stopped"]
        BY <2>2 DEF RestartOrStopFails
      <3> QED
        BY <3>1, <3>2
    <2>3. CASE DeleteFails
      BY <2>3 DEF DeleteFails, Containers
    <2> QED
      BY <2>1, <2>2, <2>3
  <1>6. container' \in [Names -> Containers]
    BY <1>4, <1>5
  <1>7. \A n \in Names : container'[n] = container[n] \/ n = command.name
    BY <1>4, <1>5
  <1>8. DockerOK'
    BY <1>1, <1>6 DEF AInv, DockerOK
  <1>9. leftover \in SUBSET Domains /\ \A d : ~Forgetting(d)
    BY <1>1 DEF AInv, BeliefOK, Forgetting
  <1> QED
    BY <1>1, <1>7, <1>8, <1>9, GivenUpKeeps

\* The agent is killed: the certificate a deletion had come to is left behind.
LEMMA KillKeeps == AInv /\ Kill => AInv'
  <1> SUFFICES ASSUME AInv, Kill PROVE AInv'
    OBVIOUS
  <1>1. /\ UNCHANGED <<docker, nginx, rejected>> /\ GivesUp /\ Fault /\ pc # "idle"
        /\ leftover' = IF pc = "forget" THEN leftover \union {command.domain} ELSE leftover
    BY DEF Kill
  <1>2. DockerOK' /\ container' = container
    BY <1>1, TypesKept DEF AInv, docker
  <1>3. leftover \in SUBSET Domains /\ (pc = "forget" => command.domain \in Domains)
    BY DEF AInv, BeliefOK, StepInv
  <1>4. \A d \in Domains : Forgetting(d) => d \in leftover'
    BY <1>1 DEF Forgetting
  <1> QED
    BY <1>1, <1>2, <1>3, <1>4, GivenUpKeeps

\* A file that was emptied and not written is still a file.
LEMMA WriteVhostFailsKeeps == AInv /\ WriteVhostFails => AInv'
  <1> SUFFICES ASSUME AInv, WriteVhostFails PROVE AInv'
    OBVIOUS
  <1>1. /\ UNCHANGED <<docker, proxy, served, certified, unasked, rejected, leftover>>
        /\ GivesUp /\ Fault /\ pc = "write"
        /\ vhost' \in {vhost, [vhost EXCEPT ![command.domain] = "broken"]}
    BY DEF WriteVhostFails, Fails
  <1>2. vhost \in [Domains -> Names \union {None, "broken"}] /\ leftover \in SUBSET Domains
    BY DEF AInv, NginxOK, BeliefOK
  <1>3. \A d \in Domains : vhost'[d] = vhost[d] \/ (d = command.domain /\ vhost'[d] = "broken")
    BY <1>1, <1>2
  <1>4. DockerOK' /\ container' = container
    BY <1>1, TypesKept DEF AInv, docker
  <1>5. FlowOK' /\ BeliefOK' /\ StepInv' /\ ReportedContainers' /\ DomainInv'
    BY <1>1, <1>2, <1>3, <1>4, GivenUp DEF unasked
  <1>6. NginxOK'
    BY <1>1, <1>2 DEF AInv, NginxOK, unasked
  <1>7. NoOrphanCertificate'
    <2>1. \A d \in Domains : vhost'[d] = None => vhost[d] = None
      BY <1>3, ApplicationsAssumption DEF ApplicationsAssumption
    <2> QED
      BY <1>1, <2>1 DEF AInv, NginxOK, NoOrphanCertificate, Forgetting
  <1> QED
    BY <1>4, <1>5, <1>6, <1>7 DEF AInv

\* The proxy container cannot be started.
LEMMA EnsureRunningFailsKeeps == AInv /\ EnsureRunningFails => AInv'
  <1> SUFFICES ASSUME AInv, EnsureRunningFails PROVE AInv'
    OBVIOUS
  <1>1. /\ UNCHANGED <<docker, vhost, served, certified, unasked, rejected, leftover>>
        /\ GivesUp /\ Fault /\ pc = "start"
        /\ proxy' = proxy \/ proxy' \in {"absent", "stopped"}
    BY DEF EnsureRunningFails, Fails
  <1>2. DockerOK' /\ container' = container /\ leftover \in SUBSET Domains
    BY <1>1, TypesKept DEF AInv, docker, BeliefOK
  <1>3. FlowOK' /\ BeliefOK' /\ StepInv' /\ ReportedContainers' /\ DomainInv'
    BY <1>1, <1>2, GivenUp DEF unasked
  <1>4. NginxOK'
    BY <1>1 DEF AInv, NginxOK, unasked
  <1>5. NoOrphanCertificate'
    BY <1>1 DEF AInv, NginxOK, NoOrphanCertificate, Forgetting
  <1> QED
    BY <1>2, <1>3, <1>4, <1>5 DEF AInv

-----------------------------------------------------------------------------
(* nginx                                                                   *)

\* What nginx loads are containers.
LEMMA LoadedType ==
    ASSUME NginxOK, NEW certificates, Loadable(certificates)
    PROVE  Loaded(certificates) \in [Domains -> Names \union {None}]
  BY DEF NginxOK, Loadable, Loaded

\* A start, or none: nginx has loaded its files, or is not up, or is asking.
LEMMA StartedKeeps ==
    ASSUME AInv, Started \/ UNCHANGED <<proxy, served, unasked, rejected>>,
           UNCHANGED <<docker, vhost, certified, beliefs, leftover>>, FlowOK', StepInv',
           \A x : ~Replacing(x) /\ ~Changing(x) /\ ~Forgetting(x)
    PROVE  AInv'
  <1>1. DockerOK'
    BY TypesKept DEF AInv
  <1>2. NginxOK'
    <2>1. NginxOK
      BY DEF AInv
    <2>2. CASE UNCHANGED <<proxy, served, unasked, rejected>>
      BY <2>1, <2>2 DEF NginxOK, unasked
    <2>3. CASE Started
      <3>1. proxy' \in {"running", "crashing"} /\ asking' \in BOOLEAN
        BY <2>3 DEF Started, Ask
      <3>2. served' \in [Domains -> Names \union {None}]
        BY <2>1, <2>3, LoadedType DEF Started
      <3>3. asked' \in SUBSET Domains
        BY <2>1, <2>3 DEF Started, Ask, NginxOK
      <3> QED
        BY <2>1, <3>1, <3>2, <3>3 DEF NginxOK
    <2> QED
      BY <2>2, <2>3
  <1>3. rejected' \in BOOLEAN
    <2>1. rejected \in BOOLEAN
      BY DEF AInv, BeliefOK
    <2>2. rejected' = rejected \/ rejected' = (rejected \/ ~Loadable(certified))
      BY DEF Started
    <2> QED
      BY <2>1, <2>2, Zenon
  <1>4. BeliefOK'
    BY <1>3 DEF AInv, BeliefOK, beliefs
  <1>5. ReportedContainers'
    BY DEF AInv, ReportedContainers, docker, beliefs
  <1>6. DomainInv'
    <2> SUFFICES ASSUME NEW d \in Domains
                 PROVE  (attached[d] = "unknown" \/ Served(d))'
      BY DEF DomainInv
    <2>1. attached[d] = "unknown" \/ Served(d)
      BY DEF AInv, DomainInv
    <2>2. CASE UNCHANGED <<proxy, served, unasked, rejected>>
      BY <2>1, <2>2 DEF Served, unasked, beliefs
    <2>3. CASE Started
      <3>1. proxy' # "running" \/ asking'
        BY <2>3 DEF Started, Ask
      <3> QED
        BY <2>1, <3>1 DEF Served, beliefs
    <2> QED
      BY <2>2, <2>3
  <1>7. NoOrphanCertificate'
    BY DEF AInv, NoOrphanCertificate
  <1> QED
    BY <1>1, <1>2, <1>4, <1>5, <1>6, <1>7 DEF AInv

\* The proxy is started by a command.
LEMMA StartKeeps == AInv /\ (EnsureRunning \/ RestartProxy) => AInv'
  <1> SUFFICES ASSUME AInv, EnsureRunning \/ RestartProxy PROVE AInv'
    OBVIOUS
  <1>1. /\ UNCHANGED <<docker, vhost, certified, command, commands, faults, beliefs, leftover>>
        /\ Started \/ UNCHANGED <<proxy, served, unasked, rejected>>
        /\ pc \in {"start", "restart proxy"}
        /\ pc = "start" => pc' = "copy"
        /\ pc = "restart proxy" => pc' = "crowdsec"
    BY DEF EnsureRunning, RestartProxy
  <1>2. FlowOK'
    BY <1>1, FlowGoes DEF AInv, Steps
  <1>3. StepInv'
    BY <1>1 DEF AInv, StepInv
  <1>4. \A x : ~Replacing(x) /\ ~Changing(x) /\ ~Forgetting(x)
    BY <1>1 DEF Replacing, Changing, Forgetting
  <1> QED
    BY <1>1, <1>2, <1>3, <1>4, StartedKeeps

\* The machine starts again.
LEMMA RebootKeeps == AInv /\ Reboot => AInv'
  <1> SUFFICES ASSUME AInv, Reboot PROVE AInv'
    OBVIOUS
  <1>1. /\ UNCHANGED <<docker, vhost, certified, command, pc, commands, beliefs, leftover>>
        /\ Started \/ UNCHANGED <<proxy, served, unasked, rejected>>
        /\ pc = "idle" /\ Fault
    BY DEF Reboot
  <1>2. FlowOK' /\ StepInv'
    BY <1>1, FaultOK, Idle DEF AInv, FlowOK
  <1>3. \A x : ~Replacing(x) /\ ~Changing(x) /\ ~Forgetting(x)
    BY <1>1 DEF Replacing, Changing, Forgetting
  <1> QED
    BY <1>1, <1>2, <1>3, StartedKeeps

\* Certificates come, or do not, and nginx loads its files or keeps what it has.
LEMMA AnswerKeeps == AInv /\ Answer => AInv'
  <1> SUFFICES ASSUME AInv, Answer PROVE AInv'
    OBVIOUS
  <1>1. /\ UNCHANGED <<docker, proxy, vhost, command, pc, commands, faults, beliefs>>
        /\ asking' = FALSE /\ asked' = {}
        /\ IF Loadable(certified')
           THEN served' = Loaded(certified') /\ UNCHANGED rejected
           ELSE rejected' = TRUE /\ UNCHANGED served
    BY DEF Answer
  <1>2. PICK new \in SUBSET asked :
            /\ certified' = certified \union new
            /\ leftover' = leftover \union {d \in new : vhost[d] = None /\ ~Forgetting(d)}
    BY DEF Answer
  <1>3. DockerOK' /\ FlowOK' /\ StepInv' /\ ReportedContainers'
    <2>1. DockerOK' /\ FlowOK'
      BY <1>1, TypesKept DEF AInv, FlowOK
    <2>2. StepInv'
      BY <1>1 DEF AInv, StepInv, docker
    <2>3. ReportedContainers'
      BY <1>1 DEF AInv, ReportedContainers, Replacing, docker, beliefs
    <2> QED
      BY <2>1, <2>2, <2>3
  <1>4. NginxOK'
    <2>1. served' \in [Domains -> Names \union {None}]
      BY <1>1, LoadedType DEF AInv, NginxOK
    <2>2. certified' \in SUBSET Domains
      BY <1>2 DEF AInv, NginxOK
    <2> QED
      BY <1>1, <2>1, <2>2 DEF AInv, NginxOK
  <1>5. BeliefOK'
    <2>1. rejected' \in BOOLEAN
      BY <1>1 DEF AInv, BeliefOK
    <2>2. leftover' \in SUBSET Domains
      BY <1>2 DEF AInv, BeliefOK, NginxOK
    <2> QED
      BY <1>1, <2>1, <2>2 DEF AInv, BeliefOK, beliefs
  <1>6. DomainInv'
    <2> SUFFICES ASSUME NEW d \in Domains
                 PROVE  (attached[d] = "unknown" \/ Changing(d) \/ Served(d))'
      BY DEF DomainInv
    <2>1. attached[d] = "unknown" \/ Changing(d) \/ Served(d)
      BY DEF AInv, DomainInv
    <2>2. Changing(d) => Changing(d)'
      BY <1>1 DEF Changing
    <2>3. CASE Loadable(certified')
      <3>1. served'[d] = IF vhost[d] # None /\ d \in certified' THEN vhost[d] ELSE None
        BY <1>1, <2>3 DEF Loaded, Enabled
      <3>2. Served(d) => Served(d)'
        BY <1>1, <3>1 DEF Served, beliefs
      <3> QED
        BY <1>1, <2>1, <2>2, <3>2 DEF beliefs
    <2>4. CASE ~Loadable(certified')
      <3>1. Served(d) => Served(d)'
        BY <1>1, <2>4 DEF Served, beliefs
      <3> QED
        BY <1>1, <2>1, <2>2, <3>1 DEF beliefs
    <2> QED
      BY <2>3, <2>4
  <1>7. NoOrphanCertificate'
    <2> SUFFICES ASSUME NEW d \in certified', vhost[d] = None, ~Forgetting(d)
                 PROVE  d \in leftover'
      BY <1>1 DEF NoOrphanCertificate, Forgetting
    <2> QED
      BY <1>2 DEF AInv, NoOrphanCertificate
  <1> QED
    BY <1>3, <1>4, <1>5, <1>6, <1>7 DEF AInv

-----------------------------------------------------------------------------
(* Steps that do what they are for                                         *)

\* A step on the container of the command leaves the others alone; nginx does not notice.
LEMMA ContainerChanges ==
    ASSUME AInv, pc # "idle", pc # "forget", pc # "reload", FlowOK', StepInv', command.name \in Names,
           NEW c \in Containers, container' \in {container, [container EXCEPT ![command.name] = c]},
           \/ /\ UNCHANGED beliefs
              /\ \A n \in Names : n = command.name => Replacing(n)'
           \/ /\ believed' = [believed EXCEPT ![command.name] = container'[command.name]]
              /\ UNCHANGED attached,
           UNCHANGED <<pulled, network, nginx, rejected, leftover>>
    PROVE  AInv'
  <1>1. /\ container \in [Names -> Containers]
        /\ believed \in [Names -> Containers \union {Unknown}]
    BY DEF AInv, DockerOK, BeliefOK
  <1>2. container' \in [Names -> Containers] /\ believed' \in [Names -> Containers \union {Unknown}]
    BY <1>1 DEF beliefs
  <1>3. DockerOK' /\ NginxOK' /\ BeliefOK'
    BY <1>2, TypesKept DEF AInv, DockerOK, BeliefOK, beliefs
  <1>4. ReportedContainers'
    <2> SUFFICES ASSUME NEW n \in Names
                 PROVE  (believed[n] = container[n] \/ believed[n] = Unknown \/ Replacing(n))'
      BY DEF ReportedContainers
    <2>1. believed[n] = container[n] \/ believed[n] = Unknown \/ Replacing(n)
      BY DEF AInv, ReportedContainers
    <2>2. CASE n = command.name
      <3>1. believed' = [believed EXCEPT ![n] = container'[n]] => believed'[n] = container'[n]
        BY <1>1, <2>2
      <3> QED
        BY <2>2, <3>1
    <2>3. CASE n # command.name
      <3>1. container'[n] = container[n] /\ believed'[n] = believed[n] /\ ~Replacing(n)
        BY <1>1, <2>3 DEF beliefs, Replacing
      <3> QED
        BY <2>1, <3>1
    <2> QED
      BY <2>2, <2>3
  <1>5. \A d : ~Changing(d) /\ ~Forgetting(d)
    BY DEF Changing, Forgetting
  <1>6. DomainInv' /\ NoOrphanCertificate'
    BY <1>5 DEF AInv, DomainInv, Served, NoOrphanCertificate, NginxOK, nginx, beliefs
  <1> QED
    BY <1>3, <1>4, <1>6 DEF AInv

\* The old container is removed, or docker rm fails and nobody notices.
LEMMA RemoveKeeps == AInv /\ Remove => AInv'
  <1> SUFFICES ASSUME AInv, Remove PROVE AInv'
    OBVIOUS
  <1>1. /\ UNCHANGED <<pulled, network, nginx, command, commands, beliefs, rejected, leftover>>
        /\ pc = "remove" /\ pc' = "limits" /\ (Fault \/ UNCHANGED faults)
        /\ container' \in {container, [container EXCEPT ![command.name] = Gone]}
    BY DEF Remove
  <1>2. command \in Command /\ command # NoCommand /\ command.type = "deploy"
    BY <1>1, InCommand DEF AInv, StepInv
  <1>3. command.name \in Names
    BY <1>2, Commands
  <1>4. FlowOK' /\ StepInv'
    BY <1>1, <1>2, FlowGoes DEF AInv, Steps, StepInv
  <1>5. \A n \in Names : n = command.name => Replacing(n)'
    BY <1>1, <1>2 DEF Replacing
  <1> QED
    BY <1>1, <1>3, <1>4, <1>5, ContainerChanges DEF Containers

\* The container of a deletion is gone.
LEMMA DeleteKeeps == AInv /\ Delete => AInv'
  <1> SUFFICES ASSUME AInv, Delete PROVE AInv'
    OBVIOUS
  <1>1. /\ UNCHANGED <<pulled, network, nginx, command, commands, faults, beliefs, rejected, leftover>>
        /\ pc = "delete" /\ pc' = "unlink"
        /\ container' = [container EXCEPT ![command.name] = Gone]
    BY DEF Delete, Goes
  <1>2. command \in Command /\ command # NoCommand /\ command.type = "delete"
    BY <1>1, InCommand DEF AInv, StepInv
  <1>3. command.name \in Names
    BY <1>2, Commands
  <1>4. container'[command.name] = Gone
    BY <1>1, <1>3 DEF AInv, DockerOK
  <1>5. FlowOK' /\ StepInv'
    BY <1>1, <1>2, <1>4, FlowGoes DEF AInv, Steps, StepInv
  <1>6. \A n \in Names : n = command.name => Replacing(n)'
    BY <1>1, <1>2 DEF Replacing
  <1> QED
    BY <1>1, <1>3, <1>5, <1>6, ContainerChanges DEF Containers

\* docker run is done.
LEMMA RunKeeps == AInv /\ Run => AInv'
  <1> SUFFICES ASSUME AInv, Run PROVE AInv'
    OBVIOUS
  <1> DEFINE new == [state |-> "running", image |-> command.image]
  <1>1. /\ UNCHANGED <<pulled, network, nginx, rejected, leftover, attached, faults>>
        /\ pc = "run" /\ Returns
        /\ container' = [container EXCEPT ![command.name] = new]
        /\ believed' = [believed EXCEPT ![command.name] = new]
    BY DEF Run, ReportsContainer
  <1>2. command \in Command /\ command.type = "deploy"
    BY <1>1, InCommand DEF AInv, StepInv
  <1>3. command.name \in Names /\ new \in Containers
    BY <1>2, Commands DEF Containers
  <1>4. FlowOK' /\ StepInv'
    BY <1>1, FlowReturns, Idle DEF AInv
  <1>5. container'[command.name] = new
    BY <1>1, <1>3 DEF AInv, DockerOK
  <1> QED
    BY <1>1, <1>3, <1>4, <1>5, ContainerChanges

\* docker restart or stop is done.
LEMMA RestartOrStopKeeps == AInv /\ RestartOrStop => AInv'
  <1> SUFFICES ASSUME AInv, RestartOrStop PROVE AInv'
    OBVIOUS
  <1> DEFINE new == [container[command.name] EXCEPT !.state =
                        IF pc = "stop" THEN "stopped" ELSE "running"]
  <1>1. /\ UNCHANGED <<pulled, network, nginx, rejected, leftover, attached, faults>>
        /\ pc \in {"restart", "stop"} /\ Returns /\ container[command.name] # Gone
        /\ container' = [container EXCEPT ![command.name] = new]
        /\ believed' = [believed EXCEPT ![command.name] = new]
    BY DEF RestartOrStop, ReportsContainer
  <1>2. command \in Command /\ command.type = pc
    BY <1>1, InCommand DEF AInv, StepInv
  <1>3. command.name \in Names
    BY <1>1, <1>2, Commands
  <1>4. new \in Containers
    <2>1. container[command.name] \in [state : {"running", "stopped"}, image : Images]
      BY <1>1, <1>3 DEF AInv, DockerOK, Containers
    <2> QED
      BY <2>1 DEF Containers
  <1>5. FlowOK' /\ StepInv'
    BY <1>1, FlowReturns, Idle DEF AInv
  <1>6. container'[command.name] = new
    BY <1>1, <1>3 DEF AInv, DockerOK
  <1> QED
    BY <1>1, <1>3, <1>4, <1>5, <1>6, ContainerChanges

\* A deletion ends where a domain would be looked after.
LEMMA DeletedKeeps == AInv /\ (DeletedWithoutDomain \/ DomainRefused) => AInv'
  <1> SUFFICES ASSUME AInv, DeletedWithoutDomain \/ DomainRefused PROVE AInv'
    OBVIOUS
  <1>1. /\ UNCHANGED <<docker, nginx, rejected, leftover, attached, faults>>
        /\ pc = "unlink" /\ Returns
        /\ believed' \in {[believed EXCEPT ![command.name] = Gone],
                          [believed EXCEPT ![command.name] = Unknown]}
    BY DEF DeletedWithoutDomain, DomainRefused, ReportsContainer
  <1>2. command \in Command /\ command.type = "delete" /\ container[command.name] = Gone
    BY <1>1, InCommand DEF AInv, StepInv
  <1>3. command.name \in Names
    BY <1>2, Commands
  <1>4. FlowOK' /\ StepInv'
    BY <1>1, FlowReturns, Idle DEF AInv
  <1>5. DockerOK' /\ NginxOK'
    BY <1>1, TypesKept DEF AInv
  <1>6. believed \in [Names -> Containers \union {Unknown}]
    BY DEF AInv, BeliefOK
  <1>7. BeliefOK'
    BY <1>1, <1>6 DEF AInv, BeliefOK, Containers
  <1>8. ReportedContainers'
    <2> SUFFICES ASSUME NEW n \in Names
                 PROVE  (believed[n] = container[n] \/ believed[n] = Unknown)'
      BY DEF ReportedContainers
    <2>1. CASE n = command.name
      BY <1>1, <1>2, <1>6, <2>1 DEF docker
    <2>2. CASE n # command.name
      <3>1. ~Replacing(n) /\ believed'[n] = believed[n]
        BY <1>1, <1>6, <2>2 DEF Replacing
      <3> QED
        BY <1>1, <3>1 DEF AInv, ReportedContainers, docker
    <2> QED
      BY <2>1, <2>2
  <1>9. DomainInv' /\ NoOrphanCertificate'
    BY <1>1 DEF AInv, DomainInv, Changing, Served, NoOrphanCertificate, Forgetting, NginxOK, nginx
  <1> QED
    BY <1>4, <1>5, <1>7, <1>8, <1>9 DEF AInv

\* The file of the domain is gone, its certificate is next.
LEMMA UnlinkKeeps == AInv /\ Unlink => AInv'
  <1> SUFFICES ASSUME AInv, Unlink PROVE AInv'
    OBVIOUS
  <1>1. /\ UNCHANGED <<docker, proxy, served, certified, unasked, leftover>>
        /\ UNCHANGED <<command, commands, faults, beliefs, rejected>>
        /\ pc = "unlink" /\ pc' = "forget" /\ command.domain # None
        /\ vhost' = [vhost EXCEPT ![command.domain] = None]
    BY DEF Unlink, Goes
  <1>2. /\ command \in Command /\ command.type = "delete" /\ command # NoCommand
        /\ container[command.name] = Gone
    BY <1>1, InCommand DEF AInv, StepInv
  <1>3. command.domain \in Domains
    BY <1>1, <1>2, Commands
  <1>4. vhost \in [Domains -> Names \union {None, "broken"}]
    BY DEF AInv, NginxOK
  <1>5. /\ vhost'[command.domain] = None
        /\ \A d \in Domains : d # command.domain => vhost'[d] = vhost[d]
    BY <1>1, <1>3, <1>4
  <1>6. DockerOK' /\ NginxOK' /\ BeliefOK' /\ FlowOK'
    BY <1>1, <1>4, TypesKept, FlowGoes DEF AInv, NginxOK, unasked, Steps
  <1>7. StepInv'
    BY <1>1, <1>2, <1>3, <1>5 DEF StepInv, docker
  <1>8. ReportedContainers'
    BY <1>1 DEF AInv, ReportedContainers, Replacing, docker, beliefs
  <1>9. DomainInv'
    <2> SUFFICES ASSUME NEW d \in Domains, d # command.domain
                 PROVE  (attached[d] = "unknown" \/ Served(d))'
      BY <1>1 DEF DomainInv, Changing
    <2>1. attached[d] = "unknown" \/ Served(d)
      BY <1>1 DEF AInv, DomainInv, Changing
    <2> QED
      BY <1>1, <1>5, <2>1 DEF Served, unasked, beliefs
  <1>10. NoOrphanCertificate'
    BY <1>1, <1>5 DEF AInv, NginxOK, NoOrphanCertificate, Forgetting
  <1> QED
    BY <1>6, <1>7, <1>8, <1>9, <1>10 DEF AInv

\* The certificate is gone, or left behind.
LEMMA ForgetKeeps == AInv /\ Forget => AInv'
  <1> SUFFICES ASSUME AInv, Forget PROVE AInv'
    OBVIOUS
  <1>1. /\ UNCHANGED <<docker, proxy, vhost, served, unasked, command, commands, beliefs, rejected>>
        /\ pc = "forget" /\ pc' = "reload" /\ (Fault \/ UNCHANGED faults)
        /\ \/ certified' = certified \ {command.domain} /\ UNCHANGED leftover
           \/ leftover' = leftover \union {command.domain} /\ UNCHANGED certified
    BY DEF Forget
  <1>2. /\ command \in Command /\ command.type = "delete" /\ command.domain \in Domains
        /\ vhost[command.domain] = None
    BY <1>1, InCommand DEF AInv, StepInv
  <1>3. DockerOK' /\ NginxOK' /\ FlowOK'
    BY <1>1, TypesKept, FlowGoes DEF AInv, NginxOK, unasked, Steps
  <1>4. BeliefOK'
    BY <1>1, <1>2 DEF AInv, BeliefOK, beliefs
  <1>5. StepInv'
    BY <1>1, <1>2 DEF AInv, StepInv, docker
  <1>6. ReportedContainers'
    BY <1>1 DEF AInv, ReportedContainers, Replacing, docker, beliefs
  <1>7. DomainInv'
    <2> SUFFICES ASSUME NEW d \in Domains, d # command.domain
                 PROVE  (attached[d] = "unknown" \/ Served(d))'
      BY <1>1 DEF DomainInv, Changing
    <2>1. attached[d] = "unknown" \/ Served(d)
      BY DEF AInv, DomainInv, Changing
    <2> QED
      BY <1>1, <2>1 DEF Served, unasked, beliefs
  <1>8. NoOrphanCertificate'
    BY <1>1 DEF AInv, NoOrphanCertificate, Forgetting
  <1> QED
    BY <1>3, <1>4, <1>5, <1>6, <1>7, <1>8 DEF AInv

\* The file of the domain names the container.
LEMMA WriteVhostKeeps == AInv /\ WriteVhost => AInv'
  <1> SUFFICES ASSUME AInv, WriteVhost PROVE AInv'
    OBVIOUS
  <1>1. /\ UNCHANGED <<docker, proxy, served, certified, unasked, leftover>>
        /\ UNCHANGED <<command, commands, faults, beliefs, rejected>>
        /\ pc = "write" /\ pc' = "reload"
        /\ vhost' = [vhost EXCEPT ![command.domain] = command.name]
    BY DEF WriteVhost, Goes
  <1>2. command \in Command /\ command.type = "attach"
    BY <1>1, InCommand DEF AInv, StepInv
  <1>3. command.domain \in Domains /\ command.name \in Names
    BY <1>2, Commands
  <1>4. vhost \in [Domains -> Names \union {None, "broken"}]
    BY DEF AInv, NginxOK
  <1>5. /\ vhost'[command.domain] = command.name
        /\ \A d \in Domains : d # command.domain => vhost'[d] = vhost[d]
    BY <1>1, <1>3, <1>4
  <1>6. DockerOK' /\ BeliefOK' /\ FlowOK'
    BY <1>1, TypesKept, FlowGoes DEF AInv, Steps
  <1>7. NginxOK'
    BY <1>1, <1>3, <1>4 DEF AInv, NginxOK, unasked
  <1>8. StepInv'
    BY <1>1, <1>2, <1>3, <1>5 DEF StepInv
  <1>9. ReportedContainers'
    BY <1>1 DEF AInv, ReportedContainers, Replacing, docker, beliefs
  <1>10. DomainInv'
    <2> SUFFICES ASSUME NEW d \in Domains, d # command.domain
                 PROVE  (attached[d] = "unknown" \/ Served(d))'
      BY <1>1 DEF DomainInv, Changing
    <2>1. attached[d] = "unknown" \/ Served(d)
      BY <1>1 DEF AInv, DomainInv, Changing
    <2> QED
      BY <1>1, <1>5, <2>1 DEF Served, unasked, beliefs
  <1>11. NoOrphanCertificate'
    <2>1. command.name # None
      BY <1>3, ApplicationsAssumption DEF ApplicationsAssumption
    <2> QED
      BY <1>1, <1>5, <2>1 DEF AInv, NginxOK, NoOrphanCertificate, Forgetting
  <1> QED
    BY <1>6, <1>7, <1>8, <1>9, <1>10, <1>11 DEF AInv

\* nginx is told: what is reported of the domain is in its file.
LEMMA ReloadKeeps == AInv /\ Reload => AInv'
  <1> SUFFICES ASSUME AInv, Reload PROVE AInv'
    OBVIOUS
  <1> DEFINE new == IF command.type = "attach" THEN command.name ELSE None
  <1>1. /\ UNCHANGED <<docker, proxy, vhost, served, certified, faults, rejected, leftover>>
        /\ pc = "reload" /\ Ask /\ Returns
        /\ attached' = [attached EXCEPT ![command.domain] = new]
        /\ believed' = IF command.type = "delete" THEN [believed EXCEPT ![command.name] = Gone]
                                                  ELSE believed
    BY DEF Reload
  <1>2. /\ command \in Command /\ command.type \in {"attach", "delete"}
        /\ command.domain \in Domains /\ vhost[command.domain] = new
        /\ command.type = "delete" => container[command.name] = Gone
    BY <1>1, InCommand DEF AInv, StepInv
  <1>3. command.name \in Names
    BY <1>2, Commands
  <1>4. FlowOK' /\ StepInv'
    BY <1>1, FlowReturns, Idle DEF AInv
  <1>5. DockerOK' /\ NginxOK'
    BY <1>1, TypesKept DEF AInv, NginxOK, Ask
  <1>6. /\ believed \in [Names -> Containers \union {Unknown}]
        /\ attached \in [Domains -> Names \union {None, "unknown"}]
    BY DEF AInv, BeliefOK
  <1>7. BeliefOK'
    <2>1. believed' \in [Names -> Containers \union {Unknown}]
      BY <1>1, <1>6 DEF Containers
    <2>2. attached' \in [Domains -> Names \union {None, "unknown"}]
      BY <1>1, <1>3, <1>6
    <2> QED
      BY <1>1, <2>1, <2>2 DEF AInv, BeliefOK
  <1>8. ReportedContainers'
    <2> SUFFICES ASSUME NEW n \in Names
                 PROVE  (believed[n] = container[n] \/ believed[n] = Unknown)'
      BY DEF ReportedContainers
    <2>1. CASE command.type = "delete" /\ n = command.name
      BY <1>1, <1>2, <1>6, <2>1 DEF docker
    <2>2. CASE ~(command.type = "delete" /\ n = command.name)
      <3>1. ~Replacing(n) /\ believed'[n] = believed[n]
        BY <1>1, <1>2, <1>6, <2>2 DEF Replacing
      <3> QED
        BY <1>1, <3>1 DEF AInv, ReportedContainers, docker
    <2> QED
      BY <2>1, <2>2
  <1>9. DomainInv'
    <2> SUFFICES ASSUME NEW d \in Domains
                 PROVE  (attached[d] = "unknown" \/ Served(d))'
      BY DEF DomainInv
    <2>1. CASE d = command.domain
      <3>1. vhost'[d] = attached'[d]
        BY <1>1, <1>2, <1>6, <2>1
      <3>2. asking'
        BY <1>1 DEF Ask
      <3> QED
        BY <3>1, <3>2 DEF Served
    <2>2. CASE d # command.domain
      <3>1. attached'[d] = attached[d] /\ ~Changing(d)
        BY <1>1, <1>6, <2>2 DEF Changing
      <3>2. asking'
        BY <1>1 DEF Ask
      <3> QED
        BY <1>1, <3>1, <3>2 DEF AInv, DomainInv, Served
    <2> QED
      BY <2>1, <2>2
  <1>10. NoOrphanCertificate'
    BY <1>1 DEF AInv, NoOrphanCertificate, Forgetting
  <1> QED
    BY <1>4, <1>5, <1>7, <1>8, <1>9, <1>10 DEF AInv

-----------------------------------------------------------------------------
(* Theorems                                                                *)

\* Every step keeps the invariant.
LEMMA NextKeeps == AInv /\ [Next]_vars => AInv'
  <1> SUFFICES ASSUME AInv, [Next]_vars PROVE AInv'
    OBVIOUS
  <1>1. CASE Begin \/ Refuse \/ CrowdsecLogs
    BY <1>1, BeginKeeps, RefuseKeeps, CrowdsecLogsKeeps
  <1>2. CASE Login \/ WriteConfig \/ CopyRedirector \/ Pull \/ EnsureNetwork
    BY <1>2, PreparationKeeps, PullKeeps
  <1>3. CASE PullFails \/ UnlinkFails \/ ReloadFails \/ SetupFails
    BY <1>3, FailsKeeps
  <1>4. CASE Limits \/ RunFails \/ RestartOrStopFails \/ DeleteFails
    BY <1>4, LimitsKeeps, ContainerFailsKeeps
  <1>5. CASE Kill \/ WriteVhostFails \/ EnsureRunningFails
    BY <1>5, KillKeeps, WriteVhostFailsKeeps, EnsureRunningFailsKeeps
  <1>6. CASE EnsureRunning \/ RestartProxy \/ Reboot \/ Answer
    BY <1>6, StartKeeps, RebootKeeps, AnswerKeeps
  <1>7. CASE Remove \/ Delete \/ Run \/ RestartOrStop \/ DeletedWithoutDomain \/ DomainRefused
    BY <1>7, RemoveKeeps, DeleteKeeps, RunKeeps, RestartOrStopKeeps, DeletedKeeps
  <1>8. CASE Unlink \/ Forget \/ WriteVhost \/ Reload
    BY <1>8, UnlinkKeeps, ForgetKeeps, WriteVhostKeeps, ReloadKeeps
  <1>9. CASE UNCHANGED vars
    <2>1. UNCHANGED <<docker, nginx, beliefs, rejected, leftover, command, pc, commands, faults>>
      BY <1>9 DEF vars, docker, nginx, beliefs
    <2>2. FlowOK' /\ StepInv'
      BY <2>1 DEF AInv, FlowOK, StepInv, docker, nginx
    <2> QED
      BY <2>1, <2>2, NothingKeeps DEF Replacing, Changing, Forgetting
  <1> QED
    BY <1>1, <1>2, <1>3, <1>4, <1>5, <1>6, <1>7, <1>8, <1>9 DEF Next

\* The commands on containers and domains keep the invariant, whichever programs
\* fail and wherever the agent is killed.
THEOREM Invariance == Spec => []AInv
  BY InitInv, NextKeeps, PTL DEF Spec

\* Every variable has its type.
THEOREM TypeCorrect == Spec => []TypeOK
  <1>1. AInv => TypeOK
    BY TypeParts DEF AInv
  <1> QED
    BY <1>1, Invariance, PTL

\* What the agent has reported of containers and domains holds until a command on
\* them goes wrong (deploy.go, delete.go, proxy.go).
THEOREM Truthful == Spec => []ReportsHold
  <1>1. AInv => ReportsHold
    <2> SUFFICES ASSUME AInv PROVE ReportsHold
      OBVIOUS
    <2>1. pc \in {"forget", "reload"}
            => command # NoCommand /\ command.type \in {"attach", "delete"}
      BY InCommand DEF AInv, StepInv
    <2>2. ReportedDomains
      BY <2>1 DEF AInv, DomainInv, Changing, Served, ReportedDomains
    <2> QED
      BY <2>2 DEF AInv, ReportsHold
  <1> QED
    BY <1>1, Invariance, PTL

\* A domain without a file keeps no certificate, but for one that the deletion could
\* not remove or that came after it (delete.go).
THEOREM CertificatesForgotten == Spec => []NoOrphanCertificate
  <1>1. AInv => NoOrphanCertificate
    BY DEF AInv
  <1> QED
    BY <1>1, Invariance, PTL
=============================================================================
