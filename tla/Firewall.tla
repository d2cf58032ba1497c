------------------------------ MODULE Firewall ------------------------------
(***************************************************************************)
(* harden_firewall and set_firewall_rule (internal/executor/firewall.go)   *)
(* on the three families of distributions, with the firewalls they drive.  *)
(*                                                                         *)
(* An executor is a list of program invocations, run one after the other   *)
(* until one of them fails.  Between two of them the machine is reachable  *)
(* or not, the agent may be killed and the machine may be rebooted.        *)
(***************************************************************************)
EXTENDS Integers, Sequences

CONSTANTS
    Families,       \* the families of distributions considered
    RequestedPorts, \* the ports that payloads name
    Protocols,      \* what payloads add to a port: nothing, "tcp" or "udp"
    MaxCommands,
    MaxFaults       \* failed programs, kills and reboots

HardenPorts == {22, 80, 443}
Valid(port) == port \in 1..65535
Ports == HardenPorts \union {p \in RequestedPorts : Valid(p)}

ASSUME FirewallAssumption ==
    /\ Families \subseteq {"debian", "rhel", "arch"}
    /\ RequestedPorts \subseteq Int
    /\ Protocols \subseteq {"none", "tcp", "udp"}
    /\ MaxCommands \in Nat
    /\ MaxFaults \in Nat

VARIABLES
    family,
    ufw,            \* Debian
    firewalld,      \* RHEL
    iptables,       \* Arch: of the accepting rules, how many there are for a port
    command,        \* the command being executed
    step,           \* the invocation that comes next
    commands,       \* how many commands were begun
    faults,
    hardened,       \* has a hardening succeeded?
    interrupted,    \* has a hardening been cut short?
    asked,          \* the last successful request for each port
    denied          \* the ports a deny was ever tried for

firewalls == <<ufw, firewalld, iptables>>
history == <<hardened, interrupted, asked, denied>>
vars == <<family, firewalls, command, step, commands, faults, history>>

NoCommand == [type |-> "none"]
Harden == [type |-> "harden"]
SetRule == [type : {"set"}, port : Ports, proto : {"none", "tcp", "udp"},
            action : {"allow", "deny"}]

UfwRule == [port : Ports, proto : {"none", "tcp", "udp"}, action : {"allow", "deny"}]

\* What firewalld lets in: a service, by its port, or a port with a protocol.
Entry == [kind : {"service"}, port : HardenPorts]
         \union [kind : {"tcp", "udp"}, port : Ports]

TypeOK ==
    /\ family \in Families
    /\ ufw \in [active : BOOLEAN, policy : {"allow", "deny"}, rules : Seq(UfwRule)]
    /\ firewalld \in [running : BOOLEAN, permanent : SUBSET Entry, runtime : SUBSET Entry]
    /\ iptables \in [policy : {"ACCEPT", "DROP"}, established : BOOLEAN, accepted : [Ports -> Nat]]
    /\ command \in {NoCommand, Harden} \union SetRule
    /\ step \in 0..9
    /\ commands \in 0..MaxCommands
    /\ faults \in 0..MaxFaults
    /\ hardened \in BOOLEAN
    /\ interrupted \in BOOLEAN
    /\ asked \in [Ports -> {"nothing", "unknown", "allow", "deny"}]
    /\ denied \in SUBSET Ports
    /\ command = NoCommand <=> step = 0

\* A new machine: ufw is inactive, firewalld knows ssh, iptables accepts all.
Init ==
    /\ family \in Families
    /\ ufw = [active |-> FALSE, policy |-> "deny", rules |-> <<>>]
    /\ \E on \in BOOLEAN :
        firewalld = [running |-> on, permanent |-> {[kind |-> "service", port |-> 22]},
                                     runtime |-> {[kind |-> "service", port |-> 22]}]
    /\ iptables = [policy |-> "ACCEPT", established |-> FALSE, accepted |-> [p \in Ports |-> 0]]
    /\ command = NoCommand
    /\ step = 0
    /\ commands = 0
    /\ faults = 0
    /\ hardened = FALSE
    /\ interrupted = FALSE
    /\ asked = [p \in Ports |-> "nothing"]
    /\ denied = {}

-----------------------------------------------------------------------------
(* What the firewalls let in                                               *)

\* The first rule for the port decides.
UfwOpen(port) ==
    LET hits == {i \in DOMAIN ufw.rules :
                    ufw.rules[i].port = port /\ ufw.rules[i].proto \in {"none", "tcp"}}
    IN  \/ ~ufw.active
        \/ hits = {} /\ ufw.policy = "allow"
        \/ \E i \in hits : \A j \in hits : j <= i => ufw.rules[j].action = "allow"

FirewalldOpen(port) ==
    firewalld.running => \E e \in firewalld.runtime : e.port = port /\ e.kind # "udp"

IptablesOpen(port) ==
    iptables.policy = "DROP" => iptables.accepted[port] > 0

\* Does a new TCP connection to the port get through?
Open(port) ==
    CASE family = "debian" -> UfwOpen(port)
      [] family = "rhel" -> FirewalldOpen(port)
      [] family = "arch" -> IptablesOpen(port)

\* Is what is not allowed kept out?
Filtering ==
    CASE family = "debian" -> ufw.active /\ ufw.policy = "deny"
      [] family = "rhel" -> firewalld.running
      [] family = "arch" -> iptables.policy = "DROP"

\* Do the answers to the agent's own requests get through?
AnswersArrive == family = "arch" => iptables.policy = "ACCEPT" \/ iptables.established

-----------------------------------------------------------------------------
(* Program invocations, and what each does                                 *)

Does(op) == [op |-> op]
Ufw(action, port, proto) == [op |-> "ufw", action |-> action, port |-> port, proto |-> proto]
Permanent(flag, kind, port) ==
    [op |-> "permanent", flag |-> flag, entry |-> [kind |-> kind, port |-> port]]
Accept(flag, port) == [op |-> "iptables", flag |-> flag, port |-> port]

\* Mutant: ufw is enabled before it lets ssh in.
DebianEnabledFirst ==
    << Does("ufw default deny"), Does("--force enable"), Does("ufw default allow outgoing"),
       Ufw("allow", 22, "tcp"), Ufw("allow", 80, "tcp"), Ufw("allow", 443, "tcp") >>

hardenFirewallDebian ==
    << Does("ufw default deny"), Does("ufw default allow outgoing"),
       Ufw("allow", 22, "tcp"), Ufw("allow", 80, "tcp"), Ufw("allow", 443, "tcp"),
       Does("--force enable") >>

\* Mutant: the permanent rules are not loaded.
RHELNotReloaded ==
    << Does("enable --now firewalld"), Permanent("--add", "service", 22),
       Permanent("--add", "service", 80), Permanent("--add", "service", 443) >>

hardenFirewallRHEL ==
    << Does("enable --now firewalld"), Permanent("--add", "service", 22),
       Permanent("--add", "service", 80), Permanent("--add", "service", 443),
       Does("--reload") >>

\* Mutant: answers are not let in.
ArchWithoutEstablished ==
    << Does("pacman -S iptables"), Does("-P INPUT DROP"), Does("-P OUTPUT ACCEPT"),
       Does("-A INPUT -i lo"), Accept("-A", 22), Accept("-A", 80), Accept("-A", 443) >>

hardenFirewallArch ==
    << Does("pacman -S iptables"), Does("-P INPUT DROP"), Does("-P OUTPUT ACCEPT"),
       Does("-A INPUT -i lo"), Does("-A INPUT ESTABLISHED,RELATED"),
       Accept("-A", 22), Accept("-A", 80), Accept("-A", 443) >>

setFirewallRuleDebian(c) == << Ufw(c.action, c.port, c.proto) >>

\* Mutant: the permanent rule is not loaded.
RuleRHELNotReloaded(c) ==
    << Permanent(IF c.action = "deny" THEN "--remove" ELSE "--add",
                 IF c.proto = "none" THEN "tcp" ELSE c.proto, c.port) >>

setFirewallRuleRHEL(c) ==
    << Permanent(IF c.action = "deny" THEN "--remove" ELSE "--add",
                 IF c.proto = "none" THEN "tcp" ELSE c.proto, c.port),
       Does("--reload") >>

\* The protocol of the payload is dropped.
setFirewallRuleArch(c) == << Accept(IF c.action = "deny" THEN "-D" ELSE "-A", c.port) >>

Invocations(c) ==
    CASE family = "debian" -> IF c = Harden THEN hardenFirewallDebian ELSE setFirewallRuleDebian(c)
      [] family = "rhel" -> IF c = Harden THEN hardenFirewallRHEL ELSE setFirewallRuleRHEL(c)
      [] family = "arch" -> IF c = Harden THEN hardenFirewallArch ELSE setFirewallRuleArch(c)

Invocation == Invocations(command)[step]

\* ufw changes the rule for the same port and protocol, if there is one.
WithRule(rules, new) ==
    IF \E i \in DOMAIN rules : rules[i].port = new.port /\ rules[i].proto = new.proto
    THEN [i \in DOMAIN rules |->
            IF rules[i].port = new.port /\ rules[i].proto = new.proto THEN new ELSE rules[i]]
    ELSE Append(rules, new)

UfwAfter(i) ==
    CASE i.op = "ufw default deny" -> [ufw EXCEPT !.policy = "deny"]
      [] i.op = "--force enable" -> [ufw EXCEPT !.active = TRUE]
      [] i.op = "ufw" -> [ufw EXCEPT !.rules = WithRule(@,
                            [port |-> i.port, proto |-> i.proto, action |-> i.action])]
      [] OTHER -> ufw

FirewalldAfter(i) ==
    CASE i.op = "enable --now firewalld" ->
            [firewalld EXCEPT !.running = TRUE,
                !.runtime = IF firewalld.running THEN @ ELSE firewalld.permanent]
      [] i.op = "permanent" ->
            [firewalld EXCEPT !.permanent =
                IF i.flag = "--add" THEN @ \union {i.entry} ELSE @ \ {i.entry}]
      [] i.op = "--reload" -> [firewalld EXCEPT !.runtime = firewalld.permanent]
      [] OTHER -> firewalld

\* Every -A INPUT adds a rule, every -D takes one away; all of them accept.
IptablesAfter(i) ==
    CASE i.op = "-P INPUT DROP" -> [iptables EXCEPT !.policy = "DROP"]
      [] i.op = "-A INPUT ESTABLISHED,RELATED" -> [iptables EXCEPT !.established = TRUE]
      [] i.op = "iptables" /\ i.flag = "-A" -> [iptables EXCEPT !.accepted[i.port] = @ + 1]
      [] i.op = "iptables" /\ i.flag = "-D" -> [iptables EXCEPT !.accepted[i.port] = @ - 1]
      [] OTHER -> iptables

\* firewall-cmd needs a running daemon, -D a rule to delete.
Works(i) ==
    /\ i.op \in {"permanent", "--reload"} => firewalld.running
    /\ i.op = "iptables" => i.flag = "-A" \/ iptables.accepted[i.port] > 0

-----------------------------------------------------------------------------
(* The executors                                                           *)

Fault ==
    /\ faults < MaxFaults
    /\ faults' = faults + 1

CommandArrives ==
    /\ command = NoCommand
    /\ commands < MaxCommands
    /\ commands' = commands + 1

HardenBegins ==
    /\ CommandArrives
    /\ command' = Harden
    /\ step' = 1
    /\ UNCHANGED <<family, firewalls, faults, history>>

RuleBegins ==
    /\ CommandArrives
    /\ \E port \in RequestedPorts, proto \in Protocols, action \in {"allow", "deny"} :
        /\ Valid(port)
        /\ command' = [type |-> "set", port |-> port, proto |-> proto, action |-> action]
        /\ asked' = [asked EXCEPT ![port] = "unknown"]
        /\ denied' = IF action = "deny" THEN denied \union {port} ELSE denied
    /\ step' = 1
    /\ UNCHANGED <<family, firewalls, faults, hardened, interrupted>>

\* A payload that names no port between 1 and 65535 is refused.
RuleRefused ==
    /\ CommandArrives
    /\ \E port \in RequestedPorts : ~Valid(port)
    /\ UNCHANGED <<family, firewalls, command, step, faults, history>>

\* Mutant: the command is over and its steps are not.
StepAfterEnd == step + 1

AfterEnd == 0

Invoke ==
    /\ command # NoCommand
    /\ Works(Invocation)
    /\ ufw' = UfwAfter(Invocation)
    /\ firewalld' = FirewalldAfter(Invocation)
    /\ iptables' = IptablesAfter(Invocation)
    /\ IF step < Len(Invocations(command))
       THEN /\ step' = step + 1
            /\ UNCHANGED <<command, history>>
       ELSE /\ step' = AfterEnd
            /\ command' = NoCommand
            /\ hardened' = (hardened \/ command = Harden)
            /\ asked' = IF command = Harden THEN asked
                        ELSE [asked EXCEPT ![command.port] = command.action]
            /\ UNCHANGED <<interrupted, denied>>
    /\ UNCHANGED <<family, commands, faults>>

GivenUp ==
    /\ command' = NoCommand
    /\ step' = 0
    /\ interrupted' = (interrupted \/ command = Harden)
    /\ UNCHANGED <<family, commands, hardened, asked, denied>>

\* The executor returns the error of its program; a killed agent forgets it all.
InvocationFails ==
    /\ command # NoCommand
    /\ IF Works(Invocation) THEN Fault ELSE UNCHANGED faults
    /\ GivenUp
    /\ UNCHANGED firewalls

\* ufw and firewalld come back as they are saved, iptables comes back empty.
Reboot ==
    /\ Fault
    /\ GivenUp
    /\ firewalld' = [firewalld EXCEPT !.runtime = firewalld.permanent]
    /\ iptables' = [policy |-> "ACCEPT", established |-> FALSE, accepted |-> [p \in Ports |-> 0]]
    /\ UNCHANGED ufw

Next ==
    \/ HardenBegins \/ RuleBegins \/ RuleRefused
    \/ Invoke \/ InvocationFails \/ Reboot

Spec == Init /\ [][Next]_vars

-----------------------------------------------------------------------------
(* What holds                                                              *)

\* On Debian and RHEL nobody is locked out: until someone asks to close port 22
\* it is open, before, between and after all steps, whatever fails.
SshNeverCut == family # "arch" /\ 22 \notin denied => Open(22)

\* On Debian and RHEL a hardening that succeeded lasts, through later commands
\* that fail, through kills and reboots: the rest is kept out, ssh and the web
\* are let in unless someone asked otherwise.
StaysHardened ==
    family # "arch" /\ hardened
        => Filtering /\ \A p \in HardenPorts \ denied : Open(p)

\* On Arch, where the policy is set first, the machine is out of reach, and the
\* agent with it, only while a hardening runs or after one was cut short.
CutOnlyMidway ==
    family = "arch" /\ (~AnswersArrive \/ (22 \notin denied /\ ~Open(22)))
        => command = Harden \/ interrupted

\* Hardening does not lock anyone out, the agent included.
NeverCutOff == SshNeverCut /\ CutOnlyMidway

\* On Debian and RHEL a port that was allowed is open, whatever was done to the
\* others since.  On Arch the next reboot forgets it.
AllowOpens == \A p \in Ports : family # "arch" /\ asked[p] = "allow" => Open(p)

\* On Debian and RHEL a port that was denied is closed, unless it is one of
\* those a hardening opens.
DenyCloses ==
    \A p \in Ports \ HardenPorts : family # "arch" /\ asked[p] = "deny" /\ Filtering => ~Open(p)

\* Whatever was done to the others since, the last request for a port holds.
LastRequestHolds == AllowOpens /\ DenyCloses

-----------------------------------------------------------------------------
(* What a comment says and the code does not do                            *)

\* A comment in setFirewallRule: the port may have /tcp or /udp.  What is asked
\* for UDP is not done to TCP.
UdpIsNotTcp ==
    [][\A c \in SetRule :
        command = c /\ c.proto = "udp" /\ step' = 0 /\ faults' = faults
            => Open(c.port)' = Open(c.port)]_vars
=============================================================================
