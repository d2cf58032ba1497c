---------------------------- MODULE FirewallProofs ----------------------------
(***************************************************************************)
(* What Firewall says of harden_firewall and set_firewall_rule, for every  *)
(* set of families, ports and protocols and every number of commands and   *)
(* faults: nobody is locked out, and a hardening lasts.  And, where no     *)
(* payload asks for UDP and those for ufw write a port in one way, that    *)
(* the last request for a port is what holds.                              *)
(*                                                                         *)
(* None of it is inductive by itself: that port 22 is open rests on which  *)
(* of its invocations a hardening has behind it, on what is saved to come  *)
(* back after a reboot, and on rules denying only what was asked to be     *)
(* denied.  FInv says this, family by family; AskedInv, that of the rules  *)
(* payloads asked for, a port has only the last.                           *)
(***************************************************************************)
EXTENDS Firewall, TLAPS

\* A command is at one of its invocations.
StepInv == command # NoCommand => step \in 1..Len(Invocations(command))

HasRule(p) == \E i \in DOMAIN ufw.rules : ufw.rules[i].port = p /\ ufw.rules[i].proto = "tcp"
Hardening(after) == command = Harden /\ step > after

\* The policy of ufw is never another, a rule denies what was asked to be denied,
\* and ufw is active only with the rules of a hardening.
DebianInv ==
    family = "debian" =>
        /\ ufw.policy = "deny"
        /\ \A i \in DOMAIN ufw.rules : ufw.rules[i].action = "deny" => ufw.rules[i].port \in denied
        /\ ufw.active \/ Hardening(3) => HasRule(22)
        /\ ufw.active \/ Hardening(4) => HasRule(80)
        /\ ufw.active \/ Hardening(5) => HasRule(443)
        /\ hardened => ufw.active

Service(p) == [kind |-> "service", port |-> p]

RHELInv ==
    family = "rhel" =>
        /\ Service(22) \in firewalld.permanent \intersect firewalld.runtime
        /\ hardened \/ Hardening(1) => firewalld.running
        /\ hardened \/ Hardening(3) => Service(80) \in firewalld.permanent
        /\ hardened \/ Hardening(4) => Service(443) \in firewalld.permanent
        /\ hardened => {Service(80), Service(443)} \subseteq firewalld.runtime

ArchInv ==
    family = "arch" /\ ~interrupted /\ iptables.policy = "DROP" =>
        /\ command # Harden \/ step > 5 => iptables.established
        /\ command # Harden \/ step > 6 => 22 \in denied \/ iptables.accepted[22] > 0

\* A request is open until it is done, and a deny counts from its beginning.
RequestInv ==
    command \in SetRule =>
        /\ asked[command.port] = "unknown"
        /\ command.action = "deny" => command.port \in denied

FInv == TypeOK /\ StepInv /\ RequestInv /\ DebianInv /\ RHELInv /\ ArchInv

-----------------------------------------------------------------------------
\* The ports, and the three that a hardening opens, are what they should be.
LEMMA PortsOK ==
    /\ \A p \in Ports : p \in Int /\ Valid(p)
    /\ HardenPorts \subseteq Ports
    /\ \A p \in HardenPorts : p = 22 \/ p = 80 \/ p = 443
    /\ 22 \in HardenPorts /\ 80 \in HardenPorts /\ 443 \in HardenPorts
  <1>1. HardenPorts \subseteq Int /\ RequestedPorts \subseteq Int
    BY FirewallAssumption DEF HardenPorts, FirewallAssumption
  <1>2. \A p \in HardenPorts : Valid(p)
    <2>1. Valid(22) /\ Valid(80) /\ Valid(443)
      BY DEF Valid
    <2> QED
      BY <2>1 DEF HardenPorts
  <1>3. \A p \in Ports : Valid(p)
    BY <1>2 DEF Ports
  <1> QED
    BY <1>1, <1>3 DEF Ports, HardenPorts

\* A hardening, a rule and no command are told apart, and a rule has its fields.
LEMMA CommandKinds ==
    /\ Harden # NoCommand
    /\ \A c \in SetRule : c # Harden /\ c # NoCommand /\ c.port \in Ports
                          /\ c.proto \in {"none", "tcp", "udp"} /\ c.action \in {"allow", "deny"}
  <1>1. Harden.type = "harden" /\ NoCommand.type = "none"
    BY DEF Harden, NoCommand
  <1>2. \A c \in SetRule : c.type = "set"
    BY DEF SetRule
  <1> QED
    BY <1>1, <1>2 DEF SetRule

\* The fields of an invocation.
LEMMA Operation ==
    ASSUME NEW i
    PROVE  /\ \A op : i = Does(op) => i.op = op
           /\ \A a, p, t : i = Ufw(a, p, t) => i.op = "ufw" /\ i.action = a /\ i.port = p /\ i.proto = t
           /\ \A f, k, p : i = Permanent(f, k, p) =>
                 i.op = "permanent" /\ i.flag = f /\ i.entry = [kind |-> k, port |-> p]
           /\ \A f, p : i = Accept(f, p) => i.op = "iptables" /\ i.flag = f /\ i.port = p
  BY DEF Does, Ufw, Permanent, Accept

\* What a hardening invokes on Debian.
LEMMA DebianHarden ==
    ASSUME family = "debian"
    PROVE  LET is == Invocations(Harden) IN
           /\ Len(is) = 6
           /\ is[1] = Does("ufw default deny") /\ is[2] = Does("ufw default allow outgoing")
           /\ is[3] = Ufw("allow", 22, "tcp") /\ is[4] = Ufw("allow", 80, "tcp")
           /\ is[5] = Ufw("allow", 443, "tcp") /\ is[6] = Does("--force enable")
  BY DEF Invocations, hardenFirewallDebian

\* What a hardening invokes on RHEL.
LEMMA RHELHarden ==
    ASSUME family = "rhel"
    PROVE  LET is == Invocations(Harden) IN
           /\ Len(is) = 5
           /\ is[1] = Does("enable --now firewalld") /\ is[2] = Permanent("--add", "service", 22)
           /\ is[3] = Permanent("--add", "service", 80)
           /\ is[4] = Permanent("--add", "service", 443) /\ is[5] = Does("--reload")
  BY DEF Invocations, hardenFirewallRHEL

\* What a hardening invokes on Arch.
LEMMA ArchHarden ==
    ASSUME family = "arch"
    PROVE  LET is == Invocations(Harden) IN
           /\ Len(is) = 8
           /\ is[1] = Does("pacman -S iptables") /\ is[2] = Does("-P INPUT DROP")
           /\ is[3] = Does("-P OUTPUT ACCEPT") /\ is[4] = Does("-A INPUT -i lo")
           /\ is[5] = Does("-A INPUT ESTABLISHED,RELATED")
           /\ is[6] = Accept("-A", 22) /\ is[7] = Accept("-A", 80) /\ is[8] = Accept("-A", 443)
  BY DEF Invocations, hardenFirewallArch

\* What a rule invokes.
LEMMA SetInvocations ==
    ASSUME NEW c \in SetRule
    PROVE  LET is == Invocations(c) IN
           /\ family = "debian" => Len(is) = 1 /\ is[1] = Ufw(c.action, c.port, c.proto)
           /\ family = "rhel" =>
                /\ Len(is) = 2 /\ is[2] = Does("--reload")
                /\ \E flag \in {"--add", "--remove"}, kind \in {"tcp", "udp"} :
                      /\ is[1] = Permanent(flag, kind, c.port)
                      /\ flag = "--remove" <=> c.action = "deny"
           /\ family = "arch" => 
                /\ Len(is) = 1
                /\ is[1] = Accept(IF c.action = "deny" THEN "-D" ELSE "-A", c.port)
  <1> USE CommandKinds DEF Invocations
  <1>1. CASE family = "debian"
    BY <1>1 DEF setFirewallRuleDebian
  <1>2. CASE family = "rhel"
    BY <1>2 DEF setFirewallRuleRHEL
  <1>3. CASE family = "arch"
    BY <1>3 DEF setFirewallRuleArch
  <1> QED
    BY <1>1, <1>2, <1>3

\* Every command has at least one invocation, and at most eight.
LEMMA HasSteps ==
    ASSUME TypeOK, NEW c \in {Harden} \union SetRule
    PROVE  Len(Invocations(c)) \in 1..8
  <1>1. family \in {"debian", "rhel", "arch"}
    BY FirewallAssumption DEF TypeOK, FirewallAssumption
  <1>2. CASE c = Harden
    <2>1. CASE family = "debian"
      <3> Len(Invocations(c)) = 6
        BY <2>1, <1>2, DebianHarden
      <3> QED
        OBVIOUS
    <2>2. CASE family = "rhel"
      <3> Len(Invocations(c)) = 5
        BY <2>2, <1>2, RHELHarden
      <3> QED
        OBVIOUS
    <2>3. CASE family = "arch"
      <3> Len(Invocations(c)) = 8
        BY <2>3, <1>2, ArchHarden
      <3> QED
        OBVIOUS
    <2> QED
      BY <1>1, <2>1, <2>2, <2>3
  <1>3. CASE c \in SetRule
    BY <1>1, <1>3, SetInvocations
  <1> QED
    BY <1>2, <1>3

\* What a command invokes does not change while it runs.
LEMMA StepsStay == family' = family => Invocations(command)' = Invocations(command')
  BY DEF Invocations

\* What ufw does to its rules.
LEMMA WithRuleKeeps ==
    ASSUME NEW rules \in Seq(UfwRule), NEW new \in UfwRule
    PROVE  LET r == WithRule(rules, new) IN
           /\ r \in Seq(UfwRule)
           /\ DOMAIN rules \subseteq DOMAIN r
           /\ \A i \in DOMAIN rules : r[i].port = rules[i].port /\ r[i].proto = rules[i].proto
           /\ \A i \in DOMAIN r : r[i] = new \/ (i \in DOMAIN rules /\ r[i] = rules[i])
           /\ \E i \in DOMAIN r : r[i] = new
  <1>1. CASE \E i \in DOMAIN rules : rules[i].port = new.port /\ rules[i].proto = new.proto
    <2>1. /\ DOMAIN WithRule(rules, new) = 1..Len(rules)
          /\ \A i \in 1..Len(rules) : WithRule(rules, new)[i] =
                IF rules[i].port = new.port /\ rules[i].proto = new.proto THEN new ELSE rules[i]
      BY <1>1 DEF WithRule
    <2>2. WithRule(rules, new) \in Seq(UfwRule)
      BY <1>1, <2>1 DEF WithRule
    <2> QED
      BY <1>1, <2>1, <2>2
  <1>2. CASE ~\E i \in DOMAIN rules : rules[i].port = new.port /\ rules[i].proto = new.proto
    <2>1. WithRule(rules, new) = Append(rules, new)
      BY <1>2 DEF WithRule
    <2> QED
      BY <2>1
  <1> QED
    BY <1>1, <1>2

-----------------------------------------------------------------------------
\* A new machine satisfies the strengthening.
LEMMA InitInv == Init => FInv
  <1> SUFFICES ASSUME Init PROVE FInv
    OBVIOUS
  <1> USE FirewallAssumption, PortsOK DEF FirewallAssumption, Init
  <1>1. ufw \in [active : BOOLEAN, policy : {"allow", "deny"}, rules : Seq(UfwRule)]
    OBVIOUS
  <1>2. firewalld \in [running : BOOLEAN, permanent : SUBSET Entry, runtime : SUBSET Entry]
    <2>1. [kind |-> "service", port |-> 22] \in Entry
      BY DEF Entry
    <2> QED
      BY <2>1
  <1>3. TypeOK
    <2>1. iptables \in [policy : {"ACCEPT", "DROP"}, established : BOOLEAN, accepted : [Ports -> Nat]]
      OBVIOUS
    <2>2. asked \in [Ports -> {"nothing", "unknown", "allow", "deny"}]
      OBVIOUS
    <2>3. hardened \in BOOLEAN /\ interrupted \in BOOLEAN
      BY Zenon
    <2>4. family \in Families /\ command = NoCommand /\ step = 0 /\ commands = 0 /\ faults = 0
          /\ denied = {}
      OBVIOUS
    <2> HIDE DEF Init
    <2> QED
      BY <1>1, <1>2, <2>1, <2>2, <2>3, <2>4 DEF TypeOK
  <1>4. DebianInv
    BY CommandKinds DEF DebianInv, HasRule, Hardening
  <1>5. RHELInv
    BY CommandKinds DEF RHELInv, Hardening, Service
  <1>6. ArchInv /\ StepInv
    BY DEF ArchInv, StepInv
  <1>7. RequestInv
    BY CommandKinds DEF RequestInv
  <1> QED
    BY <1>3, <1>4, <1>5, <1>6, <1>7 DEF FInv

\* A command begins: its first invocation comes next.
LEMMA BeginKeeps == FInv /\ (HardenBegins \/ RuleBegins \/ RuleRefused) => FInv'
  <1> SUFFICES ASSUME FInv, HardenBegins \/ RuleBegins \/ RuleRefused PROVE FInv'
    OBVIOUS
  <1> USE FirewallAssumption, PortsOK, CommandKinds DEF FirewallAssumption, FInv, CommandArrives
  <1>1. /\ command = NoCommand /\ step = 0
        /\ commands' \in 0..MaxCommands
        /\ UNCHANGED <<family, ufw, firewalld, iptables, faults, hardened, interrupted>>
        /\ denied \subseteq denied'
    BY DEF TypeOK, HardenBegins, RuleBegins, RuleRefused, firewalls, history
  <1>2. \/ command' \in {Harden} \union SetRule /\ step' = 1
        \/ command' = NoCommand /\ step' = 0
    <2>1. CASE RuleBegins
      BY <2>1 DEF RuleBegins, SetRule, Ports
    <2> QED
      BY <1>1, <2>1 DEF HardenBegins, RuleRefused
  <1>3. asked' \in [Ports -> {"nothing", "unknown", "allow", "deny"}] /\ denied' \in SUBSET Ports
    <2>1. CASE RuleBegins
      <3>1. PICK p \in RequestedPorts : /\ Valid(p)
                                        /\ asked' = [asked EXCEPT ![p] = "unknown"]
                                        /\ denied' \in {denied, denied \union {p}}
        BY <2>1 DEF RuleBegins
      <3>2. p \in Ports
        BY <3>1 DEF Ports
      <3> QED
        BY <3>1, <3>2 DEF TypeOK
    <2> QED
      BY <2>1 DEF TypeOK, HardenBegins, RuleRefused, history
  <1>4. TypeOK'
    BY <1>1, <1>2, <1>3 DEF TypeOK
  <1>5. StepInv'
    <2>1. command' # NoCommand => Len(Invocations(command')) \in 1..8 /\ step' = 1
      BY <1>1, <1>2, HasSteps
    <2>2. Len(Invocations(command))' = Len(Invocations(command'))
      BY <1>1, StepsStay
    <2>3. command' # NoCommand => step' \in 1..Len(Invocations(command))'
      BY <2>1, <2>2
    <2> QED
      BY <2>3 DEF StepInv
  <1>6. DebianInv'
    BY <1>1, <1>2 DEF DebianInv, HasRule, Hardening
  <1>7. RHELInv'
    BY <1>1, <1>2 DEF RHELInv, Hardening, Service
  <1>8. ArchInv'
    BY <1>1, <1>2 DEF ArchInv
  <1>9. RequestInv'
    <2>1. CASE RuleBegins
      <3>1. PICK p \in RequestedPorts, proto \in Protocols, action \in {"allow", "deny"} :
                /\ Valid(p)
                /\ command' = [type |-> "set", port |-> p, proto |-> proto, action |-> action]
                /\ asked' = [asked EXCEPT ![p] = "unknown"]
                /\ denied' = IF action = "deny" THEN denied \union {p} ELSE denied
        BY <2>1 DEF RuleBegins
      <3>2. command'.port = p /\ command'.action = action /\ asked'[p] = "unknown"
        BY <3>1 DEF TypeOK, Ports
      <3> QED
        BY <3>1, <3>2 DEF RequestInv
    <2> QED
      BY <1>1, <2>1 DEF HardenBegins, RuleRefused, RequestInv
  <1> QED
    BY <1>4, <1>5, <1>6, <1>7, <1>8, <1>9

\* A program fails, or the machine is rebooted: the command is given up.
LEMMA GivenUpKeeps == FInv /\ (InvocationFails \/ Reboot) => FInv'
  <1> SUFFICES ASSUME FInv, InvocationFails \/ Reboot PROVE FInv'
    OBVIOUS
  <1> USE FirewallAssumption, PortsOK, CommandKinds DEF FirewallAssumption, FInv, GivenUp
  <1>1. /\ command' = NoCommand /\ step' = 0
        /\ interrupted' = (interrupted \/ command = Harden)
        /\ faults' \in 0..MaxFaults
        /\ UNCHANGED <<family, commands, hardened, asked, denied, ufw>>
    BY DEF TypeOK, InvocationFails, Reboot, firewalls, Fault
  <1>2. \/ firewalld' = firewalld
        \/ firewalld' = [firewalld EXCEPT !.runtime = firewalld.permanent]
    BY DEF InvocationFails, Reboot, firewalls
  <1>3. \/ iptables' = iptables
        \/ iptables' = [policy |-> "ACCEPT", established |-> FALSE, accepted |-> [p \in Ports |-> 0]]
    BY DEF InvocationFails, Reboot, firewalls
  <1>4. firewalld' \in [running : BOOLEAN, permanent : SUBSET Entry, runtime : SUBSET Entry]
        /\ firewalld'.running = firewalld.running
        /\ firewalld'.permanent = firewalld.permanent
        /\ firewalld'.runtime \in {firewalld.runtime, firewalld.permanent}
    <2>1. firewalld \in [running : BOOLEAN, permanent : SUBSET Entry, runtime : SUBSET Entry]
      BY DEF TypeOK
    <2> QED
      BY <1>2, <2>1
  <1>5. iptables' \in [policy : {"ACCEPT", "DROP"}, established : BOOLEAN, accepted : [Ports -> Nat]]
        /\ (iptables' = iptables \/ iptables'.policy = "ACCEPT")
    <2>1. iptables \in [policy : {"ACCEPT", "DROP"}, established : BOOLEAN, accepted : [Ports -> Nat]]
      BY DEF TypeOK
    <2>2. [policy |-> "ACCEPT", established |-> FALSE, accepted |-> [p \in Ports |-> 0]]
            \in [policy : {"ACCEPT", "DROP"}, established : BOOLEAN, accepted : [Ports -> Nat]]
      OBVIOUS
    <2>3. CASE iptables' = iptables
      BY <2>1, <2>3, Zenon
    <2>4. CASE iptables' = [policy |-> "ACCEPT", established |-> FALSE,
                            accepted |-> [p \in Ports |-> 0]]
      <3>1. iptables'.policy = "ACCEPT"
        BY <2>4
      <3> QED
        BY <2>2, <2>4, <3>1, Zenon
    <2> QED
      BY <1>3, <2>3, <2>4
  <1>6. TypeOK'
    <2>1. interrupted \in BOOLEAN
      BY DEF TypeOK
    <2>2. interrupted' \in BOOLEAN
      BY <1>1, <2>1, Zenon
    <2> QED
      BY <1>1, <1>4, <1>5, <2>2 DEF TypeOK
  <1>7. StepInv'
    BY <1>1 DEF StepInv
  <1>8. DebianInv'
    BY <1>1 DEF DebianInv, HasRule, Hardening
  <1>9. RHELInv'
    BY <1>1, <1>4 DEF RHELInv, Hardening, Service
  <1>10. ArchInv'
    BY <1>1, <1>5 DEF ArchInv
  <1>11. RequestInv'
    BY <1>1 DEF RequestInv
  <1> QED
    BY <1>6, <1>7, <1>8, <1>9, <1>10, <1>11

-----------------------------------------------------------------------------
(* An invocation that works, on each family                                *)

\* Which invocation comes next on Debian.
LEMMA DebianAt ==
    ASSUME TypeOK, StepInv, command # NoCommand, family = "debian"
    PROVE  /\ command \in {Harden} \union SetRule /\ step \in Int
           /\ command = Harden =>
                /\ Len(Invocations(command)) = 6 /\ step \in 1..6
                /\ step = 1 => Invocation = Does("ufw default deny")
                /\ step = 2 => Invocation = Does("ufw default allow outgoing")
                /\ step = 3 => Invocation = Ufw("allow", 22, "tcp")
                /\ step = 4 => Invocation = Ufw("allow", 80, "tcp")
                /\ step = 5 => Invocation = Ufw("allow", 443, "tcp")
                /\ step = 6 => Invocation = Does("--force enable")
           /\ command \in SetRule =>
                /\ Len(Invocations(command)) = 1 /\ step = 1
                /\ Invocation = Ufw(command.action, command.port, command.proto)
  <1>0. command \in {Harden} \union SetRule /\ step \in Int
    BY DEF TypeOK
  <1>1. CASE command = Harden
    <2>1. Len(Invocations(command)) = 6
      BY <1>1, DebianHarden
    <2>2. step \in 1..6
      BY <2>1 DEF StepInv
    <2>3. Invocation = Invocations(Harden)[step]
      BY <1>1 DEF Invocation
    <2>4. step = 1 => Invocation = Does("ufw default deny")
      BY <2>3, DebianHarden
    <2>5. step = 2 => Invocation = Does("ufw default allow outgoing")
      BY <2>3, DebianHarden
    <2>6. step = 3 => Invocation = Ufw("allow", 22, "tcp")
      BY <2>3, DebianHarden
    <2>7. step = 4 => Invocation = Ufw("allow", 80, "tcp")
      <3>1. Invocations(Harden)[4] = Ufw("allow", 80, "tcp")
        BY DebianHarden
      <3> QED
        BY <2>3, <3>1
    <2>8. step = 5 => Invocation = Ufw("allow", 443, "tcp")
      BY <2>3, DebianHarden
    <2>9. step = 6 => Invocation = Does("--force enable")
      BY <2>3, DebianHarden
    <2> QED
      BY <1>0, <1>1, <2>1, <2>2, <2>4, <2>5, <2>6, <2>7, <2>8, <2>9, CommandKinds
  <1>2. CASE command \in SetRule
    <2>1. Len(Invocations(command)) = 1
      BY <1>2, SetInvocations
    <2>2. step = 1
      BY <2>1 DEF TypeOK, StepInv
    <2>3. command # Harden
      BY <1>2, CommandKinds
    <2> QED
      BY <1>0, <1>2, <2>1, <2>2, <2>3, SetInvocations DEF Invocation
  <1> QED
    BY <1>0, <1>1, <1>2

\* Which invocation comes next on RHEL.
LEMMA RHELAt ==
    ASSUME TypeOK, StepInv, command # NoCommand, family = "rhel"
    PROVE  /\ command \in {Harden} \union SetRule /\ step \in Int
           /\ command = Harden =>
                /\ Len(Invocations(command)) = 5 /\ step \in 1..5
                /\ step = 1 => Invocation = Does("enable --now firewalld")
                /\ step = 2 => Invocation = Permanent("--add", "service", 22)
                /\ step = 3 => Invocation = Permanent("--add", "service", 80)
                /\ step = 4 => Invocation = Permanent("--add", "service", 443)
                /\ step = 5 => Invocation = Does("--reload")
           /\ command \in SetRule =>
                /\ Len(Invocations(command)) = 2
                /\ \/ step = 2 /\ Invocation = Does("--reload")
                   \/ /\ step = 1
                      /\ \E flag \in {"--add", "--remove"}, kind \in {"tcp", "udp"} :
                            Invocation = Permanent(flag, kind, command.port)
  <1>0. command \in {Harden} \union SetRule /\ step \in Int
    BY DEF TypeOK
  <1>1. CASE command = Harden
    <2>1. Len(Invocations(command)) = 5
      BY <1>1, RHELHarden
    <2>2. step \in 1..5
      BY <2>1 DEF StepInv
    <2>3. Invocation = Invocations(Harden)[step]
      BY <1>1 DEF Invocation
    <2>4. step = 1 => Invocation = Does("enable --now firewalld")
      BY <2>3, RHELHarden
    <2>5. step = 2 => Invocation = Permanent("--add", "service", 22)
      BY <2>3, RHELHarden
    <2>6. step = 3 => Invocation = Permanent("--add", "service", 80)
      <3>1. Invocations(Harden)[3] = Permanent("--add", "service", 80)
        BY RHELHarden
      <3> QED
        BY <2>3, <3>1
    <2>7. step = 4 => Invocation = Permanent("--add", "service", 443)
      BY <2>3, RHELHarden
    <2>8. step = 5 => Invocation = Does("--reload")
      BY <2>3, RHELHarden
    <2> QED
      BY <1>0, <1>1, <2>1, <2>2, <2>4, <2>5, <2>6, <2>7, <2>8, CommandKinds
  <1>2. CASE command \in SetRule
    <2>1. Len(Invocations(command)) = 2
      BY <1>2, SetInvocations
    <2>2. step = 1 \/ step = 2
      BY <2>1 DEF TypeOK, StepInv
    <2>3. command # Harden
      BY <1>2, CommandKinds
    <2> QED
      BY <1>0, <1>2, <2>1, <2>2, <2>3, SetInvocations DEF Invocation
  <1> QED
    BY <1>0, <1>1, <1>2

\* Which invocation comes next on Arch.
LEMMA ArchAt ==
    ASSUME TypeOK, StepInv, command # NoCommand, family = "arch"
    PROVE  /\ command \in {Harden} \union SetRule /\ step \in Int
           /\ command = Harden =>
                /\ Len(Invocations(command)) = 8 /\ step \in 1..8
                /\ step = 1 => Invocation = Does("pacman -S iptables")
                /\ step = 2 => Invocation = Does("-P INPUT DROP")
                /\ step = 3 => Invocation = Does("-P OUTPUT ACCEPT")
                /\ step = 4 => Invocation = Does("-A INPUT -i lo")
                /\ step = 5 => Invocation = Does("-A INPUT ESTABLISHED,RELATED")
                /\ step = 6 => Invocation = Accept("-A", 22)
                /\ step = 7 => Invocation = Accept("-A", 80)
                /\ step = 8 => Invocation = Accept("-A", 443)
           /\ command \in SetRule =>
                /\ Len(Invocations(command)) = 1 /\ step = 1
                /\ Invocation = Accept(IF command.action = "deny" THEN "-D" ELSE "-A", command.port)
  <1>0. command \in {Harden} \union SetRule /\ step \in Int
    BY DEF TypeOK
  <1>1. CASE command = Harden
    <2>1. Len(Invocations(command)) = 8
      BY <1>1, ArchHarden
    <2>2. step \in 1..8
      BY <2>1 DEF StepInv
    <2>3. Invocation = Invocations(Harden)[step]
      BY <1>1 DEF Invocation
    <2>4. step = 1 => Invocation = Does("pacman -S iptables")
      BY <2>3, ArchHarden
    <2>5. step = 2 => Invocation = Does("-P INPUT DROP")
      BY <2>3, ArchHarden
    <2>6. step = 3 => Invocation = Does("-P OUTPUT ACCEPT")
      BY <2>3, ArchHarden
    <2>7. step = 4 => Invocation = Does("-A INPUT -i lo")
      BY <2>3, ArchHarden
    <2>8. step = 5 => Invocation = Does("-A INPUT ESTABLISHED,RELATED")
      BY <2>3, ArchHarden
    <2>9. step = 6 => Invocation = Accept("-A", 22)
      BY <2>3, ArchHarden
    <2>10. step = 7 => Invocation = Accept("-A", 80)
      <3>1. Invocations(Harden)[7] = Accept("-A", 80)
        BY ArchHarden
      <3> QED
        BY <2>3, <3>1
    <2>11. step = 8 => Invocation = Accept("-A", 443)
      BY <2>3, ArchHarden
    <2> QED
      BY <1>0, <1>1, <2>1, <2>2, <2>4, <2>5, <2>6, <2>7, <2>8, <2>9, <2>10, <2>11, CommandKinds
  <1>2. CASE command \in SetRule
    <2>1. Len(Invocations(command)) = 1
      BY <1>2, SetInvocations
    <2>2. step = 1
      BY <2>1 DEF TypeOK, StepInv
    <2>3. command # Harden
      BY <1>2, CommandKinds
    <2> QED
      BY <1>0, <1>2, <2>1, <2>2, <2>3, SetInvocations DEF Invocation
  <1> QED
    BY <1>0, <1>1, <1>2

\* What every invocation that works does beside its effect on a firewall.
LEMMA InvokeMoves ==
    ASSUME FInv, Invoke
    PROVE  /\ \/ /\ step < Len(Invocations(command)) /\ step' = step + 1
                 /\ UNCHANGED <<command, hardened, interrupted, asked, denied>>
              \/ /\ step = Len(Invocations(command)) /\ step' = 0 /\ command' = NoCommand
                 /\ hardened' => hardened \/ command = Harden
                 /\ \/ command = Harden /\ asked' = asked
                    \/ command \in SetRule
                       /\ asked' = [asked EXCEPT ![command.port] = command.action]
                 /\ UNCHANGED <<interrupted, denied>>
           /\ UNCHANGED <<family, commands, faults>>
           /\ StepInv'
           /\ family' \in Families /\ commands' \in 0..MaxCommands /\ faults' \in 0..MaxFaults
           /\ command' \in {NoCommand, Harden} \union SetRule /\ step' \in 0..9
           /\ command' = NoCommand <=> step' = 0
           /\ hardened' \in BOOLEAN /\ interrupted' \in BOOLEAN
           /\ asked' \in [Ports -> {"nothing", "unknown", "allow", "deny"}]
           /\ denied' \in SUBSET Ports
  <1> USE DEF FInv
  <1>1. command \in {Harden} \union SetRule
    BY DEF Invoke, TypeOK
  <1> DEFINE n == Len(Invocations(command))
  <1>a. n \in 1..8 /\ step \in 1..n
    BY <1>1, HasSteps, CommandKinds DEF StepInv
  <1> HIDE DEF n
  <1>2. n \in Int /\ step \in Int /\ 1 <= step /\ step <= n /\ n <= 8
    BY <1>a
  <1>3. /\ family' = family /\ commands' = commands /\ faults' = faults
        /\ interrupted' = interrupted /\ denied' = denied
    BY DEF Invoke, history
  <1>4. CASE step < n
    <2>1. step' = step + 1 /\ UNCHANGED <<command, hardened, interrupted, asked, denied>>
      BY <1>4 DEF Invoke, history, n
    <2>2. Len(Invocations(command))' = n
      BY <1>3, <2>1, StepsStay DEF n
    <2>3. StepInv'
      BY <1>2, <1>4, <2>1, <2>2 DEF StepInv
    <2>4. command' = command /\ step' \in 0..9 /\ step' # 0
      BY <1>2, <2>1
    <2>5. /\ command' \in {NoCommand, Harden} \union SetRule
          /\ (command' = NoCommand <=> step' = 0)
      BY <1>1, <2>4, CommandKinds
    <2>6. /\ family' \in Families /\ commands' \in 0..MaxCommands /\ faults' \in 0..MaxFaults
          /\ hardened' \in BOOLEAN /\ interrupted' \in BOOLEAN
          /\ asked' \in [Ports -> {"nothing", "unknown", "allow", "deny"}]
          /\ denied' \in SUBSET Ports
      BY <1>3, <2>1, Zenon DEF TypeOK
    <2> HIDE DEF FInv
    <2> QED
      BY <1>3, <1>4, <2>1, <2>3, <2>4, <2>5, <2>6 DEF n
  <1>5. CASE ~(step < n)
    <2>1. /\ step' = 0 /\ command' = NoCommand
          /\ hardened' = (hardened \/ command = Harden)
          /\ asked' = IF command = Harden THEN asked
                      ELSE [asked EXCEPT ![command.port] = command.action]
      BY <1>5 DEF Invoke, AfterEnd, n
    <2>2. step = n
      BY <1>2, <1>5
    <2>3. StepInv'
      BY <2>1 DEF StepInv
    <2>4. hardened' \in BOOLEAN
      BY <2>1, Zenon
    <2>5. asked' \in [Ports -> {"nothing", "unknown", "allow", "deny"}]
      <3>1. asked \in [Ports -> {"nothing", "unknown", "allow", "deny"}]
        BY DEF TypeOK
      <3>2. CASE command = Harden
        BY <2>1, <3>1, <3>2
      <3>3. CASE command \in SetRule
        <4>1. command.action \in {"allow", "deny"} /\ command # Harden
          BY <3>3, CommandKinds
        <4> QED
          BY <2>1, <3>1, <4>1
      <3> QED
        BY <1>1, <3>2, <3>3
    <2>6. \/ command = Harden /\ asked' = asked
          \/ command \in SetRule /\ asked' = [asked EXCEPT ![command.port] = command.action]
      BY <1>1, <2>1
    <2>7. /\ family' \in Families /\ commands' \in 0..MaxCommands /\ faults' \in 0..MaxFaults
          /\ command' \in {NoCommand, Harden} \union SetRule /\ step' \in 0..9
          /\ (command' = NoCommand <=> step' = 0) /\ denied' \in SUBSET Ports
      BY <1>3, <2>1 DEF TypeOK
    <2>8. interrupted' \in BOOLEAN
      BY <1>3, Zenon DEF TypeOK
    <2>9. hardened' => hardened \/ command = Harden
      BY <2>1, Zenon
    <2>10. step' = 0 /\ command' = NoCommand
      BY <2>1
    <2>11. /\ step = Len(Invocations(command)) /\ step' = 0 /\ command' = NoCommand
           /\ hardened' => hardened \/ command = Harden
           /\ \/ command = Harden /\ asked' = asked
              \/ command \in SetRule /\ asked' = [asked EXCEPT ![command.port] = command.action]
           /\ UNCHANGED <<interrupted, denied>>
      BY <1>3, <2>2, <2>6, <2>9, <2>10 DEF n
    <2> QED
      BY <1>3, <2>3, <2>4, <2>5, <2>7, <2>8, <2>11, Zenon
  <1> QED
    BY <1>4, <1>5

\* An invocation does not disturb what is said of requests.
LEMMA RequestKept == FInv /\ Invoke => RequestInv'
  <1> SUFFICES ASSUME FInv, Invoke PROVE RequestInv'
    OBVIOUS
  <1> QED
    BY InvokeMoves, CommandKinds DEF FInv, RequestInv

\* What the invocation does on Debian, from where the command is.
LEMMA DebianOperation ==
    ASSUME TypeOK, StepInv, command # NoCommand, family = "debian"
    PROVE  /\ command = Harden =>
                /\ Len(Invocations(command)) = 6
                /\ Invocation.op \in {"ufw default deny", "ufw default allow outgoing",
                                      "--force enable", "ufw"}
                /\ Invocation.op = "--force enable" <=> step = 6
                /\ step = 3 => Invocation = Ufw("allow", 22, "tcp")
                /\ step = 4 => Invocation = Ufw("allow", 80, "tcp")
                /\ step = 5 => Invocation = Ufw("allow", 443, "tcp")
                /\ Invocation.op = "ufw" => \E p \in HardenPorts : Invocation = Ufw("allow", p, "tcp")
           /\ command \in SetRule =>
                /\ Len(Invocations(command)) = 1
                /\ Invocation = Ufw(command.action, command.port, command.proto)
                /\ Invocation.op = "ufw"
  <1>1. /\ \A op : Invocation = Does(op) => Invocation.op = op
        /\ \A a, p, t : Invocation = Ufw(a, p, t) => Invocation.op = "ufw"
    BY Operation
  <1>2. CASE command = Harden
    <2>1. /\ step \in 1..6 /\ Len(Invocations(command)) = 6 /\ command \notin SetRule
          /\ step = 3 => Invocation = Ufw("allow", 22, "tcp")
          /\ step = 4 => Invocation = Ufw("allow", 80, "tcp")
          /\ step = 5 => Invocation = Ufw("allow", 443, "tcp")
      BY <1>2, DebianAt, CommandKinds
    <2>2. /\ step = 1 => Invocation.op = "ufw default deny"
          /\ step = 2 => Invocation.op = "ufw default allow outgoing"
          /\ step = 6 => Invocation.op = "--force enable"
          /\ step \in 3..5 => Invocation.op = "ufw"
      <3>1. /\ step = 1 => Invocation = Does("ufw default deny")
            /\ step = 2 => Invocation = Does("ufw default allow outgoing")
            /\ step = 6 => Invocation = Does("--force enable")
        BY <1>2, DebianAt
      <3>2. step = 1 => Invocation.op = "ufw default deny"
        BY <1>1, <3>1
      <3>3. step = 2 => Invocation.op = "ufw default allow outgoing"
        BY <1>1, <3>1
      <3>4. step = 6 => Invocation.op = "--force enable"
        BY <1>1, <3>1
      <3>5. step \in 3..5 => step = 3 \/ step = 4 \/ step = 5
        OBVIOUS
      <3>6. step \in 3..5 => Invocation.op = "ufw"
        BY ONLY <1>1, <2>1, <3>5
      <3> QED
        BY <3>2, <3>3, <3>4, <3>6
    <2>3. step \in 3..5 => \E p \in HardenPorts : Invocation = Ufw("allow", p, "tcp")
      BY <2>1, PortsOK
    <2>4. /\ step \in 1..6 => step = 1 \/ step = 2 \/ step = 6 \/ step \in 3..5
          /\ step \in 3..5 => step # 6
      OBVIOUS
    <2>5. Invocation.op = "--force enable" <=> step = 6
      BY <2>1, <2>2, <2>4
    <2>6. Invocation.op = "ufw" => \E p \in HardenPorts : Invocation = Ufw("allow", p, "tcp")
      BY <2>1, <2>2, <2>3, <2>4
    <2>7. Invocation.op \in {"ufw default deny", "ufw default allow outgoing",
                            "--force enable", "ufw"}
      BY <2>1, <2>2, <2>4
    <2> QED
      BY <2>1, <2>5, <2>6, <2>7
  <1>3. CASE command \in SetRule
    BY <1>1, <1>3, DebianAt, CommandKinds
  <1> QED
    BY <1>2, <1>3

\* An invocation that works on Debian.
LEMMA DebianInvoke ==
    ASSUME FInv, Invoke, family = "debian"
    PROVE  TypeOK' /\ DebianInv' /\ RHELInv' /\ ArchInv'
  <1> USE PortsOK, CommandKinds DEF FInv
  <1>1. family' = "debian"
    BY InvokeMoves
  <1>0. command \in {Harden} \union SetRule
    BY DEF Invoke, TypeOK
  <1>2. /\ command = Harden =>
              /\ Len(Invocations(command)) = 6
              /\ Invocation.op \in {"ufw default deny", "ufw default allow outgoing",
                                    "--force enable", "ufw"}
              /\ Invocation.op = "--force enable" <=> step = 6
              /\ step = 3 => Invocation = Ufw("allow", 22, "tcp")
              /\ step = 4 => Invocation = Ufw("allow", 80, "tcp")
              /\ step = 5 => Invocation = Ufw("allow", 443, "tcp")
              /\ Invocation.op = "ufw" => \E p \in HardenPorts : Invocation = Ufw("allow", p, "tcp")
        /\ command \in SetRule =>
              /\ Len(Invocations(command)) = 1
              /\ Invocation = Ufw(command.action, command.port, command.proto)
              /\ Invocation.op = "ufw"
    BY <1>0, DebianOperation
  <1> HIDE DEF FInv
  <1>3. firewalld' = firewalld /\ iptables' = iptables
    BY <1>0, <1>2 DEF Invoke, FirewalldAfter, IptablesAfter
  <1>4. /\ ufw \in [active : BOOLEAN, policy : {"allow", "deny"}, rules : Seq(UfwRule)]
        /\ ufw.policy = "deny"
        /\ \A i \in DOMAIN ufw.rules : ufw.rules[i].action = "deny" => ufw.rules[i].port \in denied
    BY DEF TypeOK, DebianInv, FInv
  <1>5. ufw' = UfwAfter(Invocation)
    BY DEF Invoke
  <1> DEFINE Has(p) == \E i \in DOMAIN ufw'.rules : ufw'.rules[i].port = p /\ ufw'.rules[i].proto = "tcp"
  <1>6. /\ ufw' \in [active : BOOLEAN, policy : {"allow", "deny"}, rules : Seq(UfwRule)]
        /\ ufw'.policy = "deny"
        /\ ufw'.active => ufw.active \/ Invocation.op = "--force enable"
        /\ ufw.active \/ Invocation.op = "--force enable" => ufw'.active
        /\ \A i \in DOMAIN ufw'.rules :
             ufw'.rules[i].action = "deny" => ufw'.rules[i].port \in denied
        /\ \A p : HasRule(p) => Has(p)
        /\ \A p \in HardenPorts : Invocation = Ufw("allow", p, "tcp") => Has(p)
    <2>1. CASE Invocation.op # "ufw"
      <3>1. /\ ufw' \in [active : BOOLEAN, policy : {"allow", "deny"}, rules : Seq(UfwRule)]
            /\ ufw'.policy = "deny" /\ ufw'.rules = ufw.rules
            /\ ufw'.active <=> ufw.active \/ Invocation.op = "--force enable"
        BY <1>2, <1>4, <1>5, <2>1 DEF UfwAfter
      <3>2. \A p : Invocation # Ufw("allow", p, "tcp")
        BY <2>1 DEF Ufw
      <3> QED
        BY <1>4, <3>1, <3>2 DEF HasRule
    <2>2. CASE Invocation.op = "ufw"
      <3> DEFINE new == [port |-> Invocation.port, proto |-> Invocation.proto,
                         action |-> Invocation.action]
      <3>1. new \in UfwRule /\ (new.action = "deny" => new.port \in denied)
        <4>1. ASSUME NEW a \in {"allow", "deny"}, NEW p \in Ports, NEW proto \in {"none", "tcp", "udp"},
                     Invocation = Ufw(a, p, proto), a = "deny" => p \in denied
              PROVE  new \in UfwRule /\ (new.action = "deny" => new.port \in denied)
          BY <4>1 DEF Ufw, UfwRule
        <4>2. CASE command = Harden
          BY <1>2, <2>2, <4>1, <4>2
        <4>3. CASE command \in SetRule
          <5>1. Invocation = Ufw(command.action, command.port, command.proto)
            BY <1>2, <4>3
          <5> QED
            BY <4>1, <4>3, <5>1 DEF RequestInv, FInv
        <4> QED
          BY <1>0, <4>2, <4>3
      <3>2. /\ ufw' = [ufw EXCEPT !.rules = WithRule(ufw.rules, new)]
        BY <1>5, <2>2 DEF UfwAfter
      <3> HIDE DEF new
      <3>3. /\ ufw'.active = ufw.active /\ ufw'.policy = ufw.policy
            /\ ufw'.rules = WithRule(ufw.rules, new)
        BY <1>4, <3>2
      <3>a. ufw.rules \in Seq(UfwRule)
        BY <1>4
      <3> DEFINE r == WithRule(ufw.rules, new)
      <3>4. /\ r \in Seq(UfwRule)
            /\ DOMAIN ufw.rules \subseteq DOMAIN r
            /\ \A i \in DOMAIN ufw.rules : r[i].port = ufw.rules[i].port /\ r[i].proto = ufw.rules[i].proto
            /\ \A i \in DOMAIN r : r[i] = new \/ (i \in DOMAIN ufw.rules /\ r[i] = ufw.rules[i])
            /\ \E i \in DOMAIN r : r[i] = new
        <4> HIDE DEF new
        <4>1. \A n \in UfwRule : LET w == WithRule(ufw.rules, n) IN
               /\ w \in Seq(UfwRule)
               /\ DOMAIN ufw.rules \subseteq DOMAIN w
               /\ \A i \in DOMAIN ufw.rules : w[i].port = ufw.rules[i].port /\ w[i].proto = ufw.rules[i].proto
               /\ \A i \in DOMAIN w : w[i] = n \/ (i \in DOMAIN ufw.rules /\ w[i] = ufw.rules[i])
               /\ \E i \in DOMAIN w : w[i] = n
          BY <3>a, WithRuleKeeps
        <4> QED
          BY <3>1, <4>1
      <3>b. ufw'.rules = r
        BY <3>3
      <3> HIDE DEF r
      <3>5. ufw' \in [active : BOOLEAN, policy : {"allow", "deny"}, rules : Seq(UfwRule)]
        BY <1>4, <3>2, <3>4 DEF r
      <3>6. \A i \in DOMAIN ufw'.rules :
               ufw'.rules[i].action = "deny" => ufw'.rules[i].port \in denied
        BY <1>4, <3>1, <3>4, <3>b
      <3>7. \A p : HasRule(p) => Has(p)
        BY <3>4, <3>b DEF HasRule
      <3>8. \A p \in HardenPorts : Invocation = Ufw("allow", p, "tcp") => Has(p)
        <4>1. \E i \in DOMAIN ufw'.rules : ufw'.rules[i] = new
          BY <1>4, <3>1, <3>4, <3>b
        <4> QED
          BY <4>1 DEF new, Ufw
      <3> QED
        BY <1>4, <2>2, <3>3, <3>5, <3>6, <3>7, <3>8
    <2> QED
      BY <2>1, <2>2
  <1> HIDE DEF Has
  <1>d. /\ HasRule(22) \/ Invocation = Ufw("allow", 22, "tcp") => Has(22)
        /\ HasRule(80) \/ Invocation = Ufw("allow", 80, "tcp") => Has(80)
        /\ HasRule(443) \/ Invocation = Ufw("allow", 443, "tcp") => Has(443)
    <2>1. \A p : HasRule(p) => Has(p)
      BY ONLY <1>6
    <2>2. \A p \in HardenPorts : Invocation = Ufw("allow", p, "tcp") => Has(p)
      BY ONLY <1>6
    <2> QED
      BY ONLY <2>1, <2>2, PortsOK
  <1>7. TypeOK'
    <2>1. firewalld' \in [running : BOOLEAN, permanent : SUBSET Entry, runtime : SUBSET Entry]
          /\ iptables' \in [policy : {"ACCEPT", "DROP"}, established : BOOLEAN, accepted : [Ports -> Nat]]
      BY <1>3 DEF TypeOK, FInv
    <2> QED
      BY <1>6, <2>1, InvokeMoves, Zenon DEF TypeOK
  <1>8. RHELInv' /\ ArchInv'
    BY <1>1 DEF RHELInv, ArchInv
  <1>9. DebianInv'
    <2>1. /\ denied' = denied
          /\ \/ command' = command /\ step' = step + 1 /\ hardened' = hardened
             \/ /\ command' = NoCommand /\ step = Len(Invocations(command))
                /\ hardened' => hardened \/ command = Harden
      BY InvokeMoves
    <2>2. step \in Int
      BY DEF TypeOK, FInv
    <2>3. /\ ufw.active \/ Hardening(3) => HasRule(22)
          /\ ufw.active \/ Hardening(4) => HasRule(80)
          /\ ufw.active \/ Hardening(5) => HasRule(443)
          /\ hardened => ufw.active
      BY DEF DebianInv, FInv
    <2>4. hardened' => ufw'.active
      BY <1>2, <1>6, <2>1, <2>3
    <2>5. ufw'.active => ufw.active \/ (command = Harden /\ step = 6)
      BY <1>0, <1>2, <1>6
    <2>6. command' = Harden => command = Harden /\ step' = step + 1
      BY <2>1
    <2>7. ufw'.active \/ Hardening(3)' => Has(22)
      <3>1. HasRule(22) \/ Invocation = Ufw("allow", 22, "tcp") => Has(22)
        BY <1>d
      <3>3. Hardening(3)' => command = Harden /\ step >= 3
        BY <2>2, <2>6 DEF Hardening
      <3>4. command = Harden /\ step >= 3 => HasRule(22) \/ Invocation = Ufw("allow", 22, "tcp")
        <4>1. step >= 3 => step = 3 \/ step > 3
          BY ONLY <2>2
        <4> QED
          BY <1>2, <2>3, <4>1 DEF Hardening
      <3>5. ufw'.active => HasRule(22) \/ Hardening(3)
        BY <2>2, <2>3, <2>5 DEF Hardening
      <3> QED
        BY <2>3, <3>1, <3>3, <3>4, <3>5
    <2>8. ufw'.active \/ Hardening(4)' => Has(80)
      <3>1. HasRule(80) \/ Invocation = Ufw("allow", 80, "tcp") => Has(80)
        BY <1>d
      <3>3. Hardening(4)' => command = Harden /\ step >= 4
        BY <2>2, <2>6 DEF Hardening
      <3>4. command = Harden /\ step >= 4 => HasRule(80) \/ Invocation = Ufw("allow", 80, "tcp")
        <4>1. step >= 4 => step = 4 \/ step > 4
          BY ONLY <2>2
        <4> QED
          BY <1>2, <2>3, <4>1 DEF Hardening
      <3>5. ufw'.active => HasRule(80) \/ Hardening(4)
        BY <2>2, <2>3, <2>5 DEF Hardening
      <3> QED
        BY <2>3, <3>1, <3>3, <3>4, <3>5
    <2>9. ufw'.active \/ Hardening(5)' => Has(443)
      <3>1. HasRule(443) \/ Invocation = Ufw("allow", 443, "tcp") => Has(443)
        BY <1>d
      <3>3. Hardening(5)' => command = Harden /\ step >= 5
        BY <2>2, <2>6 DEF Hardening
      <3>4. command = Harden /\ step >= 5 => HasRule(443) \/ Invocation = Ufw("allow", 443, "tcp")
        <4>1. step >= 5 => step = 5 \/ step > 5
          BY ONLY <2>2
        <4> QED
          BY <1>2, <2>3, <4>1 DEF Hardening
      <3>5. ufw'.active => HasRule(443) \/ Hardening(5)
        BY <2>2, <2>3, <2>5 DEF Hardening
      <3> QED
        BY <2>3, <3>1, <3>3, <3>4, <3>5
    <2>10. \A p : HasRule(p)' <=> Has(p)
      BY DEF Has, HasRule
    <2> QED
      BY <1>6, <2>1, <2>4, <2>7, <2>8, <2>9, <2>10 DEF DebianInv
  <1> QED
    BY <1>7, <1>8, <1>9

\* What the invocation does on RHEL, from where the command is.
LEMMA RHELOperation ==
    ASSUME TypeOK, StepInv, command # NoCommand, family = "rhel"
    PROVE  /\ Invocation.op \in {"enable --now firewalld", "permanent", "--reload"}
           /\ Invocation.op = "permanent" =>
                /\ Invocation.entry \in Entry
                /\ Invocation.flag \in {"--add", "--remove"}
                /\ Invocation.flag # "--add" => Invocation.entry.kind # "service"
           /\ command = Harden =>
                /\ Len(Invocations(command)) = 5
                /\ step = 1 => Invocation.op = "enable --now firewalld"
                /\ step = 3 => Invocation.op = "permanent" /\ Invocation.flag = "--add"
                               /\ Invocation.entry = Service(80)
                /\ step = 4 => Invocation.op = "permanent" /\ Invocation.flag = "--add"
                               /\ Invocation.entry = Service(443)
                /\ step = 5 => Invocation.op = "--reload"
  <1>1. /\ \A op : Invocation = Does(op) => Invocation.op = op
        /\ \A f, k, p : Invocation = Permanent(f, k, p) =>
              /\ Invocation.op = "permanent" /\ Invocation.flag = f
              /\ Invocation.entry = [kind |-> k, port |-> p]
    BY Operation
  <1>2. \A p \in HardenPorts : Service(p) \in Entry
    BY DEF Entry, Service
  <1>3. CASE command = Harden
    <2>1. Len(Invocations(command)) = 5 /\ step \in 1..5
      BY <1>3, RHELAt
    <2>2. step = 1 => Invocation.op = "enable --now firewalld"
      <3>1. step = 1 => Invocation = Does("enable --now firewalld")
        BY <1>3, RHELAt
      <3> QED
        BY <1>1, <3>1
    <2>3. step = 5 => Invocation.op = "--reload"
      <3>1. step = 5 => Invocation = Does("--reload")
        BY <1>3, RHELAt
      <3> QED
        BY <1>1, <3>1
    <2>4. step = 2 => Invocation.op = "permanent" /\ Invocation.flag = "--add"
                     /\ Invocation.entry = Service(22)
      <3>1. step = 2 => Invocation = Permanent("--add", "service", 22)
        BY <1>3, RHELAt
      <3> QED
        BY <1>1, <3>1 DEF Service
    <2>5. step = 3 => Invocation.op = "permanent" /\ Invocation.flag = "--add"
                     /\ Invocation.entry = Service(80)
      <3>1. step = 3 => Invocation = Permanent("--add", "service", 80)
        BY <1>3, RHELAt
      <3> QED
        BY <1>1, <3>1 DEF Service
    <2>6. step = 4 => Invocation.op = "permanent" /\ Invocation.flag = "--add"
                     /\ Invocation.entry = Service(443)
      <3>1. step = 4 => Invocation = Permanent("--add", "service", 443)
        BY <1>3, RHELAt
      <3> QED
        BY <1>1, <3>1 DEF Service
    <2>7. step = 1 \/ step = 2 \/ step = 3 \/ step = 4 \/ step = 5
      BY <2>1
    <2>8. Service(22) \in Entry /\ Service(80) \in Entry /\ Service(443) \in Entry
      BY <1>2, PortsOK
    <2>9. Invocation.op = "permanent" =>
              Invocation.entry \in Entry /\ Invocation.flag = "--add"
      BY <2>2, <2>3, <2>4, <2>5, <2>6, <2>7, <2>8
    <2>10. Invocation.op \in {"enable --now firewalld", "permanent", "--reload"}
      BY <2>2, <2>3, <2>4, <2>5, <2>6, <2>7
    <2> QED
      BY <2>1, <2>2, <2>3, <2>5, <2>6, <2>9, <2>10
  <1>4. CASE command \in SetRule
    <2>1. command # Harden /\ command.port \in Ports
      BY <1>4, CommandKinds
    <2>2. CASE Invocation = Does("--reload")
      BY <1>1, <2>1, <2>2
    <2>3. CASE \E flag \in {"--add", "--remove"}, kind \in {"tcp", "udp"} :
                  Invocation = Permanent(flag, kind, command.port)
      <3>1. PICK flag \in {"--add", "--remove"}, kind \in {"tcp", "udp"} :
                  Invocation = Permanent(flag, kind, command.port)
        BY <2>3
      <3>2. /\ Invocation.op = "permanent" /\ Invocation.flag = flag
            /\ Invocation.entry = [kind |-> kind, port |-> command.port]
        BY <1>1, <3>1
      <3>3. Invocation.entry \in Entry /\ Invocation.entry.kind # "service"
        BY <2>1, <3>2 DEF Entry
      <3> QED
        BY <2>1, <3>2, <3>3
    <2> QED
      BY <1>4, <2>2, <2>3, RHELAt
  <1> QED
    BY <1>3, <1>4, RHELAt

\* An invocation that works on RHEL.
LEMMA RHELInvoke ==
    ASSUME FInv, Invoke, family = "rhel"
    PROVE  TypeOK' /\ DebianInv' /\ RHELInv' /\ ArchInv'
  <1>1. command # NoCommand /\ TypeOK /\ StepInv /\ RHELInv
    BY DEF Invoke, FInv
  <1>2. /\ Invocation.op \in {"enable --now firewalld", "permanent", "--reload"}
        /\ Invocation.op = "permanent" =>
              /\ Invocation.entry \in Entry
              /\ Invocation.flag \in {"--add", "--remove"}
              /\ Invocation.flag # "--add" => Invocation.entry.kind # "service"
    BY <1>1, RHELOperation
  <1>3. command = Harden =>
              /\ Len(Invocations(command)) = 5
              /\ step = 1 => Invocation.op = "enable --now firewalld"
              /\ step = 3 => Invocation.op = "permanent" /\ Invocation.flag = "--add"
                             /\ Invocation.entry = Service(80)
              /\ step = 4 => Invocation.op = "permanent" /\ Invocation.flag = "--add"
                             /\ Invocation.entry = Service(443)
              /\ step = 5 => Invocation.op = "--reload"
    BY <1>1, RHELOperation
  <1>4. family' = "rhel" /\ ufw' = ufw /\ iptables' = iptables
    BY <1>2, InvokeMoves DEF Invoke, UfwAfter, IptablesAfter
  <1>5. firewalld' = FirewalldAfter(Invocation)
    BY DEF Invoke
  <1>6. firewalld \in [running : BOOLEAN, permanent : SUBSET Entry, runtime : SUBSET Entry]
    BY <1>1 DEF TypeOK
  <1>7. /\ firewalld' \in [running : BOOLEAN, permanent : SUBSET Entry, runtime : SUBSET Entry]
        /\ firewalld.running \/ Invocation.op = "enable --now firewalld" => firewalld'.running
        /\ \A p : Service(p) \in firewalld.permanent => Service(p) \in firewalld'.permanent
        /\ firewalld'.runtime \in {firewalld.runtime, firewalld.permanent}
        /\ Invocation.op = "--reload" => firewalld'.runtime = firewalld.permanent
        /\ Invocation.op = "permanent" /\ Invocation.flag = "--add"
              => Invocation.entry \in firewalld'.permanent
    <2>1. CASE Invocation.op = "enable --now firewalld"
      <3>1. /\ firewalld'.running /\ firewalld'.permanent = firewalld.permanent
            /\ firewalld'.runtime \in {firewalld.runtime, firewalld.permanent}
            /\ firewalld' \in [running : BOOLEAN, permanent : SUBSET Entry, runtime : SUBSET Entry]
        BY <1>5, <1>6, <2>1 DEF FirewalldAfter
      <3> QED
        BY <2>1, <3>1
    <2>2. CASE Invocation.op = "permanent"
      <3>1. /\ firewalld'.running = firewalld.running /\ firewalld'.runtime = firewalld.runtime
            /\ firewalld'.permanent = IF Invocation.flag = "--add"
                                      THEN firewalld.permanent \union {Invocation.entry}
                                      ELSE firewalld.permanent \ {Invocation.entry}
            /\ firewalld' \in [running : BOOLEAN, permanent : SUBSET Entry, runtime : SUBSET Entry]
        BY <1>2, <1>5, <1>6, <2>2 DEF FirewalldAfter
      <3>2. \A p : Service(p).kind = "service"
        BY DEF Service
      <3> QED
        BY <1>2, <2>2, <3>1, <3>2
    <2>3. CASE Invocation.op = "--reload"
      <3>1. /\ firewalld'.running = firewalld.running /\ firewalld'.runtime = firewalld.permanent
            /\ firewalld'.permanent = firewalld.permanent
            /\ firewalld' \in [running : BOOLEAN, permanent : SUBSET Entry, runtime : SUBSET Entry]
        BY <1>5, <1>6, <2>3 DEF FirewalldAfter
      <3> QED
        BY <2>3, <3>1
    <2> QED
      BY <1>2, <2>1, <2>2, <2>3
  <1>e. /\ Invocation.op = "permanent" /\ Invocation.flag = "--add"
              => Invocation.entry \in firewalld'.permanent
    BY ONLY <1>7
  <1>f. /\ firewalld'.runtime \in {firewalld.runtime, firewalld.permanent}
        /\ Invocation.op = "--reload" => firewalld'.runtime = firewalld.permanent
    BY ONLY <1>7
  <1>8. TypeOK'
    <2>1. /\ ufw' \in [active : BOOLEAN, policy : {"allow", "deny"}, rules : Seq(UfwRule)]
          /\ iptables' \in [policy : {"ACCEPT", "DROP"}, established : BOOLEAN, accepted : [Ports -> Nat]]
      BY <1>1, <1>4 DEF TypeOK
    <2> QED
      BY <1>7, <2>1, InvokeMoves, Zenon DEF TypeOK
  <1>9. DebianInv' /\ ArchInv'
    BY <1>4 DEF DebianInv, ArchInv
  <1>10. RHELInv'
    <2>1. \/ command' = command /\ step' = step + 1 /\ hardened' = hardened
          \/ /\ command' = NoCommand /\ step = Len(Invocations(command))
             /\ hardened' => hardened \/ command = Harden
      BY InvokeMoves
    <2>2. step \in Int
      BY <1>1 DEF TypeOK
    <2>3. /\ Service(22) \in firewalld.permanent /\ Service(22) \in firewalld.runtime
          /\ hardened \/ Hardening(1) => firewalld.running
          /\ hardened \/ Hardening(3) => Service(80) \in firewalld.permanent
          /\ hardened \/ Hardening(4) => Service(443) \in firewalld.permanent
          /\ hardened => Service(80) \in firewalld.runtime /\ Service(443) \in firewalld.runtime
      BY <1>1 DEF RHELInv
    <2>4. hardened' => hardened \/ (command = Harden /\ step = 5)
      BY <1>3, <2>1
    <2>5. command' = Harden => command = Harden /\ step' = step + 1
      BY <2>1, CommandKinds
    <2>6. command = Harden /\ step = 5 => Hardening(1) /\ Hardening(3) /\ Hardening(4)
      BY DEF Hardening
    <2>7. hardened' \/ Hardening(1)' => firewalld'.running
      <3>1. Hardening(1)' => command = Harden /\ (step = 1 \/ step > 1)
        BY <2>2, <2>5 DEF Hardening
      <3>2. Hardening(1)' => Hardening(1) \/ Invocation.op = "enable --now firewalld"
        BY <1>3, <3>1 DEF Hardening
      <3> QED
        BY <1>7, <2>3, <2>4, <2>6, <3>2
    <2>8. hardened' \/ Hardening(3)' => Service(80) \in firewalld'.permanent
      <3>1. Hardening(3)' => command = Harden /\ (step = 3 \/ step > 3)
        BY <2>2, <2>5 DEF Hardening
      <3>4. command = Harden /\ step = 3 => Service(80) \in firewalld'.permanent
        BY ONLY <1>3, <1>e
      <3>2. Hardening(3)' => Hardening(3) \/ Service(80) \in firewalld'.permanent
        BY <3>1, <3>4 DEF Hardening
      <3>3. hardened \/ Hardening(3) => Service(80) \in firewalld'.permanent
        BY <1>7, <2>3
      <3> QED
        BY <2>4, <2>6, <3>2, <3>3
    <2>9. hardened' \/ Hardening(4)' => Service(443) \in firewalld'.permanent
      <3>1. Hardening(4)' => command = Harden /\ (step = 4 \/ step > 4)
        BY <2>2, <2>5 DEF Hardening
      <3>4. command = Harden /\ step = 4 => Service(443) \in firewalld'.permanent
        BY ONLY <1>3, <1>e
      <3>2. Hardening(4)' => Hardening(4) \/ Service(443) \in firewalld'.permanent
        BY <3>1, <3>4 DEF Hardening
      <3>3. hardened \/ Hardening(4) => Service(443) \in firewalld'.permanent
        BY <1>7, <2>3
      <3> QED
        BY <2>4, <2>6, <3>2, <3>3
    <2>10. hardened' => Service(80) \in firewalld'.runtime /\ Service(443) \in firewalld'.runtime
      <3>1. CASE hardened
        BY <1>f, <2>3, <3>1
      <3>2. CASE command = Harden /\ step = 5
        BY <1>3, <1>f, <2>3, <2>6, <3>2
      <3> QED
        BY <2>4, <3>1, <3>2
    <2>11. Service(22) \in firewalld'.permanent /\ Service(22) \in firewalld'.runtime
      BY <1>7, <2>3
    <2>12. \A p : Service(p)' = Service(p)
      BY DEF Service
    <2> QED
      BY <2>7, <2>8, <2>9, <2>10, <2>11 DEF RHELInv, Service
  <1> QED
    BY <1>8, <1>9, <1>10

\* What the invocation does on Arch, from where the command is.
LEMMA ArchOperation ==
    ASSUME TypeOK, StepInv, command # NoCommand, family = "arch"
    PROVE  /\ Invocation.op \in {"pacman -S iptables", "-P INPUT DROP", "-P OUTPUT ACCEPT",
                                "-A INPUT -i lo", "-A INPUT ESTABLISHED,RELATED", "iptables"}
           /\ Invocation.op = "iptables" =>
                /\ Invocation.port \in Ports
                /\ Invocation.flag \in {"-A", "-D"}
                /\ Invocation.flag = "-D" => /\ command \in SetRule /\ command.action = "deny"
                                            /\ Invocation.port = command.port
           /\ command = Harden =>
                /\ Len(Invocations(command)) = 8
                /\ Invocation.op = "-P INPUT DROP" => step = 2
                /\ step = 5 => Invocation.op = "-A INPUT ESTABLISHED,RELATED"
                /\ step = 6 => Invocation.op = "iptables" /\ Invocation.flag = "-A"
                               /\ Invocation.port = 22
           /\ command \in SetRule => Invocation.op = "iptables"
  <1>1. /\ \A op : Invocation = Does(op) => Invocation.op = op
        /\ \A f, p : Invocation = Accept(f, p) =>
              Invocation.op = "iptables" /\ Invocation.flag = f /\ Invocation.port = p
    BY Operation
  <1>2. CASE command = Harden
    <2>1. Len(Invocations(command)) = 8 /\ step \in 1..8
      BY <1>2, ArchAt
    <2>2. step = 1 => Invocation.op = "pacman -S iptables"
      <3>1. step = 1 => Invocation = Does("pacman -S iptables")
        BY <1>2, ArchAt
      <3> QED
        BY <1>1, <3>1
    <2>3. step = 2 => Invocation.op = "-P INPUT DROP"
      <3>1. step = 2 => Invocation = Does("-P INPUT DROP")
        BY <1>2, ArchAt
      <3> QED
        BY <1>1, <3>1
    <2>4. step = 3 => Invocation.op = "-P OUTPUT ACCEPT"
      <3>1. step = 3 => Invocation = Does("-P OUTPUT ACCEPT")
        BY <1>2, ArchAt
      <3> QED
        BY <1>1, <3>1
    <2>5. step = 4 => Invocation.op = "-A INPUT -i lo"
      <3>1. step = 4 => Invocation = Does("-A INPUT -i lo")
        BY <1>2, ArchAt
      <3> QED
        BY <1>1, <3>1
    <2>6. step = 5 => Invocation.op = "-A INPUT ESTABLISHED,RELATED"
      <3>1. step = 5 => Invocation = Does("-A INPUT ESTABLISHED,RELATED")
        BY <1>2, ArchAt
      <3> QED
        BY <1>1, <3>1
    <2>7. step = 6 => Invocation.op = "iptables" /\ Invocation.flag = "-A" /\ Invocation.port = 22
      <3>1. step = 6 => Invocation = Accept("-A", 22)
        BY <1>2, ArchAt
      <3> QED
        BY <1>1, <3>1
    <2>8. step = 7 => Invocation.op = "iptables" /\ Invocation.flag = "-A" /\ Invocation.port = 80
      <3>1. step = 7 => Invocation = Accept("-A", 80)
        BY <1>2, ArchAt
      <3> QED
        BY <1>1, <3>1
    <2>9. step = 8 => Invocation.op = "iptables" /\ Invocation.flag = "-A" /\ Invocation.port = 443
      <3>1. step = 8 => Invocation = Accept("-A", 443)
        BY <1>2, ArchAt
      <3> QED
        BY <1>1, <3>1
    <2>10. \/ step = 1 \/ step = 2 \/ step = 3 \/ step = 4
           \/ step = 5 \/ step = 6 \/ step = 7 \/ step = 8
      BY <2>1
    <2>11. 22 \in Ports /\ 80 \in Ports /\ 443 \in Ports
      BY PortsOK
    <2>12. Invocation.op = "-P INPUT DROP" => step = 2
      BY ONLY <2>2, <2>3, <2>4, <2>5, <2>6, <2>7, <2>8, <2>9, <2>10
    <2>13. Invocation.op = "iptables" => Invocation.flag = "-A" /\ Invocation.port \in Ports
      BY ONLY <2>2, <2>3, <2>4, <2>5, <2>6, <2>7, <2>8, <2>9, <2>10, <2>11
    <2>14. Invocation.op \in {"pacman -S iptables", "-P INPUT DROP", "-P OUTPUT ACCEPT",
                             "-A INPUT -i lo", "-A INPUT ESTABLISHED,RELATED", "iptables"}
      BY ONLY <2>2, <2>3, <2>4, <2>5, <2>6, <2>7, <2>8, <2>9, <2>10
    <2>15. command \notin SetRule
      BY <1>2, CommandKinds
    <2> QED
      BY ONLY <1>2, <2>1, <2>6, <2>7, <2>12, <2>13, <2>14, <2>15
  <1>3. CASE command \in SetRule
    <2>1. command # Harden /\ command.port \in Ports
      BY <1>3, CommandKinds
    <2>2. Invocation = Accept(IF command.action = "deny" THEN "-D" ELSE "-A", command.port)
      BY <1>3, ArchAt
    <2>3. /\ Invocation.op = "iptables" /\ Invocation.port = command.port
          /\ Invocation.flag = IF command.action = "deny" THEN "-D" ELSE "-A"
      BY <1>1, <2>2
    <2> QED
      BY <1>3, <2>1, <2>3
  <1> QED
    BY <1>2, <1>3, ArchAt

\* An invocation that works on Arch.
LEMMA ArchInvoke ==
    ASSUME FInv, Invoke, family = "arch"
    PROVE  TypeOK' /\ DebianInv' /\ RHELInv' /\ ArchInv'
  <1>1. /\ command # NoCommand /\ TypeOK /\ StepInv /\ ArchInv
        /\ command \in SetRule => (command.action = "deny" => command.port \in denied)
    BY DEF Invoke, FInv, RequestInv
  <1>2. /\ Invocation.op \in {"pacman -S iptables", "-P INPUT DROP", "-P OUTPUT ACCEPT",
                             "-A INPUT -i lo", "-A INPUT ESTABLISHED,RELATED", "iptables"}
        /\ Invocation.op = "iptables" =>
              /\ Invocation.port \in Ports
              /\ Invocation.flag \in {"-A", "-D"}
              /\ Invocation.flag = "-D" => Invocation.port \in denied
    BY <1>1, ArchOperation
  <1>3. /\ command = Harden =>
              /\ Len(Invocations(command)) = 8
              /\ Invocation.op = "-P INPUT DROP" => step = 2
              /\ step = 5 => Invocation.op = "-A INPUT ESTABLISHED,RELATED"
              /\ step = 6 => Invocation.op = "iptables" /\ Invocation.flag = "-A"
                             /\ Invocation.port = 22
        /\ command # Harden => Invocation.op = "iptables"
    BY <1>1, ArchOperation, ArchAt
  <1>4. family' = "arch" /\ ufw' = ufw /\ firewalld' = firewalld
    BY <1>2, InvokeMoves DEF Invoke, UfwAfter, FirewalldAfter
  <1>5. /\ iptables' = IptablesAfter(Invocation)
        /\ Invocation.op = "iptables" =>
              Invocation.flag = "-A" \/ iptables.accepted[Invocation.port] > 0
    BY DEF Invoke, Works
  <1>6. iptables \in [policy : {"ACCEPT", "DROP"}, established : BOOLEAN, accepted : [Ports -> Nat]]
    BY <1>1 DEF TypeOK
  <1>7. /\ iptables' \in [policy : {"ACCEPT", "DROP"}, established : BOOLEAN, accepted : [Ports -> Nat]]
        /\ iptables'.policy = "DROP" => iptables.policy = "DROP" \/ Invocation.op = "-P INPUT DROP"
        /\ iptables.established \/ Invocation.op = "-A INPUT ESTABLISHED,RELATED"
              => iptables'.established
        /\ 22 \in denied \/ iptables.accepted[22] > 0 => 22 \in denied \/ iptables'.accepted[22] > 0
        /\ Invocation.op = "iptables" /\ Invocation.flag = "-A" /\ Invocation.port = 22
              => iptables'.accepted[22] > 0
    <2>1. CASE Invocation.op \in {"pacman -S iptables", "-P OUTPUT ACCEPT", "-A INPUT -i lo"}
      BY <1>5, <1>6, <2>1 DEF IptablesAfter
    <2>2. CASE Invocation.op = "-P INPUT DROP"
      BY <1>5, <1>6, <2>2 DEF IptablesAfter
    <2>3. CASE Invocation.op = "-A INPUT ESTABLISHED,RELATED"
      BY <1>5, <1>6, <2>3 DEF IptablesAfter
    <2>4. CASE Invocation.op = "iptables"
      <3> DEFINE p == Invocation.port
                 d == IF Invocation.flag = "-A" THEN iptables.accepted[p] + 1
                                                ELSE iptables.accepted[p] - 1
      <3>1. iptables' = [iptables EXCEPT !.accepted[p] = d]
        BY <1>2, <1>5, <2>4 DEF IptablesAfter
      <3>2. p \in Ports /\ iptables.accepted[p] \in Nat
        BY <1>2, <1>6, <2>4
      <3>3. d \in Nat /\ (Invocation.flag = "-A" => d > 0)
        BY <1>5, <2>4, <3>2
      <3>4. Invocation.flag # "-A" => p \in denied
        BY <1>2, <2>4
      <3>5. 22 \in Ports
        BY PortsOK
      <3> HIDE DEF d
      <3>6. /\ iptables' \in [policy : {"ACCEPT", "DROP"}, established : BOOLEAN, accepted : [Ports -> Nat]]
            /\ iptables'.policy = iptables.policy /\ iptables'.established = iptables.established
            /\ iptables'.accepted = [iptables.accepted EXCEPT ![p] = d]
        BY <1>6, <3>1, <3>2, <3>3
      <3>7. iptables'.accepted[22] = IF p = 22 THEN d ELSE iptables.accepted[22]
        BY <1>6, <3>5, <3>6
      <3> QED
        BY <2>4, <3>3, <3>4, <3>6, <3>7
    <2> QED
      BY <1>2, <2>1, <2>2, <2>3, <2>4
  <1>8. TypeOK'
    <2>1. /\ ufw' \in [active : BOOLEAN, policy : {"allow", "deny"}, rules : Seq(UfwRule)]
          /\ firewalld' \in [running : BOOLEAN, permanent : SUBSET Entry, runtime : SUBSET Entry]
      BY <1>1, <1>4 DEF TypeOK
    <2> QED
      BY <1>7, <2>1, InvokeMoves, Zenon DEF TypeOK
  <1>9. DebianInv' /\ RHELInv'
    BY <1>4 DEF DebianInv, RHELInv
  <1>10. ArchInv'
    <2> SUFFICES ASSUME ~interrupted', iptables'.policy = "DROP"
                 PROVE  /\ command' # Harden \/ step' > 5 => iptables'.established
                        /\ command' # Harden \/ step' > 6 =>
                              22 \in denied' \/ iptables'.accepted[22] > 0
      BY DEF ArchInv
    <2>1. /\ denied' = denied /\ interrupted' = interrupted
          /\ \/ command' = command /\ step' = step + 1
             \/ command' = NoCommand /\ step = Len(Invocations(command))
      BY InvokeMoves
    <2>2. step \in Int
      BY <1>1 DEF TypeOK
    <2>3. iptables.policy = "DROP" \/ (command = Harden /\ step = 2)
      BY <1>3, <1>7
    <2>4. iptables.policy = "DROP" =>
            /\ command # Harden \/ step > 5 => iptables.established
            /\ command # Harden \/ step > 6 => 22 \in denied \/ iptables.accepted[22] > 0
      BY <1>1, <2>1 DEF ArchInv
    <2>0. (command' = command /\ step' = step + 1) \/ command # Harden \/ step = 8
      BY <1>3, <2>1
    <2>5. command' # Harden \/ step' > 5 => iptables'.established
      <3>1. CASE command = Harden /\ step = 5
        BY <1>3, <1>7, <3>1
      <3>2. CASE command # Harden \/ step > 5
        <4>1. iptables.policy = "DROP"
          BY <2>2, <2>3, <3>2
        <4>2. iptables.established
          BY ONLY <2>4, <3>2, <4>1
        <4> QED
          BY ONLY <1>7, <4>2
      <3>3. command' # Harden \/ step' > 5 =>
                (command = Harden /\ step = 5) \/ command # Harden \/ step > 5
        BY ONLY <2>0, <2>2
      <3> QED
        BY <3>1, <3>2, <3>3
    <2>6. command' # Harden \/ step' > 6 => 22 \in denied \/ iptables'.accepted[22] > 0
      <3>1. CASE command = Harden /\ step = 6
        BY <1>3, <1>7, <3>1
      <3>2. CASE command # Harden \/ step > 6
        <4>1. iptables.policy = "DROP"
          BY <2>2, <2>3, <3>2
        <4>2. 22 \in denied \/ iptables.accepted[22] > 0
          BY ONLY <2>4, <3>2, <4>1
        <4> QED
          BY ONLY <1>7, <4>2
      <3>3. command' # Harden \/ step' > 6 =>
                (command = Harden /\ step = 6) \/ command # Harden \/ step > 6
        BY ONLY <2>0, <2>2
      <3> QED
        BY <3>1, <3>2, <3>3
    <2> QED
      BY <2>1, <2>5, <2>6
  <1> QED
    BY <1>8, <1>9, <1>10

\* An invocation that works, whatever the family.
LEMMA InvokeKeeps == FInv /\ Invoke => FInv'
  <1> SUFFICES ASSUME FInv, Invoke PROVE FInv'
    OBVIOUS
  <1>1. family = "debian" \/ family = "rhel" \/ family = "arch"
    BY FirewallAssumption DEF FInv, TypeOK, FirewallAssumption
  <1>2. TypeOK' /\ DebianInv' /\ RHELInv' /\ ArchInv'
    BY <1>1, DebianInvoke, RHELInvoke, ArchInvoke
  <1>3. StepInv' /\ RequestInv'
    BY InvokeMoves, RequestKept
  <1> QED
    BY <1>2, <1>3 DEF FInv

-----------------------------------------------------------------------------
(* The theorems                                                            *)

\* The strengthening is an invariant: the rest is read off from it.
THEOREM Invariance == Spec => []FInv
  <1>1. Init => FInv
    BY InitInv
  <1>2. FInv /\ [Next]_vars => FInv'
    <2> SUFFICES ASSUME FInv, [Next]_vars PROVE FInv'
      OBVIOUS
    <2>1. CASE HardenBegins \/ RuleBegins \/ RuleRefused
      BY <2>1, BeginKeeps
    <2>2. CASE Invoke
      BY <2>2, InvokeKeeps
    <2>3. CASE InvocationFails \/ Reboot
      BY <2>3, GivenUpKeeps
    <2>4. CASE UNCHANGED vars
      <3>1. UNCHANGED <<family, ufw, firewalld, iptables, command, step, commands, faults,
                        hardened, interrupted, asked, denied>>
        BY <2>4 DEF vars, firewalls, history
      <3>2. TypeOK'
        BY <3>1, Zenon DEF FInv, TypeOK
      <3>3. StepInv'
        BY <3>1, StepsStay DEF FInv, StepInv
      <3>4. RequestInv' /\ DebianInv' /\ RHELInv' /\ ArchInv'
        BY <3>1 DEF FInv, RequestInv, DebianInv, RHELInv, ArchInv, HasRule, Hardening, Service
      <3> QED
        BY <3>2, <3>3, <3>4 DEF FInv
    <2> QED
      BY <2>1, <2>2, <2>3, <2>4 DEF Next
  <1> QED
    BY <1>1, <1>2, PTL DEF Spec

\* The variables keep their types; a command is being executed exactly when one
\* of its invocations is next.
THEOREM TypeCorrect == Spec => []TypeOK
  <1>1. FInv => TypeOK
    BY DEF FInv
  <1> QED
    BY <1>1, Invariance, PTL

\* ufw opens a port that has an allowing rule for TCP and was never denied.
LEMMA UfwLetsIn ==
    ASSUME FInv, family = "debian", NEW p \in HardenPorts, ufw.active => HasRule(p), p \notin denied
    PROVE  UfwOpen(p)
  <1> DEFINE hits == {i \in DOMAIN ufw.rules :
                        ufw.rules[i].port = p /\ ufw.rules[i].proto \in {"none", "tcp"}}
  <1>1. CASE ~ufw.active
    BY <1>1 DEF UfwOpen
  <1>2. CASE ufw.active
    <2>1. PICK i \in hits : TRUE
      BY <1>2 DEF HasRule
    <2>2. ASSUME NEW j \in hits PROVE ufw.rules[j].action = "allow"
      <3>1. ufw.rules[j] \in UfwRule
        BY DEF FInv, TypeOK
      <3>2. ufw.rules[j].action # "deny"
        BY DEF FInv, DebianInv
      <3> QED
        BY <3>1, <3>2 DEF UfwRule
    <2> QED
      BY <2>1, <2>2 DEF UfwOpen
  <1> QED
    BY <1>1, <1>2

\* firewalld lets in what is enabled as a service.
LEMMA ServiceLetsIn ==
    ASSUME NEW p, Service(p) \in firewalld.runtime
    PROVE  FirewalldOpen(p)
  <1>1. Service(p).port = p /\ Service(p).kind # "udp"
    BY DEF Service
  <1> QED
    BY <1>1 DEF FirewalldOpen

\* Whatever fails, and however often the machine is rebooted: nobody is locked
\* out on Debian and RHEL, and on Arch only in the middle of a hardening or after
\* one was cut short.
THEOREM Reachable == Spec => []NeverCutOff
  <1>1. FInv => SshNeverCut
    <2> SUFFICES ASSUME FInv, family # "arch", 22 \notin denied PROVE Open(22)
      BY DEF SshNeverCut
    <2>1. family = "debian" \/ family = "rhel"
      BY FirewallAssumption DEF FInv, TypeOK, FirewallAssumption
    <2>2. CASE family = "debian"
      <3>1. 22 \in HardenPorts /\ (ufw.active => HasRule(22))
        BY <2>2 DEF FInv, DebianInv, HardenPorts
      <3> QED
        BY <2>2, <3>1, UfwLetsIn DEF Open
    <2>3. CASE family = "rhel"
      <3>1. Service(22) \in firewalld.runtime
        BY <2>3 DEF FInv, RHELInv
      <3> QED
        BY <2>3, <3>1, ServiceLetsIn DEF Open
    <2> QED
      BY <2>1, <2>2, <2>3
  <1>2. FInv => CutOnlyMidway
    <2> SUFFICES ASSUME FInv, family = "arch", command # Harden, ~interrupted
                 PROVE  AnswersArrive /\ (22 \in denied \/ Open(22))
      BY DEF CutOnlyMidway
    <2>1. iptables.policy \in {"ACCEPT", "DROP"}
      BY DEF FInv, TypeOK
    <2>2. iptables.policy = "DROP" =>
              iptables.established /\ (22 \in denied \/ iptables.accepted[22] > 0)
      BY DEF FInv, ArchInv
    <2> QED
      BY <2>1, <2>2 DEF AnswersArrive, Open, IptablesOpen
  <1>3. FInv => NeverCutOff
    BY <1>1, <1>2 DEF NeverCutOff
  <1> QED
    BY <1>3, Invariance, PTL

\* A hardening that succeeded on Debian or RHEL outlasts every later command,
\* fault and reboot.
THEOREM HardeningLasts == Spec => []StaysHardened
  <1>1. FInv => StaysHardened
    <2> SUFFICES ASSUME FInv, family # "arch", hardened
                 PROVE  Filtering /\ \A p \in HardenPorts \ denied : Open(p)
      BY DEF StaysHardened
    <2>1. family = "debian" \/ family = "rhel"
      BY FirewallAssumption DEF FInv, TypeOK, FirewallAssumption
    <2>2. CASE family = "debian"
      <3>1. ufw.active /\ ufw.policy = "deny"
        BY <2>2 DEF FInv, DebianInv
      <3>2. HasRule(22) /\ HasRule(80) /\ HasRule(443)
        BY <2>2, <3>1 DEF FInv, DebianInv
      <3>3. \A p \in HardenPorts : HasRule(p)
        BY <3>2 DEF HardenPorts
      <3> QED
        BY <2>2, <3>1, <3>3, UfwLetsIn DEF Open, Filtering
    <2>3. CASE family = "rhel"
      <3>1. /\ firewalld.running
            /\ Service(22) \in firewalld.runtime
            /\ Service(80) \in firewalld.runtime /\ Service(443) \in firewalld.runtime
        BY <2>3 DEF FInv, RHELInv
      <3>2. \A p \in HardenPorts : Service(p) \in firewalld.runtime
        BY <3>1 DEF HardenPorts
      <3> QED
        BY <2>3, <3>1, <3>2, ServiceLetsIn DEF Open, Filtering
    <2> QED
      BY <2>1, <2>2, <2>3
  <1> QED
    BY <1>1, Invariance, PTL
-----------------------------------------------------------------------------
(* The last request for a port                                             *)

\* No payload asks for UDP, which Open is not about, and on Debian all payloads name
\* ports in one way, without a protocol or for TCP: ufw keeps the rules of the two
\* ways apart, and the first that fits decides.
OneWay ==
    /\ "udp" \notin Protocols
    /\ "debian" \in Families => \A s, t \in Protocols : s = t

Rules == DOMAIN ufw.rules
Tcp(p) == [kind |-> "tcp", port |-> p]

ProtocolInv == command \in SetRule => command.proto \in Protocols

\* Beside the rules of a hardening there is one for a port, that of its last request.
DebianAsked ==
    family = "debian" =>
        /\ \A i \in Rules :
             \/ ufw.rules[i].proto \in Protocols
             \/ /\ ufw.rules[i].proto = "tcp" /\ ufw.rules[i].action = "allow"
                /\ ufw.rules[i].port \in HardenPorts
        /\ \A p \in Ports : asked[p] = "allow" =>
             /\ \E i \in Rules : ufw.rules[i].port = p
             /\ \A i \in Rules : ufw.rules[i].port = p => ufw.rules[i].action = "allow"
        /\ \A p \in Ports \ HardenPorts : asked[p] = "deny" =>
             \A i \in Rules : ufw.rules[i].port = p => ufw.rules[i].action = "deny"

\* What is running agrees with what is saved about every port whose request is done.
RHELAsked ==
    family = "rhel" =>
        /\ \A p \in Ports : asked[p] = "allow" =>
             Tcp(p) \in firewalld.permanent \intersect firewalld.runtime
        /\ \A p \in Ports : asked[p] = "deny" =>
             Tcp(p) \notin firewalld.permanent \union firewalld.runtime
        /\ command \in SetRule /\ step = 2 =>
             (Tcp(command.port) \in firewalld.permanent <=> command.action = "allow")

AskedInv == ProtocolInv /\ DebianAsked /\ RHELAsked

\* Once a rule is set, no other of its port and protocol is left.
LEMMA WithRuleReplaces ==
    ASSUME NEW rules \in Seq(UfwRule), NEW new \in UfwRule
    PROVE  LET r == WithRule(rules, new) IN
           \A i \in DOMAIN r : r[i].port = new.port /\ r[i].proto = new.proto => r[i] = new
  <1>1. CASE \E i \in DOMAIN rules : rules[i].port = new.port /\ rules[i].proto = new.proto
    BY <1>1 DEF WithRule
  <1>2. CASE ~\E i \in DOMAIN rules : rules[i].port = new.port /\ rules[i].proto = new.proto
    <2>1. WithRule(rules, new) = Append(rules, new)
      BY <1>2 DEF WithRule
    <2> QED
      BY <1>2, <2>1
  <1> QED
    BY <1>1, <1>2

\* On a new machine nothing was asked for.
LEMMA AskedInit == Init => AskedInv
  <1> SUFFICES ASSUME Init PROVE AskedInv
    OBVIOUS
  <1>1. command = NoCommand /\ ufw.rules = <<>> /\ asked = [p \in Ports |-> "nothing"]
    BY DEF Init
  <1> QED
    BY <1>1, CommandKinds DEF AskedInv, ProtocolInv, DebianAsked, RHELAsked, Rules

\* A request begins: from now on nothing is known of its port.
LEMMA AskedBegin == FInv /\ AskedInv /\ (HardenBegins \/ RuleBegins \/ RuleRefused) => AskedInv'
  <1> SUFFICES ASSUME FInv, AskedInv, HardenBegins \/ RuleBegins \/ RuleRefused PROVE AskedInv'
    OBVIOUS
  <1>1. UNCHANGED <<family, ufw, firewalld>>
    BY DEF HardenBegins, RuleBegins, RuleRefused, firewalls
  <1>2. asked' = asked \/ \E p \in Ports : asked' = [asked EXCEPT ![p] = "unknown"]
    BY DEF HardenBegins, RuleBegins, RuleRefused, history, Ports
  <1>3. \A p \in Ports : asked'[p] \in {"allow", "deny"} => asked'[p] = asked[p]
    BY <1>2 DEF FInv, TypeOK
  <1>4. \/ command' \in SetRule /\ command'.proto \in Protocols /\ step' = 1
        \/ command' = Harden
        \/ command' = NoCommand
    <2>1. CASE RuleBegins
      <3>1. PICK p \in RequestedPorts, proto \in Protocols, action \in {"allow", "deny"} :
                /\ Valid(p)
                /\ command' = [type |-> "set", port |-> p, proto |-> proto, action |-> action]
        BY <2>1 DEF RuleBegins
      <3>2. command' \in SetRule /\ command'.proto = proto
        BY <3>1, FirewallAssumption DEF SetRule, Ports, FirewallAssumption
      <3> QED
        BY <2>1, <3>2 DEF RuleBegins
    <2> QED
      BY <2>1 DEF HardenBegins, RuleRefused, CommandArrives
  <1>5. ProtocolInv'
    BY <1>4, CommandKinds DEF ProtocolInv
  <1>6. DebianAsked'
    BY <1>1, <1>3 DEF AskedInv, DebianAsked, Rules
  <1>7. RHELAsked'
    BY <1>1, <1>3, <1>4, CommandKinds DEF AskedInv, RHELAsked, Tcp
  <1> QED
    BY <1>5, <1>6, <1>7 DEF AskedInv

\* A reboot makes what is saved what is running.
LEMMA AskedGivenUp == FInv /\ AskedInv /\ (InvocationFails \/ Reboot) => AskedInv'
  <1> SUFFICES ASSUME FInv, AskedInv, InvocationFails \/ Reboot PROVE AskedInv'
    OBVIOUS
  <1>1. /\ command' = NoCommand /\ UNCHANGED <<family, ufw, asked>>
        /\ \/ firewalld' = firewalld
           \/ firewalld' = [firewalld EXCEPT !.runtime = firewalld.permanent]
    BY DEF InvocationFails, Reboot, GivenUp, firewalls
  <1>2. /\ firewalld'.permanent = firewalld.permanent
        /\ firewalld'.runtime \in {firewalld.runtime, firewalld.permanent}
    BY <1>1 DEF FInv, TypeOK
  <1>3. ProtocolInv' /\ DebianAsked'
    BY <1>1, CommandKinds DEF AskedInv, ProtocolInv, DebianAsked, Rules
  <1>4. RHELAsked'
    BY <1>1, <1>2, CommandKinds DEF AskedInv, RHELAsked, Tcp
  <1> QED
    BY <1>3, <1>4 DEF AskedInv

\* What an invocation makes of the requests: a rule is what is next, and its own
\* request is done when it is the last.
LEMMA AskedMoves ==
    ASSUME FInv, Invoke
    PROVE  /\ command \in {Harden} \union SetRule
           /\ \/ command' = command /\ step' = step + 1 /\ asked' = asked
                 /\ step < Len(Invocations(command))
              \/ command' = NoCommand /\ command = Harden /\ asked' = asked
              \/ /\ command' = NoCommand /\ command \in SetRule
                 /\ step = Len(Invocations(command))
                 /\ asked' = [asked EXCEPT ![command.port] = command.action]
           /\ family' = family
  <1>1. command \in {Harden} \union SetRule
    BY DEF Invoke, FInv, TypeOK
  <1> QED
    BY <1>1, InvokeMoves

\* Of two rules that payloads of one way set for a port, the later is the only one.
LEMMA AskedDebian ==
    ASSUME FInv, AskedInv, OneWay, Invoke, family = "debian"
    PROVE  DebianAsked'
  <1>1. /\ command \in {Harden} \union SetRule
        /\ (command = Harden /\ asked' = asked) \/ command \in SetRule
    BY AskedMoves, CommandKinds
  <1>2. /\ command = Harden =>
              /\ Invocation.op \in {"ufw default deny", "ufw default allow outgoing",
                                    "--force enable", "ufw"}
              /\ Invocation.op = "ufw" => \E p \in HardenPorts : Invocation = Ufw("allow", p, "tcp")
        /\ command \in SetRule =>
              /\ Invocation = Ufw(command.action, command.port, command.proto)
              /\ Invocation.op = "ufw"
    BY DebianOperation DEF FInv, Invoke
  <1>3. ufw' = UfwAfter(Invocation)
    BY DEF Invoke
  <1>4. /\ ufw \in [active : BOOLEAN, policy : {"allow", "deny"}, rules : Seq(UfwRule)]
        /\ asked \in [Ports -> {"nothing", "unknown", "allow", "deny"}]
    BY DEF FInv, TypeOK
  <1>a. /\ \A i \in Rules :
             \/ ufw.rules[i].proto \in Protocols
             \/ /\ ufw.rules[i].proto = "tcp" /\ ufw.rules[i].action = "allow"
                /\ ufw.rules[i].port \in HardenPorts
        /\ \A p \in Ports : asked[p] = "allow" =>
             /\ \E i \in Rules : ufw.rules[i].port = p
             /\ \A i \in Rules : ufw.rules[i].port = p => ufw.rules[i].action = "allow"
        /\ \A p \in Ports \ HardenPorts : asked[p] = "deny" =>
             \A i \in Rules : ufw.rules[i].port = p => ufw.rules[i].action = "deny"
    BY DEF AskedInv, DebianAsked
  <1>b. \A s, u \in Protocols : s = u
    BY DEF OneWay, FInv, TypeOK
  <1>5. CASE Invocation.op # "ufw"
    <2>1. ufw'.rules = ufw.rules
      BY <1>3, <1>4, <1>5 DEF UfwAfter
    <2>2. asked' = asked
      BY <1>1, <1>2, <1>5
    <2> QED
      BY <1>a, <2>1, <2>2 DEF DebianAsked, Rules
  <1>6. CASE Invocation.op = "ufw"
    <2> DEFINE new == [port |-> Invocation.port, proto |-> Invocation.proto,
                       action |-> Invocation.action]
               r == WithRule(ufw.rules, new)
    <2>1. PICK a \in {"allow", "deny"}, q \in Ports, t \in {"none", "tcp", "udp"} :
             /\ Invocation = Ufw(a, q, t)
             /\ \/ command = Harden /\ a = "allow" /\ t = "tcp" /\ q \in HardenPorts
                \/ /\ command \in SetRule /\ t \in Protocols
                   /\ a = command.action /\ q = command.port
      <3>1. CASE command = Harden
        BY <1>2, <1>6, <3>1, PortsOK
      <3>2. CASE command \in SetRule
        BY <1>2, <3>2, CommandKinds DEF AskedInv, ProtocolInv
      <3> QED
        BY <1>1, <3>1, <3>2
    <2>2. new = [port |-> q, proto |-> t, action |-> a] /\ new \in UfwRule
      BY <2>1 DEF Ufw, UfwRule
    <2>3. new.port = q /\ new.proto = t /\ new.action = a
      BY <2>2
    <2>4. ufw' = [ufw EXCEPT !.rules = r]
      BY <1>3, <1>6 DEF UfwAfter
    <2>5. ufw'.rules = r
      BY <1>4, <2>4
    <2> HIDE DEF new
    <2>6. /\ DOMAIN ufw.rules \subseteq DOMAIN r
          /\ \A i \in DOMAIN ufw.rules : r[i].port = ufw.rules[i].port
          /\ \A i \in DOMAIN r : r[i] = new \/ (i \in DOMAIN ufw.rules /\ r[i] = ufw.rules[i])
          /\ \E i \in DOMAIN r : r[i] = new
          /\ \A i \in DOMAIN r : r[i].port = new.port /\ r[i].proto = new.proto => r[i] = new
      <3>1. ufw.rules \in Seq(UfwRule)
        BY <1>4
      <3>2. /\ DOMAIN ufw.rules \subseteq DOMAIN r
            /\ \A i \in DOMAIN ufw.rules : r[i].port = ufw.rules[i].port
            /\ \A i \in DOMAIN r : r[i] = new \/ (i \in DOMAIN ufw.rules /\ r[i] = ufw.rules[i])
            /\ \E i \in DOMAIN r : r[i] = new
        <4>1. new \in UfwRule
          BY <2>2
        <4>2. \A n \in UfwRule : LET w == WithRule(ufw.rules, n) IN
               /\ DOMAIN ufw.rules \subseteq DOMAIN w
               /\ \A i \in DOMAIN ufw.rules : w[i].port = ufw.rules[i].port
               /\ \A i \in DOMAIN w : w[i] = n \/ (i \in DOMAIN ufw.rules /\ w[i] = ufw.rules[i])
               /\ \E i \in DOMAIN w : w[i] = n
          BY <3>1, WithRuleKeeps
        <4> QED
          BY <4>1, <4>2
      <3>3. \A i \in DOMAIN r : r[i].port = new.port /\ r[i].proto = new.proto => r[i] = new
        <4>1. new \in UfwRule
          BY <2>2
        <4>2. \A n \in UfwRule : LET w == WithRule(ufw.rules, n) IN
               \A i \in DOMAIN w : w[i].port = n.port /\ w[i].proto = n.proto => w[i] = n
          BY <3>1, WithRuleReplaces
        <4> QED
          BY <4>1, <4>2
      <3> QED
        BY <3>2, <3>3
    <2> HIDE DEF r
    <2>7. ASSUME NEW i \in DOMAIN r
          PROVE  \/ r[i].proto \in Protocols
                 \/ r[i].proto = "tcp" /\ r[i].action = "allow" /\ r[i].port \in HardenPorts
      BY <1>a, <2>1, <2>3, <2>6 DEF Rules
    \* The other rules for the port are those of a hardening.
    <2>8. ASSUME NEW i \in DOMAIN r, r[i].port = q
          PROVE  r[i].action = a \/ q \in HardenPorts
      <3>1. CASE r[i] = new
        BY <2>3, <3>1
      <3>2. CASE r[i] # new /\ command = Harden
        BY <2>1, <3>2, CommandKinds
      <3>3. CASE r[i] # new /\ command # Harden
        <4>1. r[i].proto # t /\ t \in Protocols
          BY <2>1, <2>3, <2>6, <2>8, <3>3
        <4>2. r[i].proto \notin Protocols
          BY <1>b, <4>1
        <4> QED
          BY <2>7, <2>8, <4>2
      <3> QED
        BY <3>1, <3>2, <3>3
    <2>9. ASSUME a = "allow", asked[q] = "allow" \/ command # Harden, NEW i \in DOMAIN r, r[i].port = q
          PROVE  r[i].action = "allow"
      <3>1. CASE r[i] = new
        BY <2>3, <2>9, <3>1
      <3>2. CASE r[i] # new /\ command = Harden
        BY <1>a, <2>6, <2>9, <3>2 DEF Rules
      <3>3. CASE r[i] # new /\ command # Harden
        <4>1. r[i].proto # t /\ t \in Protocols
          BY <2>1, <2>3, <2>6, <2>9, <3>3
        <4>2. r[i].proto \notin Protocols
          BY <1>b, <4>1
        <4> QED
          BY <2>7, <4>2
      <3> QED
        BY <3>1, <3>2, <3>3
    <2>10. /\ \A p \in Ports \ {q} : asked'[p] = asked[p]
           /\ command = Harden => asked' = asked
           /\ command # Harden => asked'[q] \in {asked[q], a}
           /\ command # Harden => asked[q] = "unknown"
      BY <1>4, <2>1, AskedMoves, CommandKinds DEF FInv, RequestInv
    <2>11. ASSUME NEW p \in Ports, asked'[p] = "allow"
           PROVE  /\ \E i \in DOMAIN r : r[i].port = p
                  /\ \A i \in DOMAIN r : r[i].port = p => r[i].action = "allow"
      <3>1. CASE p # q
        BY <1>a, <2>3, <2>6, <2>10, <2>11, <3>1 DEF Rules
      <3>2. CASE p = q
        <4>1. a = "allow"
          <5>1. CASE command = Harden
            BY <2>1, <5>1, CommandKinds
          <5>2. CASE command # Harden
            BY ONLY <2>10, <2>11, <3>2, <5>2
          <5> QED
            BY <5>1, <5>2
        <4>2. asked[q] = "allow" \/ command # Harden
          BY <2>10, <2>11, <3>2
        <4> QED
          BY <2>3, <2>6, <2>9, <3>2, <4>1, <4>2
      <3> QED
        BY <3>1, <3>2
    <2>12. ASSUME NEW p \in Ports \ HardenPorts, asked'[p] = "deny", NEW i \in DOMAIN r, r[i].port = p
           PROVE  r[i].action = "deny"
      <3>1. CASE p # q
        BY <1>a, <2>3, <2>6, <2>10, <2>12, <3>1 DEF Rules
      <3>2. CASE p = q
        <4>1. command # Harden
          BY <2>1, <2>12, <3>2, CommandKinds
        <4>2. a = "deny"
          BY ONLY <2>10, <2>12, <3>2, <4>1
        <4> QED
          BY <2>8, <2>12, <3>2, <4>2
      <3> QED
        BY <3>1, <3>2
    <2> QED
      BY <2>5, <2>7, <2>11, <2>12 DEF DebianAsked, Rules
  <1> QED
    BY <1>5, <1>6

\* What a rule invokes on RHEL: what a payload names no protocol for is TCP.
LEMMA RHELRule ==
    ASSUME FInv, AskedInv, OneWay, family = "rhel", command \in SetRule
    PROVE  /\ step = 1 \/ step = 2
           /\ Len(Invocations(command)) = 2
           /\ step = 1 => /\ Invocation.op = "permanent" /\ Invocation.entry = Tcp(command.port)
                          /\ Invocation.flag = "--add" <=> command.action = "allow"
           /\ step = 2 => Invocation.op = "--reload"
  <1>1. /\ command # NoCommand /\ TypeOK /\ StepInv /\ command # Harden
        /\ command.action \in {"allow", "deny"} /\ command.proto \in {"none", "tcp"}
    BY CommandKinds, FirewallAssumption DEF FInv, AskedInv, ProtocolInv, OneWay, FirewallAssumption
  <1>2. Invocations(command) = setFirewallRuleRHEL(command)
    BY <1>1 DEF Invocations
  <1>3. /\ Len(Invocations(command)) = 2
        /\ Invocations(command)[2] = Does("--reload")
        /\ Invocations(command)[1] =
              Permanent(IF command.action = "deny" THEN "--remove" ELSE "--add", "tcp", command.port)
    BY <1>1, <1>2 DEF setFirewallRuleRHEL
  <1>4. step = 1 \/ step = 2
    BY <1>1, <1>3 DEF StepInv
  <1> QED
    BY <1>1, <1>3, <1>4 DEF Invocation, Permanent, Does, Tcp

\* A hardening enables services only, a rule reaches what is running with the
\* reload that ends it.
LEMMA AskedRHEL ==
    ASSUME FInv, AskedInv, OneWay, Invoke, family = "rhel"
    PROVE  RHELAsked'
  <1>1. /\ firewalld \in [running : BOOLEAN, permanent : SUBSET Entry, runtime : SUBSET Entry]
        /\ asked \in [Ports -> {"nothing", "unknown", "allow", "deny"}]
        /\ step \in Int
    BY DEF FInv, TypeOK
  <1>2. firewalld' = FirewalldAfter(Invocation)
    BY DEF Invoke
  <1>3. /\ \A p \in Ports : asked[p] = "allow" =>
             Tcp(p) \in firewalld.permanent /\ Tcp(p) \in firewalld.runtime
        /\ \A p \in Ports : asked[p] = "deny" =>
             Tcp(p) \notin firewalld.permanent /\ Tcp(p) \notin firewalld.runtime
        /\ command \in SetRule /\ step = 2 =>
             (Tcp(command.port) \in firewalld.permanent <=> command.action = "allow")
    BY DEF AskedInv, RHELAsked
  <1>4. CASE command = Harden
    <2>1. asked' = asked /\ (command' = Harden \/ command' = NoCommand)
      BY <1>4, AskedMoves, CommandKinds
    <2>2. /\ Invocation.op \in {"enable --now firewalld", "permanent", "--reload"}
          /\ Invocation.op = "permanent" =>
                Invocation.flag = "--add" /\ \E p : Invocation.entry = Service(p)
      <3>1. /\ \A op : Invocation = Does(op) => Invocation.op = op
            /\ \A f, k, p : Invocation = Permanent(f, k, p) =>
                 Invocation.op = "permanent" /\ Invocation.flag = f
                 /\ Invocation.entry = [kind |-> k, port |-> p]
        BY Operation
      <3>2. \/ Invocation = Does("enable --now firewalld") \/ Invocation = Does("--reload")
            \/ \E p : Invocation = Permanent("--add", "service", p)
        <4>1. /\ step \in 1..5
              /\ step = 1 => Invocation = Does("enable --now firewalld")
              /\ step = 2 => Invocation = Permanent("--add", "service", 22)
              /\ step = 3 => Invocation = Permanent("--add", "service", 80)
              /\ step = 4 => Invocation = Permanent("--add", "service", 443)
              /\ step = 5 => Invocation = Does("--reload")
          BY <1>4, RHELAt, CommandKinds DEF FInv
        <4>2. step \in 1..5 => step = 1 \/ step = 2 \/ step = 3 \/ step = 4 \/ step = 5
          OBVIOUS
        <4> QED
          BY <4>1, <4>2
      <3>3. CASE Invocation = Does("enable --now firewalld") \/ Invocation = Does("--reload")
        BY <3>1, <3>3
      <3>4. CASE \E p : Invocation = Permanent("--add", "service", p)
        <4>1. PICK p : Invocation = Permanent("--add", "service", p)
          BY <3>4
        <4>2. Invocation.op = "permanent" /\ Invocation.flag = "--add"
              /\ Invocation.entry = Service(p)
          BY <3>1, <4>1 DEF Service
        <4> QED
          BY <4>2
      <3> QED
        BY <3>2, <3>3, <3>4
    <2>3. \A p, q : Tcp(p) # Service(q)
      BY DEF Tcp, Service
    <2>4. /\ \A p : Tcp(p) \in firewalld'.permanent <=> Tcp(p) \in firewalld.permanent
          /\ firewalld'.runtime \in {firewalld.runtime, firewalld.permanent}
      <3>1. CASE Invocation.op = "permanent"
        <4>1. /\ firewalld'.permanent = firewalld.permanent \union {Invocation.entry}
              /\ firewalld'.runtime = firewalld.runtime
          BY <1>1, <1>2, <2>2, <3>1 DEF FirewalldAfter
        <4> QED
          BY <2>2, <2>3, <3>1, <4>1
      <3>2. CASE Invocation.op # "permanent"
        <4>1. /\ firewalld'.permanent = firewalld.permanent
              /\ firewalld'.runtime \in {firewalld.runtime, firewalld.permanent}
          BY <1>1, <1>2, <2>2, <3>2 DEF FirewalldAfter
        <4> QED
          BY <4>1
      <3> QED
        BY <3>1, <3>2
    <2>5. \A p : Tcp(p)' = Tcp(p)
      BY DEF Tcp
    <2> QED
      BY <1>3, <2>1, <2>4, <2>5, CommandKinds DEF RHELAsked, Tcp
  <1>5. CASE command \in SetRule
    <2> DEFINE q == command.port
    <2>1. /\ step = 1 \/ step = 2
          /\ Len(Invocations(command)) = 2
          /\ step = 1 => /\ Invocation.op = "permanent" /\ Invocation.entry = Tcp(q)
                         /\ Invocation.flag = "--add" <=> command.action = "allow"
          /\ step = 2 => Invocation.op = "--reload"
      BY <1>5, RHELRule
    <2>2. /\ q \in Ports /\ command # Harden /\ command.action \in {"allow", "deny"}
          /\ asked[q] = "unknown"
      BY <1>5, CommandKinds DEF FInv, RequestInv
    <2>3. \A p \in Ports : p # q => Tcp(p) # Tcp(q)
      BY DEF Tcp
    <2>4. CASE step = 1
      <3>1. command' = command /\ step' = 2 /\ asked' = asked
        BY <1>1, <2>1, <2>2, <2>4, AskedMoves
      <3>2. /\ firewalld'.runtime = firewalld.runtime
            /\ firewalld'.permanent = IF command.action = "allow"
                                      THEN firewalld.permanent \union {Tcp(q)}
                                      ELSE firewalld.permanent \ {Tcp(q)}
        BY <1>1, <1>2, <2>1, <2>4 DEF FirewalldAfter
      <3>3. Tcp(q) \in firewalld'.permanent <=> command.action = "allow"
        BY <2>2, <3>2
      <3>4. \A p \in Ports : p # q =>
              (Tcp(p) \in firewalld'.permanent <=> Tcp(p) \in firewalld.permanent)
        BY <2>3, <3>2
      <3> QED
        BY <1>3, <2>2, <3>1, <3>2, <3>3, <3>4 DEF RHELAsked, Tcp
    <2>5. CASE step = 2
      <3>1. command' = NoCommand /\ asked' = [asked EXCEPT ![q] = command.action]
        BY <1>1, <2>1, <2>2, <2>5, AskedMoves
      <3>2. firewalld'.permanent = firewalld.permanent /\ firewalld'.runtime = firewalld.permanent
        BY <1>1, <1>2, <2>1, <2>5 DEF FirewalldAfter
      <3>3. /\ asked'[q] = command.action
            /\ \A p \in Ports : p # q => asked'[p] = asked[p]
        BY <1>1, <2>2, <3>1
      <3>4. Tcp(q) \in firewalld.permanent <=> command.action = "allow"
        BY <1>3, <1>5, <2>5
      <3>5. ASSUME NEW p \in Ports, asked'[p] = "allow" PROVE Tcp(p) \in firewalld.permanent
        BY <1>3, <3>3, <3>4, <3>5
      <3>6. ASSUME NEW p \in Ports, asked'[p] = "deny" PROVE Tcp(p) \notin firewalld.permanent
        BY <1>3, <3>3, <3>4, <3>6
      <3> QED
        BY <3>1, <3>2, <3>5, <3>6, CommandKinds DEF RHELAsked, Tcp
    <2> QED
      BY <2>1, <2>4, <2>5
  <1> QED
    BY <1>4, <1>5, AskedMoves

\* Every step keeps what is known of the requests.
LEMMA AskedKept == FInv /\ AskedInv /\ OneWay /\ [Next]_vars => AskedInv'
  <1> SUFFICES ASSUME FInv, AskedInv, OneWay, [Next]_vars PROVE AskedInv'
    OBVIOUS
  <1>1. CASE HardenBegins \/ RuleBegins \/ RuleRefused
    BY <1>1, AskedBegin
  <1>2. CASE InvocationFails \/ Reboot
    BY <1>2, AskedGivenUp
  <1>3. CASE Invoke
    <2>1. ProtocolInv' /\ family' = family
      BY <1>3, AskedMoves, CommandKinds DEF AskedInv, ProtocolInv
    <2>2. DebianAsked'
      BY <1>3, <2>1, AskedDebian DEF DebianAsked
    <2>3. RHELAsked'
      BY <1>3, <2>1, AskedRHEL DEF RHELAsked
    <2> QED
      BY <2>1, <2>2, <2>3 DEF AskedInv
  <1>4. CASE UNCHANGED vars
    BY <1>4 DEF vars, firewalls, history, AskedInv, ProtocolInv, DebianAsked, RHELAsked, Rules, Tcp
  <1> QED
    BY <1>1, <1>2, <1>3, <1>4 DEF Next

\* The last request that succeeded for a port holds on Debian and RHEL, whatever
\* was asked for the others and whatever failed since, but that a hardening opens
\* its ports again.  Without OneWay it does not: TLC finds a port that is open after
\* 8080/tcp was allowed and 8080 denied.
THEOREM RequestsHold == ASSUME OneWay PROVE Spec => []LastRequestHolds
  <1>1. FInv /\ AskedInv => AllowOpens
    <2> SUFFICES ASSUME FInv, AskedInv, NEW p \in Ports, family # "arch", asked[p] = "allow"
                 PROVE  Open(p)
      BY DEF AllowOpens
    <2>1. family = "debian" \/ family = "rhel"
      BY FirewallAssumption DEF FInv, TypeOK, FirewallAssumption
    <2>2. CASE family = "debian"
      <3>1. PICK i \in Rules : ufw.rules[i].port = p
        BY <2>2 DEF AskedInv, DebianAsked
      <3>2. ufw.rules[i].proto \in {"none", "tcp"}
        <4>1. \A s \in Protocols : s \in {"none", "tcp"}
          BY FirewallAssumption DEF OneWay, FirewallAssumption
        <4> QED
          BY <2>2, <4>1 DEF AskedInv, DebianAsked
      <3>3. \A j \in Rules : ufw.rules[j].port = p => ufw.rules[j].action = "allow"
        BY <2>2 DEF AskedInv, DebianAsked
      <3> QED
        BY <2>2, <3>1, <3>2, <3>3 DEF Open, UfwOpen, Rules
    <2>3. CASE family = "rhel"
      <3>1. Tcp(p) \in firewalld.runtime /\ Tcp(p).port = p /\ Tcp(p).kind # "udp"
        BY <2>3 DEF AskedInv, RHELAsked, Tcp
      <3> QED
        BY <2>3, <3>1 DEF Open, FirewalldOpen
    <2> QED
      BY <2>1, <2>2, <2>3
  <1>2. FInv /\ AskedInv => DenyCloses
    <2> SUFFICES ASSUME FInv, AskedInv, NEW p \in Ports \ HardenPorts, family # "arch",
                        asked[p] = "deny", Filtering
                 PROVE  ~Open(p)
      BY DEF DenyCloses
    <2>1. family = "debian" \/ family = "rhel"
      BY FirewallAssumption DEF FInv, TypeOK, FirewallAssumption
    <2>2. CASE family = "debian"
      <3>1. ufw.active /\ ufw.policy = "deny"
        BY <2>2 DEF Filtering
      <3>2. \A i \in Rules : ufw.rules[i].port = p => ufw.rules[i].action = "deny"
        BY <2>2 DEF AskedInv, DebianAsked
      <3>3. ~UfwOpen(p)
        <4> SUFFICES ASSUME UfwOpen(p) PROVE FALSE
          OBVIOUS
        <4>1. PICK i \in Rules :
                 /\ ufw.rules[i].port = p /\ ufw.rules[i].proto \in {"none", "tcp"}
                 /\ \A j \in Rules :
                      ufw.rules[j].port = p /\ ufw.rules[j].proto \in {"none", "tcp"} /\ j <= i
                          => ufw.rules[j].action = "allow"
          BY <3>1 DEF UfwOpen, Rules
        <4>2. i <= i
          BY DEF Rules, FInv, TypeOK
        <4>3. ufw.rules[i].action = "allow"
          BY <4>1, <4>2
        <4> QED
          BY <3>2, <4>1, <4>3
      <3> QED
        BY <2>2, <3>3 DEF Open
    <2>3. CASE family = "rhel"
      <3>1. firewalld.running /\ Tcp(p) \notin firewalld.runtime
        BY <2>3 DEF Filtering, AskedInv, RHELAsked
      <3>2. ASSUME NEW e \in firewalld.runtime, e.port = p, e.kind # "udp" PROVE FALSE
        <4>1. e \in Entry
          BY DEF FInv, TypeOK
        <4>2. e.kind # "service"
          BY <3>2, <4>1 DEF Entry
        <4>3. e = Tcp(p)
          BY <3>2, <4>1, <4>2 DEF Entry, Tcp
        <4> QED
          BY <3>1, <4>3
      <3> QED
        BY <2>3, <3>1, <3>2 DEF Open, FirewalldOpen
    <2> QED
      BY <2>1, <2>2, <2>3
  <1>3. FInv /\ AskedInv => LastRequestHolds
    BY <1>1, <1>2 DEF LastRequestHolds
  <1>4. FInv /\ AskedInv /\ [Next]_vars => AskedInv'
    BY AskedKept
  <1> QED
    BY <1>3, <1>4, AskedInit, Invariance, PTL DEF Spec
=============================================================================
