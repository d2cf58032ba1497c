------------------------------- MODULE Readings -------------------------------
(***************************************************************************)
(* What the agent says of the machine that module Hardening changes: the   *)
(* security audit, the scan and the security report.  They change nothing; *)
(* each is a function of the machine, of the circumstances the executors   *)
(* do not touch, and of the programs that fail while it is read.           *)
(***************************************************************************)
EXTENDS Hardening, FiniteSets

\* An earlier drop-in of sshd may decide what the baseline sets, the unit of
\* docker may open its API on TCP, a new kernel may wait for a reboot.
Settings == [overridden : BOOLEAN, exposed : BOOLEAN, reboot : BOOLEAN]

Programs == {"os-release", "firewall", "sshd-T", "crowdsec", "bouncer", "docker-info",
             "docker-unit", "daemon-json", "updates", "reboot-required"}

\* At most one program fails in an audit.
Failures == {{}} \union {{p} : p \in Programs}

-----------------------------------------------------------------------------
(* security_audit                                                          *)

Codes == {"firewall_not_hardened", "ssh_baseline_missing", "crowdsec_missing",
          "docker_not_hardened", "security_updates_pending", "reboot_required",
          "distro_unrecognized"}

\* The family as the audit detects it; the default is the tools of Debian.
Seen(failed) == IF "os-release" \in failed THEN "unknown" ELSE family
RightTools(failed) == Seen(failed) = family \/ Apt

\* Mutant: CrowdSec is asked for where it cannot be installed.
CrowdsecEverywhere(failed) == TRUE

crowdsecApplicable(failed) == Seen(failed) # "arch"

\* Mutant: one of the two is enough.
EitherActive(failed) == \E s \in {"crowdsec", "bouncer"} \ failed : s \in active

crowdsecActive(failed) == \A s \in {"crowdsec", "bouncer"} : s \in active /\ s \notin failed

\* What cannot be read counts as missing, but an unreadable docker is no docker,
\* a unit of docker that cannot be read opens no API, and updates or a reboot
\* that cannot be read are none.
Finds(code, w, failed) ==
    CASE code = "firewall_not_hardened" ->
            ~("firewall" \in has /\ RightTools(failed) /\ "firewall" \notin failed)
      [] code = "ssh_baseline_missing" ->
            "sshd" \notin has \/ w.overridden \/ "sshd-T" \in failed
      [] code = "crowdsec_missing" -> crowdsecApplicable(failed) /\ ~crowdsecActive(failed)
      [] code = "docker_not_hardened" ->
            /\ "docker" \in active /\ "docker-info" \notin failed
            /\ \/ w.exposed /\ "docker-unit" \notin failed
               \/ "daemon" \notin has \/ "daemon-json" \in failed
      [] code = "security_updates_pending" ->
            /\ pending /\ "updates" \notin failed
            /\ Seen(failed) # "arch" /\ RightTools(failed)
      [] code = "reboot_required" -> Apt /\ w.reboot /\ "reboot-required" \notin failed
      [] code = "distro_unrecognized" -> Seen(failed) = "unknown"

securityAudit(w, failed) == {code \in Codes : Finds(code, w, failed)}

\* All findings together leave 10 of the 100.
auditScore(findings) ==
    LET high == findings \intersect {"firewall_not_hardened"}
        low == findings \intersect {"distro_unrecognized"}
    IN  100 - 25 * Cardinality(high) - 5 * Cardinality(low)
            - 12 * Cardinality(findings \ (high \union low))

Status(findings) ==
    LET score == auditScore(findings)
    IN  IF score < 70 THEN "critical" ELSE IF score < 90 THEN "warning" ELSE "healthy"

RecommendedAction(code) ==
    CASE code = "firewall_not_hardened" -> "harden_firewall"
      [] code = "ssh_baseline_missing" -> "ssh_harden"
      [] code = "crowdsec_missing" -> "install_crowdsec"
      [] code = "docker_not_hardened" -> "docker_harden"
      [] code = "security_updates_pending" -> "sysupdate"
      [] code = "reboot_required" -> "reboot_server"
      [] OTHER -> "none"

-----------------------------------------------------------------------------
(* scan_vps                                                                *)

CrowdSecs == {"crowdsec", "crowdsec-firewall-bouncer", "8080", "6060"}

\* Who has ports 80 and 443: nobody, the agent's proxy, a web server with a unit
\* of its own, or one without (started by hand or in a container).  The ports and
\* services of every machine are left out.
WebServers == {"nobody", "proxy", "service", "process"}

listeningPorts(web) ==
    (IF web \in {"service", "process"} \/ (web = "proxy" /\ "docker" \in active) THEN {"80", "443"} ELSE {})
    \union (IF "crowdsec" \in active THEN {"8080", "6060"} ELSE {})

runningServices(web) ==
    (IF web = "service" THEN {"web-server"} ELSE {})
    \union (IF "docker" \in active THEN {"docker"} ELSE {})
    \union (IF "crowdsec" \in active THEN {"crowdsec"} ELSE {})
    \union (IF "bouncer" \in active THEN {"crowdsec-firewall-bouncer"} ELSE {})
    \union (IF "updates" \in active /\ Apt THEN {"unattended-upgrades"} ELSE {})

baseServicesAllowed == {"docker", "unattended-upgrades"}

\* Mutant: the ports of the proxy are always allowed.
WebAllowed(web, failed) == {"80", "443"}

nginxPorts(web, failed) ==
    IF web = "proxy" /\ "docker" \in active /\ "docker-inspect" \notin failed
    THEN {"80", "443"} ELSE {}

\* The scan is clean if nothing is found.
scanVPS(web, failed) ==
    (IF "ss" \in failed THEN {} ELSE listeningPorts(web) \ nginxPorts(web, failed))
    \union (IF "systemctl" \in failed THEN {} ELSE runningServices(web) \ baseServicesAllowed)

-----------------------------------------------------------------------------
(* The security report                                                     *)

\* The bans of others and, when the decisions hold none, those of the alerts of
\* the last hour: also when the list did not fail but is empty, of which the
\* comment of the code does not speak.
CollectSecurity(bans, alerts, failed) ==
    LET answers(list) == "crowdsec" \in active /\ list \notin failed
        decisions == IF answers("decisions") THEN bans + (IF banned THEN 1 ELSE 0) ELSE 0
    IN  IF decisions > 0 THEN decisions ELSE IF answers("alerts") THEN alerts ELSE 0

-----------------------------------------------------------------------------
(* What holds                                                              *)

\* A finding is gone for good once the action it recommends has succeeded,
\* except that docker_harden does not close the API that the unit of docker
\* opens, that an earlier drop-in wins against ssh_harden, that sysupdate
\* installs no update itself, and that on Arch a reboot opens the firewall.
AdviceIsCured ==
    command = "none" =>
        \A code \in Codes, w \in Settings :
            /\ RecommendedAction(code) \in Types
            /\ last[RecommendedAction(code)] = "done"
            /\ Finds(code, w, {})
            => \/ code = "docker_not_hardened" /\ w.exposed
               \/ code = "ssh_baseline_missing" /\ w.overridden
               \/ code = "security_updates_pending"
               \/ code = "firewall_not_hardened" /\ family = "arch"

\* A machine that is called healthy has what the agent hardens, in effect and
\* not only in its files, except for a hardening that was cut off before the
\* service read its file.  Four programs make the news better than the machine
\* when they fail: docker info, systemctl cat docker, the simulated upgrade and
\* the test for a reboot; none of the others does.
HealthyIsTrue ==
    command = "none" =>
        \A failed \in Failures, w \in Settings :
            Status(securityAudit(w, failed)) = "healthy" =>
                /\ "firewall" \in has
                /\ ~w.overridden
                /\ "sshd" \in effective \/ last["ssh_harden"] # "done"
                /\ family # "arch" => {"crowdsec", "bouncer"} \subseteq active
                /\ \/ "docker" \notin active \/ "docker-info" \in failed
                   \/ /\ ~w.exposed \/ "docker-unit" \in failed
                      /\ "daemon" \in effective \/ last["docker_harden"] # "done"
                /\ pending => family = "arch" \/ "updates" \in failed
                /\ w.reboot => ~Apt \/ "reboot-required" \in failed

\* A scan finds a web server that is not the agent's by its unit or by its ports,
\* whichever program fails; one without a unit it finds unless ss fails, for then
\* the scan goes on without the ports.  And of what the agent installed it finds
\* nothing but CrowdSec.
ScanIsTrue ==
    command = "none" =>
        \A web \in WebServers, p \in {"ss", "systemctl", "docker-inspect"} :
            CASE web = "service" -> scanVPS(web, {p}) \ CrowdSecs # {}
              [] web = "process" -> p # "ss" => scanVPS(web, {p}) \ CrowdSecs # {}
              [] OTHER -> scanVPS(web, {}) \subseteq CrowdSecs

\* While CrowdSec can be asked and anybody is banned, the report counts who is;
\* and no ban is reported that was not there within the hour.  When nobody is
\* banned any more the bans of the hour are reported as active.
BansAreReported ==
    \A bans, alerts \in 0..1, failed \in SUBSET {"decisions", "alerts"} :
        LET count == CollectSecurity(bans, alerts, failed)
            now == bans + (IF banned THEN 1 ELSE 0)
        IN  /\ now > 0 /\ "crowdsec" \in active /\ "decisions" \notin failed => count = now
            /\ count > 0 => now > 0 \/ alerts > 0

ReadingsAreTrue == ScanIsTrue /\ BansAreReported
=============================================================================
