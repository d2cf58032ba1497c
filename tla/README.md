# Verification of the SatSetOps agent

TLA+ models of `satsetopsagent`, the Go process that runs on a VPS, pulls
commands from the SatSetOps control plane over HTTPS and executes them. The
models are written from the source; the documents (`README.md`, `docs/e2e.md`,
comments) are what they are compared with.

## 1. The system and its parts

| Part | Source | State it keeps | Operations |
| --- | --- | --- | --- |
| Installer and unit | `install.sh` | `agent.env`, the unit file | write `agent.env`, remove `token.enc`, (re)start the unit; systemd restarts on failure |
| Start-up and registration | `main.go` (`run` to line 53), `internal/auth`, `internal/config` | `token.enc`, `agent.env`, the configuration in memory | `config.Load`, `auth.Load`, `Register`, `auth.Save`, `RemoveOneTimeToken` |
| API client | `internal/api` | none (30 s time limit per call) | `Register`, `Poll`, `PostResult`, `PostMetrics`, `PostTraffic`, `PostSecurity`, `PostSSLErrors`; 401 becomes `ErrUnauthorized` |
| Poller | `internal/poller` | the batch being executed | `RunOnce`: poll, execute in order, report each result; `Run`: once per interval |
| Supervisor | `main.go` lines 55-202 | `errorsChannel`, the context, the metrics interval | five goroutines: poller, metrics, traffic, security, SSL errors; the first error ends the process |
| Executors: applications | `internal/executor/{deploy,delete,proxy}.go` | containers, networks, vhosts, certificates | `deploy_app`, `restart_container`, `stop_container`, `delete_app`, `setup_nginx_proxy`, `attach_domain_ssl` |
| Executors: backups | `internal/executor/backup.go` | volumes, databases, `/tmp/satsetops-backup-*` | `backup_now`, `restore_backup` |
| Executors: firewall | `internal/executor/firewall.go` | ufw / firewalld / iptables rules | `harden_firewall`, `set_firewall_rule` |
| Executors: hardening and upkeep | `internal/executor/{ssh,docker,crowdsec,sysupdate,apt_upgrade,install_docker,retry}.go` | packages, configuration files, what of them is in effect, services that run and that a boot starts, bans | `ssh_harden`, `docker_harden`, `install_crowdsec`, `sysupdate`, `apt_upgrade`, `install_docker` |
| Executors: the machine | `internal/executor/{reboot,selfupdate}.go` | the process itself | `reboot_server`, `self_update` |
| Executors: reading | `internal/executor/{scan,security_audit,logs}.go` | none | `scan_vps`, `security_audit`, `collect_logs` |
| Reporters | `internal/reporter` | none (a goroutine and a channel in `runDockerStats`) | `Collect`, `CollectContainers`, `CollectTraffic`, `CollectSecurity`, `CollectSSLErrors` |
| Helpers | `internal/exec`, `internal/distro`, `internal/version` | none | run a command, detect the distribution, name the version |
| Control plane | not in this repository | one-time and permanent tokens, the commands and their status | exchange a token once, hand out pending commands, record results, revoke |

The parts interact in four ways. The installer, systemd and the process share
two files. The process calls the control plane, and each call can be lost on
the way there or back. The five goroutines share a channel of capacity two and
a context. A command runs shell programs on the machine, any of which can fail
or hang, and is cut off when the process ends.

What makes it correct, part by part:

- **Registration**: an installation always ends in a connected agent or one that
  was refused; a kill between any two steps leaves something to start with; the
  one-time token does not outlive its use; a reinstallation is not undone by the
  process it replaces; a revoked agent stays down.
- **Delivery of commands**: a command is executed at most once and in the order
  it was queued; a result is reported only for a command that was executed and
  says what happened; what is lost is lost only to a fault; nothing runs after
  the agent stopped.
- **Supervisor**: the first 401, from whichever goroutine, ends the process with
  status 0, even while a Docker call hangs; no goroutine keeps it from ending.
- **Executors**: what a command that reports success leaves on the machine, what
  one that fails half-way leaves, and what running it twice does; no command takes
  away the way back into the machine, from its owner or from the platform.
- **Readings**: a machine is called healthy, clean or without bans only if it is, also
  when one of the programs that read it fails; what is recommended helps.

## 2. Modules

| Module | Models | Checked by | Proved in |
| --- | --- | --- | --- |
| `Registration` | `install.sh`, the unit, start-up, `auth`, `config` | `Registration.cfg`, `RegistrationReinstall.cfg`, `RegistrationUrlLost.cfg` | `RegistrationProofs` |
| `CommandLedger` | abstract: what the delivery of commands promises | as a property of `Delivery` | `DeliveryProofs` (`Refinement`) |
| `Delivery` | `poller`, `Poll` and `PostResult` of `api`, the queue of the control plane | `Delivery.cfg` | `DeliveryProofs` |
| `Supervisor` | `run()` after registration, the reporting loops, `runDockerStats` | `Supervisor.cfg` | `SupervisorProofs` |
| `MachineControl` | `self_update`, `reboot_server`, and the poller that reports them | `MachineControl.cfg`, `MachineControlReport.cfg` | `MachineControlProofs` |
| `Firewall` | `harden_firewall`, `set_firewall_rule` on three families | `Firewall.cfg`, `FirewallProtocol.cfg` | `FirewallProofs` |
| `Backups`, `MCBackups` | `backup_now`, `restore_backup` | `MCBackups.cfg` | `BackupsProofs` |
| `Applications`, `MCApplications` | `deploy_app`, `restart_container`, `stop_container`, `delete_app`, `attach_domain_ssl`, `setup_nginx_proxy` | `MCApplications.cfg` | `ApplicationsProofs` |
| `Hardening` | `install_docker`, `install_crowdsec`, `docker_harden`, `ssh_harden`, `sysupdate`, `apt_upgrade`, `withRetry` | as part of `Readings` | `HardeningProofs` |
| `Readings` | `security_audit`, `scan_vps` and the number of bans of `reporter/security.go`, as functions of the machine of `Hardening`, which it extends | `Readings.cfg` | `HardeningProofs` |

In every module an operator named `...Unchecked`, `...Ignored`, `...Forgotten` or
the like under a comment `Mutant:` is a plausible bug in the definition that
follows it. No specification uses it; `PROJECT.json` ("mutants") says which
property notices it.

### Registration
`env` and `tokenFile` are `agent.env` and `token.enc`; `proc` is the memory of the
process and `pc` where it stands in `run()`, or what systemd does with it
(`restarting`, `inactive`). One action per system call that matters: `LoadToken`,
`Register` (or `RegisterReplyLost`), `SaveToken`, `ReadEnv`, `TruncateEnv`,
`RewriteEnv`. `os.WriteFile` in `config.go:88` is two steps, because it truncates
before it writes; `auth.Save` is one, because it writes a temporary file and
renames it. `install.sh` is `BeginInstall` (the shell has emptied `agent.env`), `WriteEnv`,
`RemoveTokenFile`, `RestartUnit`, and can be aborted between them; it does not stop the unit first, so all of it interleaves
with an agent that starts up. `Rejected` is a 401 after the connection; it ends
with status 0 and leaves the unit inactive, every other end (`Fails`) is restarted.
Tokens are numbered by the installation that brought them. `overlapped` records
that a script ran beside an enrolment.

### Delivery and CommandLedger
`status` is the queue of the control plane, `batch` what `RunOnce` still has to
execute, `current` the command it executes. A poll marks commands sent when the
control plane answers it (`AnswerPoll`), which may be after the agent has given up
(`AnswerLatePoll`); a result may be recorded late (`RecordLateResult`). The order of
`RunOnce` is kept: `BeginCommand`, `FinishCommand`, `PostResult`; a result that cannot
be posted drops the batch (`PostResultFails`). `WorkerRejected` is the 401 of another
goroutine, which ends the process whatever the poller does. `CommandLedger` knows
none of this: a command is queued, given, started and reported, or dropped, in that
order and in the order of the queue. `LedgerStage` maps the one to the other.

### Supervisor
`at[w]` says whether a goroutine executes, collects (`work`), waits for an answer
(`call`) or for its ticker or the context (`wait`), sends its error (`send`) or has
ended. `errorsChannel` has two places. `main` is `run()`: `Receive`, `Cancel`, `Exit`.
Programs can hang for ever: `CommandEnds` and `Collected` have no fairness, and
`docker stats` answers only while Docker is not hung; otherwise `dockerStatsTimeout`
passes and a goroutine stays behind (`leaked`).

### MachineControl
`binary`, `temp` and `running` are the installed program, the temporary file and the
program in memory. `NoVersion`, `Download`, `Chmod`, `Move`, `Schedule` are the steps of
`selfUpdate`; `restarts` holds the restarts that are due. `RestartUnit` may cut any
step off, `RebootMachine` comes at once after a reboot was requested.

### Firewall
An executor is a list of invocations (`hardenFirewallDebian` ...), run by `Invoke` and
`InvocationFails` one after the other. The three firewalls are external definitions of
what the invocations do: ufw decides by the first rule that matches, firewalld has a
permanent and a runtime configuration, iptables a policy and a count of accepting
rules. `Open(port)` says who gets in.

### Backups
Data is a version number, `Partial` a file that was cut off, `Broken` data that a
restore left half done. Each program the executors start is an action, with a failure
of its own that leaves what the program leaves. `store` is the object storage, which
may refuse an upload without curl noticing (`refused`). A kill clears the directories:
the unit has a private `/tmp`.

### Applications
`container` and `vhost` are what the executors write, `served` and `certified` what
nginx and certbot make of it. The proxy container is external: it enables the files
whose domain has a certificate, cannot load a file that names a container that does
not run, asks for certificates at a start and on SIGHUP, and loads its files when it
has got its answers (`Ask`, `Answer`), by which time the files may have changed.
`believed` and `attached` are what the results of commands say, and `rejected`,
`leftover` the events that the properties except.

### Hardening
As in `Firewall`, an executor is a list of invocations (`installCrowdsec`, `sshHarden`
...), here with the number of attempts each has: three where the code uses `withRetry`.
`Invoke` is a program that succeeds, `InvocationFails` one that fails and is tried again or
ends the command, the detection of the distribution among them, which is tried once; one
that lacks what it needs (`Works`) always fails. `FailureIgnored` is the restart of
`unattended-upgrades` (`sysupdate.go:74`), whose error is dropped: the command goes on and
the service may be down, so that of `sysupdate` on Debian `DoneIsEffective` promises the
package and its two files, which the timers of apt read, and not the service.
`platformIPs` is the list of addresses in the payload: `none`, `unusable` (no entry is a
plain address, and the code skips them all in silence and succeeds) or `good` (the platform's
address is among them); `PlatformReachable` is about the last. `has` is what is
installed and written, `effective` which configuration files the running services have
read since, `active` and `enabled` the services. `ScriptLost` is `curl -s | bash` with a
download that failed, which is a success. `Ban` may happen whenever CrowdSec and its
bouncer run and the platform's address is not on the allowlist. `FailsOnlyToFaults` is about
the step with which a command fails: it met a fault, and three of them where `withRetry`
guards it (`Guarded`), or it lacks what no earlier step could prepare. `harden_firewall` is one
step here, because the audit reads it; its own steps are in `Firewall`. Packages and
services are external: what they bring, start and need is written down in `Needs`, `Starts`
and `Read`.

### Readings
`securityAudit(w, failed)` is the set of codes the audit finds on the machine of `Hardening`,
given the settings `w` that no executor touches and the set `failed` of programs that fail
while it reads; `Status` and `auditScore` are what it reports. `docker-unit` (`systemctl cat
docker`) and `daemon-json` fail apart: without the second the docker counts as not hardened,
without the first an API that the unit opens is not seen. `HealthyIsTrue` names the four
programs whose failure is good news. `scanVPS` is what a scan
flags beyond the base services and the proxy's ports; ports 80 and 443 belong to nobody, to
the agent's proxy, to a web server with a unit of its own or to one without (`process`: started by
hand or in a container), which only `ss` shows. `CollectSecurity` is the number of bans, those of the
alerts when the list of decisions is empty or could not be read.
They change nothing, so they are not actions but operators over which the invariants quantify.

## 3. Runs

| Run | Bounds | What it shows |
| --- | --- | --- |
| `registration` | 2 installations, 2 faults | safety under kills between any two system calls, lost answers and overlapping scripts; an installation leads to a connected agent unless the exchange was wasted; a revoked agent stays down |
| `registration_reinstall` | 2 installations, no fault | violation: an agent that was enrolling puts its token back and the fresh one is ignored |
| `registration_url_lost` | 1 installation, 1 fault | violation: a kill in the rewrite loses the URL; the agent stops as revoked |
| `delivery` | 3 commands, 2 faults | at most once, in order, true results; without a fault nothing is lost and everything is served; the ledger is implemented |
| `supervisor` | 3 goroutines, 1 leaked goroutine, hints 0, 5, 7200 | the cause given is the cause; a revocation or a signal ends the process whatever hangs; leaked goroutines end |
| `machine_control` | 5 commands, 4 of them updates, 2 faults | there always is a program to start; a reported update is installed and comes to run |
| `machine_report` | 1 update | violation: the restart overtakes the report |
| `firewall` | 4 commands on ports 0, 22, 8080; 2 faults; 3 families | ssh is never cut off on Debian and RHEL, and only within a hardening on Arch (`NeverCutOff`); a hardening lasts; requests hold |
| `firewall_protocol` | 2 commands on Arch with `/tcp` or `/udp` | violation: the TCP port is changed |
| `backups` | 2 objects, 1 write, 3 commands, 2 faults | no cut-off archive is stored and what is done is stored (`BackupsAreGood`), a wipe has its replacement, no application runs on half a volume, and none is started on half of a database by the restore whose mysql filled it (`RestoresAreSafe`; PostgreSQL is excepted, and so is a restore without a database after one that was cut off); what runs again is what was stored |
| `applications` | 2 containers, 2 domains, 1 image, 5 commands, 2 faults | reports are true of containers and domains (`ReportsHold`); no deletion that worked leaves a certificate |
| `hardening` | Debian, RHEL, Arch; 3 commands of 7 types, 2 faults, at most one program failing in a reading | what was reported done is in effect and stays so; a command fails only to a fault or for lack of what no step of its own prepares, and two faults do not fail what is tried three times; the platform is not banned once its address was allowed; what the audit recommends helps; what the audit, the scan and the security report say is so, but for the failures that the properties name |

**Why the bounds are enough.** Two installations are needed for one script to
overlap the enrolment of the other, and a third would meet no state that two of them
do not leave behind; two faults let a fault hit the recovery from another.
Three commands make a batch of two with a later one behind it, or one command per
batch. Three goroutines are one more than `errorsChannel` has places, so that one has
to wait. Five commands allow an update behind a reboot behind an update, and a second
batch. Four firewall commands allow harden, deny, allow, harden on one port. Three
backup commands allow a backup, another one with the same directory, and a restore of
either. Five application commands allow setup, deploy, attach, delete and one more.
Three hardening commands allow one that is cut off, its repetition and another type that
undoes it; two faults are the most that three attempts survive, and its
1.6 million states are what fits. An unknown distribution is left out of the run: the executors
treat it like Debian, and what the audit makes of one is what it makes of an `os-release` that
cannot be read, which is among the failures. The theorems cover it.
The backup objects, the containers and the domains are interchangeable, and those runs
check invariants only, so that their symmetry is sound. Where a theorem exists, it holds for every value of these constants.

**Fairness.**
- `Registration`: weak fairness of the process (it is a sequential program; systemd
  restarts it after ten seconds, and with that pause never reaches its start limit)
  and of the script. None of revocation, installation or faults.
- `Delivery`: weak fairness of the poller's own steps (ticker and HTTP time limit), of
  the control plane's answers to a poll that waits, and of a 401 reaching another
  worker. None of `FinishCommand`: a command may take for ever, and `ServedUnlessFault`
  has the assumption that commands return.
- `Supervisor`: strong fairness of the choice a `select` makes when several of its
  cases stay ready again and again, and of a call that is answered rather than failed
  again and again; weak fairness of tickers and sends. `MetricsCollected` is strongly
  fair because Docker may hang again and again, and `LeakedReturns` needs an answer of
  Docker only while it is not hung. None of `CommandEnds` and `Collected`.
- `MachineControl`: weak fairness of the executor, of a restart that is due and of a
  reboot that was requested, which systemd carries out.

`CHECK_DEADLOCK FALSE` is in every configuration, because the system may stop: the
process ends when it is revoked, and where commands are bounded they run out.

## 4. Proofs

TLAPS checks 39 listed theorems about ten modules, in eight modules of proofs, for every value of the constants
that satisfies the `ASSUME` of the module (naturals, sets of goroutines that contain the
poller and the metrics loop, families among the four that are known, names that are not
the values standing for none). Two theorems need more, and say so in their statements:
`OneInstallIsFresh` and `RequestsHold`. Every invariant and action property of the passing
runs and the refinement are proved; the liveness properties are not (see below).

The invariants that the proofs need were checked by TLC first, as invariants of the runs
or of smaller bounds, before they were proved inductive.

- **`RegistrationProofs`**. The invariant `IInv` adds to the properties what a script and
  a process have achieved at each of their steps (`ScriptProgress`, `ProcessProgress`),
  and that every token that can still become the running one is recent enough
  (`NothingStale`), as long as no script ran beside an enrolment. It is needed because
  `CredentialOnDisk` says nothing about the memory of a process that is about to remove
  the one-time token, and `FreshRegistration` nothing about a file that will be read.
  Results: `TypeCorrect`, `ConnectsWithIssuedToken`, `CredentialSurvives`, `ReinstallIsFresh`,
  `TokenForgotten`, `CredentialsStayInPlace`, and `OneInstallIsFresh`: with one installation the exception for
  overlapping scripts is never needed. `RevokedStaysBarred` is the safety part of
  `RevokedStaysDown`: no kill, restart or reboot gives a revoked agent another token.
- **`DeliveryProofs`**. `DInv` adds that the queue is served from its front (`QueueOrder`),
  that the batch is later than all that was begun (`BatchIsNew`) and that results
  belong to commands that were begun. Results: `TypeCorrect`, `BegunAtMostOnce`,
  `ResultsAreTrue`, `NothingLostWithoutFault`, `BegunInQueueOrder` (an action property) and
  `Refinement`: every step is a step of `CommandLedger` or a stutter.
- **`SupervisorProofs`**. `SInv` adds that every error on its way, in a goroutine or in the
  channel, is true (`TrueError`). Results: `TypeCorrect` (which bounds the metrics
  interval) and `EndsForItsCause`.
- **`MachineControlProofs`**. `MInv` adds what each step of an update has prepared
  (`Staged`) and that what is still to be executed is newer than what is executed
  (`InOrder`). Results: `TypeCorrect`, `AlwaysRunnable`, `DoneStaysInstalled`,
  `RunsWhatIsInstalled`.

- **`FirewallProofs`**. That port 22 is open rests on which invocations of a hardening are
  behind it, on what is saved to come back after a reboot, and on rules denying only what
  was asked to be denied. `FInv` says this family by family (`DebianInv`, `RHELInv`,
  `ArchInv`); for ufw it also needs that a rule that was inserted is found by `UfwOpen`
  before any that denies. `RequestsHold` (`LastRequestHolds`) needs a second invariant,
  `AskedInv`: a port has, beside the rules of a hardening, one rule, that of its last
  request. This is true only under the theorem's hypothesis `OneWay`: no payload asks for
  UDP, and on Debian all payloads write a port in one way, without a protocol or with `tcp`. ufw
  keeps the rules of the two ways apart and the first that fits decides, so that `allow
  8080` and then `deny 8080/tcp` leaves the port open; TLC refutes the property with
  `Protocols = {"none", "tcp"}` on Debian and with `{"udp"}`. The run has `{"none"}`.
  Results: `TypeCorrect`, `Reachable` (`NeverCutOff`), `HardeningLasts`, `RequestsHold`.
- **`BackupsProofs`**. `BInv` adds that an object is stored once and whole (`StoreInv`),
  what the temporary directories hold at each program, also of the restore before
  (`DirInv`), and what each step of a backup or restore has achieved. Results: all four
  properties of the run, `TypeCorrect`, `GoodBackups`, `RestoredFaithfully`, `SafeRestores`. The last is
  about half a volume, and about half of a database that the restore itself has filled with
  mysql; the exceptions of `HalfImportedIsNotStarted` are reached.
- **`ApplicationsProofs`**. `ReportsHold` is about what was reported, and the steps of the next
  command are what could break it: `AInv` adds what a step knows of the ones before it
  (`StepInv`: the container of a deletion is gone when its file is unlinked, the file of the
  domain is the one nginx is about to be told of) and replaces `ReportedDomains` by the
  stronger `DomainInv`, which excuses a domain only in the two steps where its file and its
  report differ. Results: all three properties of the run.
- **`HardeningProofs`**, about `Hardening` and `Readings`. What a command promises is
  either done or among the invocations it has still to make, in the order that makes it
  true, and no other command takes it away. The invariant has three layers.
  `HInv` types the invocations by what an executor does on that family (`Repertoire`), and
  says that an installation of CrowdSec whose payload held the platform's address has allowed
  it or still has that to do (`Promised`). `EInv` says the same of everything else that is promised: `UnderWay` of the
  command being executed, where a configuration must be written before the restart that
  reads it (`Loading`), `DoneInv` (`Achieved`) of what was reported, with what makes it
  outlast a reboot; `DockerEnabled` and `DockerUp` say that a docker that is there is enabled
  and runs, unless a command was cut off in between, which the early return of
  `install_docker` relies on. `PInv` is about what an invocation finds
  when its turn comes: what it needs is there or is fetched by an earlier one
  (`Prepared`), the repository comes first (`RepositoryFirst`, because its loss goes
  unnoticed, and an index fetched without it lacks what comes later), and of a step that works no
  more attempts were spent than there were faults (`Patience`). Each of the lists of invocations is shown once to be such a list, and then
  only its tails are left to consider.
  Results: `TypeCorrect`, the action property `NeverLockedOut` (`PlatformReachable`),
  `DoneStaysDone` (`DoneIsEffective`), the action property `FailuresAreFaults`
  (`FailsOnlyToFaults`), and for what
  the agent says of the machine `AdviceCures` (`AdviceIsCured`) and `HealthyMachines`
  (`HealthyIsTrue`). The latter also needs that the score leaves a healthy machine no
  finding but an unrecognised distribution (`HealthyFindings`), whichever one program fails
  while it is read; four programs are excepted, each for what its failure hides. `ReadingsHold`
  (`ReadingsAreTrue`) needs no invariant: the scan finds another's web server by its unit or its
  ports, and the count of bans is right while there are any, on every machine.

Only model-checked: the liveness properties `ConnectsUnlessStranded`, `RevokedStaysDown`,
`ServedUnlessFault`, `StopsEnd`, `LeaksDrain` and `DoneComesToRun`, because liveness under fairness and
`ENABLED` are out of the prover's reach; and the four runs that expect a violation, where there is a
counterexample to show and nothing to prove.

## 5. What the runs found

1. `registration_reinstall`: `install.sh:44` removes `token.enc` so that the new one-time
   token is used. An agent between `Register` and `Save` writes it again.
2. `registration_url_lost`: `config.go:88` truncates `agent.env` in place; a kill there
   loses `SATSETOPS_URL`, and the agent ends as if it was revoked.
3. `machine_report`: the two seconds of `selfupdate.go:46` are shorter than the thirty a
   report may take; an update can be carried out and stay `sent` for ever.
4. `firewall_protocol`: on Arch a rule for a UDP port is applied to TCP.

Observations that contradict no line of the repository, and are listed as hazards:
the one-time token stays in `agent.env` when the agent is killed after `auth.Save`
(`main.go:46`); an exchange whose answer is lost is never repeated, the agent asks in
vain for ever (`main.go:39`); on Arch a second hardening adds its rules again and a
reboot forgets them all; curl runs without `--fail` (`backup.go:100`) and psql without
`ON_ERROR_STOP` (`backup.go:279`), after which the application is started on a database that may be
half the old one; nginx may refuse a vhost that was reported as
attached (`proxy.go:112`), and does not start at all with one that names a container
that does not run; a certificate may come after its domain was deleted.
Of hardening and reading: `curl -s | bash` hides a download that failed (`crowdsec.go:44`),
so that no retry sees it and a later package is not found; the installation of
unattended-upgrades is not retried although the lock `retry.go:10` speaks of holds it up
too (`sysupdate.go:44`); a docker whose installation was cut off before it was enabled is
called installed ever after (`install_docker.go:16`); the audit reads files and not what the
services go by, so that a reload that failed leaves a machine that is called hardened;
`docker_harden` turns on userns-remap, which hides the containers that were deployed
before (`docker.go:13`); on RHEL `automatic.conf` has no `[commands]` section
(`sysupdate.go:86`); a scan flags the ports and services of the CrowdSec the agent
installed. The comment at
`security.go:83` disagrees with the condition below it: it speaks of a list of decisions that
failed, and line 84 takes one that was read and is empty for such a list too, so that bans of the
last hour that have run out are reported as active; `BansAreReported` states what the code
does. The proxy writes its access log to a file
(`proxy.go:222`) while `traffic.go` reads what docker collects from its output, and a native
nginx's last lines are counted again at each report.
A list of platform addresses that holds no plain address is a success with nothing allowed
(`crowdsec.go:164`, and `crowdsec_test.go:84` wants it so); after a restart of
`unattended-upgrades` that failed, `sysupdate` succeeds (`sysupdate.go:74`); one failing
`systemctl cat docker` hides an API open on `tcp://` from the audit (`security_audit.go:58`),
and one failing `ss` a web server in a container from the scan (`scan.go:115`).
`docs/e2e.md:16` expects a revoked agent to stop within one poll interval; while a
command runs it stops at the next metrics report instead.

## 6. What is not modelled

- The payload checks (`nameRegex`, `imageRegex` ...) are one refusal without effect,
  except where they come after an effect, where they have an action of their own.
- Overflow of the hint: a `next_interval_seconds` above 2^63 nanoseconds wraps around
  before the clamp; no hint of the run is that large, and the clamp would hold still.
- IPv6 rules of ufw; in `Firewall` an unknown distribution, which the code treats like
  Debian (the definitions and theorems of `Hardening` and `Readings` have it, their run does not).
- `collect_logs`: it changes nothing and copies the end of a file.
- What `containers.go`, `traffic.go`, `ssl.go` and `metrics.go` of the reporter make of the text of
  other programs: they are stateless parsers and sums over lines, without an interleaving,
  a failure or an order for a model checker to vary, and their tests check them on texts.
  That they run, and hang, is in `Supervisor`.
- `/proc`, the load and the disk; ports and services that every machine has, which a scan
  finds allowed; wording and order of findings.
- userns-remap of docker and its effect on containers: `Hardening` knows of docker only
  that it runs and by which configuration.
- The control plane, Docker, nginx, certbot, systemd and the firewalls are not in the
  repository: they are external definitions, as the code and its comments use them.

## 7. Plan

Done, in this order: `Registration`, `CommandLedger` and `Delivery`, `Supervisor`,
`MachineControl`, `Firewall`, `Backups`, `Applications`, `Hardening` and `Readings`, with a module of
proofs for each (`HardeningProofs` has those of `Readings` too). What could follow:

1. Of the liveness properties, the parts a prover can reach: like `RevokedStaysBarred`, that
   what is waited for cannot be undone, and that each step towards it comes closer.
2. An agent composed of `Delivery` and `Supervisor`, in which a command of
   `MachineControl` or `Applications` is what the poller executes. Each of the modules has
   the environment of the other as actions (`WorkerRejected`, `CommandEnds`, `Kill`), so that
   the composition would check these against each other.
3. userns-remap as state shared by `Hardening` and `Applications`: what a hardening of
   docker does to containers that were reported as running.
