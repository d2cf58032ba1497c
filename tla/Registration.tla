---------------------------- MODULE Registration ----------------------------
(***************************************************************************)
(* How an agent obtains its permanent token and keeps it: the installer    *)
(* (install.sh), the unit systemd supervises, the start-up of the process  *)
(* (main.go, internal/auth, internal/config) and the two files they share. *)
(*                                                                         *)
(*   agent.env   SATSETOPS_URL=...  and, until the exchange is over,       *)
(*               SATSETOPS_TOKEN=<one-time token>                          *)
(*   token.enc   the permanent token                                       *)
(*                                                                         *)
(* The control plane exchanges a one-time token once.  A permanent token   *)
(* is identified by the one-time token it was given for, and the one-time  *)
(* tokens are numbered by the installation that brought them.              *)
(*                                                                         *)
(* The process can be killed, and the machine rebooted, between any two    *)
(* system calls; an installation can run while an earlier agent still      *)
(* starts up, because a failed start is retried every ten seconds.         *)
(***************************************************************************)
EXTENDS Integers

CONSTANTS
    MaxInstalls,    \* how many times install.sh is run
    MaxFaults,      \* how many lost replies, I/O errors, kills and reboots
    CustomUrl       \* does SATSETOPS_URL differ from the built-in default?

ASSUME RegistrationAssumption ==
    /\ MaxInstalls \in Nat
    /\ MaxFaults \in Nat
    /\ CustomUrl \in BOOLEAN

VARIABLES
    env,            \* the lines of agent.env
    tokenFile,      \* the permanent token in token.enc
    pc,             \* where the process stands, or what systemd does with it
    proc,           \* the memory of the process
    installer,      \* the step install.sh is at
    latest,         \* the one-time token of the newest installation
    installed,      \* the one that the newest completed installation brought
    exchanged,      \* one-time tokens the control plane has exchanged
    revoked,        \* permanent tokens it has revoked
    faults,         \* the faults so far, of MaxFaults
    overlapped      \* history: has a script met a process that was enrolling?

vars == <<env, tokenFile, pc, proc, installer, latest, installed,
          exchanged, revoked, faults, overlapped>>
disk == <<env, tokenFile>>
install == <<installer, latest, installed>>
server == <<exchanged, revoked>>
history == <<faults, overlapped>>

None == 0
Token == 1..MaxInstalls
OptToken == Token \union {None}

EnvFile == [url : BOOLEAN, token : OptToken]
EmptyEnv == [url |-> FALSE, token |-> None]

Process == [one : OptToken,     \* cfg.OneTimeToken
            perm : OptToken,    \* token
            url : BOOLEAN,      \* was SATSETOPS_URL in the environment?
            kept : BOOLEAN]     \* the URL line among the lines kept to rewrite

\* Steps of run() from auth.Load to the end of RemoveOneTimeToken.
Startup == {"load", "register", "save", "read", "truncate", "rewrite"}
Enrolling == Startup \ {"load"}
PC == Startup \union {"run", "restarting", "inactive"}

TypeOK ==
    /\ env \in EnvFile
    /\ tokenFile \in OptToken
    /\ pc \in PC
    /\ proc \in Process
    /\ installer \in {"idle", "write", "remove", "restart"}
    /\ latest \in OptToken
    /\ installed \in OptToken
    /\ exchanged \in SUBSET Token
    /\ revoked \in SUBSET Token
    /\ faults \in 0..MaxFaults
    /\ overlapped \in BOOLEAN

Init ==
    /\ env = EmptyEnv
    /\ tokenFile = None
    /\ pc = "inactive"
    /\ proc = [one |-> None, perm |-> None, url |-> FALSE, kept |-> FALSE]
    /\ installer = "idle"
    /\ latest = None
    /\ installed = None
    /\ exchanged = {}
    /\ revoked = {}
    /\ faults = 0
    /\ overlapped = FALSE

Fault ==
    /\ faults < MaxFaults
    /\ faults' = faults + 1
    /\ UNCHANGED overlapped

\* Is the control plane that the process talks to the one that issued its
\* tokens?  Without the URL line config.Load falls back on the default.
RightServer == proc.url \/ ~CustomUrl

-----------------------------------------------------------------------------
(* The process and the unit                                                *)

\* systemd reads EnvironmentFile when it spawns the process, and run() sees
\* that copy of it, whatever happens to the file later.
Spawn ==
    /\ pc' = "load"
    /\ proc' = [one |-> env.token, perm |-> None, url |-> env.url, kept |-> FALSE]

\* Restart=on-failure, ten seconds after the process failed, or the boot.
SystemdStart ==
    /\ pc = "restarting"
    /\ Spawn
    /\ UNCHANGED <<disk, install, server, history>>

\* Mutant: a one-time token in the environment beats the stored token.
StoredTokenEnvFirst == IF proc.one = None THEN tokenFile ELSE None

\* auth.Load, where None stands for os.ErrNotExist.
StoredToken == tokenFile

\* Mutant: the check that a one-time token is there is gone.
FirstStartUnchecked == "register"

\* Without a stored token run() insists on a one-time token.
FirstStart == IF proc.one = None THEN "restarting" ELSE "register"

LoadToken ==
    /\ pc = "load"
    /\ \/ /\ StoredToken # None
          /\ proc' = [proc EXCEPT !.perm = StoredToken]
          /\ pc' = "run"
       \/ /\ StoredToken = None
          /\ pc' = FirstStart
          /\ UNCHANGED proc
    /\ overlapped' = (overlapped \/ (pc' = "register" /\ installer # "idle"))
    /\ UNCHANGED <<disk, install, server, faults>>

\* Mutant: the error of Register is not looked at, its empty token is kept.
RegisterUnchecked ==
    /\ pc = "register"
    /\ exchanged' = exchanged \union {proc.one}
    /\ proc' = [proc EXCEPT !.perm = IF proc.one \in exchanged THEN None ELSE proc.one]
    /\ pc' = "save"
    /\ UNCHANGED <<disk, install, revoked, history>>

\* Mutant: the one-time token is removed before the permanent one is saved.
RegisterThenRemove ==
    /\ pc = "register"
    /\ \/ /\ proc.one \notin exchanged
          /\ exchanged' = exchanged \union {proc.one}
          /\ proc' = [proc EXCEPT !.perm = proc.one]
          /\ env' = [env EXCEPT !.token = None]
          /\ pc' = "save"
       \/ /\ proc.one \in exchanged
          /\ pc' = "restarting"
          /\ UNCHANGED <<env, exchanged, proc>>
    /\ UNCHANGED <<tokenFile, install, revoked, history>>

\* POST /api/agent/register.  run() returns whatever error Register returns,
\* a 401 too, and main exits with status 1.  (A process with a one-time token
\* has the URL that was written with it.)
Register ==
    /\ pc = "register"
    /\ \/ /\ proc.one \notin exchanged
          /\ exchanged' = exchanged \union {proc.one}
          /\ proc' = [proc EXCEPT !.perm = proc.one]
          /\ pc' = "save"
       \/ /\ proc.one \in exchanged
          /\ pc' = "restarting"
          /\ UNCHANGED <<exchanged, proc>>
    /\ UNCHANGED <<disk, install, revoked, history>>

\* The exchange happens, and its answer is lost or cannot be decoded.
RegisterReplyLost ==
    /\ pc = "register"
    /\ Fault
    /\ proc.one \notin exchanged
    /\ exchanged' = exchanged \union {proc.one}
    /\ pc' = "restarting"
    /\ UNCHANGED <<disk, proc, install, revoked>>

\* Mutant: the one-time token is left in the file.
AfterSaveRun == "run"

AfterSave == "read"

\* auth.Save prepares a temporary file and renames it: the rename decides.
SaveToken ==
    /\ pc = "save"
    /\ tokenFile' = proc.perm
    /\ pc' = AfterSave
    /\ UNCHANGED <<env, proc, install, server, history>>

\* RemoveOneTimeToken reads the file, then os.WriteFile truncates it and
\* writes the lines it kept over the start of it.  The URL is the first line
\* of whatever the installer has put there meanwhile.
ReadEnv ==
    /\ pc = "read"
    /\ proc' = [proc EXCEPT !.kept = env.url]
    /\ pc' = "truncate"
    /\ UNCHANGED <<disk, install, server, history>>

TruncateEnv ==
    /\ pc = "truncate"
    /\ env' = EmptyEnv
    /\ pc' = "rewrite"
    /\ UNCHANGED <<tokenFile, proc, install, server, history>>

RewriteEnv ==
    /\ pc = "rewrite"
    /\ env' = [env EXCEPT !.url = env.url \/ proc.kept]
    /\ pc' = "run"
    /\ UNCHANGED <<tokenFile, proc, install, server, history>>

\* Mutant: run() returns the 401 as an error, and the exit status is 1.
UnitAfterFailure == "restarting"

\* On ErrUnauthorized run() returns nil, and the unit does not restart a process
\* whose exit status is 0.
UnitAfter401 == "inactive"

\* A worker gets a 401.
Rejected ==
    /\ pc = "run"
    /\ ~RightServer \/ proc.perm \in revoked
    /\ pc' = UnitAfter401
    /\ UNCHANGED <<disk, proc, install, server, history>>

\* Any step of run() returns an error (status 1), or the process is killed.
Fails ==
    /\ pc \in Startup \union {"run"}
    /\ Fault
    /\ pc' = "restarting"
    /\ UNCHANGED <<disk, proc, install, server>>

\* The unit is enabled, so the boot starts it, also when it was inactive.
Reboot ==
    /\ installed # None
    /\ pc # "restarting"
    /\ Fault
    /\ pc' = "restarting"
    /\ installer' = "idle"
    /\ UNCHANGED <<disk, proc, latest, installed, server>>

-----------------------------------------------------------------------------
(* install.sh and the dashboard                                            *)

\* The redirection opens and truncates agent.env before printf writes to it.
BeginInstall ==
    /\ installer = "idle"
    /\ latest < MaxInstalls
    /\ latest' = latest + 1
    /\ env' = EmptyEnv
    /\ installer' = "write"
    /\ overlapped' = (overlapped \/ pc \in Enrolling)
    /\ UNCHANGED <<tokenFile, pc, proc, installed, server, faults>>

WriteEnv ==
    /\ installer = "write"
    /\ env' = [url |-> TRUE, token |-> latest]
    /\ installer' = "remove"
    /\ UNCHANGED <<tokenFile, pc, proc, latest, installed, server, history>>

\* Mutant: the script leaves the token of the previous installation there.
TokenFileLeft == tokenFile

TokenFileRemoved == None

RemoveTokenFile ==
    /\ installer = "remove"
    /\ tokenFile' = TokenFileRemoved
    /\ installer' = "restart"
    /\ UNCHANGED <<env, pc, proc, latest, installed, server, history>>

\* systemctl restart stops the old process, wherever it is, and spawns one.
RestartUnit ==
    /\ installer = "restart"
    /\ Spawn
    /\ installed' = latest
    /\ installer' = "idle"
    /\ UNCHANGED <<disk, latest, server, history>>

\* set -e: a command of the script fails, or the script is interrupted.
AbortInstall ==
    /\ installer # "idle"
    /\ Fault
    /\ installer' = "idle"
    /\ UNCHANGED <<disk, pc, proc, latest, installed, server>>

\* "Revoke token" in the dashboard.
Revoke ==
    /\ \E t \in exchanged \ revoked : revoked' = revoked \union {t}
    /\ UNCHANGED <<disk, pc, proc, install, exchanged, history>>

-----------------------------------------------------------------------------
ProcessStep ==
    \/ SystemdStart \/ LoadToken \/ Register \/ SaveToken
    \/ ReadEnv \/ TruncateEnv \/ RewriteEnv \/ Rejected

InstallerStep == WriteEnv \/ RemoveTokenFile \/ RestartUnit

Environment ==
    \/ RegisterReplyLost \/ Fails \/ Reboot
    \/ BeginInstall \/ AbortInstall \/ Revoke

Next == ProcessStep \/ InstallerStep \/ Environment

\* The process and systemd keep going, and a script that began continues;
\* nobody has to install, revoke or fail.
Fairness == WF_vars(ProcessStep) /\ WF_vars(InstallerStep)

Spec == Init /\ [][Next]_vars
FairSpec == Spec /\ Fairness

-----------------------------------------------------------------------------
(* What holds                                                              *)

\* A process past the exchange, and the token it stores, hold a token that
\* the control plane really issued: no start-up path (main.go, run) connects
\* with anything else, whichever files it was started from.
RunsOnIssuedToken ==
    /\ tokenFile \in exchanged \union {None}
    /\ pc \in {"save", "read", "truncate", "rewrite", "run"} => proc.perm \in exchanged

\* Once the newest installation is complete the disk always holds something to
\* connect with, the one-time token or the permanent one, wherever the agent
\* is killed: Save comes before RemoveOneTimeToken (main.go).  Installations
\* that interrupt an enrolment are excepted: see FreshTokenUsed.
CredentialOnDisk ==
    installed # None /\ installed = latest /\ installer = "idle" /\ ~overlapped
        => tokenFile # None \/ env.token # None

\* The comment in install.sh: a fresh token means that a fresh registration is
\* intended.  The agent never runs on a token older than the newest completed
\* installation, provided no enrolment was going on during one.
FreshRegistration ==
    ~overlapped /\ installer = "idle" /\ pc = "run" => proc.perm >= installed

\* The agent forgets the one-time token when it connects for the first time
\* (README), as long as nothing fails.
OneTimeTokenForgotten ==
    faults = 0 /\ ~overlapped /\ installer = "idle" /\ pc = "run" => env.token = None

\* There is a credential on the disk, and the one that is spent is not.
CredentialsInPlace == CredentialOnDisk /\ OneTimeTokenForgotten

\* A process that has to enrol and never can: its token is spent or missing.
Stranded ==
    tokenFile = None /\ env.token \in exchanged \union {None}

\* After an installation the restarts of the unit lead to a connected agent,
\* or to one that got a 401, unless the exchange was spent for nothing.
ConnectsUnlessStranded ==
    (installed # None) ~> (pc \in {"run", "inactive"} \/ Stranded)

\* A revoked agent ends inactive and stays so (docs/e2e.md: "inactive rather
\* than restarting"), across reboots too, once nobody installs any more.
RevokedStaysDown ==
    (/\ pc = "run" /\ proc.perm = tokenFile /\ tokenFile \in revoked
     /\ installer = "idle" /\ latest = MaxInstalls) ~> [](pc = "inactive")

-----------------------------------------------------------------------------
(* What the documents say and the code does not do                         *)

\* install.sh removes token.enc so that no agent silently reuses the old token
\* and ignores the new one.  An agent that is enrolling meanwhile puts it back.
FreshTokenUsed ==
    installer = "idle" /\ pc = "run" => proc.perm >= installed

\* main.go logs "token revoked, stopping" when it stops on a 401.  An agent
\* whose URL line was lost in the rewrite gets one from another server.
StopsOnlyWhenRevoked ==
    pc = "inactive" /\ installed # None => proc.perm \in revoked
=============================================================================
