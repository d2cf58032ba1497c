--------------------------- MODULE MachineControl ---------------------------
(***************************************************************************)
(* The commands that end the process which executes them: self_update and  *)
(* reboot_server (internal/executor/selfupdate.go, reboot.go), with the    *)
(* poller that reports their result and the unit they restart.             *)
(*                                                                         *)
(* Command i is an update to version i, or a reboot.  self_update leaves a *)
(* detached shell behind that restarts the unit two seconds later; what    *)
(* the process is doing then is not its concern.                           *)
(***************************************************************************)
EXTENDS Integers

CONSTANTS
    NumCommands,
    Updates,        \* the commands that are updates, the others are reboots
    Versionless,    \* the updates whose payload names no version
    MaxFaults       \* programs that fail, and kills

ASSUME MachineAssumption ==
    /\ NumCommands \in Nat
    /\ Updates \subseteq 1..NumCommands
    /\ Versionless \subseteq Updates
    /\ MaxFaults \in Nat

Commands == 1..NumCommands
None == 0

VARIABLES
    status,         \* the control plane: what became of each command
    pc,             \* the step of the command being executed
    current,        \* that command
    todo,           \* the rest of the batch
    success,        \* what will be reported
    temp,           \* the file satsetopsagent.new
    binary,         \* the file satsetopsagent
    running,        \* the version that runs
    restarts,       \* updates whose detached shell still sleeps
    goingDown,      \* was a reboot requested?
    faults

vars == <<status, pc, current, todo, success, temp, binary, running, restarts,
          goingDown, faults>>
batch == <<status, current, todo>>
files == <<temp, binary, running>>
pendingEnds == <<restarts, goingDown>>

\* A downloaded program: its version, is it complete, is it executable?
Program == [version : Commands \union {None}, whole : BOOLEAN, exec : BOOLEAN]
Absent == [version |-> None, whole |-> FALSE, exec |-> FALSE]

Steps == {"idle", "next", "payload", "curl", "chmod", "mv", "schedule", "systemctl", "shutdown", "post"}

TypeOK ==
    /\ status \in [Commands -> {"pending", "sent", "done", "failed"}]
    /\ pc \in Steps
    /\ current \in Commands \union {None}
    /\ todo \in SUBSET Commands
    /\ success \in BOOLEAN
    /\ temp \in Program
    /\ binary \in Program
    /\ running \in Commands \union {None}
    /\ restarts \in SUBSET Commands
    /\ goingDown \in BOOLEAN
    /\ faults \in 0..MaxFaults
    /\ current = None <=> pc \in {"idle", "next"}

Init ==
    /\ status = [c \in Commands |-> "pending"]
    /\ pc = "idle"
    /\ current = None
    /\ todo = {}
    /\ success = FALSE
    /\ temp = Absent
    /\ binary = [version |-> None, whole |-> TRUE, exec |-> TRUE]
    /\ running = None
    /\ restarts = {}
    /\ goingDown = FALSE
    /\ faults = 0

Fault ==
    /\ faults < MaxFaults
    /\ faults' = faults + 1

\* A program succeeds and the executor goes on to the next step.
GoesOn(from, to) ==
    /\ pc = from
    /\ pc' = to
    /\ success' = (to = "post")
    /\ UNCHANGED <<batch, faults>>

\* A program fails and the executor returns its error.
Errs(from) ==
    /\ pc = from
    /\ Fault
    /\ pc' = "post"
    /\ success' = FALSE
    /\ UNCHANGED batch

-----------------------------------------------------------------------------
(* The poller                                                              *)

\* The control plane hands out some of what is pending, the oldest first.
Poll ==
    /\ pc = "idle"
    /\ \E n \in Commands :
        /\ todo' = {c \in 1..n : status[c] = "pending"}
        /\ status' = [c \in Commands |-> IF c \in todo' THEN "sent" ELSE status[c]]
    /\ todo' # {}
    /\ pc' = "next"
    /\ UNCHANGED <<current, success, files, pendingEnds, faults>>

Begin ==
    /\ pc = "next"
    /\ \E c \in todo :
        /\ \A d \in todo : c <= d
        /\ current' = c
        /\ todo' = todo \ {c}
        /\ pc' = CASE c \in Versionless -> "payload"
                   [] c \in Updates \ Versionless -> "curl"
                   [] OTHER -> "systemctl"
    /\ UNCHANGED <<status, success, files, pendingEnds, faults>>

EndOfBatch ==
    /\ pc = "next"
    /\ todo = {}
    /\ pc' = "idle"
    /\ UNCHANGED <<batch, success, files, pendingEnds, faults>>

\* Mutant: success is reported whatever the executor returned.
PostDone ==
    /\ pc = "post"
    /\ status' = [status EXCEPT ![current] = "done"]
    /\ current' = None
    /\ pc' = "next"
    /\ UNCHANGED <<todo, success, files, pendingEnds, faults>>

Post ==
    /\ pc = "post"
    /\ status' = [status EXCEPT ![current] = IF success THEN "done" ELSE "failed"]
    /\ current' = None
    /\ pc' = "next"
    /\ UNCHANGED <<todo, success, files, pendingEnds, faults>>

\* Mutant: the abandoned command stays the current one.
AfterLostPost == current

AfterFailedPost == None

\* A report that fails abandons the batch; it may have arrived all the same.
PostFails ==
    /\ pc = "post"
    /\ Fault
    /\ status' \in {status,
                   [status EXCEPT ![current] = IF success THEN "done" ELSE "failed"]}
    /\ current' = AfterFailedPost
    /\ todo' = {}
    /\ pc' = "idle"
    /\ UNCHANGED <<success, files, pendingEnds>>

-----------------------------------------------------------------------------
(* selfUpdate                                                              *)

NoVersion ==
    /\ current \in Versionless
    /\ pc = "payload"
    /\ pc' = "post"
    /\ success' = FALSE
    /\ UNCHANGED <<batch, files, pendingEnds, faults>>

\* What a download leaves that does not come to its end.
CutOff == [version |-> current, whole |-> FALSE, exec |-> temp.exec]

\* curl -o truncates the file if it is there, and leaves its mode alone.
Download ==
    /\ GoesOn("curl", "chmod")
    /\ temp' = [version |-> current, whole |-> TRUE, exec |-> temp.exec]
    /\ UNCHANGED <<binary, running, pendingEnds>>

DownloadFails ==
    /\ Errs("curl")
    /\ temp' \in {temp, CutOff}
    /\ UNCHANGED <<binary, running, pendingEnds>>

\* Mutant: the new program is never made executable.
ChmodForgotten ==
    /\ GoesOn("chmod", "mv")
    /\ UNCHANGED <<files, pendingEnds>>

Chmod ==
    /\ GoesOn("chmod", "mv")
    /\ temp' = [temp EXCEPT !.exec = TRUE]
    /\ UNCHANGED <<binary, running, pendingEnds>>

\* mv within a directory is a rename.
Move ==
    /\ GoesOn("mv", "schedule")
    /\ binary' = temp
    /\ temp' = Absent
    /\ UNCHANGED <<running, pendingEnds>>

\* Mutant: nothing restarts the unit.
ScheduledNone == restarts

\* nohup sh -c 'sleep 2 && systemctl restart satsetops-agent' &
Scheduled == restarts \union {current}

Schedule ==
    /\ GoesOn("schedule", "post")
    /\ restarts' = Scheduled
    /\ UNCHANGED <<files, goingDown>>

StepFails ==
    /\ \E from \in {"chmod", "mv", "schedule"} : Errs(from)
    /\ UNCHANGED <<files, pendingEnds>>

-----------------------------------------------------------------------------
(* rebootServer                                                            *)

RequestReboot ==
    /\ \E from \in {"systemctl", "shutdown"} : GoesOn(from, "post")
    /\ goingDown' = TRUE
    /\ UNCHANGED <<files, restarts>>

\* systemctl fails: try shutdown, and return its error if it fails too.
RebootFails ==
    /\ \/ Errs("shutdown")
       \/ /\ pc = "systemctl"
          /\ Fault
          /\ pc' = "shutdown"
          /\ UNCHANGED <<batch, success>>
    /\ UNCHANGED <<files, pendingEnds>>

-----------------------------------------------------------------------------
(* The end of the process                                                  *)

Ends ==
    /\ pc' = "idle"
    /\ current' = None
    /\ todo' = {}
    /\ success' = FALSE
    /\ temp' \in IF pc = "curl" THEN {temp, CutOff} ELSE {temp}
    /\ running' = binary.version
    /\ UNCHANGED <<status, binary>>

\* The detached shell wakes up.  Restarting the unit kills every process of its
\* control group, the shells that still sleep among them.
RestartUnit ==
    /\ restarts # {}
    /\ restarts' = {}
    /\ Ends
    /\ UNCHANGED <<goingDown, faults>>

\* The machine goes down some time after it was asked to.
RebootMachine ==
    /\ goingDown
    /\ goingDown' = FALSE
    /\ restarts' = {}
    /\ Ends
    /\ UNCHANGED faults

\* The process is killed and systemd starts it again.
Kill ==
    /\ Fault
    /\ restarts' = {}
    /\ Ends
    /\ UNCHANGED goingDown

-----------------------------------------------------------------------------
Execute ==
    \/ Begin \/ EndOfBatch \/ Post
    \/ NoVersion \/ Download \/ Chmod \/ Move \/ Schedule \/ RequestReboot

Next ==
    \/ Poll \/ Execute
    \/ PostFails \/ DownloadFails \/ StepFails \/ RebootFails
    \/ RestartUnit \/ RebootMachine \/ Kill

Fairness == WF_vars(Execute) /\ WF_vars(RestartUnit) /\ WF_vars(RebootMachine)

Spec == Init /\ [][Next]_vars
FairSpec == Spec /\ Fairness

-----------------------------------------------------------------------------
(* What holds                                                              *)

\* Whenever the process may be started, by a restart, a kill or a boot, there
\* is a complete and executable program: chmod comes before the rename.
BinaryRunnable == binary.whole /\ binary.exec

\* An update that was reported as done is installed, and only a later one has
\* replaced it, whatever cut the updates in between off.
DoneIsInstalled ==
    \A c \in Updates : status[c] = "done" => binary.version >= c

\* An update that was reported as done comes to run.
DoneComesToRun == \A c \in Updates : status[c] = "done" ~> running >= c

\* The program that runs is never newer than the one installed, and older only
\* until the restart that is due, or after an update whose restart could not be
\* scheduled or was lost with the process.
RunsInstalled ==
    running # binary.version /\ faults = 0
        => pc = "schedule" \/ restarts # {}

-----------------------------------------------------------------------------
(* What a comment says and the code does not do                            *)

\* The comment on selfUpdate: two seconds are long enough to report success
\* before the process is killed.  A report may take up to thirty.
ReportedBeforeRestart ==
    [][\A c \in restarts \ restarts' : status[c] # "sent"]_vars
=============================================================================
