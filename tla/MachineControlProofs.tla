------------------------ MODULE MachineControlProofs ------------------------
(***************************************************************************)
(* The safety properties of MachineControl, for any sequence of updates    *)
(* and reboots and any number of faults.                                   *)
(*                                                                         *)
(* That a reported update is installed rests on the order of the batch:    *)
(* what is still to be executed is newer than what is executed, and that   *)
(* is not older than what is installed (InOrder).  That the installed      *)
(* program can be started rests on the order of the steps (Staged).        *)
(***************************************************************************)
EXTENDS MachineControl, TLAPS

InOrder ==
    /\ current # None => status[current] = "sent" /\ binary.version <= current
    /\ \A c \in todo : status[c] = "sent"
    /\ \A c \in Commands :
        c \in todo \/ status[c] = "pending" => binary.version < c /\ current < c
    /\ \A c \in todo, d \in Commands : status[d] = "pending" => c < d

Staged ==
    /\ pc = "chmod" => temp.whole
    /\ pc = "mv" => temp.whole /\ temp.exec
    /\ pc \in {"chmod", "mv"} => temp.version = current
    /\ pc = "schedule" => binary.version = current
    /\ pc \in {"systemctl", "shutdown"} => current \notin Updates
    /\ pc = "post" /\ success /\ current \in Updates => binary.version = current

MInv == TypeOK /\ BinaryRunnable /\ Staged /\ InOrder /\ DoneIsInstalled /\ RunsInstalled

-----------------------------------------------------------------------------
\* The program that was installed first is the one that runs.
LEMMA InitInv == Init => MInv
  <1> SUFFICES ASSUME Init PROVE MInv
    OBVIOUS
  <1> USE MachineAssumption DEF MachineAssumption, Init, Commands, None
  <1>1. temp \in Program /\ binary \in Program
    BY DEF Program, Absent
  <1>2. success \in BOOLEAN /\ goingDown \in BOOLEAN
    BY Zenon
  <1>3. TypeOK
    BY <1>1, <1>2 DEF TypeOK, Steps
  <1>4. BinaryRunnable /\ Staged /\ InOrder /\ DoneIsInstalled /\ RunsInstalled
    BY DEF BinaryRunnable, Staged, InOrder, DoneIsInstalled, RunsInstalled
  <1> QED
    BY <1>3, <1>4 DEF MInv

\* A program that was cut off in the middle of its copying is one of the programs.
LEMMA CutOffProgram == TypeOK => CutOff \in Program
  <1> SUFFICES ASSUME TypeOK PROVE CutOff \in Program
    OBVIOUS
  <1>1. temp.exec \in BOOLEAN /\ FALSE \in BOOLEAN
    BY DEF TypeOK, Program
  <1> QED
    BY <1>1 DEF TypeOK, CutOff, Program

\* The next command of the batch is begun.
LEMMA BeginKeeps == MInv /\ Begin => MInv'
  <1> SUFFICES ASSUME MInv, Begin PROVE MInv'
    OBVIOUS
  <1> USE MachineAssumption DEF MachineAssumption, MInv, Commands, None
  <1>1. PICK c \in todo :
            /\ \A d \in todo : c <= d
            /\ current' = c
            /\ todo' = todo \ {c}
            /\ pc' = CASE c \in Versionless -> "payload"
                       [] c \in Updates \ Versionless -> "curl"
                       [] OTHER -> "systemctl"
    BY DEF Begin
  <1>2. c \in Commands /\ pc' \in {"payload", "curl", "systemctl"}
    BY <1>1 DEF TypeOK
  <1>3. pc' = "systemctl" => c \notin Updates
    BY <1>1
  <1>4. UNCHANGED <<status, success, temp, binary, running, restarts, goingDown, faults>>
    BY DEF Begin, files, pendingEnds
  <1>5. TypeOK'
    BY <1>1, <1>2, <1>4 DEF TypeOK, Steps
  <1>6. Staged'
    BY <1>1, <1>2, <1>3, <1>4 DEF Staged
  <1>7. InOrder'
    <2>1. \A d \in todo' : c < d
      BY <1>1 DEF TypeOK
    <2> QED
      BY <1>1, <1>2, <1>4, <2>1 DEF InOrder, TypeOK, Program
  <1>8. BinaryRunnable' /\ DoneIsInstalled' /\ RunsInstalled'
    BY <1>4, pc = "next" DEF Begin, BinaryRunnable, DoneIsInstalled, RunsInstalled
  <1> QED
    BY <1>5, <1>6, <1>7, <1>8

\* A batch is handed out.
LEMMA PollKeeps == MInv /\ Poll => MInv'
  <1> SUFFICES ASSUME MInv, Poll PROVE MInv'
    OBVIOUS
  <1> USE MachineAssumption DEF MachineAssumption, MInv, Commands, None
  <1>1. PICK n \in Commands :
            /\ todo' = {c \in 1..n : status[c] = "pending"}
            /\ status' = [c \in Commands |-> IF c \in todo' THEN "sent" ELSE status[c]]
    BY DEF Poll
  <1>2. pc = "idle" /\ pc' = "next"
        /\ UNCHANGED <<current, success, temp, binary, running, restarts, goingDown, faults>>
    BY DEF Poll, files, pendingEnds
  <1>3. TypeOK'
    BY <1>1, <1>2 DEF TypeOK, Steps
  <1>4. \A c \in Commands : status'[c] # status[c] => status'[c] = "sent"
    BY <1>1
  <1>5. InOrder'
    BY <1>1, <1>2 DEF InOrder, TypeOK
  <1>6. BinaryRunnable' /\ Staged' /\ DoneIsInstalled' /\ RunsInstalled'
    BY <1>2, <1>4 DEF BinaryRunnable, Staged, DoneIsInstalled, RunsInstalled
  <1> QED
    BY <1>3, <1>5, <1>6

\* The result is reported, or the report fails with or without having arrived.
LEMMA PostKeeps == MInv /\ (Post \/ PostFails) => MInv'
  <1> SUFFICES ASSUME MInv, Post \/ PostFails PROVE MInv'
    OBVIOUS
  <1> USE MachineAssumption DEF MachineAssumption, MInv, Commands, None
  <1>1. /\ pc = "post" /\ current \in Commands /\ current' = None
        /\ pc' \in {"idle", "next"}
        /\ todo' \subseteq todo
        /\ faults' \in {faults, faults + 1} /\ faults' \in 0..MaxFaults
        /\ UNCHANGED <<success, temp, binary, running, restarts, goingDown>>
    BY DEF Post, PostFails, AfterFailedPost, Fault, TypeOK, files, pendingEnds
  <1>2. status' \in {status, [status EXCEPT ![current] = IF success THEN "done" ELSE "failed"]}
    BY DEF Post, PostFails
  <1>3. TypeOK'
    BY <1>1, <1>2 DEF TypeOK, Steps
  <1>4. \A c \in Commands : c # current => status'[c] = status[c]
    BY <1>2 DEF TypeOK
  <1>5. status'[current] = "done" => success
    BY <1>1, <1>2 DEF TypeOK, InOrder
  <1>6. InOrder'
    <2>1. current \notin todo /\ status[current] = "sent"
      BY <1>1 DEF InOrder, TypeOK
    <2>2. status'[current] # "pending"
      BY <1>1, <1>2, <2>1 DEF TypeOK
    <2>3. \A c \in todo' : status'[c] = "sent"
      BY <1>1, <1>4, <2>1 DEF InOrder, TypeOK
    <2>4. \A c \in Commands :
            c \in todo' \/ status'[c] = "pending" => binary.version < c /\ 0 < c
      BY <1>1, <1>4, <2>2 DEF InOrder, TypeOK
    <2>5. \A c \in todo', d \in Commands : status'[d] = "pending" => c < d
      BY <1>1, <1>4, <2>2 DEF InOrder, TypeOK
    <2> QED
      BY <1>1, <2>3, <2>4, <2>5 DEF InOrder
  <1>7. DoneIsInstalled'
    <2> SUFFICES ASSUME NEW c \in Updates, status'[c] = "done" PROVE binary.version >= c
      BY <1>1 DEF DoneIsInstalled
    <2>1. CASE c = current
      BY <1>1, <1>5, <2>1 DEF Staged, TypeOK, Program
    <2>2. CASE c # current
      BY <1>4, <2>2 DEF DoneIsInstalled
    <2> QED
      BY <2>1, <2>2
  <1>8. BinaryRunnable' /\ Staged' /\ RunsInstalled'
    BY <1>1 DEF BinaryRunnable, Staged, RunsInstalled, TypeOK
  <1> QED
    BY <1>3, <1>6, <1>7, <1>8

\* A step of an executor leaves the batch alone: only the program may change,
\* and mv puts the current version in the place of an older one.
LEMMA ExecutorKeeps ==
    ASSUME MInv,
           \/ NoVersion \/ Download \/ DownloadFails \/ Chmod \/ Move
           \/ Schedule \/ StepFails \/ RequestReboot \/ RebootFails
    PROVE  MInv'
  <1> USE MachineAssumption DEF MachineAssumption, MInv, Commands, None
  <1>1. UNCHANGED <<status, current, todo, running>>
    BY DEF NoVersion, Download, DownloadFails, Chmod, Move, Schedule, StepFails,
           RequestReboot, RebootFails, GoesOn, Errs, batch, files
  <1>2. TypeOK'
    <2>1. temp' \in Program /\ binary' \in Program
      <3>1. Absent \in Program
        BY DEF Absent, Program
      <3>2. [version |-> current, whole |-> TRUE, exec |-> temp.exec] \in Program
        BY DEF TypeOK, Program
      <3>3. [temp EXCEPT !.exec = TRUE] \in Program
        BY DEF TypeOK, Program
      <3> QED
        BY <3>1, <3>2, <3>3, CutOffProgram
        DEF NoVersion, Download, DownloadFails, Chmod, Move, Schedule, StepFails,
            RequestReboot, RebootFails, files, TypeOK
    <2>2. success' \in BOOLEAN /\ goingDown' \in BOOLEAN
      BY Zenon
      DEF NoVersion, Download, DownloadFails, Chmod, Move, Schedule, StepFails,
          RequestReboot, RebootFails, GoesOn, Errs, files, pendingEnds, TypeOK
    <2>3. pc' \in Steps \ {"idle", "next"} /\ pc \notin {"idle", "next"}
      BY DEF NoVersion, Download, DownloadFails, Chmod, Move, Schedule, StepFails,
             RequestReboot, RebootFails, GoesOn, Errs, Steps
    <2>4. faults' \in 0..MaxFaults
      BY DEF NoVersion, Download, DownloadFails, Chmod, Move, Schedule, StepFails,
             RequestReboot, RebootFails, GoesOn, Errs, Fault, TypeOK
    <2>5. restarts' \in SUBSET Commands
      BY DEF NoVersion, Download, DownloadFails, Chmod, Move, Schedule, StepFails,
             RequestReboot, RebootFails, GoesOn, Scheduled, pendingEnds, files, TypeOK
    <2> QED
      BY <1>1, <2>1, <2>2, <2>3, <2>4, <2>5 DEF TypeOK
  <1>3. Staged' /\ BinaryRunnable'
    BY DEF NoVersion, Download, DownloadFails, Chmod, Move, Schedule, StepFails,
           RequestReboot, RebootFails, GoesOn, Errs, batch, files, TypeOK, Program,
           Staged, BinaryRunnable
  <1>4. binary' = binary \/ (current # None /\ binary'.version = current)
    BY DEF NoVersion, Download, DownloadFails, Chmod, Move, Schedule, StepFails,
           RequestReboot, RebootFails, GoesOn, Errs, files, Staged, TypeOK
  <1>5. InOrder'
    BY <1>1, <1>4 DEF InOrder, TypeOK
  <1>6. DoneIsInstalled'
    BY <1>1, <1>4 DEF DoneIsInstalled, InOrder, TypeOK, Program
  <1>7. RunsInstalled'
    BY DEF NoVersion, Download, DownloadFails, Chmod, Move, Schedule, StepFails,
           RequestReboot, RebootFails, GoesOn, Errs, Fault, files, pendingEnds,
           Scheduled, TypeOK, RunsInstalled
  <1> QED
    BY <1>2, <1>3, <1>5, <1>6, <1>7

\* The process ends and is started again.
LEMMA EndKeeps == MInv /\ (RestartUnit \/ RebootMachine \/ Kill) => MInv'
  <1> SUFFICES ASSUME MInv, RestartUnit \/ RebootMachine \/ Kill PROVE MInv'
    OBVIOUS
  <1> USE MachineAssumption DEF MachineAssumption, MInv, Commands, None
  <1>1. Ends /\ restarts' = {}
    BY Zenon DEF RestartUnit, RebootMachine, Kill
  <1>5. goingDown' \in BOOLEAN
    BY Zenon DEF RestartUnit, RebootMachine, Kill, TypeOK
  <1>6. faults' \in 0..MaxFaults
    BY DEF RestartUnit, RebootMachine, Kill, Fault, TypeOK
  <1>2. temp' \in Program
    BY <1>1, CutOffProgram DEF Ends, MInv, TypeOK
  <1>3. TypeOK'
    BY <1>1, <1>2, <1>5, <1>6, FALSE \in BOOLEAN DEF Ends, TypeOK, Steps, Program
  <1>4. BinaryRunnable' /\ Staged' /\ InOrder' /\ DoneIsInstalled' /\ RunsInstalled'
    BY <1>1 DEF Ends, BinaryRunnable, Staged, InOrder, DoneIsInstalled, RunsInstalled, TypeOK
  <1> QED
    BY <1>3, <1>4

\* Updates, reboots, their reports and faults keep the invariant.
LEMMA Inductive == MInv /\ [Next]_vars => MInv'
  <1> SUFFICES ASSUME MInv, [Next]_vars PROVE MInv'
    OBVIOUS
  <1>1. CASE Poll
    BY <1>1, PollKeeps
  <1>2. CASE Begin
    BY <1>2, BeginKeeps
  <1>3. CASE EndOfBatch
    BY <1>3, MachineAssumption
    DEF EndOfBatch, MInv, TypeOK, BinaryRunnable, Staged, InOrder, DoneIsInstalled,
        RunsInstalled, batch, files, pendingEnds, Steps
  <1>4. CASE Post \/ PostFails
    BY <1>4, PostKeeps
  <1>5. CASE \/ NoVersion \/ Download \/ DownloadFails \/ Chmod \/ Move
             \/ Schedule \/ StepFails \/ RequestReboot \/ RebootFails
    BY <1>5, ExecutorKeeps
  <1>6. CASE RestartUnit \/ RebootMachine \/ Kill
    BY <1>6, EndKeeps
  <1>7. CASE UNCHANGED vars
    BY <1>7
    DEF vars, MInv, TypeOK, BinaryRunnable, Staged, InOrder, DoneIsInstalled, RunsInstalled
  <1> QED
    BY <1>1, <1>2, <1>3, <1>4, <1>5, <1>6, <1>7 DEF Next, Execute

\* The invariant that the results below are read off, for every number of commands and faults.
LEMMA Invariant == Spec => []MInv
  BY InitInv, Inductive, PTL DEF Spec

-----------------------------------------------------------------------------
\* Every variable keeps its type, and a command is being executed exactly when
\* the poller is not between commands.
THEOREM TypeCorrect == Spec => []TypeOK
  BY Invariant, PTL DEF MInv

\* However self_update is cut off, there is a complete executable program.
THEOREM AlwaysRunnable == Spec => []BinaryRunnable
  BY Invariant, PTL DEF MInv

\* An update reported as done is installed, or a later one is.
THEOREM DoneStaysInstalled == Spec => []DoneIsInstalled
  BY Invariant, PTL DEF MInv

\* Without faults the program that runs is the installed one, unless its
\* restart is still due.
THEOREM RunsWhatIsInstalled == Spec => []RunsInstalled
  BY Invariant, PTL DEF MInv
=============================================================================
