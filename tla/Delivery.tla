------------------------------ MODULE Delivery ------------------------------
(***************************************************************************)
(* The life of a command between the control plane and the poller          *)
(* (internal/poller, internal/api): polling, executing the batch in order, *)
(* reporting each result, and what requests that are lost or late, kills   *)
(* and a revoked token do to it.                                           *)
(*                                                                         *)
(* The control plane is external: a poll hands out every pending command   *)
(* and marks it sent (docs/e2e.md: nothing redelivers it), in the order    *)
(* they were queued; a result makes it done or failed.  A call ends after  *)
(* thirty seconds at the latest, but the request it gave up may still be   *)
(* handled.                                                                *)
(*                                                                         *)
(* What a command does is left to the modules of the executors: here it    *)
(* ends in success or failure, or never.                                   *)
(***************************************************************************)
EXTENDS Integers, FiniteSets

CONSTANTS
    NumCommands,    \* the commands are numbered as they are queued
    MaxFaults       \* how many calls fail and how often the agent is killed

ASSUME DeliveryAssumption == NumCommands \in Nat /\ MaxFaults \in Nat

Commands == 1..NumCommands
None == 0

VARIABLES
    status,         \* the control plane: the status of each command
    revoked,        \* and whether it revoked the token
    phase,          \* where RunOnce and Run stand
    batch,          \* the commands of this poll that RunOnce has not begun
    current,        \* the one it executes or reports
    latePolls,      \* poll requests that nobody waits for any more
    lateResults,    \* results that nobody waits for any more
    faults,         \* the faults so far
    runs,           \* history: how often each command was begun
    result          \* history: how the execution ended

vars == <<status, revoked, phase, batch, current, latePolls, lateResults,
          faults, runs, result>>
agent == <<phase, batch, current>>
network == <<latePolls, lateResults>>
history == <<runs, result>>

Status == {"absent", "pending", "sent", "done", "failed"}
Result == {"none", "success", "failure"}
Busy == {"executing", "reporting"}
Up == {"idle", "polling", "answered", "next"} \union Busy
Phase == Up \union {"down", "stopped"}

TypeOK ==
    /\ status \in [Commands -> Status]
    /\ revoked \in BOOLEAN
    /\ phase \in Phase
    /\ batch \in SUBSET Commands
    /\ current \in Commands \union {None}
    /\ latePolls \in 0..faults
    /\ lateResults \in SUBSET Commands
    /\ faults \in 0..MaxFaults
    /\ runs \in [Commands -> Nat]
    /\ result \in [Commands -> Result]
    /\ current # None <=> phase \in Busy
    /\ batch # {} => phase \in {"answered", "next"} \union Busy

Init ==
    /\ status = [c \in Commands |-> "absent"]
    /\ revoked = FALSE
    /\ phase = "idle"
    /\ batch = {}
    /\ current = None
    /\ latePolls = 0
    /\ lateResults = {}
    /\ faults = 0
    /\ runs = [c \in Commands |-> 0]
    /\ result = [c \in Commands |-> "none"]

Fault ==
    /\ faults < MaxFaults
    /\ faults' = faults + 1

Pending == {c \in Commands : status[c] = "pending"}

\* What the control plane makes of a poll.
HandedOut == [c \in Commands |-> IF c \in Pending THEN "sent" ELSE status[c]]

\* Mutant: every result is reported as a success.
RecordedDone(c) == [status EXCEPT ![c] = "done"]

\* What it makes of the result of c: success or not, as PostResult says.
Recorded(c) ==
    [status EXCEPT ![c] = IF result[c] = "success" THEN "done" ELSE "failed"]

-----------------------------------------------------------------------------
(* The control plane                                                       *)

EnqueueCommand(c) ==
    /\ status[c] = "absent"
    /\ \A d \in Commands : d < c => status[d] # "absent"
    /\ status' = [status EXCEPT ![c] = "pending"]
    /\ UNCHANGED <<revoked, agent, network, faults, history>>

Revoke ==
    /\ ~revoked
    /\ revoked' = TRUE
    /\ UNCHANGED <<status, agent, network, faults, history>>

\* GET /api/agent/commands.
AnswerPoll ==
    /\ phase = "polling"
    /\ ~revoked
    /\ status' = HandedOut
    /\ batch' = Pending
    /\ phase' = "answered"
    /\ UNCHANGED <<revoked, current, network, faults, history>>

\* A poll the agent gave up is handled after all, and its answer goes nowhere.
AnswerLatePoll ==
    /\ latePolls > 0
    /\ latePolls' = latePolls - 1
    /\ status' = IF revoked THEN status ELSE HandedOut
    /\ UNCHANGED <<revoked, agent, lateResults, faults, history>>

RecordLateResult(c) ==
    /\ c \in lateResults
    /\ lateResults' = lateResults \ {c}
    /\ status' = IF revoked THEN status ELSE Recorded(c)
    /\ UNCHANGED <<revoked, agent, latePolls, faults, history>>

-----------------------------------------------------------------------------
(* The poller                                                              *)

\* Run calls RunOnce at once and then at every tick.
Poll ==
    /\ phase = "idle"
    /\ phase' = "polling"
    /\ UNCHANGED <<status, revoked, batch, current, network, faults, history>>

ReceiveBatch ==
    /\ phase = "answered"
    /\ phase' = "next"
    /\ UNCHANGED <<status, revoked, batch, current, network, faults, history>>

\* Mutant: the commands of a batch in any order.
NextInBatchAny(c) == c \in batch

\* The range loop takes the commands in the order of the answer.
NextInBatch(c) == c \in batch /\ \A d \in batch : c <= d

\* The loop of RunOnce: begin the next command, or return nil.
BeginCommand ==
    /\ phase = "next"
    /\ \E c \in Commands :
        /\ NextInBatch(c)
        /\ current' = c
        /\ batch' = batch \ {c}
        /\ runs' = [runs EXCEPT ![c] = @ + 1]
    /\ phase' = "executing"
    /\ UNCHANGED <<status, revoked, network, faults, result>>

\* Mutant: Run without its loop.
AfterRunOnceEnd == "stopped"

\* Run waits for the next tick.
AfterRunOnce == "idle"

BatchDone ==
    /\ phase = "next"
    /\ batch = {}
    /\ phase' = AfterRunOnce
    /\ UNCHANGED <<status, revoked, batch, current, network, faults, history>>

\* Dispatch returns.  No run of a program has a time limit, so it may not.
FinishCommand ==
    /\ phase = "executing"
    /\ \E r \in {"success", "failure"} : result' = [result EXCEPT ![current] = r]
    /\ phase' = "reporting"
    /\ UNCHANGED <<status, revoked, batch, current, network, faults, runs>>

\* Mutant: RunOnce returns after the first command.
BatchAfterResultNone == {}

BatchAfterResult == batch

\* POST /api/agent/commands/{id}/result.
PostResult ==
    /\ phase = "reporting"
    /\ ~revoked
    /\ status' = Recorded(current)
    /\ current' = None
    /\ batch' = BatchAfterResult
    /\ phase' = "next"
    /\ UNCHANGED <<revoked, network, faults, history>>

-----------------------------------------------------------------------------
(* What goes wrong                                                         *)

\* Mutant: RunOnce returns the error and the batch is kept for the next call.
ForgetCurrent ==
    /\ current' = None
    /\ UNCHANGED batch

\* The poller leaves RunOnce, or the process ends: the batch is forgotten.
Forget ==
    /\ batch' = {}
    /\ current' = None

\* The request is still on the way when nobody waits for it any more.
PollMayBeLate ==
    \/ UNCHANGED latePolls
    \/ phase = "polling" /\ latePolls' = latePolls + 1

ResultMayBeLate ==
    \/ UNCHANGED lateResults
    \/ phase = "reporting" /\ lateResults' = lateResults \union {current}

\* Poll returns an error: the request or the answer is lost or late, the
\* status is not 2xx, or the answer cannot be decoded.
PollFails ==
    /\ phase \in {"polling", "answered"}
    /\ Fault
    /\ PollMayBeLate
    /\ Forget
    /\ phase' = "idle"
    /\ UNCHANGED <<status, revoked, lateResults, history>>

\* Mutant: after a failed report the command is tried again.
RetryCommand ==
    /\ batch' = batch \union {current}
    /\ current' = None
    /\ phase' = "next"

\* RunOnce returns the error, with the rest of the batch; Run logs it.
LeaveBatch ==
    /\ Forget
    /\ phase' = "idle"

\* PostResult returns an error.
PostResultFails ==
    /\ phase = "reporting"
    /\ Fault
    /\ ResultMayBeLate
    /\ LeaveBatch
    /\ UNCHANGED <<status, revoked, latePolls, history>>

\* The poller gets a 401 for a poll or a result; run() returns nil.
Rejected ==
    /\ phase \in {"polling", "reporting"}
    /\ revoked
    /\ Forget
    /\ phase' = "stopped"
    /\ UNCHANGED <<status, revoked, network, faults, history>>

\* run() returns without waiting for the poller, whatever it does.
EndsWithoutWaiting == Up

\* Another worker gets the 401; systemd kills what the command has started.
WorkerRejected ==
    /\ phase \in EndsWithoutWaiting
    /\ revoked
    /\ Forget
    /\ phase' = "stopped"
    /\ UNCHANGED <<status, revoked, network, faults, history>>

Kill ==
    /\ phase \in Up
    /\ Fault
    /\ PollMayBeLate
    /\ ResultMayBeLate
    /\ Forget
    /\ phase' = "down"
    /\ UNCHANGED <<status, revoked, history>>

\* systemd starts the process again, and Run polls at once.
Restart ==
    /\ phase = "down"
    /\ phase' = "idle"
    /\ UNCHANGED <<status, revoked, batch, current, network, faults, history>>

-----------------------------------------------------------------------------
ControlPlane ==
    \/ \E c \in Commands : EnqueueCommand(c) \/ RecordLateResult(c)
    \/ Revoke \/ AnswerPoll \/ AnswerLatePoll

Poller ==
    \/ Poll \/ ReceiveBatch \/ BeginCommand \/ BatchDone
    \/ PostResult \/ Rejected \/ Restart

Failures == PollFails \/ PostResultFails \/ Kill

Next == ControlPlane \/ Poller \/ FinishCommand \/ WorkerRejected \/ Failures

\* The poller's goroutine runs, the control plane answers, systemd restarts the
\* unit, and some worker that is not stuck calls the control plane again and
\* again (Supervisor).  Nothing says that a command returns.
Fairness == WF_vars(Poller) /\ WF_vars(AnswerPoll) /\ WF_vars(WorkerRejected)

Spec == Init /\ [][Next]_vars
FairSpec == Spec /\ Fairness

-----------------------------------------------------------------------------
(* What holds                                                              *)

\* No command is begun twice, whatever is lost, late or killed: nothing in
\* the agent tries a command or a report again.
AtMostOnce == \A c \in Commands : runs[c] <= 1

\* The control plane believes what happened: done and failed are the outcome of
\* an execution that ended, also when the result arrives late.
ResultIsTrue ==
    \A c \in Commands :
        /\ status[c] = "done" => result[c] = "success"
        /\ status[c] = "failed" => result[c] = "failure"

\* Commands are begun in the order they were queued, within a batch and across
\* batches, restarts and lost polls.
BegunInOrder ==
    [][\A c, d \in Commands : runs'[c] > runs[c] /\ d > c => runs[d] = 0]_vars

\* The poller holds every command that was sent and has no result, as long as
\* no call failed and nothing was killed or revoked.
LostOnlyToFaults ==
    faults = 0 /\ phase # "stopped"
        => \A c \in Commands : status[c] = "sent" => c \in batch \union {current}

\* A queued command gets a result if commands return and nothing fails.
ServedUnlessFault ==
    []<>(phase # "executing") =>
        \A c \in Commands :
            status[c] = "pending"
                ~> (status[c] \in {"done", "failed"} \/ faults > 0 \/ revoked)

\* The ledger of CommandLedger, as far as the control plane and the agent know.
LedgerStage ==
    [c \in Commands |->
        CASE status[c] = "absent" -> "absent"
          [] status[c] = "pending" -> "queued"
          [] status[c] \in {"done", "failed"} -> "reported"
          [] status[c] = "sent" /\ c \in batch -> "given"
          [] status[c] = "sent" /\ c \notin batch /\ runs[c] > 0 -> "started"
          [] OTHER -> "dropped"]

CL == INSTANCE CommandLedger WITH stage <- LedgerStage

\* The poller implements the ledger.
ImplementsLedger == CL!Ledger
=============================================================================
