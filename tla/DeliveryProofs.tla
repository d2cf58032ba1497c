--------------------------- MODULE DeliveryProofs ---------------------------
(***************************************************************************)
(* The safety properties of Delivery, for any number of commands and of    *)
(* faults, and that Delivery implements CommandLedger.                     *)
(*                                                                         *)
(* That a command is begun once, and in order, follows from where it can   *)
(* be: DInv says that the queue is a prefix of handed-out commands, then   *)
(* pending ones, then absent ones, that the batch lies above everything    *)
(* that was ever begun, and that a late result is one that exists.         *)
(***************************************************************************)
EXTENDS Delivery, TLAPS

\* The queue is served from the front.
QueueOrder ==
    \A c, d \in Commands : c < d =>
        /\ status[d] # "absent" => status[c] # "absent"
        /\ status[c] = "pending" => status[d] \in {"absent", "pending"}

\* A command that was begun had been sent, and one with a result had been begun.
BegunWasSent ==
    \A c \in Commands :
        /\ runs[c] > 0 => status[c] \in {"sent", "done", "failed"}
        /\ result[c] # "none" => runs[c] > 0

\* The batch: sent, not begun, and later than everything that was begun.
BatchIsNew ==
    \A c \in batch :
        /\ status[c] = "sent"
        /\ \A d \in Commands : d >= c => runs[d] = 0

CurrentIsBegun ==
    /\ current # None => status[current] \in {"sent", "done", "failed"} /\ runs[current] > 0
    /\ phase = "executing" => result[current] = "none"
    /\ phase = "reporting" => result[current] # "none"

LateResultExists == \A c \in lateResults : result[c] # "none"

DInv ==
    /\ TypeOK
    /\ AtMostOnce
    /\ ResultIsTrue
    /\ QueueOrder
    /\ BegunWasSent
    /\ BatchIsNew
    /\ CurrentIsBegun
    /\ LateResultExists
    /\ LostOnlyToFaults

-----------------------------------------------------------------------------
\* Nothing is queued, polled or reported.
LEMMA InitType == Init => TypeOK
  <1> SUFFICES ASSUME Init PROVE TypeOK
    OBVIOUS
  <1> USE DeliveryAssumption
      DEF DeliveryAssumption, Init, Commands, None, Status, Result, Phase, Up, Busy
  <1>1. status \in [Commands -> Status] /\ runs \in [Commands -> Nat]
    OBVIOUS
  <1>2. result \in [Commands -> Result]
    OBVIOUS
  <1>3. revoked \in BOOLEAN
    BY Zenon
  <1>4. phase \in Phase /\ batch \in SUBSET Commands /\ lateResults \in SUBSET Commands
    OBVIOUS
  <1>5. faults \in 0..MaxFaults /\ latePolls \in 0..faults
    OBVIOUS
  <1>6. current = None /\ phase \notin Busy /\ batch = {}
    OBVIOUS
  <1> QED
    BY <1>1, <1>2, <1>3, <1>4, <1>5, <1>6 DEF TypeOK

\* An empty queue is in order, and an empty batch is new.
LEMMA InitDInv == Init => DInv
  <1> SUFFICES ASSUME Init PROVE DInv
    OBVIOUS
  <1> QED
    BY InitType, DeliveryAssumption
       DEF DeliveryAssumption, Init, DInv, AtMostOnce, ResultIsTrue, QueueOrder,
           BegunWasSent, BatchIsNew, CurrentIsBegun, LateResultExists,
           LostOnlyToFaults, Commands, None, Busy

\* Polls, answers, reports and faults keep the types.
LEMMA TypeStep == TypeOK /\ [Next]_vars => TypeOK'
  <1> SUFFICES ASSUME TypeOK, [Next]_vars PROVE TypeOK'
    OBVIOUS
  <1> USE DeliveryAssumption
      DEF DeliveryAssumption, TypeOK, Commands, None, Status, Result, Phase, Up, Busy,
          Fault, Forget, agent, network, history
  <1>1. ASSUME NEW c \in Commands, EnqueueCommand(c) PROVE TypeOK'
    BY <1>1 DEF EnqueueCommand
  <1>2. ASSUME NEW c \in Commands, RecordLateResult(c) PROVE TypeOK'
    BY <1>2 DEF RecordLateResult, Recorded
  <1>3. CASE Revoke
    BY <1>3 DEF Revoke
  <1>4. CASE AnswerPoll
    BY <1>4 DEF AnswerPoll, HandedOut, Pending
  <1>5. CASE AnswerLatePoll
    BY <1>5 DEF AnswerLatePoll, HandedOut, Pending
  <1>6. CASE Poll
    BY <1>6 DEF Poll
  <1>7. CASE ReceiveBatch
    BY <1>7 DEF ReceiveBatch
  <1>8. CASE BeginCommand
    BY <1>8 DEF BeginCommand, NextInBatch
  <1>9. CASE BatchDone
    BY <1>9 DEF BatchDone, AfterRunOnce
  <1>10. CASE PostResult
    BY <1>10 DEF PostResult, Recorded, BatchAfterResult
  <1>11. CASE Rejected
    BY <1>11 DEF Rejected
  <1>12. CASE Restart
    BY <1>12 DEF Restart
  <1>13. CASE FinishCommand
    BY <1>13 DEF FinishCommand
  <1>14. CASE WorkerRejected
    BY <1>14 DEF WorkerRejected, EndsWithoutWaiting
  <1>15. CASE PollFails
    BY <1>15 DEF PollFails, PollMayBeLate
  <1>16. CASE PostResultFails
    <2>1. lateResults' \in SUBSET Commands
      BY <1>16 DEF PostResultFails, ResultMayBeLate
    <2> QED
      BY <1>16, <2>1 DEF PostResultFails, LeaveBatch
  <1>17. CASE Kill
    <2>1. lateResults' \in SUBSET Commands
      BY <1>17 DEF Kill, ResultMayBeLate
    <2>2. faults' \in 0..MaxFaults /\ latePolls' \in 0..faults'
      BY <1>17 DEF Kill, PollMayBeLate
    <2> QED
      BY <1>17, <2>1, <2>2 DEF Kill
  <1>18. CASE UNCHANGED vars
    BY <1>18 DEF vars
  <1> QED
    BY <1>1, <1>2, <1>3, <1>4, <1>5, <1>6, <1>7, <1>8, <1>9, <1>10, <1>11, <1>12,
       <1>13, <1>14, <1>15, <1>16, <1>17, <1>18
       DEF Next, ControlPlane, Poller, Failures

\* Each step keeps the order of the queue, the batch and the results.
LEMMA DInvStep == DInv /\ [Next]_vars => DInv'
  <1> SUFFICES ASSUME DInv, [Next]_vars PROVE DInv'
    OBVIOUS
  <1>0. TypeOK'
    BY TypeStep DEF DInv
  <1> USE <1>0, DeliveryAssumption
      DEF DeliveryAssumption, DInv, AtMostOnce, ResultIsTrue, QueueOrder, BegunWasSent,
          BatchIsNew, CurrentIsBegun, LateResultExists, LostOnlyToFaults,
          TypeOK, Commands, None, Status, Result, Phase, Up, Busy,
          Fault, Forget, agent, network, history
  <1>1. ASSUME NEW c \in Commands, EnqueueCommand(c) PROVE DInv'
    BY <1>1 DEF EnqueueCommand
  <1>2. ASSUME NEW c \in Commands, RecordLateResult(c) PROVE DInv'
    BY <1>2 DEF RecordLateResult, Recorded
  <1>3. CASE Revoke
    BY <1>3 DEF Revoke
  <1>4. CASE AnswerPoll
    <2> USE <1>4 DEF AnswerPoll, HandedOut, Pending
    <2>1. \A c \in Commands : status'[c] = IF status[c] = "pending" THEN "sent" ELSE status[c]
      OBVIOUS
    <2>2. QueueOrder'
      BY <2>1
    <2>3. BatchIsNew'
      BY <2>1
    <2>4. ResultIsTrue' /\ BegunWasSent' /\ AtMostOnce'
      BY <2>1
    <2>5. CurrentIsBegun' /\ LateResultExists'
      BY <2>1
    <2>6. LostOnlyToFaults'
      BY <2>1
    <2> QED
      BY <2>2, <2>3, <2>4, <2>5, <2>6
  <1>5. CASE AnswerLatePoll
    BY <1>5 DEF AnswerLatePoll, HandedOut, Pending
  <1>6. CASE Poll
    BY <1>6 DEF Poll
  <1>7. CASE ReceiveBatch
    BY <1>7 DEF ReceiveBatch
  <1>8. CASE BeginCommand
    BY <1>8 DEF BeginCommand, NextInBatch
  <1>9. CASE BatchDone
    BY <1>9 DEF BatchDone, AfterRunOnce
  <1>10. CASE PostResult
    BY <1>10 DEF PostResult, Recorded, BatchAfterResult
  <1>11. CASE Rejected
    BY <1>11 DEF Rejected
  <1>12. CASE Restart
    BY <1>12 DEF Restart
  <1>13. CASE FinishCommand
    BY <1>13 DEF FinishCommand
  <1>14. CASE WorkerRejected
    BY <1>14 DEF WorkerRejected, EndsWithoutWaiting
  <1>15. CASE PollFails
    BY <1>15 DEF PollFails, PollMayBeLate
  <1>16. CASE PostResultFails
    BY <1>16 DEF PostResultFails, ResultMayBeLate, LeaveBatch
  <1>17. CASE Kill
    BY <1>17 DEF Kill, PollMayBeLate, ResultMayBeLate
  <1>18. CASE UNCHANGED vars
    BY <1>18 DEF vars
  <1> QED
    BY <1>1, <1>2, <1>3, <1>4, <1>5, <1>6, <1>7, <1>8, <1>9, <1>10, <1>11, <1>12,
       <1>13, <1>14, <1>15, <1>16, <1>17, <1>18
       DEF Next, ControlPlane, Poller, Failures

\* The invariant that the results below are read off, for every number of commands and faults.
THEOREM Invariance == Spec => []DInv
  BY InitDInv, DInvStep, PTL DEF Spec

\* Every variable keeps to its type; a late poll is always one that failed.
THEOREM TypeCorrect == Spec => []TypeOK
  <1>1. DInv => TypeOK
    BY DEF DInv
  <1> QED
    BY <1>1, Invariance, PTL

\* No command is begun twice, whatever is lost, late or killed.
THEOREM BegunAtMostOnce == Spec => []AtMostOnce
  <1>1. DInv => AtMostOnce
    BY DEF DInv
  <1> QED
    BY <1>1, Invariance, PTL

\* What the control plane records is how the execution ended.
THEOREM ResultsAreTrue == Spec => []ResultIsTrue
  <1>1. DInv => ResultIsTrue
    BY DEF DInv
  <1> QED
    BY <1>1, Invariance, PTL

\* Nothing that was sent is lost without a failed call, a kill or a 401.
THEOREM NothingLostWithoutFault == Spec => []LostOnlyToFaults
  <1>1. DInv => LostOnlyToFaults
    BY DEF DInv
  <1> QED
    BY <1>1, Invariance, PTL

-----------------------------------------------------------------------------
\* Only BeginCommand begins a command, and the batch is newer than what was begun.
LEMMA BeginStep ==
  DInv /\ [Next]_vars
    => \A c, d \in Commands : runs'[c] > runs[c] /\ d > c => runs[d] = 0
  <1> SUFFICES ASSUME DInv, [Next]_vars, NEW c \in Commands, NEW d \in Commands,
                      runs'[c] > runs[c], d > c
               PROVE  runs[d] = 0
    OBVIOUS
  <1>1. runs' = runs \/ BeginCommand
    BY DEF Next, ControlPlane, Poller, Failures, EnqueueCommand, RecordLateResult, Revoke,
           AnswerPoll, AnswerLatePoll, Poll, ReceiveBatch, BatchDone, PostResult,
           Rejected, Restart, FinishCommand, WorkerRejected, PollFails,
           PostResultFails, Kill, vars, history
  <1>2. runs[c] \in Nat
    BY DEF DInv, TypeOK
  <1>3. BeginCommand
    BY <1>1, <1>2
  <1>4. c \in batch
    BY <1>2, <1>3 DEF BeginCommand, NextInBatch, DInv, TypeOK
  <1> QED
    BY <1>4 DEF DInv, BatchIsNew, Commands

\* Commands are begun in the order of the queue, in one batch and across batches,
\* restarts and lost polls.
THEOREM BegunInQueueOrder == Spec => BegunInOrder
  <1>1. DInv /\ [Next]_vars
          => [\A c, d \in Commands : runs'[c] > runs[c] /\ d > c => runs[d] = 0]_vars
    BY BeginStep
  <1> QED
    BY <1>1, Invariance, PTL DEF Spec, BegunInOrder

-----------------------------------------------------------------------------
(* The refinement: each action is a step of the ledger or leaves it alone.  *)

\* In the ledger, too, no command was issued.
LEMMA InitLedger == Init => CL!LedgerInit
  BY DEF Init, LedgerStage, CL!LedgerInit, CL!Commands, Commands

\* The process loses its batch: exactly what was given is dropped.
LEMMA ForgetDrops ==
  ASSUME DInv, Forget, UNCHANGED <<status, runs>>
  PROVE  CL!Drop
  BY DEF Forget, CL!Drop, CL!Enter, CL!At, CL!Commands, Commands, LedgerStage, DInv,
         BatchIsNew, TypeOK, Status

\* Nothing moves that the ledger sees.
LEMMA LedgerUntouched ==
  ASSUME UNCHANGED <<status, runs, batch>>
  PROVE  UNCHANGED LedgerStage
  BY DEF LedgerStage

\* What each step of the poller and the control plane is for the ledger: one of its
\* steps, or nothing.
LEMMA LedgerStep == DInv /\ [Next]_vars => [CL!LedgerNext]_LedgerStage
  <1> SUFFICES ASSUME DInv, [Next]_vars PROVE CL!LedgerNext \/ UNCHANGED LedgerStage
    OBVIOUS
  <1> USE DEF DInv, TypeOK, Commands, CL!Commands, Status, CL!LedgerNext
  <1>1. ASSUME NEW c \in Commands, EnqueueCommand(c) PROVE CL!Enqueue(c)
    BY <1>1 DEF EnqueueCommand, CL!Enqueue, CL!At, CL!Enter, LedgerStage, agent, history
  <1>2. ASSUME NEW c \in Commands, RecordLateResult(c)
        PROVE  CL!Report(c) \/ UNCHANGED LedgerStage
    BY <1>2 DEF RecordLateResult, Recorded, CL!Report, CL!At, CL!Enter, LedgerStage,
                agent, history, LateResultExists, BegunWasSent, BatchIsNew
  <1>3. CASE AnswerPoll
    BY <1>3 DEF AnswerPoll, HandedOut, Pending, CL!HandOut, CL!At, CL!Enter, LedgerStage,
                history, BegunWasSent, Up, Busy
  <1>4. CASE AnswerLatePoll
    BY <1>4 DEF AnswerLatePoll, HandedOut, Pending, CL!HandOut, CL!At, CL!Enter,
                LedgerStage, agent, history, BegunWasSent, BatchIsNew
  <1>5. ASSUME NEW c \in Commands, NextInBatch(c), batch' = batch \ {c},
               runs' = [runs EXCEPT ![c] = @ + 1], status' = status
        PROVE  CL!Start(c)
    BY <1>5 DEF NextInBatch, CL!Start, CL!At, CL!Enter, LedgerStage, BatchIsNew,
                ResultIsTrue, BegunWasSent
  <1>6. CASE PostResult
    BY <1>6 DEF PostResult, Recorded, BatchAfterResult, CL!Report, CL!At, CL!Enter,
                LedgerStage, history, CurrentIsBegun, BatchIsNew, Busy, None
  <1>7. CASE Forget /\ UNCHANGED <<status, runs>>
    BY <1>7, ForgetDrops
  <1>8. CASE UNCHANGED <<status, runs, batch>>
    BY <1>8, LedgerUntouched
  <1>9. BeginCommand => \E c \in Commands : CL!Start(c)
    BY <1>5 DEF BeginCommand
  <1>10. CASE Revoke \/ Poll \/ ReceiveBatch \/ BatchDone \/ Restart \/ FinishCommand
    BY <1>8, <1>10 DEF Revoke, Poll, ReceiveBatch, BatchDone, Restart, FinishCommand,
                       agent, history
  <1>11. CASE Rejected \/ WorkerRejected \/ PollFails \/ PostResultFails \/ Kill
    BY <1>7, <1>11 DEF Rejected, WorkerRejected, PollFails, PostResultFails, LeaveBatch,
                       Kill, history
  <1>12. CASE UNCHANGED vars
    BY <1>8, <1>12 DEF vars
  <1> QED
    BY <1>1, <1>2, <1>3, <1>4, <1>6, <1>9, <1>10, <1>11, <1>12
       DEF Next, ControlPlane, Poller, Failures

\* The poller implements the ledger.
THEOREM Refinement == Spec => ImplementsLedger
  <1>1. DInv /\ [Next]_vars => [CL!LedgerNext]_LedgerStage
    BY LedgerStep
  <1> QED
    BY <1>1, InitLedger, Invariance, PTL DEF Spec, ImplementsLedger, CL!Ledger
=============================================================================
