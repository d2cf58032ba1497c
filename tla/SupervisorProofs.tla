-------------------------- MODULE SupervisorProofs --------------------------
(***************************************************************************)
(* The safety properties of Supervisor, for any set of goroutines and any  *)
(* hints.                                                                  *)
(*                                                                         *)
(* That run() ends for the reason it gives is a statement about every      *)
(* error on its way: the one a goroutine is about to send and those in the *)
(* channel.  Only run() itself cancels the context without a signal, and   *)
(* it does so when it receives no more.                                    *)
(***************************************************************************)
EXTENDS Supervisor, TLAPS

\* An error that a goroutine returns, or run() receives, while it waits.
TrueError(e) ==
    /\ e # "none"
    /\ e = "unauthorized" => revoked
    /\ e = "canceled" /\ main = "waiting" => signalled

SInv ==
    /\ TypeOK
    /\ CauseIsTrue
    /\ ctxDone /\ main \in {"waiting", "cancelling"} => signalled
    /\ \A w \in Workers : at[w] \in {"send", "ended"} => TrueError(err[w])
    /\ \A i \in 1..Len(errorsChannel) : TrueError(errorsChannel[i])

-----------------------------------------------------------------------------
\* No goroutine has ended and no error is on its way.
LEMMA InitInv == Init => SInv
  <1> SUFFICES ASSUME Init PROVE SInv
    OBVIOUS
  <1> USE SupervisorAssumption DEF SupervisorAssumption, Init
  <1>1. at \in [Workers -> Where] /\ err \in [Workers -> Error]
    BY DEF Where, Error
  <1>2. errorsChannel \in Seq(Error) /\ Len(errorsChannel) = 0
    OBVIOUS
  <1>3. ctxDone \in BOOLEAN /\ signalled \in BOOLEAN /\ revoked \in BOOLEAN
    BY Zenon
  <1>4. interval \in Int /\ 10 <= interval /\ interval <= 3600
    BY DEF Clamp
  <1>5. leaked \in 0..MaxLeaks
    OBVIOUS
  <1>6. \A w \in Workers : err[w] = "none" /\ at[w] \in {"work", "call"}
    OBVIOUS
  <1>7. main = "waiting" /\ cause = "none" /\ docker = "ok" /\ ~ctxDone
    BY Zenon
  <1> QED
    BY <1>1, <1>2, <1>3, <1>4, <1>5, <1>6, <1>7 DEF SInv, TypeOK, CauseIsTrue, Error

\* Every step keeps the types; a hint becomes an interval within the clamp.
LEMMA TypeStep == TypeOK /\ [Next]_vars => TypeOK'
  <1> SUFFICES ASSUME TypeOK, [Next]_vars PROVE TypeOK'
    OBVIOUS
  <1> USE SupervisorAssumption
      DEF SupervisorAssumption, TypeOK, Where, Error, outside, control, reporter
  <1>1. CASE CommandEnds
    BY <1>1 DEF CommandEnds, Goes
  <1>2. CASE MetricsFail
    BY <1>2 DEF MetricsFail, Goes
  <1>3. CASE MetricsCollected
    BY <1>3 DEF MetricsCollected, Goes
  <1>4. CASE LeakedReturns
    BY <1>4 DEF LeakedReturns
  <1>5. ASSUME NEW w \in Workers, Collected(w) PROVE TypeOK'
    BY <1>5 DEF Collected, Goes
  <1>6. ASSUME NEW w \in Workers, CallAnswered(w) PROVE TypeOK'
    BY <1>6 DEF CallAnswered, FollowHint, Clamp, Goes, Returns
  <1>7. ASSUME NEW w \in Workers, CallFails(w) PROVE TypeOK'
    BY <1>7 DEF CallFails, AfterFailedCall, Goes
  <1>8. ASSUME NEW w \in Workers, Tick(w) PROVE TypeOK'
    BY <1>8 DEF Tick, Goes
  <1>9. ASSUME NEW w \in Workers, Cancelled(w) PROVE TypeOK'
    BY <1>9 DEF Cancelled, SeesCancel, Returns
  <1>10. ASSUME NEW w \in Workers, Send(w) PROVE TypeOK'
    BY <1>10 DEF Send, ChannelSize
  <1>11. CASE Receive
    BY <1>11 DEF Receive
  <1>12. CASE Cancel
    BY <1>12 DEF Cancel
  <1>13. CASE Exit
    BY <1>13 DEF Exit
  <1>14. CASE Signal
    BY <1>14 DEF Signal
  <1>15. CASE Revoke
    BY <1>15 DEF Revoke
  <1>16. CASE DockerTurns
    BY <1>16 DEF DockerTurns
  <1>17. CASE UNCHANGED vars
    BY <1>17 DEF vars
  <1> QED
    BY <1>1, <1>2, <1>3, <1>4, <1>5, <1>6, <1>7, <1>8, <1>9, <1>10, <1>11,
       <1>12, <1>13, <1>14, <1>15, <1>16, <1>17
       DEF Next, Turn

\* Each step keeps every error that is on its way true.
LEMMA InvStep == SInv /\ [Next]_vars => SInv'
  <1> SUFFICES ASSUME SInv, [Next]_vars PROVE SInv'
    OBVIOUS
  <1>0. TypeOK'
    BY TypeStep DEF SInv
  <1> USE <1>0, SupervisorAssumption
      DEF SupervisorAssumption, SInv, CauseIsTrue, TrueError,
          TypeOK, Where, Error, outside, control, reporter
  <1>1. CASE CommandEnds
    BY <1>1 DEF CommandEnds, Goes
  <1>2. CASE MetricsFail
    BY <1>2 DEF MetricsFail, Goes
  <1>3. CASE MetricsCollected
    BY <1>3 DEF MetricsCollected, Goes
  <1>4. CASE LeakedReturns
    BY <1>4 DEF LeakedReturns
  <1>5. ASSUME NEW w \in Workers, Collected(w) PROVE SInv'
    BY <1>5 DEF Collected, Goes
  <1>6. ASSUME NEW w \in Workers, CallAnswered(w) PROVE SInv'
    BY <1>6 DEF CallAnswered, FollowHint, Clamp, Goes, Returns
  <1>7. ASSUME NEW w \in Workers, CallFails(w) PROVE SInv'
    BY <1>7 DEF CallFails, AfterFailedCall, Goes
  <1>8. ASSUME NEW w \in Workers, Tick(w) PROVE SInv'
    BY <1>8 DEF Tick, Goes
  <1>9. ASSUME NEW w \in Workers, Cancelled(w) PROVE SInv'
    BY <1>9 DEF Cancelled, SeesCancel, Returns
  <1>10. ASSUME NEW w \in Workers, Send(w) PROVE SInv'
    BY <1>10 DEF Send, ChannelSize
  <1>11. CASE Receive
    BY <1>11 DEF Receive
  <1>12. CASE Cancel
    BY <1>12 DEF Cancel
  <1>13. CASE Exit
    BY <1>13 DEF Exit
  <1>14. CASE Signal
    BY <1>14 DEF Signal
  <1>15. CASE Revoke
    BY <1>15 DEF Revoke
  <1>16. CASE DockerTurns
    BY <1>16 DEF DockerTurns
  <1>17. CASE UNCHANGED vars
    BY <1>17 DEF vars
  <1> HIDE DEF SInv
  <1> QED
    BY <1>1, <1>2, <1>3, <1>4, <1>5, <1>6, <1>7, <1>8, <1>9, <1>10, <1>11,
       <1>12, <1>13, <1>14, <1>15, <1>16, <1>17
       DEF Next, Turn

\* The invariant that the results below are read off, for every set of goroutines.
THEOREM Invariance == Spec => []SInv
  BY InitInv, InvStep, PTL DEF Spec

\* Every variable keeps to its type: the metrics interval stays between ten
\* seconds and an hour whatever the hints, and who returns has an error to return.
THEOREM TypeCorrect == Spec => []TypeOK
  <1>1. SInv => TypeOK
    BY DEF SInv
  <1> QED
    BY <1>1, Invariance, PTL

\* run() ends for a reason, for the one it gives, and with status 0.
THEOREM EndsForItsCause == Spec => []EndsForACause
  <1>1. SInv => CauseIsTrue /\ EndsClean
    BY DEF SInv, TypeOK, CauseIsTrue, EndsClean, ExitStatus, Error
  <1> QED
    BY <1>1, Invariance, PTL DEF EndsForACause
=============================================================================
