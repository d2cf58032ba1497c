----------------------------- MODULE Supervisor -----------------------------
(***************************************************************************)
(* The connected agent (main.go from line 55, internal/reporter): five     *)
(* goroutines that work, call the control plane and wait for their next    *)
(* turn, the channel they return their error on, the context that ends     *)
(* them, and the main goroutine that waits for the first of them.          *)
(*                                                                         *)
(* The programs a goroutine runs have no time limit (internal/exec), with  *)
(* one exception: docker stats, which the metrics goroutine runs in a      *)
(* goroutine of its own and leaves behind after ten seconds.  Calls to the *)
(* control plane end after thirty.                                         *)
(***************************************************************************)
EXTENDS Integers, Sequences

CONSTANTS
    Workers,        \* the goroutines that run() starts, or some of them
    MaxLeaks,       \* left-behind docker stats goroutines told apart
    Configured,     \* cfg.MetricsInterval, in seconds
    Hints           \* next_interval_seconds in answers to metrics, 0 for none

ASSUME SupervisorAssumption ==
    /\ Workers \subseteq {"poller", "metrics", "traffic", "security", "ssl"}
    /\ {"poller", "metrics"} \subseteq Workers
    /\ MaxLeaks \in Nat \ {0}
    /\ Configured \in Nat \ {0}
    /\ Hints \subseteq Int

\* make(chan error, 2)
ChannelSize == 2

VARIABLES
    at,             \* what each goroutine does
    err,            \* the error it returns
    errorsChannel,
    main,           \* where run() stands
    cause,          \* the error run() received
    ctxDone,        \* is the context cancelled?
    signalled,      \* did the process get SIGTERM or SIGINT?
    revoked,        \* did the control plane revoke the token?
    docker,         \* does the Docker daemon answer?
    leaked,         \* goroutines of runDockerStats nobody waits for
    interval        \* between two metrics reports, in seconds

vars == <<at, err, errorsChannel, main, cause, ctxDone, signalled, revoked,
          docker, leaked, interval>>
reporter == <<leaked, interval>>
outside == <<signalled, revoked, docker>>
control == <<errorsChannel, main, cause, ctxDone>>

Error == {"none", "unauthorized", "canceled"}
Where == {"work", "call", "wait", "send", "ended"}

TypeOK ==
    /\ at \in [Workers -> Where]
    /\ err \in [Workers -> Error]
    /\ errorsChannel \in Seq(Error)
    /\ main \in {"waiting", "cancelling", "returning", "exited"}
    /\ cause \in Error
    /\ ctxDone \in BOOLEAN
    /\ signalled \in BOOLEAN
    /\ revoked \in BOOLEAN
    /\ docker \in {"ok", "hung"}
    /\ leaked \in 0..MaxLeaks
    /\ interval \in Int
    /\ 10 <= interval /\ interval <= 3600   \* no hint makes the agent flood or fall silent
    /\ \A w \in Workers : err[w] = "none" <=> at[w] \in {"work", "call", "wait"}

\* Mutant: only the lower bound.
ClampFloor(seconds) == IF seconds < 10 THEN 10 ELSE seconds

\* clampMetricsInterval
Clamp(seconds) ==
    IF seconds < 10 THEN 10 ELSE IF seconds > 3600 THEN 3600 ELSE seconds

\* run() has started the goroutines; the poller begins with a poll, the others
\* with what they collect.
Init ==
    /\ at = [w \in Workers |-> IF w = "poller" THEN "call" ELSE "work"]
    /\ err = [w \in Workers |-> "none"]
    /\ errorsChannel = << >>
    /\ main = "waiting"
    /\ cause = "none"
    /\ ctxDone = FALSE
    /\ signalled = FALSE
    /\ revoked = FALSE
    /\ docker = "ok"
    /\ leaked = 0
    /\ interval = Clamp(Configured)

Alive == main # "exited"

Goes(w, place) ==
    /\ at' = [at EXCEPT ![w] = place]
    /\ UNCHANGED err

Returns(w, e) ==
    /\ at' = [at EXCEPT ![w] = "send"]
    /\ err' = [err EXCEPT ![w] = e]

-----------------------------------------------------------------------------
(* The goroutines                                                          *)

\* Dispatch of a command ends; the poller posts its result.
CommandEnds ==
    /\ Alive
    /\ at["poller"] = "work"
    /\ Goes("poller", "call")
    /\ UNCHANGED <<control, outside, reporter>>

\* What traffic, security and ssl collect is there: it is posted, or there is
\* nothing to post (no SSL errors) or the collection failed.
Collected(w) ==
    /\ Alive
    /\ w \in {"traffic", "security", "ssl"}
    /\ at[w] = "work"
    /\ \E place \in {"call", "wait"} : Goes(w, place)
    /\ UNCHANGED <<control, outside, reporter>>

\* Mutant: CollectContainers without a time limit.
StatsEndUnlimited == docker = "ok"

\* docker stats answers, or dockerStatsTimeout passes.
StatsEnd == docker \in {"ok", "hung"}

\* reporter.Collect fails: nothing is posted this time.
MetricsFail ==
    /\ Alive
    /\ at["metrics"] = "work"
    /\ Goes("metrics", "wait")
    /\ UNCHANGED <<control, outside, reporter>>

\* CollectContainers never fails, and its goroutine stays behind if Docker hangs.
MetricsCollected ==
    /\ Alive
    /\ at["metrics"] = "work"
    /\ StatsEnd
    /\ Goes("metrics", "call")
    /\ leaked' = IF docker = "hung" /\ leaked < MaxLeaks THEN leaked + 1 ELSE leaked
    /\ UNCHANGED <<control, outside, interval>>

\* Mutant: the channel between runDockerStats and its goroutine has no buffer,
\* and nobody receives any more.
LeakEndsNever == FALSE

\* Docker answers, and the send on the buffered channel does not block.
LeakEnds == docker = "ok"

LeakedReturns ==
    /\ Alive
    /\ leaked > 0
    /\ LeakEnds
    /\ leaked' = leaked - 1
    /\ UNCHANGED <<at, err, control, outside, interval>>

\* The answer to metrics may set the interval.
FollowHint(w) ==
    \/ UNCHANGED interval
    \/ \E hint \in Hints : w = "metrics" /\ hint > 0 /\ interval' = Clamp(hint)

\* An answer arrives: a 401, or the goroutine goes on, the poller perhaps with
\* the next command.
CallAnswered(w) ==
    /\ Alive
    /\ at[w] = "call"
    /\ \/ revoked /\ Returns(w, "unauthorized") /\ UNCHANGED interval
       \/ ~revoked /\ Goes(w, "wait") /\ FollowHint(w)
       \/ ~revoked /\ w = "poller" /\ Goes(w, "work") /\ UNCHANGED interval
    /\ UNCHANGED <<control, outside, leaked>>

\* Mutant: a call that fails is taken for a rejected token.
AfterFailedCallReturn(w) == Returns(w, "unauthorized")

\* Every other error of a call is logged and forgotten.
AfterFailedCall(w) == Goes(w, "wait")

CallFails(w) ==
    /\ Alive
    /\ at[w] = "call"
    /\ AfterFailedCall(w)
    /\ UNCHANGED <<control, outside, reporter>>

\* The select at the end of the loop: its timer or ticker.  A ticker that
\* fired during a long turn is ready at once, also after a cancellation.
Tick(w) ==
    /\ Alive
    /\ at[w] = "wait"
    /\ Goes(w, IF w = "poller" THEN "call" ELSE "work")
    /\ UNCHANGED <<control, outside, reporter>>

SeesCancel == ctxDone

\* ... or the context.
Cancelled(w) ==
    /\ Alive
    /\ at[w] = "wait"
    /\ SeesCancel
    /\ Returns(w, "canceled")
    /\ UNCHANGED <<control, outside, reporter>>

\* errorsChannel <- err blocks while the buffer is full.
Send(w) ==
    /\ Alive
    /\ at[w] = "send"
    /\ Len(errorsChannel) < ChannelSize
    /\ errorsChannel' = Append(errorsChannel, err[w])
    /\ at' = [at EXCEPT ![w] = "ended"]
    /\ UNCHANGED <<err, main, cause, ctxDone, outside, reporter>>

-----------------------------------------------------------------------------
(* run()                                                                   *)

Receive ==
    /\ main = "waiting"
    /\ errorsChannel # << >>
    /\ cause' = Head(errorsChannel)
    /\ errorsChannel' = Tail(errorsChannel)
    /\ main' = "cancelling"
    /\ UNCHANGED <<at, err, ctxDone, outside, reporter>>

Cancel ==
    /\ main = "cancelling"
    /\ ctxDone' = TRUE
    /\ main' = "returning"
    /\ UNCHANGED <<at, err, errorsChannel, cause, outside, reporter>>

\* run() returns and the process ends, with whatever the goroutines were doing.
Exit ==
    /\ main = "returning"
    /\ main' = "exited"
    /\ UNCHANGED <<at, err, errorsChannel, cause, ctxDone, outside, reporter>>

\* The exit status: nil for a 401 and for a cancelled context.
ExitStatus == IF cause \in {"unauthorized", "canceled"} THEN 0 ELSE 1

-----------------------------------------------------------------------------
(* Outside                                                                 *)

\* signal.NotifyContext: the first signal cancels the context.
Signal ==
    /\ Alive
    /\ ~signalled
    /\ signalled' = TRUE
    /\ ctxDone' = TRUE
    /\ UNCHANGED <<at, err, errorsChannel, main, cause, revoked, docker, reporter>>

Revoke ==
    /\ Alive
    /\ ~revoked
    /\ revoked' = TRUE
    /\ UNCHANGED <<at, err, control, signalled, docker, reporter>>

DockerTurns ==
    /\ Alive
    /\ docker' = IF docker = "ok" THEN "hung" ELSE "ok"
    /\ UNCHANGED <<at, err, control, signalled, revoked, reporter>>

-----------------------------------------------------------------------------
Turn(w) == CallAnswered(w) \/ CallFails(w) \/ Tick(w) \/ Cancelled(w) \/ Send(w)

Next ==
    \/ CommandEnds \/ MetricsFail \/ MetricsCollected \/ LeakedReturns
    \/ \E w \in Workers : Collected(w) \/ Turn(w)
    \/ Receive \/ Cancel \/ Exit
    \/ Signal \/ Revoke \/ DockerTurns

\* Goroutines are scheduled, calls end, neither the network nor reporter.Collect
\* fails for ever, and a select does not ignore a ready case for ever.  Nothing
\* is assumed of the programs the goroutines run, but that a docker stats that
\* answers ends.
Fairness ==
    /\ SF_vars(MetricsCollected)
    /\ WF_vars(LeakedReturns)
    /\ \A w \in Workers :
        /\ WF_vars(Turn(w))
        /\ SF_vars(CallAnswered(w))
        /\ SF_vars(Cancelled(w))
    /\ WF_vars(Receive \/ Cancel \/ Exit)

Spec == Init /\ [][Next]_vars
FairSpec == Spec /\ Fairness

-----------------------------------------------------------------------------
(* What holds                                                              *)

\* run() ends for a reason, and for the one it gives: it logs "token revoked"
\* only if the token was, and takes a cancellation for the end only after a
\* signal.  No failure of a call, a collection or a command ends the agent.
CauseIsTrue ==
    /\ cause = "unauthorized" => revoked
    /\ cause = "canceled" => signalled
    /\ main # "waiting" => cause # "none"

\* Once connected the process always ends with status 0, so that the unit
\* (Restart=on-failure) never restarts it behind the user's back.
EndsClean == main = "exited" => ExitStatus = 0

EndsForACause == CauseIsTrue /\ EndsClean

\* A revocation ends the process although every command, docker call and
\* cscli hangs: the metrics goroutine goes on, its docker stats has a limit.
\* So does a signal.
StopsEnd == (revoked \/ signalled) ~> main = "exited"

\* When Docker answers again nothing of what it held up stays behind.
LeaksDrain == (<>[](docker = "ok")) => <>[](leaked = 0 \/ main = "exited")
=============================================================================
