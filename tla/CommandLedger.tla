---------------------------- MODULE CommandLedger ----------------------------
(***************************************************************************)
(* What the delivery of commands promises, without saying how.             *)
(*                                                                         *)
(* A command is queued, handed out once, started at most once, in the      *)
(* order of the queue, and reported at most once, after it was started.    *)
(* On the way it can be dropped, and is then never started: the agent has  *)
(* no redelivery.                                                          *)
(***************************************************************************)
EXTENDS Integers

CONSTANT NumCommands        \* the commands are numbered as they are queued

Commands == 1..NumCommands

VARIABLE stage

Stages == {"absent", "queued", "given", "started", "reported", "dropped"}

LedgerTypeOK == stage \in [Commands -> Stages]

LedgerInit == stage = [c \in Commands |-> "absent"]

At(s) == {c \in Commands : stage[c] = s}

\* The commands of S enter stage s.
Enter(S, s) == [c \in Commands |-> IF c \in S THEN s ELSE stage[c]]

Enqueue(c) ==
    /\ c \in At("absent")
    /\ \A d \in At("absent") : c <= d
    /\ stage' = Enter({c}, "queued")

\* A poll takes everything that is queued; its answer arrives, or is lost.
HandOut ==
    \/ stage' = Enter(At("queued"), "given")
    \/ stage' = Enter(At("queued"), "dropped")

\* No later command has been started before it.
Start(c) ==
    /\ c \in At("given")
    /\ \A d \in At("started") \union At("reported") : d < c
    /\ stage' = Enter({c}, "started")

\* A result is recorded.
Report(c) ==
    /\ c \in At("started")
    /\ stage' = Enter({c}, "reported")

\* The agent gives up what it was given.
Drop == stage' = Enter(At("given"), "dropped")

LedgerNext ==
    \/ \E c \in Commands : Enqueue(c) \/ Start(c) \/ Report(c)
    \/ HandOut
    \/ Drop

Ledger == LedgerInit /\ [][LedgerNext]_stage
=============================================================================
