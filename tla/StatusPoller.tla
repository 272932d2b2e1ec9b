---------------------------- MODULE StatusPoller ----------------------------
(***************************************************************************)
(* StatusPoller.wait_for_done (mdtpy/instance.py): polls work at a fixed   *)
(* pace until it is done or a time limit has passed.  InstanceLifecycle    *)
(* has what the polls of start() and stop() find; this module has the      *)
(* clock, counted in ticks from the beginning of the wait.                 *)
(***************************************************************************)
EXTENDS Integers

CONSTANTS
    Intervals,  \* values of poll_interval
    Timeouts,   \* values of timeout; 0 stands for no limit, as None does
    Slack,      \* with less than this left the limit counts as passed (0.01 s)
    MinSleep,   \* as short a time is not slept (0.001 s)
    MaxPoll,    \* bound: longest time one is_done() takes
    Over,       \* bound: a sleep lasts at most so much longer than asked
    MaxTime     \* bound: the clock, while there is no limit and the work goes on

ASSUME TicksAssumption ==
    /\ Intervals \subseteq Nat \ {0}
    /\ Timeouts \subseteq Nat
    /\ MinSleep \in Nat \ {0}
    /\ {Slack, MaxPoll, Over, MaxTime} \subseteq Nat

Never == -1

VARIABLES
    interval,    \* poll_interval
    timeout,
    pc,
    now,         \* the clock
    next,        \* next_wakeup
    began,       \* when the last poll began
    last,        \* history: when the one before it began, and
    lastButOne,  \* the one before that; before the first, one interval ago
    ended        \* when the work ended

vars == <<interval, timeout, pc, now, next, began, last, lastButOne, ended>>

TypeOK ==
    /\ interval \in Intervals
    /\ timeout \in Timeouts
    /\ pc \in {"polling", "sleeping", "done", "timedOut", "raised"}
    /\ now \in Nat
    /\ next \in Nat /\ next > began
    /\ began \in 0 .. now
    /\ last \in Int
    /\ lastButOne \in Int
    /\ ended \in (0 .. now) \cup {Never}

Init ==
    /\ interval \in Intervals
    /\ timeout \in Timeouts
    /\ pc = "polling"
    /\ now = 0
    /\ next = interval
    /\ began = 0
    /\ last = -interval
    /\ lastButOne = -interval
    /\ ended = Never

-----------------------------------------------------------------------------
\* Time passes in a poll and in a sleep.
Tick ==
    /\ \/ pc = "polling" /\ now < began + MaxPoll
       \/ pc = "sleeping" /\ now < next + Over
    /\ timeout # 0 \/ ended # Never \/ now < MaxTime
    /\ now' = now + 1
    /\ UNCHANGED <<interval, timeout, pc, next, began, last, lastButOne, ended>>

WorkEnds ==
    /\ pc \in {"polling", "sleeping"}
    /\ ended = Never
    /\ ended' = now
    /\ UNCHANGED <<interval, timeout, pc, now, next, began, last, lastButOne>>

\* Mutant: a wakeup that was missed is not made up for.
MutantCaughtUp(t) == {t}

\* next_wakeup goes on in whole intervals from t until it is past the present.
CaughtUp(t) ==
    IF t > now THEN {t} ELSE {u \in (now + 1) .. (now + interval) : (u - t) % interval = 0}

PollAgain ==
    /\ pc' = "polling"
    /\ next' \in CaughtUp(next + interval)
    /\ began' = now
    /\ last' = began
    /\ lastButOne' = last
    /\ UNCHANGED <<interval, timeout, now, ended>>

\* What is_done() says was true at some time since the poll began.
PollSaysDone ==
    /\ pc = "polling"
    /\ ended # Never
    /\ pc' = "done"
    /\ UNCHANGED <<interval, timeout, now, next, began, last, lastButOne, ended>>

SaysNotDone == pc = "polling" /\ (ended = Never \/ ended >= began)

NoTimeLeft == timeout # 0 /\ timeout - now < Slack

TimesOut ==
    /\ SaysNotDone
    /\ NoTimeLeft
    /\ pc' = "timedOut"
    /\ UNCHANGED <<interval, timeout, now, next, began, last, lastButOne, ended>>

\* Mutant: an interval passes from the end of a poll to the beginning of the next one.
MutantSleeps ==
    /\ SaysNotDone
    /\ ~NoTimeLeft
    /\ pc' = "sleeping"
    /\ next' = now + interval
    /\ UNCHANGED <<interval, timeout, now, began, last, lastButOne, ended>>

Sleeps ==
    /\ SaysNotDone
    /\ ~NoTimeLeft
    /\ next - now > MinSleep
    /\ pc' = "sleeping"
    /\ UNCHANGED <<interval, timeout, now, next, began, last, lastButOne, ended>>

WakesUp ==
    /\ pc = "sleeping"
    /\ now >= next
    /\ PollAgain

GoesOn ==
    /\ SaysNotDone
    /\ ~NoTimeLeft
    /\ next - now <= MinSleep
    /\ PollAgain

\* The request of is_done() fails, or its answer is an error.
PollRaises ==
    /\ pc = "polling"
    /\ pc' = "raised"
    /\ UNCHANGED <<interval, timeout, now, next, began, last, lastButOne, ended>>

Next == Tick \/ WorkEnds \/ PollSaysDone \/ TimesOut \/ Sleeps \/ WakesUp \/ GoesOn \/ PollRaises

Spec == Init /\ [][Next]_vars
-----------------------------------------------------------------------------
(* Properties.                                                             *)

\* However long the polls take, the missed ones are not made up for: no three polls begin
\* within one interval (but for the time that is not slept).
NoBursts == began > lastButOne + interval - MinSleep

\* The longest time from a poll to the next one, when the poll itself is not longer.
Pause == interval + MinSleep + Over

\* The wait is over soon after the limit, by a pause and a poll at most, and soon after the
\* end of the work, by a poll more at most; and a TimeoutError comes only when the limit is
\* reached, for work that still went on when the last poll began.
EndsInTime ==
    /\ timeout # 0 => now <= timeout + Pause + MaxPoll
    /\ ended # Never => now <= ended + (IF MaxPoll > Pause THEN MaxPoll ELSE Pause) + MaxPoll
    /\ pc = "timedOut" => /\ timeout # 0 /\ now > timeout - Slack
                          /\ ended = Never \/ ended >= began
=============================================================================
