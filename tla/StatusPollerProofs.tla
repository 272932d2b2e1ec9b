------------------------- MODULE StatusPollerProofs -------------------------
(* Proofs about StatusPoller: its properties hold for every interval, every *)
(* limit and every duration of polls.                                      *)
EXTENDS StatusPoller, TLAPS

\* What is left of the limit, and how far the end of the work is away, when a poll begins
\* and when a sleep does: the numbers behind EndsInTime.
Longest == IF MaxPoll > Pause THEN MaxPoll ELSE Pause

Clock ==
    /\ pc = "polling" => now <= began + MaxPoll
    /\ pc = "sleeping" => now <= next + Over
    /\ next <= began + interval + MinSleep
    /\ next > last + interval

Limits ==
    /\ timeout # 0 /\ pc = "polling" => began <= timeout + Pause
    /\ timeout # 0 /\ pc = "sleeping" => began <= timeout
    /\ ended # Never /\ pc = "polling" => began <= ended + Longest
    /\ ended # Never /\ pc = "sleeping" => began <= ended

IInv == TypeOK /\ NoBursts /\ EndsInTime /\ Clock /\ Limits

\* Catching up ends past the present, by an interval at most, and never goes back.
LEMMA CaughtUpIsAhead ==
    ASSUME TypeOK, NEW t \in Nat, NEW u \in CaughtUp(t)
    PROVE  u \in Nat /\ u > now /\ u >= t /\ (u = t \/ u <= now + interval)
<1> USE TicksAssumption
<1>1. CASE t > now
  <2>1. u = t
    BY <1>1 DEF CaughtUp
  <2> QED
    BY <1>1, <2>1
<1>2. CASE ~(t > now)
  <2>1. u \in (now + 1) .. (now + interval)
    BY <1>2 DEF CaughtUp
  <2> QED
    BY <1>2, <2>1 DEF TypeOK
<1> QED
  BY <1>1, <1>2

\* The first state of the wait.
LEMMA InitInvariant == Init => IInv
BY TicksAssumption, SMT
DEF Init, IInv, TypeOK, NoBursts, EndsInTime, Clock, Limits, Pause, Longest, Never

\* Every other poll begins when the pause after the one before it is over, or when that poll
\* lasted longer.
LEMMA PollAgainInvariant ==
    /\ IInv
    /\ PollAgain
    /\ \/ pc = "sleeping" /\ now >= next
       \/ SaysNotDone /\ ~NoTimeLeft /\ next - now <= MinSleep
    => IInv'
<1> SUFFICES ASSUME IInv, PollAgain,
                    \/ pc = "sleeping" /\ now >= next
                    \/ SaysNotDone /\ ~NoTimeLeft /\ next - now <= MinSleep
             PROVE  IInv'
  OBVIOUS
<1> USE TicksAssumption
<1>0. TypeOK /\ NoBursts /\ EndsInTime /\ Clock /\ Limits
  BY DEF IInv
<1>t. /\ interval \in Nat \ {0} /\ timeout \in Nat /\ now \in Nat /\ next \in Nat
      /\ began \in Nat /\ began <= now /\ last \in Int /\ lastButOne \in Int
      /\ MinSleep \in Nat \ {0} /\ Slack \in Nat /\ MaxPoll \in Nat /\ Over \in Nat
      /\ ended # Never => ended \in Nat /\ ended <= now
  BY <1>0 DEF TypeOK
<1>n. next' \in Nat /\ next' > now /\ next' >= next + interval
      /\ (next' = next + interval \/ next' <= now + interval)
  <2>1. next + interval \in Nat /\ next' \in CaughtUp(next + interval)
    BY <1>t DEF PollAgain
  <2> QED
    BY <1>0, <2>1, CaughtUpIsAhead
<1>p. /\ pc' = "polling" /\ began' = now /\ last' = began /\ lastButOne' = last
      /\ UNCHANGED <<interval, timeout, now, ended>>
  BY DEF PollAgain
<1>s. next <= now + MinSleep
  BY <1>t DEF SaysNotDone, NoTimeLeft
<1>1. TypeOK'
  BY <1>0, <1>t, <1>n, <1>p DEF TypeOK
<1>2. NoBursts'
  BY <1>0, <1>t, <1>s, <1>p DEF NoBursts, Clock
<1>3. Clock'
  BY <1>0, <1>t, <1>n, <1>p, <1>s DEF Clock, TypeOK
<1>4. Limits'
  <2>1. CASE pc = "sleeping"
    <3>1. now <= began + Pause
      BY <1>0, <1>t, <2>1 DEF Clock, Pause
    <3> QED
      BY <1>0, <1>t, <1>p, <2>1, <3>1 DEF Limits, Pause, Longest
  <2>2. CASE SaysNotDone /\ ~NoTimeLeft
    <3>1. timeout # 0 => now <= timeout
      BY <1>t, <2>2 DEF NoTimeLeft
    <3>2. ended # Never => began <= ended /\ now <= began + MaxPoll
      BY <1>0, <1>t, <2>2 DEF SaysNotDone, Clock
    <3> QED
      BY <1>t, <1>p, <3>1, <3>2 DEF Limits, Pause, Longest
  <2> QED
    BY <2>1, <2>2
<1>5. EndsInTime'
  BY <1>0, <1>t, <1>p DEF EndsInTime, Pause
<1> QED
  BY <1>1, <1>2, <1>3, <1>4, <1>5 DEF IInv

LEMMA NextInvariant == IInv /\ [Next]_vars => IInv'
<1> SUFFICES ASSUME IInv, [Next]_vars PROVE IInv'
  OBVIOUS
<1> USE TicksAssumption
<1>0. TypeOK /\ NoBursts /\ EndsInTime /\ Clock /\ Limits
  BY DEF IInv
<1>t. /\ interval \in Nat \ {0} /\ timeout \in Nat /\ now \in Nat /\ next \in Nat
      /\ began \in Nat /\ began <= now /\ last \in Int /\ lastButOne \in Int
      /\ MinSleep \in Nat \ {0} /\ Slack \in Nat /\ MaxPoll \in Nat /\ Over \in Nat
      /\ ended # Never => ended \in Nat /\ ended <= now
  BY <1>0 DEF TypeOK
<1>1. CASE Tick
  <2>p. /\ now' = now + 1
        /\ UNCHANGED <<interval, timeout, pc, next, began, last, lastButOne, ended>>
        /\ \/ pc = "polling" /\ now < began + MaxPoll
           \/ pc = "sleeping" /\ now < next + Over
    BY <1>1 DEF Tick
  <2>1. TypeOK'
    BY <1>0, <1>t, <2>p DEF TypeOK
  <2>2. NoBursts' /\ Limits'
    BY <1>0, <1>t, <2>p DEF NoBursts, Limits, Longest, Pause
  <2>3. Clock'
    BY <1>0, <1>t, <2>p DEF Clock
  <2>4. EndsInTime'
    <3>1. CASE pc = "polling"
      BY <1>0, <1>t, <2>p, <3>1 DEF EndsInTime, Limits, Longest, Pause
    <3>2. CASE pc = "sleeping"
      BY <1>0, <1>t, <2>p, <3>2 DEF EndsInTime, Limits, Clock, Pause
    <3> QED
      BY <2>p, <3>1, <3>2
  <2> QED
    BY <2>1, <2>2, <2>3, <2>4 DEF IInv
<1>2. CASE WorkEnds
  <2>p. /\ ended' = now /\ pc \in {"polling", "sleeping"}
        /\ UNCHANGED <<interval, timeout, pc, now, next, began, last, lastButOne>>
    BY <1>2 DEF WorkEnds
  <2>1. TypeOK' /\ NoBursts' /\ Clock'
    BY <1>0, <1>t, <2>p DEF TypeOK, NoBursts, Clock
  <2>2. Limits' /\ EndsInTime'
    BY <1>0, <1>t, <2>p DEF Limits, EndsInTime, Longest, Pause
  <2> QED
    BY <2>1, <2>2 DEF IInv
<1>3. CASE PollSaysDone \/ PollRaises
  BY <1>0, <1>3
  DEF IInv, PollSaysDone, PollRaises, TypeOK, NoBursts, EndsInTime, Clock, Limits, Longest, Pause
<1>4. CASE TimesOut
  <2>p. /\ pc' = "timedOut" /\ SaysNotDone /\ NoTimeLeft
        /\ UNCHANGED <<interval, timeout, now, next, began, last, lastButOne, ended>>
    BY <1>4 DEF TimesOut
  <2>1. EndsInTime'
    BY <1>0, <1>t, <2>p DEF EndsInTime, SaysNotDone, NoTimeLeft, Pause
  <2>2. TypeOK' /\ NoBursts' /\ Clock' /\ Limits'
    BY <1>0, <2>p DEF TypeOK, NoBursts, Clock, Limits, Longest, Pause
  <2> QED
    BY <2>1, <2>2 DEF IInv
<1>5. CASE Sleeps
  <2>p. /\ pc' = "sleeping" /\ SaysNotDone /\ ~NoTimeLeft /\ next - now > MinSleep
        /\ UNCHANGED <<interval, timeout, now, next, began, last, lastButOne, ended>>
    BY <1>5 DEF Sleeps
  <2>1. TypeOK' /\ NoBursts' /\ EndsInTime'
    BY <1>0, <2>p DEF TypeOK, NoBursts, EndsInTime, Pause
  <2>2. Clock'
    BY <1>0, <1>t, <2>p DEF Clock
  <2>3. Limits'
    BY <1>0, <1>t, <2>p DEF Limits, SaysNotDone, NoTimeLeft
  <2> QED
    BY <2>1, <2>2, <2>3 DEF IInv
<1>6. CASE WakesUp
  BY <1>6, PollAgainInvariant DEF WakesUp
<1>7. CASE GoesOn
  BY <1>7, PollAgainInvariant DEF GoesOn
<1>8. CASE UNCHANGED vars
  BY <1>0, <1>8
  DEF IInv, vars, TypeOK, NoBursts, EndsInTime, Clock, Limits, Longest, Pause
<1> QED
  BY <1>1, <1>2, <1>3, <1>4, <1>5, <1>6, <1>7, <1>8 DEF Next

LEMMA Invariance == Spec => []IInv
BY InitInvariant, NextInvariant, PTL DEF Spec

\* The type invariant of wait_for_done, the wakeup ahead of the poll included.
THEOREM TypeCorrect == Spec => []TypeOK
<1>1. IInv => TypeOK
  BY DEF IInv
<1> QED
  BY <1>1, Invariance, PTL

\* However long polls take, wait_for_done never makes three within one interval.
THEOREM PollsKeepPace == Spec => []NoBursts
<1>1. IInv => NoBursts
  BY DEF IInv
<1> QED
  BY <1>1, Invariance, PTL

\* wait_for_done ends within a pause and a poll of its limit, within a pause and two polls
\* of the end of the work, and raises TimeoutError only when it may.
THEOREM WaitsEndInTime == Spec => []EndsInTime
<1>1. IInv => EndsInTime
  BY DEF IInv
<1> QED
  BY <1>1, Invariance, PTL
=============================================================================
