----------------------------- MODULE TaskAttempts -----------------------------
(***************************************************************************)
(* What the tasks of a DAG promise those who read their outputs and their  *)
(* sinks, whatever operators they run and wherever.  An attempt has its    *)
(* inputs before it decides what to write; it writes each sink it has      *)
(* decided on once and no other, and its outputs follow, all at once, when *)
(* the last one is written.  One that refuses what it got has written      *)
(* nothing; one that gets stuck over results it cannot pass on has written *)
(* others only; one that breaks leaves what it wrote and at most one write *)
(* that may come later.                                                    *)
(***************************************************************************)
EXTENDS Naturals

CONSTANTS Tasks, Args

\* What was there before any attempt.
Nothing == [task |-> "none", attempt |-> 0]

VARIABLES attempts,  \* number of attempts so far
          stage,     \* of the last attempt at each task in this run
          attempt,   \* its number
          reads,     \* the values it got from the outputs of other tasks
          unfit,     \* the results that cannot be passed on
          todo,      \* the sinks it has decided on and not written
          wrote,     \* those that it wrote or may have written
          published, \* the outputs of each task
          element,   \* what each sink holds
          late       \* writes that may yet be carried out

vars == <<attempts, stage, attempt, reads, unfit, todo, wrote, published, element, late>>

NoOutputs == [a \in Args |-> Nothing]

\* What the attempt at t makes.
Made(t) == [task |-> t, attempt |-> attempt[t]]

UnderWay(t) == stage[t] \in {"begun", "ready", "writing"}

Init == /\ attempts = 0
        /\ stage = [t \in Tasks |-> "none"]
        /\ attempt = [t \in Tasks |-> 0]
        /\ reads = [t \in Tasks |-> {}]
        /\ unfit = [t \in Tasks |-> {}]
        /\ todo = [t \in Tasks |-> {}]
        /\ wrote = [t \in Tasks |-> {}]
        /\ published = [t \in Tasks |-> NoOutputs]
        /\ element = [s \in Tasks \X Args |-> Nothing]
        /\ late = {}

-----------------------------------------------------------------------------
(* One attempt.                                                            *)

\* What a task left before it is tried again is withdrawn, or stays.
Begin(t) ==
    /\ stage[t] \in {"none", "refused", "stuck", "broken"}
    /\ attempts' = attempts + 1
    /\ attempt' = [attempt EXCEPT ![t] = attempts + 1]
    /\ stage' = [stage EXCEPT ![t] = "begun"]
    /\ reads' = [reads EXCEPT ![t] = {}]
    /\ unfit' = [unfit EXCEPT ![t] = {}]
    /\ todo' = [todo EXCEPT ![t] = {}]
    /\ wrote' = [wrote EXCEPT ![t] = {}]
    /\ published' \in {published, [published EXCEPT ![t] = NoOutputs]}
    /\ UNCHANGED <<element, late>>

\* Nothing that is missing is read.
Read(t) ==
    /\ stage[t] = "begun"
    /\ stage' = [stage EXCEPT ![t] = "ready"]
    /\ \E from \in SUBSET (Tasks \X Args) :
         /\ \A i \in from : published[i[1]][i[2]] # Nothing
         /\ reads' = [reads EXCEPT ![t] = {published[i[1]][i[2]] : i \in from}]
    /\ UNCHANGED <<attempts, attempt, unfit, todo, wrote, published, element, late>>

Decide(t) ==
    /\ stage[t] = "ready"
    /\ stage' = [stage EXCEPT ![t] = "writing"]
    /\ \E sinks, some \in SUBSET Args : /\ todo' = [todo EXCEPT ![t] = sinks]
                                        /\ unfit' = [unfit EXCEPT ![t] = some]
    /\ UNCHANGED <<attempts, attempt, reads, wrote, published, element, late>>

Write(t, a) ==
    /\ stage[t] = "writing"
    /\ a \in todo[t] \ unfit[t]
    /\ todo' = [todo EXCEPT ![t] = @ \ {a}]
    /\ wrote' = [wrote EXCEPT ![t] = @ \cup {a}]
    /\ element' = [element EXCEPT ![<<t, a>>] = Made(t)]
    /\ UNCHANGED <<attempts, stage, attempt, reads, unfit, published, late>>

\* The outputs replace those of earlier attempts as a whole; what was written is among them.
Publish(t) ==
    /\ stage[t] = "writing"
    /\ todo[t] = {}
    /\ \E names \in SUBSET Args :
         /\ wrote[t] \subseteq names
         /\ published' = [published EXCEPT ![t] =
                            [a \in Args |-> IF a \in names THEN Made(t) ELSE Nothing]]

Succeed(t) ==
    /\ Publish(t)
    /\ stage' = [stage EXCEPT ![t] = "success"]
    /\ UNCHANGED <<attempts, attempt, reads, unfit, todo, wrote, element, late>>

Refuse(t) ==
    /\ stage[t] \in {"begun", "ready"}
    /\ stage' = [stage EXCEPT ![t] = "refused"]
    /\ UNCHANGED <<attempts, attempt, reads, unfit, todo, wrote, published, element, late>>

\* A result that is to be written, or to be left for others, cannot be.
GetStuck(t) ==
    /\ stage[t] = "writing"
    /\ \/ todo[t] \cap unfit[t] # {}
       \/ todo[t] = {} /\ unfit[t] # {}
    /\ stage' = [stage EXCEPT ![t] = "stuck"]
    /\ todo' = [todo EXCEPT ![t] = {}]
    /\ UNCHANGED <<attempts, attempt, reads, unfit, wrote, published, element, late>>

\* Between two steps, during a write, or while the outputs are stored.
Break(t) ==
    /\ UnderWay(t)
    /\ stage' = [stage EXCEPT ![t] = "broken"]
    /\ todo' = [todo EXCEPT ![t] = {}]
    /\ \/ UNCHANGED <<wrote, published, element, late>>
       \/ Publish(t) /\ UNCHANGED <<wrote, element, late>>
       \/ /\ stage[t] = "writing"
          /\ \E a \in todo[t] \ unfit[t] :
               /\ wrote' = [wrote EXCEPT ![t] = @ \cup {a}]
               /\ \/ /\ element' = [element EXCEPT ![<<t, a>>] = Made(t)]
                     /\ UNCHANGED late
                  \/ UNCHANGED <<element, late>>
                  \/ /\ late' = late \cup {<<<<t, a>>, Made(t)>>}
                     /\ UNCHANGED element
          /\ UNCHANGED published
    /\ UNCHANGED <<attempts, attempt, reads, unfit>>

-----------------------------------------------------------------------------
(* Between attempts.                                                       *)

NewRun ==
    /\ \A t \in Tasks : ~UnderWay(t)
    /\ stage' = [t \in Tasks |-> "none"]
    /\ attempt' = [t \in Tasks |-> 0]
    /\ reads' = [t \in Tasks |-> {}]
    /\ unfit' = [t \in Tasks |-> {}]
    /\ todo' = [t \in Tasks |-> {}]
    /\ wrote' = [t \in Tasks |-> {}]
    /\ published' \in {published, [t \in Tasks |-> NoOutputs]}
    /\ UNCHANGED <<attempts, element, late>>

CatchUp ==
    \E w \in late :
        /\ late' = late \ {w}
        /\ element' = [element EXCEPT ![w[1]] = w[2]]
        /\ UNCHANGED <<attempts, stage, attempt, reads, unfit, todo, wrote, published>>

-----------------------------------------------------------------------------
Next == \/ \E t \in Tasks :
             \/ Begin(t) \/ Read(t) \/ Decide(t) \/ Succeed(t) \/ Refuse(t)
             \/ GetStuck(t) \/ Break(t)
             \/ \E a \in Args : Write(t, a)
        \/ NewRun \/ CatchUp

Spec == Init /\ [][Next]_vars
===============================================================================
