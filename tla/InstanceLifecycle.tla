------------------------- MODULE InstanceLifecycle -------------------------
(***************************************************************************)
(* MDTInstance and MDTInstanceCollection (mdtpy/instance.py): clients that *)
(* each hold a handle on the same instance of an instance manager, start   *)
(* it, stop it, remove and add it, and read what the handle caches of it.  *)
(*                                                                         *)
(* A handle keeps the descriptor it read last; of a descriptor only the    *)
(* status is kept.  Requests are answered, lost, or carried out after      *)
(* their sender stopped waiting (DEFAULT_TIMEOUT).                         *)
(***************************************************************************)
EXTENDS Naturals, InstanceStates

CONSTANTS
    Clients,    \* the processes, each with a handle of its own
    Bodies,     \* the bodies of the refusals of the instance manager
    MaxCalls    \* bound: calls that the clients make, all together

ASSUME BodiesAssumption == Bodies \subseteq ErrorBody
ASSUME CallsAssumption == MaxCalls \in Nat

VARIABLES
    \* the clients
    pc,       \* what the call of each client waits for
    op,       \* its last call
    nowait,   \* that call's argument
    reply,    \* the answer to its request, "pending" until it comes
    outcome,  \* how its last call ended, "none" until then
    calls,    \* how many they made, all together
    desc,     \* the status its handle caches
    \* the instance manager and the network
    status,   \* of the instance, "absent" when it is not registered
    late,     \* commands given up by their sender that may yet be carried out: how many
    since     \* history: statuses the instance had since the call's PUT was accepted, or
              \* since a mere read began

clientVars == <<pc, op, nowait, reply, outcome, calls, desc>>
vars == <<clientVars, status, late, since>>

Waiting == {"command", "reload", "poll", "attribute"}

TypeOK ==
    /\ pc \in [Clients -> Waiting \cup {"idle", "pause"}]
    /\ op \in [Clients -> Op]
    /\ nowait \in [Clients -> BOOLEAN]
    /\ reply \in [Clients -> Status \cup Bodies \cup {"pending", "accepted"}]
    /\ outcome \in [Clients -> Outcome \cup {"none"}]
    /\ calls \in 0 .. MaxCalls
    /\ desc \in [Clients -> Status]
    /\ status \in Status \cup {"absent"}
    /\ late \in [Commands -> Nat]
    /\ since \in [Clients -> SUBSET (Status \cup {"absent"})]

\* Everybody got a handle while the instance was stopped; it may be gone by now.
Init ==
    /\ pc = [c \in Clients |-> "idle"]
    /\ op = [c \in Clients |-> "read"]
    /\ nowait = [c \in Clients |-> FALSE]
    /\ reply = [c \in Clients |-> "pending"]
    /\ outcome = [c \in Clients |-> "none"]
    /\ calls = 0
    /\ desc = [c \in Clients |-> "STOPPED"]
    /\ status \in {"STOPPED", "absent"}
    /\ late = [o \in Commands |-> 0]
    /\ since = [c \in Clients |-> {}]

-----------------------------------------------------------------------------
(* The clients.                                                            *)

Request(c, what) ==
    /\ pc' = [pc EXCEPT ![c] = what]
    /\ reply' = [reply EXCEPT ![c] = "pending"]

\* A call begins; what it sends first is its own business.
Call(c, o, nw) ==
    /\ pc[c] = "idle"
    /\ calls < MaxCalls
    /\ calls' = calls + 1
    /\ op' = [op EXCEPT ![c] = o]
    /\ nowait' = [nowait EXCEPT ![c] = nw]
    /\ since' = [since EXCEPT ![c] = IF o = "read" THEN {status} ELSE {}]
    /\ UNCHANGED <<desc, status, late>>

\* The call of c ends with o.
End(c, o) ==
    /\ pc' = [pc EXCEPT ![c] = "idle"]
    /\ reply' = [reply EXCEPT ![c] = "pending"]
    /\ outcome' = [outcome EXCEPT ![c] = o]

\* start(), stop(), and add() and remove() of the collection.
BeginCommand(c, o, nw) ==
    /\ Call(c, o, nw)
    /\ Request(c, "command")
    /\ outcome' = [outcome EXCEPT ![c] = "none"]

BeginRead(c) ==
    /\ Call(c, "read", FALSE)
    /\ Request(c, "reload")
    /\ outcome' = [outcome EXCEPT ![c] = "none"]

\* An attribute is read; the guarded ones raise when the cached status is not RUNNING.
BeginAttribute(c, a) ==
    /\ Call(c, a, FALSE)
    /\ IF a \in Guarded /\ desc[c] # "RUNNING"
       THEN End(c, "InvalidResourceStateError")
       ELSE /\ Request(c, "attribute")
            /\ outcome' = [outcome EXCEPT ![c] = "none"]

\* Mutant: start() and stop() trust the handle and do not read the descriptor again.
MutantReceiveCommand(c) ==
    /\ pc[c] = "command"
    /\ reply[c] # "pending"
    /\ CASE reply[c] \in Bodies -> End(c, ToException(reply[c])) /\ UNCHANGED desc
         [] reply[c] = "accepted" /\ op[c] \in Transition ->
              /\ End(c, IF desc[c] \in Way(op[c]) THEN "returned"
                                                  ELSE "InvalidResourceStateError")
              /\ UNCHANGED desc
         [] reply[c] = "accepted" /\ op[c] = "remove" ->
              End(c, "returned") /\ UNCHANGED desc
         [] OTHER -> End(c, "returned") /\ desc' = [desc EXCEPT ![c] = reply[c]]
    /\ UNCHANGED <<op, nowait, calls, status, late, since>>

\* A refusal is raised as its body says, before the descriptor is read: by start() and
\* stop(), too, as InvalidResourceStateError if the manager names the status.  Once the PUT
\* is accepted, they read the descriptor; add() makes a handle of the descriptor that came
\* with the answer.
ReceiveCommand(c) ==
    /\ pc[c] = "command"
    /\ reply[c] # "pending"
    /\ CASE reply[c] \in Bodies -> End(c, ToException(reply[c])) /\ UNCHANGED desc
         [] reply[c] = "accepted" /\ op[c] \in Transition ->
              /\ Request(c, "reload")
              /\ UNCHANGED <<outcome, desc>>
         [] reply[c] = "accepted" /\ op[c] = "remove" ->
              End(c, "returned") /\ UNCHANGED desc
         [] OTHER -> End(c, "returned") /\ desc' = [desc EXCEPT ![c] = reply[c]]
    /\ UNCHANGED <<op, nowait, calls, status, late, since>>

\* Mutant: the wait is over at the goal only.
MutantIsDone(o, s) == s = Goal(o)

\* Whether a poller whose descriptor shows s has done its work.
IsDone(o, s) == s # Transient(o)

\* Mutant: the status code of the answer is not looked at.
MutantReceiveReload(c) ==
    /\ pc[c] = "reload"
    /\ reply[c] # "pending"
    /\ desc' = [desc EXCEPT ![c] = reply[c]]
    /\ End(c, "returned")
    /\ UNCHANGED <<op, nowait, calls, status, late, since>>

\* start() and stop() check the status they read.  A transient one is waited for
\* unless the caller does not want to wait; the first poll follows at once.
ReceiveReload(c) ==
    /\ pc[c] = "reload"
    /\ reply[c] # "pending"
    /\ IF reply[c] \in Bodies
       THEN End(c, ToException(reply[c])) /\ UNCHANGED desc
       ELSE /\ desc' = [desc EXCEPT ![c] = reply[c]]
            /\ CASE op[c] \in Transition /\ reply[c] \notin Way(op[c]) ->
                      End(c, "InvalidResourceStateError")
                 [] /\ op[c] \in Transition /\ reply[c] \in Way(op[c])
                    /\ ~nowait[c] /\ ~IsDone(op[c], reply[c]) ->
                      Request(c, "poll") /\ UNCHANGED outcome
                 [] OTHER -> End(c, "returned")
    /\ UNCHANGED <<op, nowait, calls, status, late, since>>

\* The handle gets the poller's descriptor only when the wait is over; an answer that
\* raises leaves the handle as it was before the wait.
ReceivePoll(c) ==
    /\ pc[c] = "poll"
    /\ reply[c] # "pending"
    /\ IF reply[c] \in Bodies
       THEN End(c, ToException(reply[c])) /\ UNCHANGED desc
       ELSE IF IsDone(op[c], reply[c])
       THEN /\ desc' = [desc EXCEPT ![c] = reply[c]]
            /\ End(c, IF reply[c] = Goal(op[c]) THEN "returned"
                                               ELSE "InvalidResourceStateError")
       ELSE Request(c, "pause") /\ UNCHANGED <<outcome, desc>>
    /\ UNCHANGED <<op, nowait, calls, status, late, since>>

\* The sleep of wait_for_done is over.
WakeUp(c) ==
    /\ pc[c] = "pause"
    /\ Request(c, "poll")
    /\ UNCHANGED <<op, nowait, outcome, calls, desc, status, late, since>>

ReceiveAttribute(c) ==
    /\ pc[c] = "attribute"
    /\ reply[c] # "pending"
    /\ End(c, IF reply[c] = "accepted" THEN "returned" ELSE ToException(reply[c]))
    /\ UNCHANGED <<op, nowait, calls, desc, status, late, since>>

\* Mutant: a command without an answer is sent again.
MutantRequestFails(c) ==
    /\ pc[c] \in Waiting
    /\ IF pc[c] = "command" THEN Request(c, "command") /\ UNCHANGED outcome
       ELSE End(c, "RequestException")
    /\ late' = IF pc[c] = "command" /\ reply[c] = "pending"
               THEN [late EXCEPT ![op[c]] = @ + 1] ELSE late
    /\ since' = [since EXCEPT ![c] = {}]
    /\ UNCHANGED <<op, nowait, calls, desc, status>>

\* The connection breaks or the request's timeout runs out.  A command that is on its
\* way may still be carried out.  Such a call tells nothing, and its history ends.
RequestFails(c) ==
    /\ pc[c] \in Waiting
    /\ End(c, "RequestException")
    /\ late' = IF pc[c] = "command" /\ reply[c] = "pending"
               THEN [late EXCEPT ![op[c]] = @ + 1] ELSE late
    /\ since' = [since EXCEPT ![c] = {}]
    /\ UNCHANGED <<op, nowait, calls, desc, status>>

Proceed(c) == ReceiveCommand(c) \/ ReceiveReload(c) \/ ReceivePoll(c) \/ WakeUp(c)
              \/ ReceiveAttribute(c) \/ RequestFails(c)

Client(c) ==
    \/ \E o \in Transition, nw \in BOOLEAN : BeginCommand(c, o, nw)
    \/ \E o \in {"add", "remove"} : BeginCommand(c, o, FALSE)
    \/ BeginRead(c)
    \/ \E a \in Attribute : BeginAttribute(c, a)
    \/ Proceed(c)

-----------------------------------------------------------------------------
(* The instance manager.                                                   *)

\* Whether the PUT of the call of c is accepted and the call goes on, or c reads.
UnderWay(c) == pc[c] \in {"reload", "poll", "pause"}
               \/ (pc[c] = "command" /\ reply[c] = "accepted")

\* The instance gets status s; every call under way that reports a status, and those in
\* `more', live through it.
Change(s, more) ==
    /\ status' = s
    /\ since' = [c \in Clients |->
                   IF op[c] \in Reporting /\ (UnderWay(c) \/ c \in more)
                   THEN since[c] \cup {s} ELSE since[c]]

Answer(c, r) == reply' = [reply EXCEPT ![c] = r]

\* A command has its effect; or it is accepted without any, which is what the checks
\* of start() and stop() are there for; or it is refused, for whatever reason.
ServeCommand(c) ==
    /\ pc[c] = "command"
    /\ reply[c] = "pending"
    /\ \/ /\ Effective(op[c], status)
          /\ Change(Effect(op[c]), {c})
          /\ Answer(c, IF op[c] = "add" THEN "STOPPED" ELSE "accepted")
       \/ /\ op[c] \in Transition
          /\ status # "absent"
          /\ Change(status, {c})
          /\ Answer(c, "accepted")
       \/ /\ \E b \in Bodies : Answer(c, b)
          /\ UNCHANGED <<status, since>>
    /\ UNCHANGED <<pc, op, nowait, outcome, calls, desc, late>>

ServeLate ==
    \E o \in Commands :
        /\ late[o] > 0
        /\ late' = [late EXCEPT ![o] = @ - 1]
        /\ Effective(o, status)
        /\ Change(Effect(o), {})
        /\ UNCHANGED clientVars

\* GET of the descriptor: refused when there is no such instance, and so not for its status.
ServeRead(c) ==
    /\ pc[c] \in {"reload", "poll"}
    /\ reply[c] = "pending"
    /\ \/ status # "absent" /\ Answer(c, status)
       \/ /\ status = "absent"
          /\ \E b \in Bodies : ToException(b) # "InvalidResourceStateError" /\ Answer(c, b)
    /\ UNCHANGED <<pc, op, nowait, outcome, calls, desc, status, late, since>>

ServeAttribute(c) ==
    /\ pc[c] = "attribute"
    /\ reply[c] = "pending"
    /\ \E r \in {"accepted"} \cup Bodies : Answer(c, r)
    /\ UNCHANGED <<pc, op, nowait, outcome, calls, desc, status, late, since>>

\* Starting and stopping end, well or not.
Settle ==
    /\ \E o \in Transition :
         /\ status = Transient(o)
         /\ \E s \in {Goal(o), "FAILED"} : Change(s, {})
    /\ UNCHANGED <<clientVars, late>>

Fail ==
    /\ status = "RUNNING"
    /\ Change("FAILED", {})
    /\ UNCHANGED <<clientVars, late>>

Manager == \/ ServeLate \/ Settle \/ Fail
           \/ \E c \in Clients : ServeCommand(c) \/ ServeRead(c) \/ ServeAttribute(c)

-----------------------------------------------------------------------------
Next == (\E c \in Clients : Client(c)) \/ Manager

Spec == Init /\ [][Next]_vars

\* A client goes on with its call; a poll is answered or fails; a start or a stop of
\* the instance ends.  Nothing makes anybody call.
Fairness == /\ \A c \in Clients : WF_vars(Proceed(c))
            /\ WF_vars(Settle)

FairSpec == Spec /\ Fairness
-----------------------------------------------------------------------------
(* Properties.                                                             *)

\* What the last call of c told, if it was a start(), a stop() or a read, was true at some
\* time since its PUT was accepted, or since it began: when it returned, the handle shows a
\* status of that time, on the way of a start() or stop(), and at its goal if it waited
\* (is_running() after start()).  When start() or stop() raised for the status, either the
\* PUT was refused, and nothing was seen of the instance, or the handle shows a status of
\* that time off its way.
TellsTruth(c) ==
    /\ op[c] \in Reporting /\ outcome[c] = "returned" =>
         /\ desc[c] \in since[c]
         /\ op[c] \in Transition => /\ desc[c] \in Way(op[c])
                                    /\ ~nowait[c] => desc[c] = Goal(op[c])
    /\ op[c] \in Transition /\ outcome[c] = "InvalidResourceStateError" =>
         since[c] = {} \/ desc[c] \in since[c] \ Way(op[c])

\* Whatever other clients and late commands did meanwhile, no call tells of a status of
\* before its request.
OutcomeIsTrue == \A c \in Clients : TellsTruth(c)

\* A call that waits for w and has the answer r, in terms of InstancePromise.
Stage(w, r) == CASE w = "idle" -> "none"
                 [] w = "command" /\ r = "pending" -> "sent"
                 [] w = "command" /\ r \in Bodies -> ToException(r)
                 [] OTHER -> "open"

Stages == [c \in Clients |-> Stage(pc[c], reply[c])]

Promise == INSTANCE InstancePromise WITH stage <- Stages, behind <- late

\* Commands take effect at most once and before their call returns, and a refused one
\* never; only a request that broke leaves one behind.  A handle changes only to what was
\* true of the instance during the call; a call raises for such a status, and otherwise
\* only what the refusal of its own request says or that it broke.
KeepsPromise == Promise!Spec

\* Every call ends, so that every client is idle again and again: a wait is over when the
\* instance leaves the transient state, also for FAILED.  The code bounds no wait; that
\* starts and stops end is the manager's.
CallEnds == \A c \in Clients : []<>(pc[c] = "idle")
=============================================================================
