----------------------- MODULE InstanceLifecycleProofs -----------------------
(***************************************************************************)
(* Proofs about InstanceLifecycle, for any set of clients and any number   *)
(* of calls, and that it implements InstancePromise.                       *)
(***************************************************************************)
EXTENDS InstanceLifecycle, TLAPS

-----------------------------------------------------------------------------
(* The inductive invariant.                                                *)

\* What a client waits for fits its call, and an answer fits what it waits for.
CallFits ==
    \A c \in Clients :
        /\ pc[c] # "idle" => outcome[c] = "none"
        /\ pc[c] = "command" => /\ op[c] \in Commands
                                /\ reply[c] \in Bodies \cup {"pending", "accepted", "STOPPED"}
                                /\ reply[c] = "accepted" => op[c] # "add"
                                /\ reply[c] = "STOPPED" => op[c] = "add"
        /\ pc[c] = "reload" => op[c] \in Transition \cup {"read"}
        /\ pc[c] \in {"poll", "pause"} => op[c] \in Transition /\ ~nowait[c]
        /\ pc[c] \in {"reload", "poll"} =>
             /\ reply[c] \in Status \cup Bodies \cup {"pending"}
             /\ reply[c] \in Bodies => ToException(reply[c]) # "InvalidResourceStateError"
        /\ pc[c] = "attribute" => /\ op[c] \in Attribute
                                  /\ reply[c] \in Bodies \cup {"pending", "accepted"}

\* While a call that reports a status is under way, its history has the status of now and
\* what an answer on its way reports.
SinceIsKept ==
    \A c \in Clients :
        op[c] \in Reporting /\ UnderWay(c)
        => /\ status \in since[c]
           /\ pc[c] # "command" /\ reply[c] # "pending" =>
                (IF reply[c] \in Bodies THEN "absent" ELSE reply[c]) \in since[c]

\* Before its PUT is accepted a call has seen nothing.
NothingSeen ==
    \A c \in Clients : pc[c] = "command" /\ reply[c] # "accepted" => since[c] = {}

IInv == TypeOK /\ CallFits /\ SinceIsKept /\ NothingSeen /\ OutcomeIsTrue

\* A step of InstancePromise, or none.
Promised == [Promise!Next]_(Promise!vars)

\* The initial states satisfy the invariant.
LEMMA InitHolds == Init => IInv
  BY CallsAssumption DEF Init, IInv, TypeOK, CallFits, SinceIsKept, NothingSeen, OutcomeIsTrue, TellsTruth, UnderWay,
         Op, Outcome, Status, Waiting, Commands, Transition, Attribute, Guarded, Reporting

\* A status given as an answer is an answer, and the kinds of calls are told apart.
LEMMA Answers ==
    /\ \A o \in Transition : Transient(o) \in Status /\ Goal(o) \in Status /\ Transient(o) # Goal(o)
    /\ \A o \in Transition : Way(o) \subseteq Status
    /\ Transition \subseteq Commands /\ Commands \subseteq Op /\ Attribute \subseteq Op
    /\ Transition \subseteq Reporting /\ "read" \in Reporting /\ Reporting \subseteq Op
    /\ \A o \in Reporting : o \in Transition \/ o = "read"
    /\ Transition \cap Attribute = {} /\ "read" \notin Commands \cup Attribute
    /\ Reporting \cap Attribute = {}
    /\ Commands \cap Attribute = {} /\ {"add", "remove"} \cap Reporting = {}
    /\ {"add", "remove"} \cap Transition = {} /\ {"add", "remove"} \subseteq Commands
    /\ \A o \in Commands : Effect(o) \in Status \cup {"absent"}
  BY DEF Transition, Transient, Goal, Way, Status, Commands, Op, Attribute, Guarded, Reporting, Effect

\* The body of a refusal is neither a status nor another answer, and what it raises is a class
\* of its own.
LEMMA Refusals ==
    /\ Bodies \cap (Status \cup {"pending", "accepted", "absent"}) = {}
    /\ \A b \in Bodies : ToException(b) \in Refusal
    /\ Refusal \cap {"returned", "RequestException", "sent", "open", "none"} = {}
    /\ "InvalidResourceStateError" \in Refusal
<1>1. ErrorBody \cap (Status \cup {"pending", "accepted", "absent"}) = {}
  BY DEF ErrorBody, Status
<1>2. \A b \in ErrorBody : ToException(b) \notin {"returned", "RequestException", "sent", "open", "none"}
  BY DEF ToException
<1>3. "invalid status" \in ErrorBody /\ ToException("invalid status") = "InvalidResourceStateError"
  BY DEF ErrorBody, ToException
<1>4. "InvalidResourceStateError" \in Refusal
  BY <1>3 DEF Refusal
<1>5. \A b \in Bodies : ToException(b) \in Refusal
  BY BodiesAssumption DEF Refusal
<1>6. Refusal \cap {"returned", "RequestException", "sent", "open", "none"} = {}
  BY <1>2 DEF Refusal
<1> QED
  BY <1>1, <1>4, <1>5, <1>6, BodiesAssumption

\* Both specifications speak of the same states and calls.
LEMMA SameStates ==
    /\ Promise!Refusal = Refusal
    /\ Promise!Status = Status /\ Promise!Op = Op /\ Promise!Commands = Commands
    /\ Promise!Transition = Transition /\ Promise!Reporting = Reporting
    /\ Promise!Attribute = Attribute /\ Promise!Guarded = Guarded
    /\ \A o \in Op : /\ Promise!Transient(o) = Transient(o) /\ Promise!Goal(o) = Goal(o)
                     /\ Promise!Way(o) = Way(o)
    /\ \A o \in Commands : /\ Promise!Effect(o) = Effect(o)
                           /\ \A t : Promise!Effective(o, t) <=> Effective(o, t)
  BY DEF Promise!Status, Status, Promise!Op, Op, Promise!Commands, Commands, Promise!Transition,
         Transition, Promise!Reporting, Reporting, Promise!Attribute, Attribute, Promise!Guarded,
         Guarded, Promise!Transient, Transient, Promise!Goal, Goal, Promise!Way, Way,
         Promise!Effect, Effect, Promise!Effective, Effective, Promise!Refusal, Refusal,
         Promise!ErrorBody, ErrorBody, Promise!ToException, ToException

\* The stage of one call follows what it waits for; the others stay.
LEMMA StageStep ==
    ASSUME NEW c \in Clients, NEW w, NEW r, TypeOK,
           pc' = [pc EXCEPT ![c] = w], reply' = [reply EXCEPT ![c] = r]
    PROVE  Stages' = [Stages EXCEPT ![c] = Stage(w, r)]
  BY DEF TypeOK, Stages

\* A request that begins has no answer.
LEMMA RequestStep ==
    ASSUME NEW c \in Clients, NEW w \in Waiting \cup {"pause"}, TypeOK, Request(c, w)
    PROVE  Stages' = [Stages EXCEPT ![c] = IF w = "command" THEN "sent" ELSE "open"]
<1>1. Stage(w, "pending") = IF w = "command" THEN "sent" ELSE "open"
  BY Refusals DEF Stage, Waiting
<1> QED
  BY <1>1, StageStep DEF Request

\* What InstancePromise does not see changes nothing in it.
LEMMA QuietStep == UNCHANGED <<status, late, op, nowait, Stages, since, desc, outcome>> => Promised
  BY DEF Promised, Promise!vars

\* A step of one call leaves true what the others told.
LEMMA OutcomeStep ==
    ASSUME NEW c \in Clients, OutcomeIsTrue, TellsTruth(c)',
           \A d \in Clients \ {c} :
             /\ outcome'[d] = outcome[d] /\ op'[d] = op[d] /\ nowait'[d] = nowait[d]
             /\ desc'[d] = desc[d] /\ since'[d] = since[d]
    PROVE  OutcomeIsTrue'
  BY DEF OutcomeIsTrue, TellsTruth

\* A change of the instance is history of calls under way, and those have told nothing yet.
LEMMA ChangeTells ==
    ASSUME IInv, NEW s, NEW more, Change(s, more), UNCHANGED <<op, nowait, desc, outcome>>,
           \A d \in more \cap Clients : pc[d] = "command"
    PROVE  OutcomeIsTrue'
<1>1. ASSUME NEW d \in Clients PROVE TellsTruth(d)'
  <2>1. CASE pc[d] = "idle"
    <3>1. since'[d] = since[d]
      BY <1>1, <2>1 DEF Change, UnderWay
    <3>2. TellsTruth(d)
      BY <1>1 DEF IInv, OutcomeIsTrue
    <3> QED
      BY <3>1, <3>2 DEF TellsTruth
  <2>2. CASE pc[d] # "idle"
    <3>1. outcome'[d] = "none"
      BY <1>1, <2>2 DEF IInv, CallFits
    <3> QED
      BY <3>1 DEF TellsTruth
  <2> QED BY <2>1, <2>2
<1> QED BY <1>1 DEF OutcomeIsTrue

\* A call that ends is one that InstancePromise ends, too.
LEMMA EndStep ==
    ASSUME NEW c \in Clients, NEW o, NEW s, TypeOK, End(c, o),
           desc' = [desc EXCEPT ![c] = s], UNCHANGED <<status, op, nowait, since>>
    PROVE  Promise!End(c, o, s)
<1>1. Stages' = [Stages EXCEPT ![c] = "none"]
  BY StageStep DEF End, Stage
<1> QED
  BY <1>1 DEF Promise!End, End

\* The ways a call that reports a status ends are promised, given what its answer says.
LEMMA ReturnIsPromised ==
    ASSUME NEW c \in Clients, NEW s \in Status, Stages[c] = "open", op[c] \in Reporting, IInv,
           s \in since[c], op[c] \in Transition => s \in Way(op[c]),
           op[c] \in Transition /\ ~nowait[c] => s = Goal(op[c]),
           Promise!End(c, "returned", s), UNCHANGED late
    PROVE  Promised
<1>1. s \in Promise!Status /\ Promise!Shows(c, s)
  BY Answers, SameStates DEF Promise!Shows, Status
<1>2. Promise!Return(c)
  BY <1>1 DEF Promise!Return
<1> QED
  BY <1>2 DEF Promised, Promise!Next

LEMMA StateIsPromised ==
    ASSUME NEW c \in Clients, NEW s \in Status, Stages[c] = "open", op[c] \in Transition,
           s \in since[c], s \notin Way(op[c]),
           Promise!End(c, "InvalidResourceStateError", s), UNCHANGED late
    PROVE  Promised
<1>1. Promise!RaiseState(c)
  BY Answers, SameStates DEF Promise!RaiseState
<1> QED
  BY <1>1 DEF Promised, Promise!Next

LEMMA RefusalIsPromised ==
    ASSUME NEW c \in Clients, NEW e \in Refusal,
           \/ Stages[c] = e
           \/ /\ Stages[c] = "open" /\ op[c] \in Reporting /\ "absent" \in since[c]
              /\ e # "InvalidResourceStateError"
           \/ Stages[c] = "open" /\ op[c] \in Attribute,
           Promise!End(c, e, desc[c]), UNCHANGED late
    PROVE  Promised
<1>1. Promise!RaiseRefusal(c)
  BY SameStates DEF Promise!RaiseRefusal
<1> QED
  BY <1>1 DEF Promised, Promise!Next

\* Calls that are open are those that a change of the instance is history of.
LEMMA ChangeIsPromised ==
    ASSUME IInv, NEW s, NEW more, Change(s, more), UNCHANGED <<op, nowait, desc, outcome>>
    PROVE  Promise!Becomes(s, more)
<1>1. ASSUME NEW c \in Clients, op[c] \in Reporting PROVE UnderWay(c) <=> Stages[c] = "open"
  <2>1. /\ pc[c] \in {"idle", "command", "reload", "poll", "pause"}
        /\ pc[c] = "command" => reply[c] \in Bodies \cup {"pending", "accepted"}
    BY <1>1, Answers DEF IInv, TypeOK, CallFits, Waiting
  <2> QED
    BY <2>1, Refusals DEF UnderWay, Stages, Stage
<1> QED
  BY <1>1, SameStates DEF Change, Promise!Becomes

-----------------------------------------------------------------------------
(* Every action of a client keeps the invariant, and is promised.          *)

\* A call of start(), stop(), add() or remove() begins.
LEMMA BeginCommandKeeps ==
    ASSUME NEW c \in Clients, IInv, NEW o \in Commands, NEW nw \in BOOLEAN, BeginCommand(c, o, nw)
    PROVE  IInv' /\ Promised
<1> USE Answers, Refusals DEF IInv
<1>1. TypeOK'
  BY CallsAssumption DEF TypeOK, Outcome, CallFits, BeginCommand, Call, Request, Waiting
<1>2. CallFits'
  BY <1>1 DEF TypeOK, CallFits, BeginCommand, Call, Request, Waiting
<1>3. SinceIsKept'
  BY DEF TypeOK, CallFits, SinceIsKept, UnderWay, BeginCommand, Call, Request, Waiting
<1>s. NothingSeen'
  BY <1>1 DEF TypeOK, CallFits, NothingSeen, UnderWay, BeginCommand, Call, Request, Waiting
<1>4. OutcomeIsTrue'
  <2>1. TellsTruth(c)'
    BY DEF TypeOK, TellsTruth, BeginCommand, Call, Request
  <2> QED
    BY <2>1, OutcomeStep DEF TypeOK, BeginCommand, Call, Request
<1>5. Promised
  <2>1. Stages[c] = "none"
    BY DEF BeginCommand, Call, Stages, Stage
  <2>2. Stages' = [Stages EXCEPT ![c] = "sent"]
    BY RequestStep DEF BeginCommand, Waiting
  <2>3. Promise!Begin(c, o, nw)
    BY <2>1, <2>2, SameStates DEF BeginCommand, Call, Promise!Begin, Promise!Ask
  <2> QED
    BY <2>3, SameStates DEF Promised, Promise!Next
<1> QED BY <1>1, <1>2, <1>3, <1>s, <1>4, <1>5

\* The descriptor is read for its own sake.
LEMMA BeginReadKeeps ==
    ASSUME NEW c \in Clients, IInv, BeginRead(c)
    PROVE  IInv' /\ Promised
<1> USE Answers, Refusals DEF IInv
<1>1. TypeOK'
  BY CallsAssumption DEF TypeOK, Outcome, CallFits, BeginRead, Call, Request, Waiting
<1>2. CallFits'
  BY <1>1 DEF TypeOK, CallFits, BeginRead, Call, Request, Waiting
<1>3. SinceIsKept'
  BY DEF TypeOK, CallFits, SinceIsKept, UnderWay, BeginRead, Call, Request, Waiting
<1>s. NothingSeen'
  BY <1>1 DEF TypeOK, CallFits, NothingSeen, UnderWay, BeginRead, Call, Request, Waiting
<1>4. OutcomeIsTrue'
  <2>1. TellsTruth(c)'
    BY DEF TypeOK, TellsTruth, BeginRead, Call, Request
  <2> QED
    BY <2>1, OutcomeStep DEF TypeOK, BeginRead, Call, Request
<1>5. Promised
  <2>1. Stages[c] = "none"
    BY DEF BeginRead, Call, Stages, Stage
  <2>2. Stages' = [Stages EXCEPT ![c] = "open"]
    BY RequestStep DEF BeginRead, Waiting
  <2>3. Promise!Begin(c, "read", FALSE)
    BY <2>1, <2>2, SameStates DEF BeginRead, Call, Promise!Begin, Promise!Ask
  <2> QED
    BY <2>3, SameStates DEF Promised, Promise!Next
<1> QED BY <1>1, <1>2, <1>3, <1>s, <1>4, <1>5

\* An attribute is read.
LEMMA BeginAttributeKeeps ==
    ASSUME NEW c \in Clients, IInv, NEW a \in Attribute, BeginAttribute(c, a)
    PROVE  IInv' /\ Promised
<1> USE Answers, Refusals DEF IInv
<1>1. TypeOK'
  BY CallsAssumption DEF TypeOK, Outcome, CallFits, BeginAttribute, Call, Request, End, Waiting
<1>2. CallFits'
  BY <1>1 DEF TypeOK, CallFits, BeginAttribute, Call, Request, End, Waiting
<1>3. SinceIsKept'
  BY DEF TypeOK, CallFits, SinceIsKept, UnderWay, BeginAttribute, Call, Request, End, Waiting
<1>s. NothingSeen'
  BY <1>1 DEF TypeOK, CallFits, NothingSeen, UnderWay, BeginAttribute, Call, Request, End, Waiting
<1>4. OutcomeIsTrue'
  <2>1. TellsTruth(c)'
    BY DEF TypeOK, TellsTruth, BeginAttribute, Call, Request, End
  <2> QED
    BY <2>1, OutcomeStep DEF TypeOK, BeginAttribute, Call, Request, End
<1>5. Promised
  <2>1. Stages[c] = "none" /\ Promise!Ask(c, a, FALSE)
    BY DEF BeginAttribute, Call, Stages, Stage, Promise!Ask
  <2>2. CASE a \in Guarded /\ desc[c] # "RUNNING"
    <3>1. Stages' = [Stages EXCEPT ![c] = "none"]
      BY <2>2, StageStep DEF BeginAttribute, End, Stage
    <3>2. Stages' = Stages
      BY <2>1, <3>1 DEF Stages
    <3>3. Promise!Shut(c, a)
      BY <2>1, <2>2, <3>2 DEF BeginAttribute, End, Promise!Shut
    <3> QED
      BY <2>2, <3>3, SameStates DEF Promised, Promise!Next
  <2>3. CASE ~(a \in Guarded /\ desc[c] # "RUNNING")
    <3>1. Stages' = [Stages EXCEPT ![c] = "open"]
      BY <2>3, RequestStep DEF BeginAttribute, Waiting
    <3>2. Promise!Begin(c, a, FALSE)
      BY <2>1, <2>3, <3>1, SameStates DEF BeginAttribute, Promise!Begin
    <3> QED
      BY <3>2, SameStates DEF Promised, Promise!Next
  <2> QED
    BY <2>2, <2>3
<1> QED BY <1>1, <1>2, <1>3, <1>s, <1>4, <1>5

\* The answer to a command comes.
LEMMA ReceiveCommandKeeps ==
    ASSUME NEW c \in Clients, IInv, ReceiveCommand(c)
    PROVE  IInv' /\ Promised
<1> USE Answers, Refusals DEF IInv
<1>1. TypeOK'
  BY DEF TypeOK, Outcome, CallFits, ReceiveCommand, Request, End, Waiting, Status, Transition, Commands
<1>2. CallFits'
  BY <1>1 DEF TypeOK, CallFits, ReceiveCommand, Request, End, Waiting
<1>3. SinceIsKept'
  BY DEF TypeOK, CallFits, SinceIsKept, UnderWay, ReceiveCommand, Request, End, Waiting
<1>s. NothingSeen'
  BY <1>1 DEF TypeOK, CallFits, NothingSeen, UnderWay, ReceiveCommand, Request, End, Waiting
<1>4. OutcomeIsTrue'
  <2>1. TellsTruth(c)'
    <3>1. CASE op[c] \in Transition
      BY <3>1 DEF TypeOK, CallFits, NothingSeen, TellsTruth, ReceiveCommand, Request, End
    <3>2. CASE op[c] \notin Transition
      BY <3>2 DEF TypeOK, CallFits, TellsTruth, ReceiveCommand, Commands
    <3> QED BY <3>1, <3>2
  <2> QED
    BY <2>1, OutcomeStep DEF TypeOK, ReceiveCommand, Request, End
<1>5. Promised
  <2> DEFINE s == IF op[c] = "add" THEN "STOPPED" ELSE desc[c]
  <2>0. /\ op[c] \in Commands /\ reply[c] \in Bodies \cup {"accepted", "STOPPED"}
        /\ Stages[c] = IF reply[c] \in Bodies THEN ToException(reply[c]) ELSE "open"
        /\ desc[c] \in Status /\ "STOPPED" \in Status
        /\ reply[c] = "accepted" => op[c] # "add"
        /\ reply[c] = "STOPPED" => op[c] = "add"
    BY Refusals DEF TypeOK, CallFits, ReceiveCommand, Stages, Stage, Status
  <2>1. CASE reply[c] \in Bodies
    <3>1. desc' = [desc EXCEPT ![c] = desc[c]] /\ End(c, ToException(reply[c]))
      BY <2>1, Refusals DEF TypeOK, ReceiveCommand, Status
    <3>2. Promise!End(c, ToException(reply[c]), desc[c])
      BY <3>1, EndStep DEF ReceiveCommand
    <3> QED
      BY <2>0, <2>1, <3>2, Refusals, RefusalIsPromised DEF ReceiveCommand
  <2>2. CASE reply[c] = "accepted" /\ op[c] \in Transition
    <3>1. Stages' = [Stages EXCEPT ![c] = "open"]
      BY <2>2, RequestStep DEF ReceiveCommand, Waiting
    <3>2. Stages' = Stages
      BY <2>0, <2>2, <3>1 DEF Stages
    <3> QED
      BY <2>2, <3>2, QuietStep DEF ReceiveCommand
  <2>3. CASE reply[c] \notin Bodies /\ ~(reply[c] = "accepted" /\ op[c] \in Transition)
    <3>0. /\ op[c] \in {"add", "remove"}
          /\ op[c] = "add" <=> reply[c] = "STOPPED"
      BY <2>0, <2>3 DEF Commands
    <3>1. desc' = [desc EXCEPT ![c] = s] /\ End(c, "returned")
      BY <2>0, <2>3, <3>0 DEF TypeOK, ReceiveCommand
    <3>2. Promise!End(c, "returned", s)
      BY <3>1, EndStep DEF ReceiveCommand
    <3>3. s \in Promise!Status /\ Promise!Shows(c, s)
      BY <2>0, <3>0, SameStates DEF Promise!Shows, Transition
    <3>4. Promise!Return(c)
      BY <2>0, <2>3, <3>2, <3>3 DEF ReceiveCommand, Promise!Return
    <3> QED
      BY <3>4 DEF Promised, Promise!Next
  <2> QED
    BY <2>1, <2>2, <2>3
<1> QED BY <1>1, <1>2, <1>3, <1>s, <1>4, <1>5

\* A call gets the descriptor it asked for.
LEMMA ReceiveReloadKeeps ==
    ASSUME NEW c \in Clients, IInv, ReceiveReload(c)
    PROVE  IInv' /\ Promised
<1> USE Answers, Refusals DEF IInv
<1>1. TypeOK'
  BY CallsAssumption DEF TypeOK, Outcome, CallFits, ReceiveReload, Request, End, IsDone, Waiting
<1>2. CallFits'
  BY <1>1 DEF TypeOK, CallFits, ReceiveReload, Request, End, IsDone, Waiting
<1>3. SinceIsKept'
  BY DEF TypeOK, CallFits, SinceIsKept, UnderWay, ReceiveReload, Request, End, IsDone, Waiting
<1>s. NothingSeen'
  BY <1>1 DEF TypeOK, CallFits, NothingSeen, UnderWay, ReceiveReload, Request, End, IsDone, Waiting
<1>4. OutcomeIsTrue'
  <2>1. TellsTruth(c)'
    BY DEF TypeOK, TellsTruth, ReceiveReload, Request, End, CallFits, SinceIsKept, UnderWay, IsDone, Way
  <2> QED
    BY <2>1, OutcomeStep DEF TypeOK, ReceiveReload, Request, End
<1>5. Promised
  <2>0. /\ op[c] \in Reporting /\ op[c] \in Op /\ reply[c] \in Status \cup Bodies
        /\ (IF reply[c] \in Bodies THEN "absent" ELSE reply[c]) \in since[c]
        /\ Stages[c] = "open" /\ "absent" \notin Status
    BY DEF TypeOK, CallFits, SinceIsKept, UnderWay, ReceiveReload, Stages, Stage, Status
  <2>1. CASE reply[c] \in Bodies
    <3>1. Promise!End(c, ToException(reply[c]), desc[c])
      BY <2>1, EndStep DEF TypeOK, ReceiveReload
    <3>2. "absent" \in since[c] /\ ToException(reply[c]) # "InvalidResourceStateError"
      BY <2>0, <2>1 DEF CallFits, ReceiveReload
    <3> QED
      BY <2>0, <2>1, <3>1, <3>2, Refusals, RefusalIsPromised DEF ReceiveReload
  <2>2. CASE reply[c] \notin Bodies /\ op[c] \in Transition /\ reply[c] \notin Way(op[c])
    <3>1. Promise!End(c, "InvalidResourceStateError", reply[c])
      BY <2>2, EndStep DEF ReceiveReload
    <3> QED
      BY <2>0, <2>2, <3>1, StateIsPromised DEF ReceiveReload
  <2>3. CASE /\ op[c] \in Transition /\ reply[c] \in Way(op[c])
             /\ ~nowait[c] /\ ~IsDone(op[c], reply[c])
    <3>1. Stages' = [Stages EXCEPT ![c] = "open"]
      BY <2>0, <2>3, RequestStep DEF ReceiveReload, Waiting
    <3>2. Stages' = Stages
      BY <2>0, <3>1 DEF Stages
    <3>3. Promise!Learn(c)
      BY <2>0, <2>3, <3>2, SameStates DEF ReceiveReload, Promise!Learn, IsDone
    <3> QED
      BY <3>3 DEF Promised, Promise!Next
  <2>4. CASE /\ reply[c] \notin Bodies
             /\ op[c] \in Transition => /\ reply[c] \in Way(op[c])
                                        /\ nowait[c] \/ IsDone(op[c], reply[c])
    <3>1. Promise!End(c, "returned", reply[c])
      BY <2>4, EndStep DEF ReceiveReload
    <3>2. op[c] \in Transition /\ ~nowait[c] => reply[c] = Goal(op[c])
      BY <2>4 DEF Way, IsDone
    <3> QED
      BY <2>0, <2>4, <3>1, <3>2, ReturnIsPromised DEF ReceiveReload
  <2> QED
    BY <2>0, <2>1, <2>2, <2>3, <2>4
<1> QED BY <1>1, <1>2, <1>3, <1>s, <1>4, <1>5

\* A waiting call gets the descriptor it polled.
LEMMA ReceivePollKeeps ==
    ASSUME NEW c \in Clients, IInv, ReceivePoll(c)
    PROVE  IInv' /\ Promised
<1> USE Answers, Refusals DEF IInv
<1>1. TypeOK'
  BY CallsAssumption DEF TypeOK, Outcome, CallFits, ReceivePoll, Request, End, IsDone, Waiting
<1>2. CallFits'
  BY <1>1 DEF TypeOK, CallFits, ReceivePoll, Request, End, IsDone, Waiting
<1>3. SinceIsKept'
  BY DEF TypeOK, CallFits, SinceIsKept, UnderWay, ReceivePoll, Request, End, IsDone, Waiting
<1>s. NothingSeen'
  BY <1>1 DEF TypeOK, CallFits, NothingSeen, UnderWay, ReceivePoll, Request, End, IsDone, Waiting
<1>4. OutcomeIsTrue'
  <2>1. TellsTruth(c)'
    BY DEF TypeOK, TellsTruth, ReceivePoll, Request, End, CallFits, SinceIsKept, UnderWay, IsDone, Way
  <2> QED
    BY <2>1, OutcomeStep DEF TypeOK, ReceivePoll, Request, End
<1>5. Promised
  <2>0. /\ op[c] \in Transition /\ op[c] \in Reporting /\ op[c] \in Op
        /\ reply[c] \in Status \cup Bodies
        /\ (IF reply[c] \in Bodies THEN "absent" ELSE reply[c]) \in since[c]
        /\ Stages[c] = "open" /\ "absent" \notin Status
    BY DEF TypeOK, CallFits, SinceIsKept, UnderWay, ReceivePoll, Stages, Stage, Status
  <2>1. CASE reply[c] \in Bodies
    <3>1. Promise!End(c, ToException(reply[c]), desc[c])
      BY <2>1, EndStep DEF TypeOK, ReceivePoll
    <3>2. "absent" \in since[c] /\ ToException(reply[c]) # "InvalidResourceStateError"
      BY <2>0, <2>1 DEF CallFits, ReceivePoll
    <3> QED
      BY <2>0, <2>1, <3>1, <3>2, Refusals, RefusalIsPromised DEF ReceivePoll
  <2>2. CASE reply[c] \notin Bodies /\ IsDone(op[c], reply[c]) /\ reply[c] = Goal(op[c])
    <3>1. Promise!End(c, "returned", reply[c])
      BY <2>2, EndStep DEF ReceivePoll
    <3> QED
      BY <2>0, <2>2, <3>1, ReturnIsPromised DEF ReceivePoll, Way
  <2>3. CASE reply[c] \notin Bodies /\ IsDone(op[c], reply[c]) /\ reply[c] # Goal(op[c])
    <3>1. Promise!End(c, "InvalidResourceStateError", reply[c])
      BY <2>3, EndStep DEF ReceivePoll
    <3> QED
      BY <2>0, <2>3, <3>1, StateIsPromised DEF ReceivePoll, IsDone, Way
  <2>4. CASE reply[c] \notin Bodies /\ ~IsDone(op[c], reply[c])
    <3>1. Stages' = [Stages EXCEPT ![c] = "open"]
      BY <2>4, RequestStep DEF ReceivePoll
    <3>2. Stages' = Stages
      BY <2>0, <3>1 DEF Stages
    <3> QED
      BY <2>4, <3>2, QuietStep DEF ReceivePoll
  <2> QED
    BY <2>1, <2>2, <2>3, <2>4
<1> QED BY <1>1, <1>2, <1>3, <1>s, <1>4, <1>5

\* A waiting call polls again.
LEMMA WakeUpKeeps ==
    ASSUME NEW c \in Clients, IInv, WakeUp(c)
    PROVE  IInv' /\ Promised
<1> USE Answers, Refusals DEF IInv
<1>1. TypeOK'
  BY CallsAssumption DEF TypeOK, Outcome, CallFits, WakeUp, Request, Waiting
<1>2. CallFits'
  BY <1>1 DEF TypeOK, CallFits, WakeUp, Request, Waiting
<1>3. SinceIsKept'
  BY DEF TypeOK, CallFits, SinceIsKept, UnderWay, WakeUp, Request, Waiting
<1>s. NothingSeen'
  BY <1>1 DEF TypeOK, CallFits, NothingSeen, UnderWay, WakeUp, Request, Waiting
<1>4. OutcomeIsTrue'
  <2>1. TellsTruth(c)'
    BY DEF TypeOK, TellsTruth, WakeUp, Request, CallFits
  <2> QED
    BY <2>1, OutcomeStep DEF TypeOK, WakeUp, Request
<1>5. Promised
  <2>1. Stages[c] = "open"
    BY DEF WakeUp, Stages, Stage
  <2>2. Stages' = [Stages EXCEPT ![c] = "open"]
    BY RequestStep DEF WakeUp, Waiting
  <2>3. Stages' = Stages
    BY <2>1, <2>2 DEF Stages
  <2> QED
    BY <2>3, QuietStep DEF WakeUp
<1> QED BY <1>1, <1>2, <1>3, <1>s, <1>4, <1>5

\* The answer to the reading of an attribute comes.
LEMMA ReceiveAttributeKeeps ==
    ASSUME NEW c \in Clients, IInv, ReceiveAttribute(c)
    PROVE  IInv' /\ Promised
<1> USE Answers, Refusals DEF IInv
<1>1. TypeOK'
  BY CallsAssumption DEF TypeOK, Outcome, CallFits, ReceiveAttribute, End, Waiting
<1>2. CallFits'
  BY <1>1 DEF TypeOK, CallFits, ReceiveAttribute, End, Waiting
<1>3. SinceIsKept'
  BY DEF TypeOK, CallFits, SinceIsKept, UnderWay, ReceiveAttribute, End, Waiting
<1>s. NothingSeen'
  BY <1>1 DEF TypeOK, CallFits, NothingSeen, UnderWay, ReceiveAttribute, End, Waiting
<1>4. OutcomeIsTrue'
  <2>1. TellsTruth(c)'
    BY DEF TypeOK, TellsTruth, ReceiveAttribute, End, CallFits
  <2> QED
    BY <2>1, OutcomeStep DEF TypeOK, ReceiveAttribute, End
<1>5. Promised
  <2>0. /\ op[c] \in Attribute /\ Stages[c] = "open" /\ desc[c] \in Status
        /\ desc' = [desc EXCEPT ![c] = desc[c]]
    BY DEF TypeOK, CallFits, ReceiveAttribute, Stages, Stage
  <2>1. CASE reply[c] = "accepted"
    <3>1. Promise!End(c, "returned", desc[c])
      BY <2>0, <2>1, EndStep DEF ReceiveAttribute
    <3>2. Promise!Shows(c, desc[c])
      BY <2>0, SameStates DEF Promise!Shows
    <3>3. Promise!Return(c)
      BY <2>0, <3>1, <3>2, SameStates DEF ReceiveAttribute, Promise!Return
    <3> QED
      BY <3>3 DEF Promised, Promise!Next
  <2>2. CASE reply[c] # "accepted"
    <3>0. reply[c] \in Bodies
      BY <2>2 DEF CallFits, ReceiveAttribute
    <3>1. Promise!End(c, ToException(reply[c]), desc[c])
      BY <2>0, <2>2, EndStep DEF ReceiveAttribute
    <3> QED
      BY <2>0, <3>0, <3>1, Refusals, RefusalIsPromised DEF ReceiveAttribute
  <2> QED
    BY <2>1, <2>2
<1> QED BY <1>1, <1>2, <1>3, <1>s, <1>4, <1>5

\* A request of a client fails.
LEMMA RequestFailsKeeps ==
    ASSUME NEW c \in Clients, IInv, RequestFails(c)
    PROVE  IInv' /\ Promised
<1> USE Answers, Refusals DEF IInv
<1>1. TypeOK'
  BY CallsAssumption DEF TypeOK, Outcome, CallFits, RequestFails, End, Waiting
<1>2. CallFits'
  BY <1>1 DEF TypeOK, CallFits, RequestFails, End, Waiting
<1>3. SinceIsKept'
  BY DEF TypeOK, CallFits, SinceIsKept, UnderWay, RequestFails, End, Waiting
<1>s. NothingSeen'
  BY <1>1 DEF TypeOK, CallFits, NothingSeen, UnderWay, RequestFails, End, Waiting
<1>4. OutcomeIsTrue'
  <2>1. TellsTruth(c)'
    BY DEF TypeOK, TellsTruth, RequestFails, End
  <2> QED
    BY <2>1, OutcomeStep DEF TypeOK, RequestFails, End
<1>5. Promised
  <2>1. /\ Stages[c] # "none"
        /\ Stages[c] = "sent" <=> pc[c] = "command" /\ reply[c] = "pending"
    BY Refusals DEF TypeOK, CallFits, RequestFails, Stages, Stage, Waiting
  <2>2. Stages' = [Stages EXCEPT ![c] = "none"]
    BY StageStep DEF RequestFails, End, Stage
  <2>3. Promise!Break(c)
    BY <2>1, <2>2 DEF RequestFails, End, Promise!Break
  <2> QED
    BY <2>3 DEF Promised, Promise!Next
<1> QED BY <1>1, <1>2, <1>3, <1>s, <1>4, <1>5

-----------------------------------------------------------------------------
(* Every action of the manager keeps the invariant, and is promised.       *)

\* The manager answers a command.
LEMMA ServeCommandKeeps ==
    ASSUME NEW c \in Clients, IInv, ServeCommand(c)
    PROVE  IInv' /\ Promised
<1> USE Answers, Refusals DEF IInv
<1>1. TypeOK'
  <2>1. status' \in Status \cup {"absent"}
    BY DEF TypeOK, CallFits, ServeCommand, Change
  <2>2. since' \in [Clients -> SUBSET (Status \cup {"absent"})]
    <3>1. CASE UNCHANGED since
      BY <3>1 DEF TypeOK
    <3>2. CASE \E s : Change(s, {c})
      BY <2>1, <3>2 DEF TypeOK, Change
    <3> QED BY <3>1, <3>2 DEF ServeCommand
  <2>3. reply' \in [Clients -> Status \cup Bodies \cup {"pending", "accepted"}]
    BY DEF TypeOK, ServeCommand, Answer, Status
  <2> QED BY <2>1, <2>2, <2>3 DEF TypeOK, ServeCommand
<1>2. CallFits'
  BY <1>1 DEF TypeOK, CallFits, ServeCommand, Answer, Change, Status, Transition
<1>3. SinceIsKept'
  BY <1>1 DEF TypeOK, CallFits, SinceIsKept, UnderWay, ServeCommand, Answer, Change
<1>s. NothingSeen'
  BY <1>1 DEF TypeOK, CallFits, NothingSeen, UnderWay, ServeCommand, Answer, Change
<1>4. OutcomeIsTrue'
  <2>1. CASE UNCHANGED since
    BY <2>1 DEF OutcomeIsTrue, TellsTruth, ServeCommand
  <2>2. CASE \E s : Change(s, {c})
    BY <2>2, ChangeTells DEF ServeCommand
  <2> QED
    BY <2>1, <2>2 DEF ServeCommand
<1>5. Promised
  <2>0. op[c] \in Commands /\ Stages[c] = "sent"
    BY DEF CallFits, ServeCommand, Stages, Stage
  <2>1. ASSUME NEW s, NEW r \in {"STOPPED", "accepted"}, Change(s, {c}), Answer(c, r)
        PROVE  Promise!Becomes(s, {c}) /\ Stages' = [Stages EXCEPT ![c] = "open"]
    <3>1. pc' = [pc EXCEPT ![c] = "command"] /\ Stage("command", r) = "open"
      BY <2>1, Refusals DEF TypeOK, ServeCommand, Stage, Status
    <3>2. Stages' = [Stages EXCEPT ![c] = "open"]
      BY <2>1, <3>1, StageStep DEF Answer
    <3> QED
      BY <2>1, <3>2, ChangeIsPromised DEF ServeCommand
  <2>2. CASE /\ Effective(op[c], status) /\ Change(Effect(op[c]), {c})
             /\ Answer(c, IF op[c] = "add" THEN "STOPPED" ELSE "accepted")
    <3>1. Promise!Accept(c)
      BY <2>0, <2>1, <2>2, SameStates DEF ServeCommand, Promise!Accept
    <3> QED
      BY <3>1 DEF Promised, Promise!Next
  <2>3. CASE op[c] \in Transition /\ status # "absent" /\ Change(status, {c}) /\ Answer(c, "accepted")
    <3>1. Promise!Accept(c)
      BY <2>0, <2>1, <2>3, SameStates DEF ServeCommand, Promise!Accept
    <3> QED
      BY <3>1 DEF Promised, Promise!Next
  <2>4. CASE (\E b \in Bodies : Answer(c, b)) /\ UNCHANGED <<status, since>>
    <3>0. PICK b \in Bodies : Answer(c, b)
      BY <2>4
    <3>1. pc' = [pc EXCEPT ![c] = "command"] /\ Stage("command", b) = ToException(b)
      BY Refusals DEF TypeOK, ServeCommand, Stage
    <3>2. Stages' = [Stages EXCEPT ![c] = ToException(b)]
      BY <3>0, <3>1, StageStep DEF Answer
    <3>3. Promise!Refuse(c)
      BY <2>0, <2>4, <3>2, Refusals, SameStates DEF ServeCommand, Promise!Refuse
    <3> QED
      BY <3>3 DEF Promised, Promise!Next
  <2> QED
    BY <2>2, <2>3, <2>4 DEF ServeCommand
<1> QED BY <1>1, <1>2, <1>3, <1>s, <1>4, <1>5

\* The manager reports the status.
LEMMA ServeReadKeeps ==
    ASSUME NEW c \in Clients, IInv, ServeRead(c)
    PROVE  IInv' /\ Promised
<1> USE Answers, Refusals DEF IInv
<1>1. TypeOK'
  BY DEF TypeOK, CallFits, ServeRead, Answer, UnderWay, Status, Commands
<1>2. CallFits'
  BY <1>1 DEF TypeOK, CallFits, ServeRead, Answer, Status
<1>3. SinceIsKept'
  BY <1>1 DEF TypeOK, CallFits, SinceIsKept, UnderWay, ServeRead, Answer
<1>s. NothingSeen'
  BY <1>1 DEF TypeOK, CallFits, NothingSeen, UnderWay, ServeRead, Answer
<1>4. OutcomeIsTrue'
  BY DEF TypeOK, CallFits, OutcomeIsTrue, TellsTruth, ServeRead, Answer
<1>5. Promised
  <2>1. Stages' = Stages
    BY DEF TypeOK, ServeRead, Answer, Stages, Stage
  <2> QED
    BY <2>1, QuietStep DEF ServeRead
<1> QED BY <1>1, <1>2, <1>3, <1>s, <1>4, <1>5

\* The manager answers the reading of an attribute.
LEMMA ServeAttributeKeeps ==
    ASSUME NEW c \in Clients, IInv, ServeAttribute(c)
    PROVE  IInv' /\ Promised
<1> USE Answers, Refusals DEF IInv
<1>1. TypeOK'
  BY DEF TypeOK, CallFits, ServeAttribute, Answer, UnderWay, Status, Commands
<1>2. CallFits'
  BY <1>1 DEF TypeOK, CallFits, ServeAttribute, Answer, Status
<1>3. SinceIsKept'
  BY <1>1 DEF TypeOK, CallFits, SinceIsKept, UnderWay, ServeAttribute, Answer
<1>s. NothingSeen'
  BY <1>1 DEF TypeOK, CallFits, NothingSeen, UnderWay, ServeAttribute, Answer
<1>4. OutcomeIsTrue'
  BY DEF TypeOK, CallFits, OutcomeIsTrue, TellsTruth, ServeAttribute, Answer
<1>5. Promised
  <2>1. Stages' = Stages
    BY DEF TypeOK, ServeAttribute, Answer, Stages, Stage
  <2> QED
    BY <2>1, QuietStep DEF ServeAttribute
<1> QED BY <1>1, <1>2, <1>3, <1>s, <1>4, <1>5

\* A command is carried out after its sender gave up.
LEMMA ServeLateKeeps ==
    ASSUME IInv, ServeLate
    PROVE  IInv' /\ Promised
<1> USE Answers, Refusals DEF IInv
<1>1. TypeOK'
  BY DEF TypeOK, CallFits, ServeLate, Change, clientVars, UnderWay, Status, Commands
<1>2. CallFits'
  BY <1>1 DEF TypeOK, CallFits, ServeLate, Change, clientVars, Status
<1>3. SinceIsKept'
  BY <1>1 DEF TypeOK, CallFits, SinceIsKept, UnderWay, ServeLate, Change, clientVars
<1>s. NothingSeen'
  BY <1>1 DEF TypeOK, CallFits, NothingSeen, UnderWay, ServeLate, Change, clientVars
<1>4. OutcomeIsTrue'
  BY ChangeTells DEF ServeLate, clientVars
<1>5. Promised
  <2>1. PICK o \in Commands : /\ late[o] > 0 /\ late' = [late EXCEPT ![o] = @ - 1]
                              /\ Effective(o, status) /\ Change(Effect(o), {})
    BY DEF ServeLate
  <2>2. Stages' = Stages /\ UNCHANGED <<op, nowait, desc, outcome>>
    BY DEF ServeLate, clientVars, Stages
  <2>3. Promise!Becomes(Effect(o), {})
    BY <2>1, <2>2, ChangeIsPromised
  <2>4. Promise!CatchUp(o)
    BY <2>1, <2>2, <2>3, SameStates DEF Promise!CatchUp
  <2> QED
    BY <2>4, SameStates DEF Promised, Promise!Next
<1> QED BY <1>1, <1>2, <1>3, <1>s, <1>4, <1>5

\* A start or a stop of the instance ends.
LEMMA SettleKeeps ==
    ASSUME IInv, Settle
    PROVE  IInv' /\ Promised
<1> USE Answers, Refusals DEF IInv
<1>1. TypeOK'
  BY DEF TypeOK, CallFits, Settle, Change, clientVars, UnderWay, Status, Commands
<1>2. CallFits'
  BY <1>1 DEF TypeOK, CallFits, Settle, Change, clientVars, Status
<1>3. SinceIsKept'
  BY <1>1 DEF TypeOK, CallFits, SinceIsKept, UnderWay, Settle, Change, clientVars
<1>s. NothingSeen'
  BY <1>1 DEF TypeOK, CallFits, NothingSeen, UnderWay, Settle, Change, clientVars
<1>4. OutcomeIsTrue'
  BY ChangeTells DEF Settle, clientVars
<1>5. Promised
  <2>1. Stages' = Stages /\ UNCHANGED <<op, nowait, desc, outcome, late>>
    BY DEF Settle, clientVars, Stages
  <2>2. PICK o \in Transition : status = Transient(o) /\ \E s \in {Goal(o), "FAILED"} : Change(s, {})
    BY DEF Settle
  <2>s. PICK s \in {Goal(o), "FAILED"} : Change(s, {})
    BY <2>2
  <2>3. Promise!Becomes(s, {})
    BY <2>1, <2>s, ChangeIsPromised
  <2>4. Promise!Settle
    BY <2>1, <2>2, <2>s, <2>3, SameStates DEF Promise!Settle
  <2> QED
    BY <2>4 DEF Promised, Promise!Next
<1> QED BY <1>1, <1>2, <1>3, <1>s, <1>4, <1>5

\* The running instance fails.
LEMMA FailKeeps ==
    ASSUME IInv, Fail
    PROVE  IInv' /\ Promised
<1> USE Answers, Refusals DEF IInv
<1>1. TypeOK'
  BY DEF TypeOK, CallFits, Fail, Change, clientVars, UnderWay, Status, Commands
<1>2. CallFits'
  BY <1>1 DEF TypeOK, CallFits, Fail, Change, clientVars, Status
<1>3. SinceIsKept'
  BY <1>1 DEF TypeOK, CallFits, SinceIsKept, UnderWay, Fail, Change, clientVars
<1>s. NothingSeen'
  BY <1>1 DEF TypeOK, CallFits, NothingSeen, UnderWay, Fail, Change, clientVars
<1>4. OutcomeIsTrue'
  BY ChangeTells DEF Fail, clientVars
<1>5. Promised
  <2>1. Stages' = Stages /\ UNCHANGED <<op, nowait, desc, outcome, late>>
    BY DEF Fail, clientVars, Stages
  <2>2. Promise!Becomes("FAILED", {})
    BY <2>1, ChangeIsPromised DEF Fail
  <2>3. Promise!Fail
    BY <2>1, <2>2 DEF Fail, Promise!Fail
  <2> QED
    BY <2>3 DEF Promised, Promise!Next
<1> QED BY <1>1, <1>2, <1>3, <1>s, <1>4, <1>5

-----------------------------------------------------------------------------
\* Every step keeps the invariant and is promised.
LEMMA NextKeeps == IInv /\ [Next]_vars => IInv' /\ Promised
<1> SUFFICES ASSUME IInv, [Next]_vars PROVE IInv' /\ Promised
  OBVIOUS
<1>1. ASSUME NEW c \in Clients, Client(c) PROVE IInv' /\ Promised
  <2>1. ASSUME NEW o \in Commands, NEW nw \in BOOLEAN, BeginCommand(c, o, nw) PROVE IInv' /\ Promised
    BY <2>1, BeginCommandKeeps
  <2>2. ASSUME NEW a \in Attribute, BeginAttribute(c, a) PROVE IInv' /\ Promised
    BY <2>2, BeginAttributeKeeps
  <2>3. CASE Proceed(c)
    BY <2>3, ReceiveCommandKeeps, ReceiveReloadKeeps, ReceivePollKeeps, WakeUpKeeps,
       ReceiveAttributeKeeps, RequestFailsKeeps DEF Proceed
  <2> QED BY <1>1, <2>1, <2>2, <2>3, BeginReadKeeps DEF Client, Commands
<1>2. CASE Manager
  BY <1>2, ServeLateKeeps, SettleKeeps, FailKeeps, ServeCommandKeeps, ServeReadKeeps,
     ServeAttributeKeeps DEF Manager
<1>3. CASE UNCHANGED vars
  <2>1. IInv'
    BY <1>3 DEF vars, clientVars, IInv, TypeOK, CallFits, SinceIsKept, NothingSeen, UnderWay,
       OutcomeIsTrue, TellsTruth
  <2>2. Promised
    BY <1>3, QuietStep DEF vars, clientVars, Stages
  <2> QED BY <2>1, <2>2
<1> QED BY <1>1, <1>2, <1>3 DEF Next

\* The inductive invariant holds throughout.
THEOREM Invariance == Spec => []IInv
  BY InitHolds, NextKeeps, PTL DEF Spec

\* The type invariant, for any clients and any number of calls.
THEOREM TypeCorrect == Spec => []TypeOK
  BY Invariance, PTL DEF IInv

\* OutcomeIsTrue: what start(), stop() and a read tell was true since their PUT was accepted,
\* or since they began.
THEOREM OutcomesAreTrue == Spec => []OutcomeIsTrue
  BY Invariance, PTL DEF IInv

\* KeepsPromise: the calls with their requests one after the other, waits and polls, lost and
\* late commands, implement InstancePromise.
THEOREM ImplementsPromise == Spec => KeepsPromise
<1>1. Init => Promise!Init
  BY SameStates DEF Init, Promise!Init, Stages, Stage
<1>2. IInv /\ [Next]_vars => [Promise!Next]_(Promise!vars)
  BY NextKeeps DEF Promised
<1> QED
  BY <1>1, <1>2, Invariance, PTL DEF Spec, KeepsPromise, Promise!Spec
=============================================================================
