------------------------- MODULE FileAttachmentProofs -------------------------
(***************************************************************************)
(* Proofs about FileAttachment, for any clients, any URLs and any number   *)
(* of calls.                                                               *)
(***************************************************************************)
EXTENDS FileAttachment, TLAPS

\* The requests that a method makes.
Fits(o, w) ==
    CASE w \in {"value", "open"} -> o = "put"
      [] w = "upload" -> o \in {"put", "putBytes"}
      [] w \in {"read", "unattach", "write"} -> o = "delete"
      [] w = "download" -> o = "get"
      [] w = "url" -> o \in Op

\* A client that is not idle is making its last call, which nobody else makes.
Own ==
    /\ \A c \in Clients : pc[c] # "idle" =>
         mine[c] # 0 /\ outcome[mine[c]] = "open" /\ Fits(op[mine[c]], pc[c])
    /\ \A c, d \in Clients : mine[c] = mine[d] /\ mine[c] # 0 => c = d

\* Call `solo' writes, and nobody else does since it began.
Alone ==
    solo # 0 => /\ op[solo] \in Writing
                /\ \A c \in Clients : Busy(c) => mine[c] = solo

\* What call k has done when its client waits for w and has the answer r, if it is alone.
Stage(k, w, r) ==
    /\ op[k] = "put" /\ (w \in {"url", "open", "upload"} \/ (w = "value" /\ r = "ok"))
       => name = k
    /\ w = "upload" /\ r = "ok" => file = k
    /\ w = "write" \/ (w = "unattach" /\ r = "ok") => file = None
    /\ w = "write" /\ r = "ok" => name = None

Stages ==
    \A c \in Clients : pc[c] # "idle" /\ mine[c] = solo => Stage(solo, pc[c], reply[c])

\* The requests of a call that were carried out when its client waits for w and has the
\* answer r.
Earlier(o, w) ==
    CASE o = "put" /\ w \in {"url", "open", "upload"} -> {"value"}
      [] w = "write" -> {"unattach"}
      [] OTHER -> {}

Done(o, w, r) == Earlier(o, w) \cup (IF r = "ok" THEN {w} \cap Changing ELSE {})

Progress ==
    \A c \in Clients, r \in Changing :
        pc[c] # "idle" => (<<mine[c], r>> \in did <=> r \in Done(op[mine[c]], pc[c], reply[c]))

\* A call leaves one request behind at most, when it raises; it is the next one that the call
\* owes.  Calls that were not made have not begun.
Owed ==
    /\ \A x \in late : outcome[x.call] = "raised" /\ Store!Due(x.call, x.request)
    /\ \A x, y \in late : x.call = y.call => x = y
    /\ \A k \in Calls : k > calls => outcome[k] = "none"

\* put_attachment never attaches a file that the element was not named after before: who
\* finds its bytes can find, or could have found, its name.
AttachedWasNamed ==
    file # None /\ file # 0 /\ op[file] = "put" => <<file, "value">> \in did

IInv == TypeOK /\ SoloTakesEffect /\ AttachedWasNamed /\ Own /\ Alone /\ Stages /\ Progress /\ Owed

\* A step of AttachmentStore, or none.
Promised == [Store!Next]_(Store!vars)

LEMMA InitInvariant == Init => IInv
<1> SUFFICES ASSUME Init PROVE IInv
  OBVIOUS
<1> USE CallsAssumption, NoneAssumption
<1>1. TypeOK
  BY DEF Init, TypeOK, Source, Calls
<1>2. SoloTakesEffect /\ AttachedWasNamed
  BY DEF Init, SoloTakesEffect, AttachedWasNamed, Calls
<1>3. Own /\ Alone /\ Stages /\ Progress /\ Owed
  BY DEF Init, Own, Alone, Stages, Progress, Owed
<1> QED
  BY <1>1, <1>2, <1>3 DEF IInv

\* What AttachmentStore does not see changes nothing in it.
LEMMA QuietStep == UNCHANGED <<name, file, op, did, late, outcome>> => Promised
  BY DEF Promised, Store!vars, Behind

\* Who waits is in its call, which was made.
LEMMA ActiveCalls ==
    ASSUME IInv, NEW c \in Clients, pc[c] # "idle"
    PROVE  mine[c] \in 1 .. calls /\ mine[c] \in Calls /\ op[mine[c]] \in Op
<1> USE CallsAssumption
<1>1. TypeOK /\ Own
  BY DEF IInv
<1>2. mine[c] \in 0 .. calls /\ mine[c] # 0 /\ calls \in 0 .. MaxCalls
  BY <1>1 DEF TypeOK, Own
<1>3. op[mine[c]] \in Op
  <2>1. /\ pc[c] \in {"value", "read", "write", "upload", "unattach", "download", "url", "open"}
        /\ Fits(op[mine[c]], pc[c])
    BY <1>1 DEF TypeOK, Own, Waiting, ToManager, ToServer
  <2>2. CASE pc[c] = "url"
    BY <2>1, <2>2 DEF Fits
  <2>3. CASE pc[c] # "url"
    <3>1. op[mine[c]] \in {"put", "putBytes", "delete", "get"}
      BY <2>1, <2>3 DEF Fits
    <3> QED
      BY <3>1 DEF Op, Writing
  <2> QED
    BY <2>2, <2>3
<1> QED
  BY <1>2, <1>3 DEF Calls

\* A request that changes something and was not carried out is the one that its call owes.
LEMMA PendingIsDue ==
    ASSUME IInv, NEW c \in Clients, pc[c] \in Changing, reply[c] # "ok"
    PROVE  Store!Due(mine[c], pc[c])
<1> DEFINE k == mine[c]
<1>1. pc[c] # "idle" /\ Own /\ Progress
  BY DEF IInv, Changing
<1>2. Fits(op[k], pc[c])
  BY <1>1 DEF Own
<1>3. \A r \in Changing : <<k, r>> \in did <=> r \in Earlier(op[k], pc[c])
  BY <1>1 DEF Progress, Done
<1>4. CASE pc[c] = "value"
  BY <1>2, <1>3, <1>4 DEF Fits, Earlier, Changing, Store!Due, Store!Parts, Store!Ahead
<1>5. CASE pc[c] = "upload"
  BY <1>2, <1>3, <1>5 DEF Fits, Earlier, Changing, Store!Due, Store!Parts, Store!Ahead
<1>6. CASE pc[c] = "unattach"
  BY <1>2, <1>3, <1>6 DEF Fits, Earlier, Changing, Store!Due, Store!Parts, Store!Ahead
<1>7. CASE pc[c] = "write"
  BY <1>2, <1>3, <1>7 DEF Fits, Earlier, Changing, Store!Due, Store!Parts, Store!Ahead
<1> QED
  BY <1>4, <1>5, <1>6, <1>7 DEF Changing

\* A client goes on with request w of its call.
LEMMA GoesOn ==
    ASSUME IInv, NEW c \in Clients, pc[c] # "idle",
           NEW w \in Waiting \cup {"open"}, Request(c, w),
           UNCHANGED <<mine, calls, op, outcome, where, name, file, late, did, solo>>,
           url' \in [Clients -> {None} \cup Urls],
           Fits(op[mine[c]], w),
           mine[c] = solo => Stage(solo, w, "pending"),
           Done(op[mine[c]], w, "pending") = Done(op[mine[c]], pc[c], reply[c])
    PROVE  IInv' /\ Promised
<1>0. TypeOK /\ SoloTakesEffect /\ AttachedWasNamed /\ Own /\ Alone /\ Stages /\ Progress /\ Owed
  BY DEF IInv
<1>p. /\ pc' = [pc EXCEPT ![c] = w] /\ reply' = [reply EXCEPT ![c] = "pending"]
      /\ w # "idle"
      /\ pc \in [Clients -> Waiting \cup {"idle", "open"}]
      /\ reply \in [Clients -> {"pending", "ok", "refused"}]
  BY <1>0 DEF Request, TypeOK, Waiting, ToManager, ToServer
<1>d. \A d \in Clients \ {c} : pc'[d] = pc[d] /\ reply'[d] = reply[d]
  BY <1>p
<1>c. pc'[c] = w /\ reply'[c] = "pending"
  BY <1>p
<1>1. TypeOK'
  BY <1>0, <1>p DEF TypeOK, Source
<1>2. SoloTakesEffect' /\ AttachedWasNamed'
  BY <1>0 DEF SoloTakesEffect, AttachedWasNamed
<1>3. Own'
  BY <1>0, <1>c, <1>d DEF Own
<1>4. Alone'
  BY <1>0, <1>c, <1>d DEF Alone, Busy
<1>5. Stages'
  <2> SUFFICES ASSUME NEW d \in Clients, pc'[d] # "idle", mine[d] = solo
               PROVE  Stage(solo, pc'[d], reply'[d])
    BY DEF Stages, Stage
  <2>1. CASE d = c
    BY <1>c, <2>1
  <2>2. CASE d # c
    BY <1>0, <1>d, <2>2 DEF Stages
  <2> QED
    BY <2>1, <2>2
<1>6. Progress'
  <2> SUFFICES ASSUME NEW d \in Clients, NEW r \in Changing, pc'[d] # "idle"
               PROVE  <<mine[d], r>> \in did <=> r \in Done(op[mine[d]], pc'[d], reply'[d])
    BY DEF Progress, Done, Earlier
  <2>1. CASE d = c
    BY <1>0, <1>c, <2>1 DEF Progress
  <2>2. CASE d # c
    BY <1>0, <1>d, <2>2 DEF Progress
  <2> QED
    BY <2>1, <2>2
<1>7. Owed'
  BY <1>0 DEF Owed, Store!Due, Store!Parts, Store!Ahead
<1> QED
  BY <1>1, <1>2, <1>3, <1>4, <1>5, <1>6, <1>7, QuietStep DEF IInv

\* The call of a client ends with o, and may leave the request behind that it waits for.
LEMMA CallEnds ==
    ASSUME IInv, NEW c \in Clients, pc[c] # "idle", NEW o \in {"done", "raised"}, End(c, o),
           UNCHANGED <<mine, url, calls, op, where, name, file, did, solo>>,
           \/ late' = late
           \/ /\ o = "raised" /\ pc[c] \in Changing /\ reply[c] = "pending"
              /\ \E u \in {None} \cup Urls :
                   late' = late \cup {[call |-> mine[c], request |-> pc[c], url |-> u]},
           o = "done" => \A r \in Store!Parts(op[mine[c]]) : <<mine[c], r>> \in did,
           o = "done" /\ mine[c] = solo =>
             CASE op[solo] = "put" -> name = solo /\ file = solo
               [] op[solo] = "putBytes" -> file = solo
               [] op[solo] = "delete" -> name = None /\ file = None
    PROVE  IInv' /\ Promised
<1> DEFINE k == mine[c]
<1>0. TypeOK /\ SoloTakesEffect /\ AttachedWasNamed /\ Own /\ Alone /\ Stages /\ Progress /\ Owed
  BY DEF IInv
<1>p. /\ pc' = [pc EXCEPT ![c] = "idle"] /\ reply' = [reply EXCEPT ![c] = "pending"]
      /\ outcome' = [outcome EXCEPT ![mine[c]] = o]
      /\ pc \in [Clients -> Waiting \cup {"idle", "open"}]
      /\ reply \in [Clients -> {"pending", "ok", "refused"}]
      /\ outcome \in [Calls -> {"none", "open", "done", "raised"}]
  BY <1>0 DEF End, Request, TypeOK
<1>d. \A d \in Clients \ {c} : pc'[d] = pc[d] /\ reply'[d] = reply[d]
  BY <1>p
<1>c. pc'[c] = "idle"
  BY <1>p
<1>a. k \in 1 .. calls /\ k \in Calls /\ outcome[k] = "open" /\ outcome'[k] = o
  BY <1>0, <1>p, ActiveCalls DEF Own
<1>l. \/ late' = late
      \/ /\ o = "raised" /\ pc[c] \in Changing /\ Store!Due(k, pc[c])
         /\ \E u \in {None} \cup Urls :
              late' = late \cup {[call |-> k, request |-> pc[c], url |-> u]}
  BY PendingIsDue
<1>1. TypeOK'
  <2>1. late' \subseteq [call : 1 .. calls, request : Changing, url : {None} \cup Urls]
    BY <1>0, <1>a, <1>l DEF TypeOK
  <2> QED
    BY <1>0, <1>p, <2>1 DEF TypeOK, Source
<1>2. SoloTakesEffect'
  <2> SUFFICES ASSUME NEW j \in Calls, solo = j, outcome'[j] = "done"
               PROVE  CASE op[j] = "put" -> name = j /\ file = j
                        [] op[j] = "putBytes" -> file = j
                        [] op[j] = "delete" -> name = None /\ file = None
    BY DEF SoloTakesEffect
  <2>1. CASE j = mine[c]
    BY <1>p, <2>1
  <2>2. CASE j # mine[c]
    BY <1>0, <1>p, <2>2 DEF SoloTakesEffect
  <2> QED
    BY <2>1, <2>2
<1>3. AttachedWasNamed'
  BY <1>0 DEF AttachedWasNamed
<1>4. Own'
  <2>1. ASSUME NEW d \in Clients, pc'[d] # "idle"
        PROVE  mine[d] # 0 /\ outcome'[mine[d]] = "open" /\ Fits(op[mine[d]], pc'[d])
    <3>1. d # c /\ pc'[d] = pc[d]
      BY <1>c, <1>d, <2>1
    <3>2. mine[d] # 0 /\ outcome[mine[d]] = "open" /\ Fits(op[mine[d]], pc[d])
      BY <1>0, <2>1, <3>1 DEF Own
    <3>3. mine[d] # mine[c]
      BY <1>0, <3>1, <3>2 DEF Own
    <3>4. mine[d] \in Calls
      BY <2>1, <3>1, ActiveCalls
    <3> QED
      BY <1>p, <3>1, <3>2, <3>3, <3>4
  <2> QED
    BY <1>0, <2>1 DEF Own
<1>5. Alone'
  BY <1>0, <1>c, <1>d DEF Alone, Busy
<1>6. Stages'
  <2> SUFFICES ASSUME NEW d \in Clients, pc'[d] # "idle", mine[d] = solo
               PROVE  Stage(solo, pc'[d], reply'[d])
    BY DEF Stages, Stage
  <2> QED
    BY <1>0, <1>c, <1>d DEF Stages
<1>7. Progress'
  <2> SUFFICES ASSUME NEW d \in Clients, NEW r \in Changing, pc'[d] # "idle"
               PROVE  <<mine[d], r>> \in did <=> r \in Done(op[mine[d]], pc'[d], reply'[d])
    BY DEF Progress, Done, Earlier
  <2> QED
    BY <1>0, <1>c, <1>d DEF Progress
<1>8. Owed'
  <2>1. ASSUME NEW x \in late' PROVE outcome'[x.call] = "raised" /\ Store!Due(x.call, x.request)
    <3>1. CASE x \in late
      <4>1. outcome[x.call] = "raised" /\ Store!Due(x.call, x.request) /\ x.call \in 1 .. calls
        BY <1>0, <3>1 DEF Owed, TypeOK
      <4> QED
        BY <1>p, <1>a, <4>1
    <3>2. CASE x \notin late
      BY <1>a, <1>l, <2>1, <3>2
    <3> QED
      BY <3>1, <3>2
  <2>2. ASSUME NEW x \in late', NEW y \in late', x.call = y.call PROVE x = y
    <3>1. \A z \in late : z.call # k
      BY <1>0, <1>a DEF Owed
    <3> QED
      BY <1>0, <1>l, <2>2, <3>1 DEF Owed
  <2>3. \A j \in Calls : j > calls => outcome'[j] = "none"
    BY <1>0, <1>p, <1>a, CallsAssumption DEF Owed, TypeOK, Calls
  <2> QED
    BY <2>1, <2>2, <2>3 DEF Owed, Store!Due, Store!Parts, Store!Ahead
<1>9. Promised
  <2>1. k \in Store!Calls /\ UNCHANGED <<name, file, op, did>>
    BY <1>a DEF Calls, Store!Calls
  <2>2. CASE o = "done"
    <3>1. Behind' = Behind
      BY <1>l, <2>2 DEF Behind
    <3>2. Store!Return(k)
      BY <1>p, <1>a, <2>1, <2>2, <3>1 DEF Store!Return
    <3> QED
      BY <2>1, <3>2 DEF Promised, Store!Next
  <2>3. CASE o = "raised"
    <3>1. CASE late' = late
      <4>1. Store!Raise(k)
        BY <1>p, <1>a, <2>1, <2>3, <3>1 DEF Store!Raise, Behind
      <4> QED
        BY <2>1, <4>1 DEF Promised, Store!Next
    <3>2. CASE late' # late
      <4>1. PICK u \in {None} \cup Urls :
              late' = late \cup {[call |-> k, request |-> pc[c], url |-> u]}
        BY <1>l, <3>2
      <4> DEFINE x == [call |-> k, request |-> pc[c], url |-> u]
      <4>a. late' = late \cup {x} /\ <<x.call, x.request>> = <<k, pc[c]>>
        BY <4>1
      <4>2. Behind' = Behind \cup {<<k, pc[c]>>}
        <5> HIDE DEF x
        <5>1. Behind' = {<<z.call, z.request>> : z \in late \cup {x}}
          BY <4>a DEF Behind
        <5>2. @ = Behind \cup {<<x.call, x.request>>}
          BY Zenon DEF Behind
        <5> QED
          BY <4>a, <5>1, <5>2
      <4>3. Store!Due(k, pc[c]) /\ pc[c] \in Store!Parts(op[k])
        BY <1>l, <3>2 DEF Store!Due
      <4>4. Store!Raise(k)
        BY <1>p, <1>a, <2>1, <2>3, <4>2, <4>3 DEF Store!Raise
      <4> QED
        BY <2>1, <4>4 DEF Promised, Store!Next
    <3> QED
      BY <3>1, <3>2
  <2> QED
    BY <2>2, <2>3
<1> QED
  BY <1>1, <1>2, <1>3, <1>4, <1>5, <1>6, <1>7, <1>8, <1>9 DEF IInv

\* A call begins with a request that fits it.
LEMMA StartsWith ==
    ASSUME NEW c \in Clients, NEW o \in Op, Start(c, o)
    PROVE  \E w \in Waiting : /\ Request(c, w)
                              /\ Fits(o, w)
                              /\ w # "write"
                              /\ o = "put" => w = "value"
<1>1. CASE o = "put"
  BY <1>1 DEF Start, Fits, Waiting, ToManager
<1>2. CASE o = "delete"
  BY <1>2 DEF Start, Fits, Waiting, ToManager
<1>3. CASE o \in {"putBytes", "get"}
  <2>1. GoDirect(c, o)
    BY <1>3 DEF Start
  <2>2. Request(c, "url") \/ Request(c, Direct(o))
    BY <2>1 DEF GoDirect
  <2>3. /\ Direct(o) \in Waiting \ {"write"} /\ Fits(o, Direct(o))
        /\ "url" \in Waiting /\ Fits(o, "url")
    BY <1>3 DEF Direct, Fits, Op, Writing, Waiting, ToServer, ToManager
  <2> QED
    BY <1>3, <2>2, <2>3
<1> QED
  BY <1>1, <1>2, <1>3 DEF Op, Writing

\* A new call is alone if nobody else writes, and disturbs what others have done only
\* by not being alone.
LEMMA BeginInvariant ==
    ASSUME IInv, NEW c \in Clients, NEW o \in Op, Begin(c, o)
    PROVE  IInv' /\ Promised
<1> USE CallsAssumption
<1> DEFINE k == calls + 1
<1>0. TypeOK /\ SoloTakesEffect /\ AttachedWasNamed /\ Own /\ Alone /\ Stages /\ Progress /\ Owed
  BY DEF IInv
<1>w. PICK w \in Waiting : Request(c, w) /\ Fits(o, w) /\ w # "write" /\ (o = "put" => w = "value")
  BY StartsWith DEF Begin
<1>p. /\ pc[c] = "idle" /\ calls < MaxCalls /\ calls' = k
      /\ op' = [op EXCEPT ![k] = o] /\ outcome' = [outcome EXCEPT ![k] = "open"]
      /\ mine' = [mine EXCEPT ![c] = k]
      /\ pc' = [pc EXCEPT ![c] = w] /\ reply' = [reply EXCEPT ![c] = "pending"]
      /\ solo' = IF o \notin Writing THEN solo
                 ELSE IF \E d \in Clients : Busy(d) THEN 0 ELSE k
      /\ UNCHANGED <<url, where, name, file, late, did>>
  BY <1>w DEF Begin, Request
<1>t. /\ calls \in Nat /\ k \in Calls /\ w # "idle"
      /\ pc \in [Clients -> Waiting \cup {"idle", "open"}] /\ mine \in [Clients -> 0 .. calls]
      /\ reply \in [Clients -> {"pending", "ok", "refused"}]
      /\ op \in [Calls -> Op \cup {"none"}]
      /\ outcome \in [Calls -> {"none", "open", "done", "raised"}]
      /\ solo \in 0 .. calls
  BY <1>0, <1>p DEF TypeOK, Calls, Waiting, ToManager, ToServer
<1>c. pc'[c] = w /\ reply'[c] = "pending" /\ mine'[c] = k /\ op'[k] = o /\ outcome'[k] = "open"
  BY <1>p, <1>t
<1>d. \A d \in Clients \ {c} : pc'[d] = pc[d] /\ reply'[d] = reply[d] /\ mine'[d] = mine[d]
  BY <1>p, <1>t
<1>k. \A j \in 1 .. calls : j \in Calls /\ j # k /\ op'[j] = op[j] /\ outcome'[j] = outcome[j]
  BY <1>p, <1>t DEF Calls
<1>m. \A d \in Clients : pc[d] # "idle" => d # c /\ mine[d] \in 1 .. calls
  BY <1>p, ActiveCalls
<1>1. TypeOK'
  <2>1. mine' \in [Clients -> 0 .. calls'] /\ calls' \in 0 .. MaxCalls
    BY <1>p, <1>t, <1>0 DEF TypeOK
  <2>2. /\ name' \in Source' /\ file' \in Source' /\ did' \subseteq (1 .. calls') \X Changing
        /\ late' \subseteq [call : 1 .. calls', request : Changing, url : {None} \cup Urls]
    <3>1. 1 .. calls \subseteq 1 .. calls' /\ 0 .. calls \subseteq 0 .. calls'
      BY <1>p, <1>t
    <3> QED
      BY <1>0, <1>p, <3>1 DEF TypeOK, Source
  <2>3. solo' \in 0 .. calls'
    BY <1>p, <1>t
  <2>4. /\ pc' \in [Clients -> Waiting \cup {"idle", "open"}]
        /\ reply' \in [Clients -> {"pending", "ok", "refused"}]
        /\ op' \in [Calls -> Op \cup {"none"}]
        /\ outcome' \in [Calls -> {"none", "open", "done", "raised"}]
    BY <1>p, <1>t
  <2> QED
    BY <1>0, <1>p, <2>1, <2>2, <2>3, <2>4 DEF TypeOK
<1>2. SoloTakesEffect'
  <2> SUFFICES ASSUME NEW j \in Calls, solo' = j, outcome'[j] = "done"
               PROVE  CASE op'[j] = "put" -> name = j /\ file = j
                        [] op'[j] = "putBytes" -> file = j
                        [] op'[j] = "delete" -> name = None /\ file = None
    BY <1>p DEF SoloTakesEffect
  <2>1. j # k
    BY <1>c
  <2>2. j = solo /\ j \in 1 .. calls
    BY <1>p, <1>t, <2>1 DEF Calls
  <2> QED
    BY <1>0, <1>k, <2>2 DEF SoloTakesEffect
<1>3. AttachedWasNamed'
  <2>1. file # None /\ file # 0 => file \in 1 .. calls
    BY <1>0, <1>t DEF TypeOK, Source
  <2> QED
    BY <1>0, <1>p, <1>k, <2>1 DEF AttachedWasNamed
<1>4. Own'
  <2>1. ASSUME NEW d \in Clients, pc'[d] # "idle"
        PROVE  mine'[d] # 0 /\ outcome'[mine'[d]] = "open" /\ Fits(op'[mine'[d]], pc'[d])
    <3>1. CASE d = c
      BY <1>c, <1>t, <1>w, <3>1
    <3>2. CASE d # c
      BY <1>0, <1>d, <1>k, <1>m, <2>1, <3>2 DEF Own
    <3> QED
      BY <3>1, <3>2
  <2>2. ASSUME NEW d \in Clients, NEW e \in Clients, mine'[d] = mine'[e], mine'[d] # 0
        PROVE  d = e
    <3>1. \A x \in Clients : mine[x] # k
      BY <1>t
    <3> QED
      BY <1>0, <1>c, <1>d, <2>2, <3>1 DEF Own
  <2> QED
    BY <2>1, <2>2 DEF Own
<1>b. \A d \in Clients : d # c /\ pc'[d] # "idle" /\ op'[mine'[d]] \in Writing => Busy(d)
  BY <1>d, <1>k, <1>m DEF Busy
<1>5. Alone'
  <2>1. ASSUME solo' # 0, NEW d \in Clients, pc'[d] # "idle", op'[mine'[d]] \in Writing
        PROVE  mine'[d] = solo'
    <3>1. CASE o \in Writing
      BY <1>p, <1>c, <1>b, <2>1, <3>1
    <3>2. CASE o \notin Writing
      BY <1>0, <1>p, <1>c, <1>d, <1>b, <2>1, <3>2 DEF Alone
    <3> QED
      BY <3>1, <3>2
  <2>2. ASSUME solo' # 0 PROVE op'[solo'] \in Writing
    <3>1. CASE solo' = k
      BY <1>p, <1>c, <1>t, <3>1
    <3>2. CASE solo' # k
      <4>1. solo' = solo /\ solo \in 1 .. calls
        BY <1>p, <1>t, <2>2, <3>2
      <4> QED
        BY <1>0, <1>k, <4>1 DEF Alone
    <3> QED
      BY <3>1, <3>2
  <2> QED
    BY <2>1, <2>2 DEF Alone, Busy
<1>6. Stages'
  <2> SUFFICES ASSUME NEW d \in Clients, pc'[d] # "idle", mine'[d] = solo'
               PROVE  Stage(solo, pc[d], reply[d])'
    BY DEF Stages
  <2>1. CASE d = c
    BY <1>c, <1>w, <2>1 DEF Stage
  <2>2. CASE d # c
    <3>1. mine[d] = solo /\ solo' = solo /\ pc[d] # "idle" /\ solo \in 1 .. calls
      BY <1>p, <1>d, <1>t, <1>m, <2>2
    <3>2. Stage(solo, pc[d], reply[d])
      BY <1>0, <3>1 DEF Stages
    <3> QED
      BY <1>p, <1>d, <1>k, <2>2, <3>1, <3>2 DEF Stage
  <2> QED
    BY <2>1, <2>2
<1>7. Progress'
  <2> SUFFICES ASSUME NEW d \in Clients, NEW r \in Changing, pc'[d] # "idle"
               PROVE  <<mine'[d], r>> \in did <=> r \in Done(op'[mine'[d]], pc'[d], reply'[d])
    BY <1>p DEF Progress, Done, Earlier
  <2>1. CASE d = c
    <3>1. <<k, r>> \notin did
      BY <1>0, <1>t DEF TypeOK
    <3>2. Done(o, w, "pending") = {}
      BY <1>w DEF Done, Earlier
    <3> QED
      BY <1>c, <2>1, <3>1, <3>2
  <2>2. CASE d # c
    BY <1>0, <1>d, <1>k, <1>m, <2>2 DEF Progress
  <2> QED
    BY <2>1, <2>2
<1>8. Owed'
  <2>1. ASSUME NEW x \in late PROVE outcome'[x.call] = "raised" /\ Store!Due(x.call, x.request)'
    <3>1. outcome[x.call] = "raised" /\ Store!Due(x.call, x.request) /\ x.call \in 1 .. calls
      BY <1>0 DEF Owed, TypeOK
    <3> QED
      BY <1>p, <1>k, <3>1 DEF Store!Due, Store!Parts, Store!Ahead
  <2>2. \A j \in Calls : j > calls' => outcome'[j] = "none"
    BY <1>0, <1>p, <1>t DEF Owed, Calls
  <2> QED
    BY <1>0, <1>p, <2>1, <2>2 DEF Owed
<1>9. Promised
  <2>1. outcome[k] = "none" /\ k \in Store!Calls
    BY <1>0, <1>t DEF Owed, Calls, Store!Calls
  <2>2. Store!Begin(k)
    BY <1>p, <2>1 DEF Store!Begin, Behind, Op, Writing
  <2> QED
    BY <2>1, <2>2 DEF Promised, Store!Next
<1> QED
  BY <1>1, <1>2, <1>3, <1>4, <1>5, <1>6, <1>7, <1>8, <1>9 DEF IInv

\* AttachmentStore's request r of call k takes effect as the instance's does.
LEMMA EffectIsPromised ==
    ASSUME TypeOK, NEW k \in 1 .. calls, NEW r \in Changing, Effect(k, r), Store!Due(k, r),
           outcome[k] = "open" \/ <<k, r>> \in Behind, Behind' = Behind \ {<<k, r>>},
           UNCHANGED <<op, outcome>>
    PROVE  Promised
<1>1. k \in Store!Calls /\ r \in Store!Parts(op[k])
  BY CallsAssumption DEF TypeOK, Store!Calls, Store!Due
<1>2. did' = did \cup {<<k, r>>}
  BY DEF Effect
<1>3. CASE r = "value"
  <2>1. name' = k /\ file' = file
    BY <1>3 DEF Effect
  <2> QED
    BY <1>1, <1>2, <1>3, <2>1 DEF Promised, Store!Next, Store!Apply
<1>4. CASE r = "write"
  <2>1. name' = None /\ file' = file
    BY <1>4 DEF Effect
  <2> QED
    BY <1>1, <1>2, <1>4, <2>1 DEF Promised, Store!Next, Store!Apply
<1>5. CASE r = "upload"
  <2>1. name' \in {name, k} /\ file' = k
    BY <1>5 DEF Effect
  <2> QED
    BY <1>1, <1>2, <1>5, <2>1 DEF Promised, Store!Next, Store!Apply
<1>6. CASE r = "unattach"
  <2>1. name' \in {name, None} /\ file' = None
    BY <1>6 DEF Effect
  <2> QED
    BY <1>1, <1>2, <1>6, <2>1 DEF Promised, Store!Next, Store!Apply
<1> QED
  BY <1>3, <1>4, <1>5, <1>6 DEF Changing

\* A request is carried out, or refused.
LEMMA ServeInvariant ==
    ASSUME IInv, NEW c \in Clients, Serve(c)
    PROVE  IInv' /\ Promised
<1> USE CallsAssumption, NoneAssumption
<1> DEFINE k == mine[c]
<1>0. TypeOK /\ SoloTakesEffect /\ AttachedWasNamed /\ Own /\ Alone /\ Stages /\ Progress /\ Owed
  BY DEF IInv
<1>p. /\ pc[c] \in ToManager \cup ToServer /\ reply[c] = "pending"
      /\ UNCHANGED <<pc, mine, url, calls, op, outcome, where, late, solo>>
  BY DEF Serve
<1>a. /\ pc[c] # "idle" /\ k \in 1 .. calls /\ k \in Calls /\ k # None /\ k # 0
      /\ Fits(op[k], pc[c]) /\ outcome[k] = "open"
  <2>1. pc[c] # "idle"
    BY <1>p DEF ToManager, ToServer
  <2>2. k \in 1 .. calls /\ k \in Calls
    BY <2>1, ActiveCalls
  <2>3. k \in Nat /\ k # 0
    BY <2>2 DEF Calls
  <2> QED
    BY <1>0, <2>1, <2>2, <2>3 DEF Own
<1>r. reply \in [Clients -> {"pending", "ok", "refused"}]
  BY <1>0 DEF TypeOK
<1>1. CASE Effect(k, pc[c]) /\ Answer(c, "ok")
  <2>r. reply' = [reply EXCEPT ![c] = "ok"]
    BY <1>1 DEF Answer
  <2>e. /\ \/ pc[c] \in {"value", "upload"} /\ name' = k
           \/ pc[c] \in {"write", "unattach"} /\ name' = None
           \/ pc[c] \notin {"value", "write"} /\ name' = name
        /\ pc[c] = "upload" => file' = k
        /\ pc[c] = "unattach" => file' = None
        /\ pc[c] \notin {"upload", "unattach"} => file' = file
        /\ did' = IF pc[c] \in Changing THEN did \cup {<<k, pc[c]>>} ELSE did
    BY <1>1 DEF Effect
  <2>t. /\ name \in Source /\ file \in Source /\ did \subseteq (1 .. calls) \X Changing
        /\ calls \in Nat
    BY <1>0 DEF TypeOK
  <2>1. TypeOK'
    <3>1. name' \in Source /\ file' \in Source
      BY <1>a, <2>e, <2>t DEF Source
    <3>2. did' \subseteq (1 .. calls) \X Changing
      BY <1>a, <2>e, <2>t
    <3>3. reply' \in [Clients -> {"pending", "ok", "refused"}]
      BY <1>r, <2>r
    <3> QED
      BY <1>0, <1>p, <3>1, <3>2, <3>3 DEF TypeOK, Source
  <2>b. Busy(c) \/ UNCHANGED <<name, file>>
    <3>1. CASE op[k] = "get"
      <4>1. pc[c] = "download"
        BY <1>p, <1>a, <3>1 DEF Fits, ToManager, ToServer
      <4> QED
        BY <2>e, <4>1
    <3>2. CASE op[k] # "get"
      <4>1. op[k] \in Op
        BY <1>a, ActiveCalls
      <4> QED
        BY <1>a, <3>2, <4>1 DEF Busy, Op
    <3> QED
      BY <3>1, <3>2
  <2>2. SoloTakesEffect'
    <3> SUFFICES ASSUME NEW j \in Calls, solo = j, outcome[j] = "done"
                 PROVE  CASE op[j] = "put" -> name' = j /\ file' = j
                          [] op[j] = "putBytes" -> file' = j
                          [] op[j] = "delete" -> name' = None /\ file' = None
      BY <1>p DEF SoloTakesEffect
    <3>1. ~Busy(c)
      BY <1>0, <1>a DEF Alone, Calls
    <3> QED
      BY <1>0, <2>b, <3>1 DEF SoloTakesEffect
  <2>3. AttachedWasNamed'
    <3> SUFFICES ASSUME file' # None, file' # 0, op[file'] = "put" PROVE <<file', "value">> \in did'
      BY <1>p DEF AttachedWasNamed
    <3>1. CASE file' = file
      BY <1>0, <2>e, <3>1 DEF AttachedWasNamed
    <3>2. CASE file' # file
      <4>1. pc[c] = "upload" /\ file' = k
        BY <2>e, <3>2
      <4>2. <<k, "value">> \in did
        BY <1>p, <4>1, PendingIsDue DEF Changing, Store!Due, Store!Ahead
      <4> QED
        BY <2>e, <4>1, <4>2
    <3> QED
      BY <3>1, <3>2
  <2>4. Own' /\ Alone'
    BY <1>0, <1>p DEF Own, Alone, Busy
  <2>5. Stages'
    <3> SUFFICES ASSUME NEW d \in Clients, pc[d] # "idle", mine[d] = solo
                 PROVE  Stage(solo, pc[d], reply[d])'
      BY <1>p DEF Stages
    <3>1. CASE d = c
      <4>1. Stage(k, pc[c], "pending") /\ solo = k
        BY <1>0, <1>p, <3>1 DEF Stages
      <4>2. reply'[c] = "ok"
        BY <1>r, <2>r
      <4>3. op[k] = "put" => pc[c] \in {"value", "upload"}
        BY <1>p, <1>a DEF Fits, ToManager, ToServer
      <4>4. op[k] = "put" => name' = k
        BY <2>e, <4>1, <4>3 DEF Stage
      <4>5. /\ pc[c] = "upload" => file' = k
            /\ pc[c] \in {"write", "unattach"} => file' = None
            /\ pc[c] = "write" => name' = None
        BY <2>e, <4>1 DEF Stage
      <4> QED
        BY <1>p, <3>1, <4>1, <4>2, <4>4, <4>5 DEF Stage
    <3>2. CASE d # c
      <4>1. ~Busy(c)
        <5>1. solo # 0 /\ mine[c] # solo
          BY <1>0, <3>2 DEF Own
        <5> QED
          BY <1>0, <5>1 DEF Alone
      <4>2. reply'[d] = reply[d]
        BY <1>r, <2>r, <3>2
      <4> QED
        BY <1>0, <1>p, <2>b, <4>1, <4>2 DEF Stages, Stage
    <3> QED
      BY <3>1, <3>2
  <2>6. Progress'
    <3> SUFFICES ASSUME NEW d \in Clients, NEW r \in Changing, pc[d] # "idle"
                 PROVE  <<mine[d], r>> \in did' <=> r \in Done(op[mine[d]], pc[d], reply'[d])
      BY <1>p DEF Progress, Done, Earlier
    <3>1. CASE d = c
      <4>1. <<k, r>> \in did <=> r \in Earlier(op[k], pc[c])
        BY <1>0, <1>p, <3>1 DEF Progress, Done
      <4>2. reply'[c] = "ok"
        BY <1>r, <2>r
      <4> QED
        BY <2>e, <3>1, <4>1, <4>2 DEF Done
    <3>2. CASE d # c
      <4>1. mine[d] # k /\ reply'[d] = reply[d]
        BY <1>0, <1>a, <1>r, <2>r, <3>2 DEF Own
      <4> QED
        BY <1>0, <2>e, <4>1 DEF Progress
    <3> QED
      BY <3>1, <3>2
  <2>n. \A x \in late : x.call # k
    BY <1>0, <1>a DEF Owed
  <2>7. Owed'
    <3>1. ASSUME NEW x \in late PROVE outcome[x.call] = "raised" /\ Store!Due(x.call, x.request)'
      BY <1>0, <1>p, <2>e, <2>n DEF Owed, Store!Due, Store!Parts, Store!Ahead
    <3> QED
      BY <1>0, <1>p, <3>1 DEF Owed
  <2>8. Promised
    <3>1. CASE pc[c] \in Changing
      <4>1. Behind' = Behind /\ <<k, pc[c]>> \notin Behind
        BY <1>p, <2>n DEF Behind
      <4>2. Store!Due(k, pc[c])
        BY <1>p, <3>1, PendingIsDue
      <4> QED
        BY <1>0, <1>1, <1>p, <1>a, <3>1, <4>1, <4>2, EffectIsPromised
    <3>2. CASE pc[c] \notin Changing
      BY <1>p, <2>e, <3>2, QuietStep DEF Changing
    <3> QED
      BY <3>1, <3>2
  <2> QED
    BY <2>1, <2>2, <2>3, <2>4, <2>5, <2>6, <2>7, <2>8 DEF IInv
<1>2. CASE Answer(c, "refused") /\ UNCHANGED <<name, file, did>>
  <2>r. reply' = [reply EXCEPT ![c] = "refused"]
    BY <1>2 DEF Answer
  <2>d. /\ reply' \in [Clients -> {"pending", "ok", "refused"}]
        /\ \A d \in Clients : reply'[d] = "ok" => reply[d] = "ok"
    BY <1>r, <2>r
  <2>1. TypeOK'
    BY <1>0, <1>p, <1>2, <2>d DEF TypeOK, Source
  <2>2. SoloTakesEffect' /\ AttachedWasNamed' /\ Own' /\ Alone'
    BY <1>0, <1>p, <1>2 DEF SoloTakesEffect, AttachedWasNamed, Own, Alone, Busy
  <2>3. Stages'
    BY <1>0, <1>p, <1>2, <2>d DEF Stages, Stage
  <2>4. Progress'
    <3>1. \A d \in Clients : reply'[d] = "ok" <=> reply[d] = "ok"
      BY <1>r, <1>p, <2>r
    <3> QED
      BY <1>0, <1>p, <1>2, <3>1 DEF Progress, Done, Earlier
  <2>5. Owed'
    BY <1>0, <1>p, <1>2 DEF Owed, Store!Due, Store!Parts, Store!Ahead
  <2> QED
    BY <1>p, <1>2, <2>1, <2>2, <2>3, <2>4, <2>5, QuietStep DEF IInv
<1> QED
  BY <1>1, <1>2 DEF Serve

\* A request that was given up is carried out: no call counts as alone any more.
LEMMA ServeLateInvariant == IInv /\ ServeLate => IInv' /\ Promised
<1> SUFFICES ASSUME IInv, ServeLate PROVE IInv' /\ Promised
  OBVIOUS
<1> USE CallsAssumption, NoneAssumption
<1>0. TypeOK /\ SoloTakesEffect /\ AttachedWasNamed /\ Own /\ Alone /\ Stages /\ Progress /\ Owed
  BY DEF IInv
<1>x. PICK x \in late : late' = late \ {x} /\ Effect(x.call, x.request) /\ solo' = 0
                        /\ UNCHANGED <<pc, mine, reply, url, calls, op, outcome, where>>
  BY DEF ServeLate, clientVars
<1>t. /\ x.call \in 1 .. calls /\ x.request \in Changing /\ calls \in Nat
      /\ name \in Source /\ file \in Source /\ did \subseteq (1 .. calls) \X Changing
      /\ mine \in [Clients -> 0 .. calls]
  BY <1>0, <1>x DEF TypeOK
<1>e. /\ name' \in {x.call, None, name} /\ did' = did \cup {<<x.call, x.request>>}
      /\ \/ x.request = "upload" /\ file' = x.call
         \/ file' \in {None, file}
  BY <1>x, <1>t DEF Effect
<1>d. outcome[x.call] = "raised" /\ Store!Due(x.call, x.request)
  BY <1>0, <1>x DEF Owed
<1>1. TypeOK'
  <2>1. name' \in Source /\ file' \in Source
    BY <1>t, <1>e DEF Source
  <2>2. did' \subseteq (1 .. calls) \X Changing
    BY <1>t, <1>e
  <2> QED
    BY <1>0, <1>x, <1>t, <2>1, <2>2 DEF TypeOK, Source
<1>2. SoloTakesEffect'
  BY <1>x DEF SoloTakesEffect, Calls
<1>3. AttachedWasNamed'
  BY <1>0, <1>x, <1>e, <1>d DEF AttachedWasNamed, Store!Due, Store!Ahead
<1>4. Own' /\ Alone'
  BY <1>0, <1>x DEF Own, Alone
<1>5. Stages'
  BY <1>0, <1>x DEF Stages, Own
<1>6. Progress'
  <2> SUFFICES ASSUME NEW d \in Clients, NEW r \in Changing, pc[d] # "idle"
               PROVE  <<mine[d], r>> \in did' <=> r \in Done(op[mine[d]], pc[d], reply[d])
    BY <1>x DEF Progress, Done, Earlier
  <2>1. mine[d] # x.call
    BY <1>0, <1>d DEF Own
  <2> QED
    BY <1>0, <1>e, <2>1 DEF Progress
<1>7. Owed'
  <2>1. \A y \in late' : y \in late /\ y.call # x.call
    BY <1>0, <1>x DEF Owed
  <2>2. ASSUME NEW y \in late' PROVE outcome[y.call] = "raised" /\ Store!Due(y.call, y.request)'
    BY <1>0, <1>x, <1>e, <2>1, <2>2 DEF Owed, Store!Due, Store!Parts, Store!Ahead
  <2> QED
    BY <1>0, <1>x, <2>1, <2>2 DEF Owed
<1>8. Promised
  <2>1. <<x.call, x.request>> \in Behind /\ Behind' = Behind \ {<<x.call, x.request>>}
    BY <1>0, <1>x DEF Owed, Behind
  <2> QED
    BY <1>0, <1>x, <1>t, <1>d, <2>1, EffectIsPromised
<1> QED
  BY <1>1, <1>2, <1>3, <1>4, <1>5, <1>6, <1>7, <1>8 DEF IInv

\* A client asks for the URL or goes to the server directly.
LEMMA GoesDirect ==
    ASSUME IInv, NEW c \in Clients, pc[c] # "idle", GoDirect(c, op[mine[c]]),
           UNCHANGED <<mine, url, calls, op, outcome, where, name, file, late, did, solo>>,
           op[mine[c]] = "put" /\ mine[c] = solo => name = mine[c],
           Done(op[mine[c]], pc[c], reply[c]) = IF op[mine[c]] = "put" THEN {"value"} ELSE {}
    PROVE  IInv' /\ Promised
<1> DEFINE k == mine[c]
<1>1. op[k] \in Op /\ url \in [Clients -> {None} \cup Urls]
  BY ActiveCalls DEF IInv, TypeOK
<1>2. PICK w \in {"url", Direct(op[k])} : Request(c, w)
  BY DEF GoDirect
<1>3. /\ w \in Waiting \cup {"open"} /\ w # "write" /\ Fits(op[k], w)
      /\ op[k] = "put" => w \in {"url", "open"}
  BY <1>1, <1>2 DEF Direct, Fits, Op, Writing, Waiting, ToServer, ToManager
<1>4. k = solo => Stage(solo, w, "pending")
  BY <1>3 DEF Stage
<1>5. Done(op[k], w, "pending") = Done(op[k], pc[c], reply[c])
  BY <1>3 DEF Done, Earlier
<1> HIDE DEF k
<1> QED
  BY <1>1, <1>2, <1>3, <1>4, <1>5, GoesOn DEF k

\* A step of a client.
LEMMA ClientInvariant ==
    ASSUME IInv, NEW c \in Clients, Client(c)
    PROVE  IInv' /\ Promised
<1>0. TypeOK /\ SoloTakesEffect /\ AttachedWasNamed /\ Own /\ Alone /\ Stages /\ Progress /\ Owed
  BY DEF IInv
<1> DEFINE k == mine[c]
<1>t. /\ url \in [Clients -> {None} \cup Urls] /\ reply[c] \in {"pending", "ok", "refused"}
  BY <1>0 DEF TypeOK
<1>a. pc[c] # "idle" =>
        /\ k \in 1 .. calls /\ Fits(op[k], pc[c])
        /\ \A r \in Changing : <<k, r>> \in did <=> r \in Done(op[k], pc[c], reply[c])
        /\ k = solo => Stage(solo, pc[c], reply[c])
  BY <1>0, ActiveCalls DEF Own, Progress, Stages
<1>1. ASSUME NEW o \in Op, Begin(c, o) PROVE IInv' /\ Promised
  BY <1>1, BeginInvariant
<1>2. CASE ReceiveManager(c)
  <2>p. /\ pc[c] \in ToManager /\ reply[c] # "pending" /\ pc[c] # "idle"
        /\ UNCHANGED <<mine, url, calls, op, where, name, file, late, did, solo>>
    BY <1>2 DEF ReceiveManager, ToManager
  <2>1. CASE reply[c] = "refused"
    <3>1. End(c, "raised")
      BY <1>2, <2>1 DEF ReceiveManager
    <3> QED
      BY <1>t, <2>p, <3>1, CallEnds
  <2>2. CASE reply[c] # "refused" /\ pc[c] = "write"
    <3>1. End(c, "done") /\ reply[c] = "ok"
      BY <1>2, <1>t, <2>p, <2>2 DEF ReceiveManager
    <3>2. op[k] = "delete"
      BY <1>a, <2>2 DEF Fits
    <3>3. k = solo => name = None /\ file = None
      BY <1>a, <2>2, <3>1 DEF Stage
    <3>4. \A r \in Store!Parts(op[k]) : <<k, r>> \in did
      BY <1>a, <2>2, <3>1, <3>2 DEF Done, Earlier, Changing, Store!Parts
    <3> QED
      BY <1>t, <2>p, <3>1, <3>2, <3>3, <3>4, CallEnds
  <2>3. CASE reply[c] # "refused" /\ pc[c] # "write"
    <3>1. GoDirect(c, op[k]) /\ UNCHANGED outcome /\ reply[c] = "ok"
      BY <1>2, <1>t, <2>p, <2>3 DEF ReceiveManager
    <3>2. \/ op[k] = "put" /\ pc[c] = "value"
          \/ op[k] = "delete" /\ pc[c] = "read"
      BY <1>a, <2>p, <2>3 DEF Fits, ToManager
    <3>3. op[k] = "put" /\ k = solo => name = k
      BY <1>a, <2>p, <3>1, <3>2 DEF Stage
    <3>4. Done(op[k], pc[c], reply[c]) = IF op[k] = "put" THEN {"value"} ELSE {}
      BY <3>1, <3>2 DEF Done, Earlier, Changing
    <3> QED
      BY <2>p, <3>1, <3>3, <3>4, GoesDirect
  <2> QED
    BY <2>1, <2>2, <2>3
<1>3. CASE ResolveUrl(c)
  <2>p. /\ pc[c] = "url" /\ pc[c] # "idle"
        /\ UNCHANGED <<mine, calls, op, where, name, file, late, did, solo>>
    BY <1>3 DEF ResolveUrl
  <2>1. CASE End(c, "raised") /\ UNCHANGED url
    BY <1>t, <2>p, <2>1, CallEnds
  <2>2. CASE /\ where # None
             /\ url' = [url EXCEPT ![c] = where]
             /\ Request(c, Direct(op[k]))
             /\ UNCHANGED outcome
    <3>1. url' \in [Clients -> {None} \cup Urls]
      BY <1>0, <1>t, <2>2 DEF TypeOK
    <3>2. op[k] \in Op
      BY <2>p, ActiveCalls
    <3>3. /\ Direct(op[k]) \in Waiting \cup {"open"} /\ Direct(op[k]) # "write"
          /\ Fits(op[k], Direct(op[k]))
      BY <3>2 DEF Direct, Fits, Op, Writing, Waiting, ToServer, ToManager
    <3>4. k = solo => Stage(solo, Direct(op[k]), "pending")
      BY <1>a, <2>p, <3>3 DEF Stage
    <3>5. Done(op[k], Direct(op[k]), "pending") = Done(op[k], pc[c], reply[c])
      BY <2>p, <3>2, <3>3 DEF Done, Earlier, Direct, Changing, Op, Writing
    <3> QED
      BY <2>p, <2>2, <3>1, <3>3, <3>4, <3>5, GoesOn
  <2> QED
    BY <1>3, <2>1, <2>2 DEF ResolveUrl
<1>4. CASE OpenFile(c)
  <2>p. /\ pc[c] = "open" /\ pc[c] # "idle"
        /\ UNCHANGED <<mine, url, calls, op, where, name, file, late, did, solo>>
    BY <1>4 DEF OpenFile
  <2>1. CASE End(c, "raised")
    BY <1>t, <2>p, <2>1, CallEnds
  <2>2. CASE Request(c, "upload") /\ UNCHANGED outcome
    <3>1. op[k] = "put" /\ Fits(op[k], "upload") /\ "upload" \in Waiting \cup {"open"}
      BY <1>a, <2>p DEF Fits, Waiting, ToServer
    <3>2. k = solo => Stage(solo, "upload", "pending")
      BY <1>a, <2>p DEF Stage
    <3>3. Done(op[k], "upload", "pending") = Done(op[k], pc[c], reply[c])
      BY <2>p, <3>1 DEF Done, Earlier, Changing
    <3> QED
      BY <1>t, <2>p, <2>2, <3>1, <3>2, <3>3, GoesOn
  <2> QED
    BY <1>4, <2>1, <2>2 DEF OpenFile
<1>5. CASE ReceiveServer(c)
  <2>p. /\ pc[c] \in ToServer /\ reply[c] # "pending" /\ pc[c] # "idle"
        /\ UNCHANGED <<mine, url, calls, op, where, name, file, late, did, solo>>
    BY <1>5 DEF ReceiveServer, ToServer
  <2>1. CASE reply[c] = "refused"
    <3>1. End(c, "raised")
      BY <1>5, <2>1 DEF ReceiveServer
    <3> QED
      BY <1>t, <2>p, <3>1, CallEnds
  <2>2. CASE reply[c] # "refused" /\ pc[c] = "unattach"
    <3>1. Request(c, "write") /\ UNCHANGED outcome /\ reply[c] = "ok"
      BY <1>5, <1>t, <2>p, <2>2 DEF ReceiveServer
    <3>2. op[k] = "delete" /\ Fits(op[k], "write") /\ "write" \in Waiting \cup {"open"}
      BY <1>a, <2>2 DEF Fits, Waiting, ToManager
    <3>3. k = solo => Stage(solo, "write", "pending")
      BY <1>a, <2>2, <3>1, <3>2 DEF Stage
    <3>4. Done(op[k], "write", "pending") = Done(op[k], pc[c], reply[c])
      BY <2>2, <3>1, <3>2 DEF Done, Earlier, Changing
    <3> QED
      BY <1>t, <2>p, <3>1, <3>2, <3>3, <3>4, GoesOn
  <2>3. CASE reply[c] # "refused" /\ pc[c] # "unattach"
    <3>1. End(c, "done") /\ reply[c] = "ok" /\ pc[c] \in {"upload", "download"}
      BY <1>5, <1>t, <2>p, <2>3 DEF ReceiveServer, ToServer
    <3>2. CASE pc[c] = "download"
      <4>1. op[k] = "get"
        BY <1>a, <3>2 DEF Fits
      <4>2. k # solo
        BY <1>0, <2>p, <4>1 DEF Alone, Own, Writing
      <4>3. Store!Parts(op[k]) = {}
        BY <4>1 DEF Store!Parts
      <4> QED
        BY <1>t, <2>p, <3>1, <4>2, <4>3, CallEnds
    <3>3. CASE pc[c] = "upload"
      <4>1. op[k] \in {"put", "putBytes"}
        BY <1>a, <3>3 DEF Fits
      <4>2. k = solo => file = solo /\ (op[k] = "put" => name = solo)
        BY <1>a, <3>1, <3>3 DEF Stage
      <4>3. \A r \in Store!Parts(op[k]) : <<k, r>> \in did
        BY <1>a, <3>1, <3>3, <4>1 DEF Done, Earlier, Changing, Store!Parts
      <4> QED
        BY <1>t, <2>p, <3>1, <4>1, <4>2, <4>3, CallEnds
    <3> QED
      BY <3>1, <3>2, <3>3
  <2> QED
    BY <2>1, <2>2, <2>3
<1>6. CASE RequestFails(c)
  <2>p. /\ pc[c] \in Waiting /\ pc[c] # "idle" /\ End(c, "raised")
        /\ UNCHANGED <<mine, url, calls, op, where, name, file, did, solo>>
        /\ \/ late' = late
           \/ /\ pc[c] \in Changing /\ reply[c] = "pending"
              /\ late' = late \cup {[call |-> k, request |-> pc[c],
                                     url |-> IF pc[c] \in ToServer THEN url[c] ELSE None]}
    BY <1>6 DEF RequestFails, Waiting, ToManager, ToServer
  <2>1. (IF pc[c] \in ToServer THEN url[c] ELSE None) \in {None} \cup Urls
    BY <1>t
  <2> QED
    BY <2>p, <2>1, CallEnds
<1> QED
  BY <1>1, <1>2, <1>3, <1>4, <1>5, <1>6 DEF Client

LEMMA NextInvariant == IInv /\ [Next]_vars => IInv' /\ Promised
<1> SUFFICES ASSUME IInv, [Next]_vars PROVE IInv' /\ Promised
  OBVIOUS
<1>0. TypeOK /\ SoloTakesEffect /\ AttachedWasNamed /\ Own /\ Alone /\ Stages /\ Progress /\ Owed
  BY DEF IInv
<1>1. CASE Move
  <2>1. /\ where' \in {None} \cup Urls
        /\ UNCHANGED <<pc, mine, reply, url, calls, op, outcome, name, file, late, did, solo>>
    BY <1>1 DEF Move, clientVars
  <2>2. TypeOK' /\ SoloTakesEffect' /\ AttachedWasNamed'
    BY <1>0, <2>1 DEF TypeOK, SoloTakesEffect, AttachedWasNamed, Source
  <2>3. Own' /\ Alone' /\ Stages' /\ Progress' /\ Owed'
    BY <1>0, <2>1 DEF Own, Alone, Busy, Stages, Stage, Progress, Done, Earlier,
                      Owed, Store!Due, Store!Parts, Store!Ahead
  <2> QED
    BY <2>1, <2>2, <2>3, QuietStep DEF IInv
<1>2. CASE UNCHANGED vars
  <2>1. UNCHANGED <<pc, mine, reply, url, calls, op, outcome, where, name, file, late, did, solo>>
    BY <1>2 DEF vars, clientVars
  <2>2. TypeOK' /\ SoloTakesEffect' /\ AttachedWasNamed'
    BY <1>0, <2>1 DEF TypeOK, SoloTakesEffect, AttachedWasNamed, Source
  <2>3. Own' /\ Alone' /\ Stages' /\ Progress' /\ Owed'
    BY <1>0, <2>1 DEF Own, Alone, Busy, Stages, Stage, Progress, Done, Earlier,
                      Owed, Store!Due, Store!Parts, Store!Ahead
  <2> QED
    BY <2>1, <2>2, <2>3, QuietStep DEF IInv
<1> QED
  BY <1>1, <1>2, ClientInvariant, ServeInvariant, ServeLateInvariant DEF Next, Servers

LEMMA Invariance == Spec => []IInv
<1>1. IInv /\ [Next]_vars => IInv'
  BY NextInvariant
<1> QED
  BY <1>1, InitInvariant, PTL DEF Spec

\* TypeOK, for any clients, any URLs and any number of calls.
THEOREM TypeCorrect == Spec => []TypeOK
<1>1. IInv => TypeOK
  BY DEF IInv
<1> QED
  BY <1>1, Invariance, PTL

\* SoloTakesEffect: put_attachment(), put_attachment_with_bytes() and delete_attachment()
\* that return have done their work in both places, when nothing came in between.
THEOREM ReturnedIsDone == Spec => []SoloTakesEffect
<1>1. IInv => SoloTakesEffect
  BY DEF IInv
<1> QED
  BY <1>1, Invariance, PTL

\* AttachedWasNamed: put_attachment() names a file before it is attached, however its
\* requests are lost, delayed or overtaken.
THEOREM NamesComeFirst == Spec => []AttachedWasNamed
<1>1. IInv => AttachedWasNamed
  BY DEF IInv
<1> QED
  BY <1>1, Invariance, PTL

\* KeepsStore: the methods, with their requests one after the other, lost and late, at servers
\* that come and go, implement AttachmentStore.
THEOREM ImplementsStore == Spec => KeepsStore
<1>1. Init => Store!Init
  BY DEF Init, Store!Init, Store!Calls, Calls, Behind
<1>2. IInv /\ [Next]_vars => [Store!Next]_(Store!vars)
  BY NextInvariant DEF Promised
<1> QED
  BY <1>1, <1>2, Invariance, PTL DEF Spec, KeepsStore, Store!Spec
=============================================================================
