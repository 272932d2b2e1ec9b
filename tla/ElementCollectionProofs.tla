------------------------ MODULE ElementCollectionProofs ------------------------
(***************************************************************************)
(* Proofs about ElementCollection, for any clients, any paths and any      *)
(* number of calls; among them that it implements ElementStore.            *)
(***************************************************************************)
EXTENDS ElementCollection, TLAPS

\* The client makes a call that changes something.
Calling(c) == pc[c] \in Changing \cup {"postUrl", "deleteUrl"}

\* The requests that a call makes.
Fits(o, w) ==
    /\ w = "put" => o \in {"set", "update"}
    /\ w \in {"post", "postUrl"} => o = "set"
    /\ w \in {"delete", "deleteUrl"} => o = "del"

\* A client that is calling is making its last call, which nobody else makes.
Own ==
    /\ \A c \in Clients : Calling(c) =>
         mine[c] # 0 /\ outcome[mine[c]] = "open" /\ Fits(task[mine[c]].op, pc[c])
    /\ \A c, d \in Clients : mine[c] = mine[d] /\ mine[c] # 0 => c = d
    /\ \A k \in Calls : IF k <= calls THEN task[k] \in Task ELSE outcome[k] = "none"

\* Which calls had their effect, by what their clients know or will hear, and which may
\* still have it.
Effects ==
    /\ \A c \in Clients : Calling(c) => (mine[c] \in did <=> reply[c] = "ok")
    /\ \A x \in late : /\ outcome[x.call] = "broken"
                       /\ x.call \notin did
                       /\ Fits(task[x.call].op, x.request)
    /\ \A x, y \in late : x.call = y.call => x = y
    /\ \A k \in Calls : /\ outcome[k] = "done" => k \in did
                        /\ outcome[k] \in Raised => k \notin did

\* What a client was answered, and what it was about its path.
Answers ==
    \A c \in Clients :
        /\ was[c] # {} <=> Calling(c)
        /\ Calling(c) =>
             /\ Present(task[mine[c]].path) \in was[c]
             /\ pc[c] \in {"post", "postUrl"} \/ reply[c] = "notThere" => FALSE \in was[c]
             /\ reply[c] = "alreadyThere" => pc[c] = "post" /\ TRUE \in was[c]
             /\ reply[c] = "notThere" => pc[c] \in {"put", "delete"}
             /\ pc[c] \in Asking => reply[c] = "pending"

There == {p \in Paths : Present(p)}

\* The lists that collections keep, and those on their way.
Lists ==
    \A c \in Clients :
        /\ pc[c] \in {"list", "listUrl"} => cache[c] = None
        /\ pc[c] = "list" /\ reply[c] = "ok" /\ ~foreign[c] => listing[c] = There
        /\ /\ cache[c] # None
           /\ ~foreign[c]
           /\ ~(Calling(c) /\ reply[c] = "ok" /\ task[mine[c]].op # "update")
           => cache[c] = Pathes(There)

IInv == TypeOK /\ Own /\ Effects /\ Answers /\ Lists

\* The invariant of the lists is what CacheShowsOwn says, and more.
LEMMA ListsAreShown == IInv => CacheShowsOwn
BY DEF IInv, Lists, CacheShowsOwn, There, Calling, Changing

LEMMA InitInvariant == Init => IInv
<1> SUFFICES ASSUME Init PROVE IInv
  OBVIOUS
<1> USE CallsAssumption, NamesAssumption
<1>1. TypeOK
  BY DEF Init, TypeOK, Calls, Raised
<1>2. Own /\ Effects /\ Answers /\ Lists
  BY DEF Init, Own, Effects, Answers, Lists, Calling, Changing, Calls, Raised
<1> QED
  BY <1>1, <1>2 DEF IInv

\* A call under way was made, and its task is known.
LEMMA CallsUnderWay ==
    ASSUME IInv, NEW c \in Clients, Calling(c)
    PROVE  mine[c] \in 1 .. calls /\ mine[c] \in Calls /\ task[mine[c]] \in Task
<1> USE CallsAssumption
<1>1. mine[c] \in 0 .. calls /\ mine[c] # 0 /\ calls \in 0 .. MaxCalls
  BY DEF IInv, TypeOK, Own
<1>2. mine[c] \in 1 .. calls /\ mine[c] \in Calls
  BY <1>1 DEF Calls
<1> QED
  BY <1>1, <1>2 DEF IInv, Own

\* A call goes on with request w: the request before it had no effect.
LEMMA CallContinues ==
    ASSUME IInv, NEW c \in Clients, Calling(c), NEW w \in {"postUrl", "post", "delete"},
           Continue(c, w), UNCHANGED <<mine, listing, calls, task, store, late, did>>,
           Fits(task[mine[c]].op, w), reply[c] # "ok",
           w \in {"post", "postUrl"} => FALSE \in was[c]
    PROVE  IInv'
<1>0. TypeOK /\ Own /\ Effects /\ Answers /\ Lists
  BY DEF IInv
<1>p. /\ pc' = [pc EXCEPT ![c] = w] /\ reply' = [reply EXCEPT ![c] = "pending"]
      /\ UNCHANGED <<outcome, was, cache, foreign>>
      /\ pc \in [Clients -> Waiting \cup {"idle"}]
      /\ reply \in [Clients -> Raised \cup {"pending", "ok"}]
  BY <1>0 DEF Continue, Request, KeepList, TypeOK
<1>c. pc'[c] = w /\ reply'[c] = "pending"
  BY <1>p
<1>d. \A d \in Clients \ {c} : pc'[d] = pc[d] /\ reply'[d] = reply[d]
  BY <1>p
<1>e. \A d \in Clients : Calling(d)' <=> Calling(d)
  BY <1>c, <1>d DEF Calling, Changing
<1>1. TypeOK'
  BY <1>0, <1>p DEF TypeOK, Waiting, Changing, Asking
<1>2. Own'
  BY <1>0, <1>p, <1>c, <1>d, <1>e DEF Own
<1>3. Effects'
  BY <1>0, <1>p, <1>c, <1>d, <1>e DEF Effects
<1>4. Answers'
  BY <1>0, <1>p, <1>c, <1>d, <1>e DEF Answers, Present
<1>5. Lists'
  BY <1>0, <1>p, <1>c, <1>d, <1>e DEF Lists, There, Present, Pathes
<1> QED
  BY <1>1, <1>2, <1>3, <1>4, <1>5 DEF IInv

\* A call ends with o; it may leave a request behind, and does with the client's list what
\* is right.
LEMMA CallEnds ==
    ASSUME IInv, NEW c \in Clients, Calling(c), NEW o \in Raised \cup {"done", "broken"},
           End(c, o), UNCHANGED <<mine, calls, task, store, did>>,
           o = "done" => mine[c] \in did,
           o \in Raised => mine[c] \notin did,
           \/ late' = late
           \/ /\ o = "broken" /\ mine[c] \notin did /\ pc[c] \in Changing
              /\ late' = late \cup {[call |-> mine[c], request |-> pc[c]]},
           listing' \in [Clients -> SUBSET Paths],
           cache' \in [Clients -> {None} \cup SUBSET (Paths \cup {Blank})],
           foreign' \in [Clients -> BOOLEAN],
           \A d \in Clients \ {c} : /\ listing'[d] = listing[d] /\ cache'[d] = cache[d]
                                    /\ foreign'[d] = foreign[d],
           cache'[c] # None /\ ~foreign'[c] => cache'[c] = Pathes(There)
    PROVE  IInv'
<1> USE CallsAssumption
<1>0. TypeOK /\ Own /\ Effects /\ Answers /\ Lists
  BY DEF IInv
<1> DEFINE k == mine[c]
<1>p. /\ pc' = [pc EXCEPT ![c] = "idle"] /\ reply' = [reply EXCEPT ![c] = "pending"]
      /\ was' = [was EXCEPT ![c] = {}] /\ outcome' = [outcome EXCEPT ![k] = o]
      /\ pc \in [Clients -> Waiting \cup {"idle"}]
      /\ reply \in [Clients -> Raised \cup {"pending", "ok"}]
      /\ was \in [Clients -> SUBSET BOOLEAN]
      /\ outcome \in [Calls -> Raised \cup {"none", "open", "done", "broken"}]
  BY <1>0 DEF End, Stop, Request, TypeOK
<1>k. k \in 1 .. calls /\ k \in Calls /\ k # 0 /\ outcome[k] = "open" /\ Fits(task[k].op, pc[c])
  BY <1>0, CallsUnderWay DEF Own
<1>c. pc'[c] = "idle" /\ reply'[c] = "pending" /\ was'[c] = {} /\ outcome'[k] = o
  BY <1>p, <1>k
<1>d. \A d \in Clients \ {c} : pc'[d] = pc[d] /\ reply'[d] = reply[d] /\ was'[d] = was[d]
  BY <1>p
<1>o. \A j \in Calls \ {k} : outcome'[j] = outcome[j]
  BY <1>p
<1>e. /\ ~Calling(c)' /\ \A d \in Clients \ {c} : Calling(d)' <=> Calling(d)
  BY <1>c, <1>d DEF Calling, Changing
<1>m. \A d \in Clients \ {c} : Calling(d) => mine[d] \in Calls /\ mine[d] # k
  BY <1>0, <1>k, CallsUnderWay DEF Own
<1>l. \A x \in late : x.call \in Calls /\ x.call # k
  BY <1>0, <1>k DEF TypeOK, Effects, Calls
<1>1. TypeOK'
  <2>1. late' \subseteq [call : 1 .. calls, request : Changing]
    BY <1>0, <1>k DEF TypeOK
  <2>2. /\ pc' \in [Clients -> Waiting \cup {"idle"}]
        /\ reply' \in [Clients -> Raised \cup {"pending", "ok"}]
        /\ was' \in [Clients -> SUBSET BOOLEAN]
        /\ outcome' \in [Calls -> Raised \cup {"none", "open", "done", "broken"}]
    BY <1>p
  <2> QED
    BY <1>0, <2>1, <2>2 DEF TypeOK
<1>2. Own'
  <2>1. \A d \in Clients : Calling(d)' =>
           mine[d] # 0 /\ outcome'[mine[d]] = "open" /\ Fits(task[mine[d]].op, pc'[d])
    BY <1>0, <1>d, <1>o, <1>e, <1>m DEF Own
  <2>2. \A j \in Calls : IF j <= calls THEN task[j] \in Task ELSE outcome'[j] = "none"
    BY <1>0, <1>k, <1>o DEF Own, Calls
  <2> QED
    BY <1>0, <2>1, <2>2 DEF Own
<1>3. Effects'
  <2>1. \A d \in Clients : Calling(d)' => (mine[d] \in did <=> reply'[d] = "ok")
    BY <1>0, <1>d, <1>e DEF Effects
  <2>2. ASSUME NEW x \in late'
        PROVE  outcome'[x.call] = "broken" /\ x.call \notin did /\ Fits(task[x.call].op, x.request)
    <3>1. CASE x \in late
      BY <1>0, <1>o, <1>l, <3>1 DEF Effects
    <3>2. CASE x \notin late
      BY <1>c, <1>k, <3>2
    <3> QED
      BY <3>1, <3>2
  <2>3. \A x, y \in late' : x.call = y.call => x = y
    BY <1>0, <1>l DEF Effects
  <2>4. \A j \in Calls : /\ outcome'[j] = "done" => j \in did
                         /\ outcome'[j] \in Raised => j \notin did
    BY <1>0, <1>c, <1>o DEF Effects
  <2> QED
    BY <2>1, <2>2, <2>3, <2>4 DEF Effects
<1>4. Answers'
  BY <1>0, <1>c, <1>d, <1>e DEF Answers, Present
<1>5. Lists'
  <2>1. There' = There
    BY DEF There, Present
  <2> SUFFICES ASSUME NEW d \in Clients
               PROVE  /\ pc'[d] \in {"list", "listUrl"} => cache'[d] = None
                      /\ pc'[d] = "list" /\ reply'[d] = "ok" /\ ~foreign'[d]
                         => listing'[d] = There
                      /\ /\ cache'[d] # None /\ ~foreign'[d]
                         /\ ~(Calling(d)' /\ reply'[d] = "ok" /\ task[mine[d]].op # "update")
                         => cache'[d] = Pathes(There)
    BY <2>1 DEF Lists, Pathes
  <2>2. CASE d = c
    BY <1>c, <2>2
  <2>3. CASE d # c
    BY <1>0, <1>d, <1>e, <2>3 DEF Lists
  <2> QED
    BY <2>2, <2>3
<1> QED
  BY <1>1, <1>2, <1>3, <1>4, <1>5 DEF IInv

\* A client that makes no call looks at the list, or drops it.
LEMMA OnlyLooks ==
    ASSUME IInv, NEW c \in Clients, NEW w \in {"idle", "list", "listUrl"}, ~Calling(c),
           pc' = [pc EXCEPT ![c] = w] /\ reply' \in {reply, [reply EXCEPT ![c] = "pending"]},
           w = "list" => reply'[c] = "pending",
           UNCHANGED <<mine, calls, task, outcome, store, late, did, was>>,
           listing' \in [Clients -> SUBSET Paths],
           cache' \in [Clients -> {None} \cup SUBSET (Paths \cup {Blank})],
           foreign' \in [Clients -> BOOLEAN],
           \A d \in Clients \ {c} : /\ listing'[d] = listing[d] /\ cache'[d] = cache[d]
                                    /\ foreign'[d] = foreign[d],
           w # "idle" => cache'[c] = None,
           cache'[c] # None /\ ~foreign'[c] => cache'[c] = Pathes(There)
    PROVE  IInv'
<1>0. TypeOK /\ Own /\ Effects /\ Answers /\ Lists
  BY DEF IInv
<1>p. /\ pc \in [Clients -> Waiting \cup {"idle"}]
      /\ reply \in [Clients -> Raised \cup {"pending", "ok"}]
  BY <1>0 DEF TypeOK
<1>c. pc'[c] = w
  BY <1>p
<1>d. \A d \in Clients \ {c} : pc'[d] = pc[d] /\ reply'[d] = reply[d]
  BY <1>p
<1>e. /\ ~Calling(c)' /\ \A d \in Clients \ {c} : Calling(d)' <=> Calling(d)
  BY <1>c, <1>d DEF Calling, Changing
<1>1. TypeOK'
  BY <1>0, <1>p DEF TypeOK, Waiting, Asking
<1>2. Own'
  BY <1>0, <1>c, <1>d, <1>e DEF Own
<1>3. Effects'
  BY <1>0, <1>c, <1>d, <1>e DEF Effects
<1>4. Answers'
  BY <1>0, <1>c, <1>d, <1>e DEF Answers, Present
<1>5. Lists'
  <2>1. There' = There
    BY DEF There, Present
  <2> SUFFICES ASSUME NEW d \in Clients
               PROVE  /\ pc'[d] \in {"list", "listUrl"} => cache'[d] = None
                      /\ pc'[d] = "list" /\ reply'[d] = "ok" /\ ~foreign'[d]
                         => listing'[d] = There
                      /\ /\ cache'[d] # None /\ ~foreign'[d]
                         /\ ~(Calling(d)' /\ reply'[d] = "ok" /\ task[mine[d]].op # "update")
                         => cache'[d] = Pathes(There)
    BY <2>1 DEF Lists, Pathes
  <2>2. CASE d = c
    BY <1>c, <2>2
  <2>3. CASE d # c
    BY <1>0, <1>d, <1>e, <2>3 DEF Lists
  <2> QED
    BY <2>2, <2>3
<1> QED
  BY <1>1, <1>2, <1>3, <1>4, <1>5 DEF IInv

\* A new call.
LEMMA BeginInvariant ==
    ASSUME IInv, NEW c \in Clients, NEW t \in Task, Begin(c, t)
    PROVE  IInv'
<1> USE CallsAssumption
<1> DEFINE k == calls + 1
<1>0. TypeOK /\ Own /\ Effects /\ Answers /\ Lists
  BY DEF IInv
<1>p. /\ pc[c] = "idle" /\ calls < MaxCalls /\ calls' = k
      /\ task' = [task EXCEPT ![k] = t] /\ outcome' = [outcome EXCEPT ![k] = "open"]
      /\ mine' = [mine EXCEPT ![c] = k] /\ was' = [was EXCEPT ![c] = {Present(t.path)}]
      /\ pc' = [pc EXCEPT ![c] = First(t.op)] /\ reply' = [reply EXCEPT ![c] = "pending"]
      /\ UNCHANGED <<listing, cache, store, late, did, foreign>>
  BY DEF Begin, Request
<1>t. /\ calls \in Nat /\ k \in Calls
      /\ pc \in [Clients -> Waiting \cup {"idle"}] /\ mine \in [Clients -> 0 .. calls]
      /\ reply \in [Clients -> Raised \cup {"pending", "ok"}]
      /\ task \in [Calls -> {None} \cup Task]
      /\ outcome \in [Calls -> Raised \cup {"none", "open", "done", "broken"}]
      /\ was \in [Clients -> SUBSET BOOLEAN] /\ did \subseteq 1 .. calls
  BY <1>0, <1>p DEF TypeOK, Calls
<1>f. First(t.op) \in {"put", "deleteUrl"} /\ Fits(t.op, First(t.op))
  BY DEF First, Fits, Task
<1>c. /\ pc'[c] = First(t.op) /\ reply'[c] = "pending" /\ mine'[c] = k /\ task'[k] = t
      /\ outcome'[k] = "open" /\ was'[c] = {Present(t.path)}
  BY <1>p, <1>t
<1>d. \A d \in Clients \ {c} : /\ pc'[d] = pc[d] /\ reply'[d] = reply[d] /\ mine'[d] = mine[d]
                               /\ was'[d] = was[d]
  BY <1>p, <1>t
<1>k. \A j \in Calls \ {k} : task'[j] = task[j] /\ outcome'[j] = outcome[j]
  BY <1>p, <1>t
<1>e. /\ Calling(c)' /\ ~Calling(c) /\ \A d \in Clients \ {c} : Calling(d)' <=> Calling(d)
  BY <1>p, <1>c, <1>d, <1>f DEF Calling, Changing
<1>m. \A d \in Clients : mine[d] # k /\ (Calling(d) => mine[d] \in Calls)
  BY <1>t, CallsUnderWay
<1>l. k \notin did /\ \A x \in late : x.call \in Calls \ {k}
  BY <1>0, <1>t DEF TypeOK, Calls
<1>1. TypeOK'
  <2>1. 1 .. calls \subseteq 1 .. k /\ 0 .. calls \subseteq 0 .. k
    BY <1>t
  <2>2. /\ pc' \in [Clients -> Waiting \cup {"idle"}]
        /\ reply' \in [Clients -> Raised \cup {"pending", "ok"}]
    BY <1>p, <1>t, <1>f DEF Waiting, Changing, Asking
  <2>3. task' \in [Calls -> {None} \cup Task]
        /\ outcome' \in [Calls -> Raised \cup {"none", "open", "done", "broken"}]
    BY <1>p, <1>t
  <2>4. was' \in [Clients -> SUBSET BOOLEAN]
    BY <1>p, <1>t DEF Present
  <2>5. mine' \in [Clients -> 0 .. k] /\ k \in 0 .. MaxCalls
    BY <1>p, <1>t, <2>1
  <2>6. /\ store \in [Paths -> {None} \cup 0 .. k]
        /\ late \subseteq [call : 1 .. k, request : Changing]
        /\ did \subseteq 1 .. k
    BY <1>0, <2>1 DEF TypeOK
  <2> QED
    BY <1>0, <1>p, <2>2, <2>3, <2>4, <2>5, <2>6 DEF TypeOK
<1>2. Own'
  <2>1. ASSUME NEW d \in Clients, Calling(d)'
        PROVE  mine'[d] # 0 /\ outcome'[mine'[d]] = "open" /\ Fits(task'[mine'[d]].op, pc'[d])
    <3>1. CASE d = c
      BY <1>c, <1>t, <1>f, <3>1
    <3>2. CASE d # c
      BY <1>0, <1>d, <1>k, <1>e, <1>m, <2>1, <3>2 DEF Own
    <3> QED
      BY <3>1, <3>2
  <2>2. \A d, e \in Clients : mine'[d] = mine'[e] /\ mine'[d] # 0 => d = e
    BY <1>0, <1>c, <1>d, <1>m DEF Own
  <2>3. ASSUME NEW j \in Calls
        PROVE  IF j <= k THEN task'[j] \in Task ELSE outcome'[j] = "none"
    <3>1. CASE j = k
      BY <1>c, <1>t, <3>1
    <3>2. CASE j # k
      <4>1. j <= k <=> j <= calls
        BY <1>t, <3>2 DEF Calls
      <4> QED
        BY <1>0, <1>k, <3>2, <4>1 DEF Own
    <3> QED
      BY <3>1, <3>2
  <2> QED
    BY <1>p, <2>1, <2>2, <2>3 DEF Own
<1>3. Effects'
  <2>1. ASSUME NEW d \in Clients, Calling(d)'
        PROVE  mine'[d] \in did <=> reply'[d] = "ok"
    BY <1>0, <1>c, <1>d, <1>e, <1>l, <2>1 DEF Effects
  <2>2. \A x \in late : /\ outcome'[x.call] = "broken"
                        /\ x.call \notin did
                        /\ Fits(task'[x.call].op, x.request)
    BY <1>0, <1>k, <1>l DEF Effects
  <2>3. \A j \in Calls : /\ outcome'[j] = "done" => j \in did
                         /\ outcome'[j] \in Raised => j \notin did
    BY <1>0, <1>c, <1>k DEF Effects, Raised
  <2> QED
    BY <1>0, <1>p, <2>1, <2>2, <2>3 DEF Effects
<1>4. Answers'
  <2> SUFFICES ASSUME NEW d \in Clients
               PROVE  /\ was'[d] # {} <=> Calling(d)'
                      /\ Calling(d)' =>
                           /\ Present(task'[mine'[d]].path) \in was'[d]
                           /\ pc'[d] \in {"post", "postUrl"} \/ reply'[d] = "notThere"
                              => FALSE \in was'[d]
                           /\ reply'[d] = "alreadyThere" => pc'[d] = "post" /\ TRUE \in was'[d]
                           /\ reply'[d] = "notThere" => pc'[d] \in {"put", "delete"}
                           /\ pc'[d] \in Asking => reply'[d] = "pending"
    BY <1>p DEF Answers, Present
  <2>1. CASE d = c
    BY <1>c, <1>e, <1>f, <2>1
  <2>2. CASE d # c
    <3>1. Calling(d) => task'[mine'[d]] = task[mine[d]]
      BY <1>d, <1>k, <1>m, <2>2
    <3> QED
      BY <1>0, <1>d, <1>e, <2>2, <3>1 DEF Answers
  <2> QED
    BY <2>1, <2>2
<1>5. Lists'
  <2> SUFFICES ASSUME NEW d \in Clients
               PROVE  /\ pc'[d] \in {"list", "listUrl"} => cache[d] = None
                      /\ pc'[d] = "list" /\ reply'[d] = "ok" /\ ~foreign[d]
                         => listing[d] = There
                      /\ /\ cache[d] # None /\ ~foreign[d]
                         /\ ~(Calling(d)' /\ reply'[d] = "ok" /\ task'[mine'[d]].op # "update")
                         => cache[d] = Pathes(There)
    BY <1>p DEF Lists, Pathes, There, Present
  <2>1. CASE d = c
    BY <1>0, <1>c, <1>e, <1>f, <2>1 DEF Lists
  <2>2. CASE d # c
    <3>1. Calling(d) => task'[mine'[d]] = task[mine[d]]
      BY <1>d, <1>k, <1>m, <2>2
    <3> QED
      BY <1>0, <1>d, <1>e, <2>2, <3>1 DEF Lists
  <2> QED
    BY <2>1, <2>2
<1> QED
  BY <1>1, <1>2, <1>3, <1>4, <1>5 DEF IInv

\* Call k has its effect; its client, if it still waits, will hear so.
LEMMA ChangeInvariant ==
    ASSUME IInv, NEW k \in 1 .. calls, NEW r \in Changing, NEW knowing \in SUBSET Clients,
           Effective(k, r), Fits(task[k].op, r), outcome[k] \in {"open", "broken"}, k \notin did,
           Change(k, r, knowing), UNCHANGED <<pc, mine, listing, cache, calls, task, outcome>>,
           \A d \in Clients : d \in knowing <=> Calling(d) /\ mine[d] = k,
           \A d \in knowing : pc[d] \in Changing,
           reply' \in [Clients -> Raised \cup {"pending", "ok"}],
           \A d \in Clients : reply'[d] = IF d \in knowing THEN "ok" ELSE reply[d],
           late' \subseteq late, \A x \in late' : x.call # k
    PROVE  IInv'
<1> USE CallsAssumption, NamesAssumption
<1>0. TypeOK /\ Own /\ Effects /\ Answers /\ Lists
  BY DEF IInv
<1> DEFINE p == task[k].path
           there == r # "delete"
<1>k. k \in Calls /\ k \in Nat /\ k # None /\ p \in Paths /\ there \in BOOLEAN
  <2>1. k \in Calls /\ k \in Nat /\ k # None /\ k <= calls
    BY <1>0 DEF TypeOK, Calls
  <2>2. task[k] \in Task
    BY <1>0, <2>1 DEF Own
  <2> QED
    BY <2>1, <2>2 DEF Task
<1>p. /\ store' = [store EXCEPT ![p] = IF there THEN k ELSE None]
      /\ did' = did \cup {k}
      /\ foreign' = [c \in Clients |->
                       \/ foreign[c]
                       \/ HasList(c) /\ c \notin knowing /\ Present(p) # there]
      /\ was' = [c \in Clients |->
                   IF was[c] # {} /\ task[mine[c]].path = p THEN was[c] \cup {there}
                                                           ELSE was[c]]
  BY DEF Change
<1>t. /\ store \in [Paths -> {None} \cup 0 .. calls] /\ did \subseteq 1 .. calls
      /\ foreign \in [Clients -> BOOLEAN] /\ was \in [Clients -> SUBSET BOOLEAN]
      /\ calls \in Nat
  BY <1>0 DEF TypeOK
<1>s. /\ \A q \in Paths \ {p} : Present(q)' <=> Present(q)
      /\ Present(p)' <=> there
  BY <1>p, <1>t, <1>k DEF Present
<1>e. \A d \in Clients : Calling(d)' <=> Calling(d)
  BY DEF Calling
<1>q. \A d \in Clients : Calling(d) => task[mine[d]].path \in Paths
  BY CallsUnderWay DEF Task
<1>1. TypeOK'
  <2>1. store' \in [Paths -> {None} \cup 0 .. calls]
    BY <1>p, <1>t, <1>k
  <2>2. foreign' \in [Clients -> BOOLEAN]
    BY <1>p, <1>t
  <2>3. was' \in [Clients -> SUBSET BOOLEAN]
    BY <1>p, <1>t, <1>k
  <2>4. did' \subseteq 1 .. calls
    BY <1>p, <1>t
  <2> QED
    BY <1>0, <2>1, <2>2, <2>3, <2>4 DEF TypeOK
<1>2. Own'
  BY <1>0, <1>e DEF Own
<1>3. Effects'
  <2>1. ASSUME NEW d \in Clients, Calling(d)
        PROVE  mine[d] \in did' <=> reply'[d] = "ok"
    BY <1>0, <1>p, <2>1 DEF Effects
  <2>2. \A x \in late' : /\ outcome[x.call] = "broken"
                         /\ x.call \notin did'
                         /\ Fits(task[x.call].op, x.request)
    BY <1>0, <1>p DEF Effects
  <2>3. \A j \in Calls : /\ outcome[j] = "done" => j \in did'
                         /\ outcome[j] \in Raised => j \notin did'
    BY <1>0, <1>p DEF Effects, Raised
  <2> QED
    BY <1>0, <1>e, <2>1, <2>2, <2>3 DEF Effects
<1>4. Answers'
  <2> SUFFICES ASSUME NEW d \in Clients
               PROVE  /\ was'[d] # {} <=> Calling(d)
                      /\ Calling(d) =>
                           /\ Present(task[mine[d]].path)' \in was'[d]
                           /\ pc[d] \in {"post", "postUrl"} \/ reply'[d] = "notThere"
                              => FALSE \in was'[d]
                           /\ reply'[d] = "alreadyThere" => pc[d] = "post" /\ TRUE \in was'[d]
                           /\ reply'[d] = "notThere" => pc[d] \in {"put", "delete"}
                           /\ pc[d] \in Asking => reply'[d] = "pending"
    BY <1>e DEF Answers, Present
  <2>1. was'[d] = IF was[d] # {} /\ task[mine[d]].path = p THEN was[d] \cup {there} ELSE was[d]
    BY <1>p
  <2>2. was[d] \subseteq was'[d] /\ (was'[d] # {} <=> was[d] # {})
    BY <2>1
  <2>3. Calling(d) => Present(task[mine[d]].path)' \in was'[d]
    <3> SUFFICES ASSUME Calling(d) PROVE Present(task[mine[d]].path)' \in was'[d]
      OBVIOUS
    <3>0. was[d] # {} /\ Present(task[mine[d]].path) \in was[d]
      BY <1>0 DEF Answers
    <3>1. CASE task[mine[d]].path = p
      <4>1. Present(task[mine[d]].path)' <=> there
        BY <1>s, <3>1
      <4>2. there \in was'[d]
        BY <2>1, <3>0, <3>1
      <4> QED
        BY <4>1, <4>2 DEF Present
    <3>2. CASE task[mine[d]].path # p
      <4>1. Present(task[mine[d]].path)' <=> Present(task[mine[d]].path)
        BY <1>s, <1>q, <3>2
      <4>2. was'[d] = was[d]
        BY <2>1, <3>2
      <4> QED
        BY <3>0, <4>1, <4>2 DEF Present
    <3> QED
      BY <3>1, <3>2
  <2> QED
    BY <1>0, <2>2, <2>3 DEF Answers, Changing, Asking
<1>5. Lists'
  <2> SUFFICES ASSUME NEW d \in Clients, ~foreign'[d]
               PROVE  /\ pc[d] = "list" /\ reply'[d] = "ok" => listing[d] = There'
                      /\ /\ cache[d] # None
                         /\ ~(Calling(d) /\ reply'[d] = "ok" /\ task[mine[d]].op # "update")
                         => cache[d] = Pathes(There')
    BY <1>0, <1>e DEF Lists, Pathes
  <2>1. ~foreign[d] /\ (d \in knowing \/ ~HasList(d) \/ (Present(p) <=> there))
    BY <1>p DEF Present
  <2>2. (Present(p) <=> there) => There' = There
    BY <1>s DEF There
  <2>3. CASE d \in knowing
    <3>1. Calling(d) /\ mine[d] = k /\ reply'[d] = "ok" /\ pc[d] # "list"
      BY <2>3 DEF Calling, Changing
    <3>2. task[k].op = "update" => (Present(p) <=> there)
      BY DEF Fits, Effective, Changing
    <3> QED
      BY <1>0, <2>1, <2>2, <3>1, <3>2 DEF Lists
  <2>4. CASE d \notin knowing
    BY <1>0, <2>1, <2>2, <2>4 DEF Lists, HasList
  <2> QED
    BY <2>3, <2>4
<1> QED
  BY <1>1, <1>2, <1>3, <1>4, <1>5 DEF IInv

-----------------------------------------------------------------------------
\* What RefusalIsTrue says of a step.
Refusals ==
    \A c \in Clients :
        was[c] # {} /\ was'[c] = {} =>
          /\ outcome'[mine[c]] = "alreadyThere" => task[mine[c]].op = "set" /\ was[c] = BOOLEAN
          /\ outcome'[mine[c]] = "notThere" => task[mine[c]].op # "set" /\ FALSE \in was[c]

\* A step that ElementStore allows, and that refuses nothing without a reason.
Promised == [Store!Next]_(Store!vars) /\ Refusals

LEMMA QuietStep ==
    ASSUME UNCHANGED <<store, task, did, outcome>>,
           \A c \in Clients : was[c] # {} => was'[c] # {}
    PROVE  Promised
<1>1. UNCHANGED Store!vars
  BY DEF Store!vars, Told
<1> QED
  BY <1>1 DEF Promised, Refusals

\* The beginning of a call is that of ElementStore.
LEMMA BeginIsPromised ==
    ASSUME IInv, NEW c \in Clients, NEW t \in Task, Begin(c, t)
    PROVE  Promised
<1> USE CallsAssumption
<1> DEFINE k == calls + 1
<1>0. TypeOK /\ Own
  BY DEF IInv
<1>p. /\ calls < MaxCalls /\ calls \in Nat /\ k \in Calls
      /\ task' = [task EXCEPT ![k] = t] /\ outcome' = [outcome EXCEPT ![k] = "open"]
      /\ was' = [was EXCEPT ![c] = {Present(t.path)}]
      /\ UNCHANGED <<store, did>>
      /\ was \in [Clients -> SUBSET BOOLEAN]
      /\ outcome \in [Calls -> Raised \cup {"none", "open", "done", "broken"}]
  BY <1>0 DEF Begin, TypeOK, Calls
<1>1. outcome[k] = "none" /\ Told[k] = "none"
  BY <1>0, <1>p DEF Own, Told, Raised
<1>2. Told' = [Told EXCEPT ![k] = "open"]
  <2>1. \A j \in Calls : outcome'[j] = IF j = k THEN "open" ELSE outcome[j]
    BY <1>p
  <2> QED
    BY <1>p, <2>1 DEF Told, Raised
<1>3. Store!Begin(k)
  BY <1>p, <1>1, <1>2 DEF Store!Begin, Store!Task, Task
<1>4. Store!Next
  BY <1>p, <1>3 DEF Store!Next, Store!Calls, Calls
<1>5. Refusals
  BY <1>p DEF Refusals
<1> QED
  BY <1>4, <1>5 DEF Promised

\* So is its end, when what it tells is right.
LEMMA EndIsPromised ==
    ASSUME IInv, NEW c \in Clients, Calling(c), NEW o \in Raised \cup {"done", "broken"},
           End(c, o), UNCHANGED <<task, store, did>>,
           o = "done" => mine[c] \in did,
           o \in Raised => mine[c] \notin did,
           o = "alreadyThere" => task[mine[c]].op = "set" /\ was[c] = BOOLEAN,
           o = "notThere" => task[mine[c]].op # "set" /\ FALSE \in was[c]
    PROVE  Promised
<1> DEFINE k == mine[c]
           r == CASE o \in Raised -> "refused"
                  [] o = "broken" -> "unknown"
                  [] OTHER -> o
<1>p. /\ outcome' = [outcome EXCEPT ![k] = o] /\ was' = [was EXCEPT ![c] = {}]
      /\ outcome \in [Calls -> Raised \cup {"none", "open", "done", "broken"}]
      /\ was \in [Clients -> SUBSET BOOLEAN]
      /\ k \in Calls /\ outcome[k] = "open"
  BY CallsUnderWay DEF IInv, TypeOK, Own, End, Stop
<1>1. Told[k] = "open"
  BY <1>p DEF Told, Raised
<1>2. Told' = [Told EXCEPT ![k] = r]
  <2>1. \A j \in Calls : outcome'[j] = IF j = k THEN o ELSE outcome[j]
    BY <1>p
  <2>2. \A j \in Calls : Told'[j] = IF j = k THEN r ELSE Told[j]
    BY <2>1 DEF Told
  <2>3. Told' = [j \in Calls |-> Told'[j]] /\ Told = [j \in Calls |-> Told[j]]
    BY DEF Told
  <2> HIDE DEF r, k
  <2> QED
    BY <1>p, <2>2, <2>3
<1>3. /\ r \in {"done", "refused", "unknown"}
      /\ r = "done" => k \in did
      /\ r = "refused" => k \notin did
  BY DEF Raised
<1>4. Store!End(k, r)
  BY <1>1, <1>2, <1>3 DEF Store!End
<1>5. Store!Next
  BY <1>p, <1>3, <1>4 DEF Store!Next, Store!Calls, Calls
<1>6. Refusals
  BY <1>p DEF Refusals
<1> QED
  BY <1>5, <1>6 DEF Promised

\* And its effect.
LEMMA ChangeIsPromised ==
    ASSUME IInv, NEW k \in 1 .. calls, NEW r \in Changing, NEW knowing \in SUBSET Clients,
           Effective(k, r), Fits(task[k].op, r), outcome[k] \in {"open", "broken"}, k \notin did,
           Change(k, r, knowing), UNCHANGED <<mine, task, outcome>>
    PROVE  Promised
<1> USE CallsAssumption
<1>k. k \in Calls /\ task[k].op \in {"set", "del", "update"}
  <2>1. k \in Calls /\ k <= calls
    BY DEF IInv, TypeOK, Calls
  <2> QED
    BY <2>1 DEF IInv, Own, Task
<1>1. Told[k] \in {"open", "unknown"} /\ Told' = Told
  BY <1>k DEF Told, Raised
<1>2. /\ r = "delete" <=> task[k].op = "del"
      /\ task[k].op # "set" => store[task[k].path] # None
  BY <1>k DEF Fits, Changing, Effective, Present
<1>3. Store!Apply(k)
  BY <1>1, <1>2 DEF Store!Apply, Change
<1>4. Store!Next
  BY <1>k, <1>3 DEF Store!Next, Store!Calls, Calls
<1>5. Refusals
  <2>1. \A c \in Clients : was[c] # {} => was'[c] # {}
    BY DEF Change
  <2> QED
    BY <2>1 DEF Refusals
<1> QED
  BY <1>4, <1>5 DEF Promised

-----------------------------------------------------------------------------
\* A step of a client.
LEMMA ClientStep ==
    ASSUME IInv, NEW c \in Clients, Client(c)
    PROVE  IInv' /\ Promised
<1>0. TypeOK /\ Own /\ Effects /\ Answers /\ Lists
  BY DEF IInv
<1> DEFINE k == mine[c]
<1>t. /\ pc \in [Clients -> Waiting \cup {"idle"}]
      /\ reply \in [Clients -> Raised \cup {"pending", "ok"}]
      /\ listing \in [Clients -> SUBSET Paths]
      /\ cache \in [Clients -> {None} \cup SUBSET (Paths \cup {Blank})]
      /\ foreign \in [Clients -> BOOLEAN] /\ was \in [Clients -> SUBSET BOOLEAN]
  BY <1>0 DEF TypeOK
<1>l. /\ pc[c] \in {"list", "listUrl"} => cache[c] = None
      /\ pc[c] = "list" /\ reply[c] = "ok" /\ ~foreign[c] => listing[c] = There
      /\ /\ cache[c] # None /\ ~foreign[c]
         /\ ~(Calling(c) /\ reply[c] = "ok" /\ task[k].op # "update")
         => cache[c] = Pathes(There)
  BY <1>0 DEF Lists
<1>c. Calling(c) =>
        /\ task[k] \in Task /\ Fits(task[k].op, pc[c])
        /\ k \in did <=> reply[c] = "ok"
        /\ pc[c] \in {"post", "postUrl"} \/ reply[c] = "notThere" => FALSE \in was[c]
        /\ reply[c] = "alreadyThere" => pc[c] = "post" /\ TRUE \in was[c]
        /\ reply[c] = "notThere" => pc[c] \in {"put", "delete"}
        /\ pc[c] \in Asking => reply[c] = "pending"
        /\ was[c] \subseteq BOOLEAN
  BY <1>0, <1>t, CallsUnderWay DEF Own, Effects, Answers
\* A call that raises before its list is touched.
<1>r. ASSUME Calling(c), NEW o \in Raised \cup {"broken"}, Raise(c, o), reply[c] # "ok",
             UNCHANGED <<mine, listing, calls, task, store, late, did>>,
             o = "alreadyThere" => task[k].op = "set" /\ was[c] = BOOLEAN,
             o = "notThere" => task[k].op # "set" /\ FALSE \in was[c]
      PROVE  IInv' /\ Promised
  <2>1. End(c, o) /\ UNCHANGED <<cache, foreign>> /\ k \notin did
    BY <1>c, <1>r DEF Raise, KeepList
  <2>2. IInv'
    BY <1>t, <1>l, <1>r, <2>1, CallEnds DEF Raised
  <2>3. Promised
    BY <1>r, <2>1, EndIsPromised DEF Raised
  <2> QED
    BY <2>2, <2>3
\* A call that returns.
<1>s. ASSUME Calling(c), Return(c), reply[c] = "ok",
             UNCHANGED <<mine, listing, calls, task, store, late, did>>
      PROVE  IInv' /\ Promised
  <2>1. End(c, "done") /\ k \in did
    BY <1>c, <1>s DEF Return
  <2>2. /\ cache' \in [Clients -> {None} \cup SUBSET (Paths \cup {Blank})]
        /\ foreign' \in [Clients -> BOOLEAN]
        /\ \A d \in Clients \ {c} : cache'[d] = cache[d] /\ foreign'[d] = foreign[d]
        /\ cache'[c] # None /\ ~foreign'[c] => cache'[c] = Pathes(There)
    <3>1. CASE task[k].op = "update"
      BY <1>t, <1>l, <1>s, <3>1 DEF Return, KeepList
    <3>2. CASE task[k].op # "update"
      BY <1>t, <1>s, <3>2 DEF Return, DropList
    <3> QED
      BY <3>1, <3>2
  <2>3. IInv'
    BY <1>t, <1>s, <2>1, <2>2, CallEnds DEF Raised
  <2>4. Promised
    BY <1>s, <2>1, EndIsPromised DEF Raised
  <2> QED
    BY <2>3, <2>4
<1>1. ASSUME NEW t \in Task, Begin(c, t) PROVE IInv' /\ Promised
  BY <1>1, BeginInvariant, BeginIsPromised
<1>2. CASE Look(c)
  <2>1. /\ pc' = [pc EXCEPT ![c] = "listUrl"] /\ reply' = [reply EXCEPT ![c] = "pending"]
        /\ UNCHANGED <<mine, listing, cache, calls, task, outcome, store, late, did, foreign, was>>
        /\ ~Calling(c) /\ cache[c] = None
    BY <1>2 DEF Look, Request, Calling, Changing
  <2>2. IInv'
    BY <1>t, <2>1, OnlyLooks
  <2> QED
    BY <2>1, <2>2, QuietStep
<1>3. CASE Refresh(c)
  <2>1. /\ pc' = [pc EXCEPT ![c] = "idle"] /\ reply' = reply /\ ~Calling(c)
        /\ UNCHANGED <<mine, listing, calls, task, outcome, store, late, did, was>>
        /\ cache' = [cache EXCEPT ![c] = None] /\ foreign' = [foreign EXCEPT ![c] = FALSE]
    BY <1>3, <1>t DEF Refresh, DropList, Calling, Changing
  <2>2. IInv'
    BY <1>t, <2>1, OnlyLooks
  <2> QED
    BY <2>1, <2>2, QuietStep
<1>4. CASE ResolveUrl(c)
  <2>p. pc[c] \in Asking /\ UNCHANGED <<mine, listing, calls, task, store, late, did>>
    BY <1>4 DEF ResolveUrl
  <2>1. CASE pc[c] = "listUrl"
    <3>1. ~Calling(c) /\ cache[c] = None
      BY <1>l, <2>1 DEF Calling, Changing
    <3>w. was[c] = {}
      BY <1>0, <3>1 DEF Answers
    <3>2. PICK w \in {"list", "idle"} :
            /\ pc' = [pc EXCEPT ![c] = w] /\ reply' = [reply EXCEPT ![c] = "pending"]
            /\ UNCHANGED <<outcome, cache, foreign>>
            /\ was' = was
      <4>1. CASE Continue(c, "list")
        BY <4>1 DEF Continue, Request, KeepList
      <4>2. CASE Stop(c) /\ KeepList /\ UNCHANGED outcome
        BY <1>t, <3>w, <4>2 DEF Stop, Request, KeepList
      <4> QED
        BY <1>4, <2>1, <4>1, <4>2 DEF ResolveUrl
    <3>3. reply'[c] = "pending"
      BY <1>t, <3>2
    <3>4. IInv'
      BY <1>t, <2>p, <3>1, <3>2, <3>3, OnlyLooks
    <3> QED
      BY <2>p, <3>2, <3>4, QuietStep
  <2>2. CASE pc[c] \in {"postUrl", "deleteUrl"}
    <3>1. Calling(c) /\ reply[c] \notin {"ok", "alreadyThere", "notThere"}
      <4>1. Calling(c)
        BY <2>2 DEF Calling
      <4> QED
        BY <1>c, <2>2, <4>1 DEF Asking, Raised
    <3>2. ASSUME Continue(c, IF pc[c] = "postUrl" THEN "post" ELSE "delete")
          PROVE  IInv' /\ Promised
      <4>1. IInv'
        BY <1>c, <2>p, <2>2, <3>1, <3>2, CallContinues DEF Fits
      <4>2. UNCHANGED <<store, task, did, outcome, was>>
        BY <2>p, <3>2 DEF Continue
      <4> QED
        BY <4>1, <4>2, QuietStep
    <3>3. CASE Raise(c, "refused")
      BY <1>r, <2>p, <3>1, <3>3 DEF Raised
    <3> QED
      BY <1>4, <2>2, <3>2, <3>3 DEF ResolveUrl
  <2> QED
    BY <2>p, <2>1, <2>2 DEF Asking
<1>5. CASE ReceivePut(c)
  <2>p. /\ pc[c] = "put" /\ reply[c] # "pending" /\ Calling(c)
        /\ UNCHANGED <<mine, listing, calls, task, store, late, did>>
    BY <1>5 DEF ReceivePut, Calling, Changing
  <2>1. CASE reply[c] = "ok"
    <3>1. Return(c)
      BY <1>5, <2>1 DEF ReceivePut
    <3> QED
      BY <1>s, <2>p, <2>1, <3>1
  <2>2. CASE reply[c] = "notThere" /\ task[k].op = "set"
    <3>1. Continue(c, "postUrl")
      BY <1>5, <2>2 DEF ReceivePut
    <3>2. IInv'
      BY <1>c, <2>p, <2>2, <3>1, CallContinues DEF Fits
    <3> QED
      BY <2>p, <3>1, <3>2, QuietStep DEF Continue
  <2>3. CASE reply[c] # "ok" /\ ~(reply[c] = "notThere" /\ task[k].op = "set")
    <3>1. Raise(c, reply[c])
      BY <1>5, <2>3 DEF ReceivePut
    <3>2. reply[c] \in Raised
      BY <1>t, <2>p, <2>3
    <3> QED
      BY <1>c, <1>r, <2>p, <2>3, <3>1, <3>2
  <2> QED
    BY <2>1, <2>2, <2>3
<1>6. CASE ReceiveChange(c)
  <2>p. /\ pc[c] \in {"post", "delete"} /\ reply[c] # "pending" /\ Calling(c)
        /\ UNCHANGED <<mine, listing, calls, task, store, late, did>>
    BY <1>6 DEF ReceiveChange, Calling, Changing
  <2>1. CASE reply[c] = "ok"
    <3>1. Return(c)
      BY <1>6, <2>1 DEF ReceiveChange
    <3> QED
      BY <1>s, <2>p, <2>1, <3>1
  <2>2. CASE reply[c] # "ok"
    <3>1. Raise(c, reply[c]) /\ reply[c] \in Raised
      BY <1>6, <1>t, <2>p, <2>2 DEF ReceiveChange
    <3>2. reply[c] = "alreadyThere" => task[k].op = "set" /\ was[c] = BOOLEAN
      BY <1>c, <2>p DEF Fits
    <3>3. reply[c] = "notThere" => task[k].op # "set" /\ FALSE \in was[c]
      BY <1>c, <2>p DEF Fits
    <3> QED
      BY <1>r, <2>p, <2>2, <3>1, <3>2, <3>3
  <2> QED
    BY <2>1, <2>2
<1>7. CASE ReceiveList(c)
  <2>p. /\ pc[c] = "list" /\ ~Calling(c) /\ cache[c] = None
        /\ pc' = [pc EXCEPT ![c] = "idle"] /\ reply' = [reply EXCEPT ![c] = "pending"]
        /\ UNCHANGED <<mine, calls, task, outcome, store, late, did, foreign>>
        /\ cache' = [cache EXCEPT ![c] = IF reply[c] = "ok" THEN Pathes(listing[c]) ELSE @]
        /\ listing' = [listing EXCEPT ![c] = {}] /\ was' = [was EXCEPT ![c] = {}]
    BY <1>7, <1>l DEF ReceiveList, Stop, Request, Calling, Changing
  <2>1. was' = was
    BY <1>0, <1>t, <2>p DEF Answers
  <2>2. /\ cache' \in [Clients -> {None} \cup SUBSET (Paths \cup {Blank})]
        /\ cache'[c] # None /\ ~foreign[c] => cache'[c] = Pathes(There)
    BY <1>t, <1>l, <2>p DEF Pathes
  <2>3. IInv'
    BY <1>t, <2>p, <2>1, <2>2, OnlyLooks
  <2> QED
    BY <2>p, <2>1, <2>3, QuietStep
<1>8. CASE RequestFails(c)
  <2>p. /\ pc[c] \in Waiting /\ UNCHANGED <<mine, cache, calls, task, store, did>>
        /\ listing' = [listing EXCEPT ![c] = {}]
        /\ foreign' = [foreign EXCEPT ![c] = cache[c] # None
                                             /\ (@ \/ (pc[c] \in Changing /\ reply[c] = "ok"))]
        /\ late' = IF pc[c] \in Changing /\ reply[c] = "pending"
                   THEN late \cup {[call |-> k, request |-> pc[c]]} ELSE late
    BY <1>8 DEF RequestFails, Abandon
  <2>f. /\ foreign' \in [Clients -> BOOLEAN] /\ listing' \in [Clients -> SUBSET Paths]
        /\ \A d \in Clients \ {c} : listing'[d] = listing[d] /\ foreign'[d] = foreign[d]
    BY <1>t, <2>p
  <2>1. CASE pc[c] \in {"list", "listUrl"}
    <3>1. ~Calling(c) /\ cache[c] = None /\ late' = late
      BY <1>l, <2>p, <2>1 DEF Calling, Changing
    <3>2. /\ pc' = [pc EXCEPT ![c] = "idle"] /\ reply' = [reply EXCEPT ![c] = "pending"]
          /\ UNCHANGED <<outcome, was>>
      BY <1>0, <1>t, <1>8, <2>1, <3>1 DEF RequestFails, Stop, Request, Answers
    <3>3. IInv'
      BY <1>t, <2>p, <2>f, <3>1, <3>2, OnlyLooks
    <3> QED
      BY <2>p, <3>2, <3>3, QuietStep
  <2>2. CASE pc[c] \notin {"list", "listUrl"}
    <3>1. Calling(c) /\ End(c, "broken")
      BY <1>8, <2>p, <2>2 DEF RequestFails, Calling, Waiting, Asking
    <3>2. cache[c] # None /\ ~foreign'[c] => cache[c] = Pathes(There)
      <4> SUFFICES ASSUME cache[c] # None, ~foreign'[c] PROVE cache[c] = Pathes(There)
        OBVIOUS
      <4>1. ~foreign[c] /\ ~(pc[c] \in Changing /\ reply[c] = "ok")
        BY <1>t, <2>p
      <4>2. reply[c] # "ok"
        BY <1>c, <3>1, <4>1 DEF Calling, Asking
      <4> QED
        BY <1>l, <4>1, <4>2
    <3>3. IInv'
      BY <1>c, <1>t, <2>p, <2>f, <3>1, <3>2, CallEnds DEF Raised
    <3>4. Promised
      BY <2>p, <3>1, EndIsPromised DEF Raised
    <3> QED
      BY <3>3, <3>4
  <2> QED
    BY <2>1, <2>2
<1> QED
  BY <1>0, <1>1, <1>2, <1>3, <1>4, <1>5, <1>6, <1>7, <1>8 DEF Client

\* A server carries out a request, or refuses it.
LEMMA ServeStep ==
    ASSUME IInv, NEW c \in Clients, ServeChange(c)
    PROVE  IInv' /\ Promised
<1>0. TypeOK /\ Own /\ Effects /\ Answers /\ Lists
  BY DEF IInv
<1> DEFINE k == mine[c]
<1>p. /\ pc[c] \in Changing /\ reply[c] = "pending" /\ Calling(c)
      /\ UNCHANGED <<pc, mine, listing, cache, calls, task, outcome, late>>
      /\ reply \in [Clients -> Raised \cup {"pending", "ok"}]
  BY <1>0 DEF ServeChange, Calling, TypeOK
<1>k. /\ k \in 1 .. calls /\ k # 0 /\ outcome[k] = "open" /\ Fits(task[k].op, pc[c])
      /\ k \notin did
  BY <1>0, <1>p, CallsUnderWay DEF Own, Effects
<1>1. CASE Effective(k, pc[c]) /\ Change(k, pc[c], {c}) /\ Answer(c, "ok")
  <2>1. reply' = [reply EXCEPT ![c] = "ok"]
    BY <1>1 DEF Answer
  <2>2. /\ reply' \in [Clients -> Raised \cup {"pending", "ok"}]
        /\ \A d \in Clients : reply'[d] = IF d \in {c} THEN "ok" ELSE reply[d]
    BY <1>p, <2>1
  <2>3. \A d \in Clients : d \in {c} <=> Calling(d) /\ mine[d] = k
    BY <1>0, <1>p, <1>k DEF Own
  <2>4. \A x \in late : x.call # k
    BY <1>0, <1>k DEF Effects
  <2>5. IInv'
    BY <1>p, <1>k, <1>1, <2>2, <2>3, <2>4, ChangeInvariant
  <2>6. Promised
    BY <1>p, <1>k, <1>1, ChangeIsPromised
  <2> QED
    BY <2>5, <2>6
<1>2. ASSUME NEW r \in Raised, Answer(c, r), UNCHANGED <<store, did, foreign, was>>,
             r = "alreadyThere" => pc[c] = "post" /\ Present(task[k].path),
             r = "notThere" => pc[c] \in {"put", "delete"} /\ ~Present(task[k].path)
      PROVE  IInv' /\ Promised
  <2>1. reply' = [reply EXCEPT ![c] = r]
    BY <1>2 DEF Answer
  <2>2. /\ reply' \in [Clients -> Raised \cup {"pending", "ok"}]
        /\ reply'[c] = r /\ \A d \in Clients \ {c} : reply'[d] = reply[d]
        /\ \A d \in Clients : reply'[d] = "ok" <=> reply[d] = "ok"
    BY <1>p, <2>1 DEF Raised
  <2>e. \A d \in Clients : Calling(d)' <=> Calling(d)
    BY <1>p DEF Calling
  <2>3. TypeOK'
    BY <1>0, <1>p, <1>2, <2>2 DEF TypeOK
  <2>4. Own' /\ Effects'
    BY <1>0, <1>p, <1>2, <2>2, <2>e DEF Own, Effects
  <2>5. Answers'
    <3> SUFFICES ASSUME NEW d \in Clients
                 PROVE  /\ was[d] # {} <=> Calling(d)
                        /\ Calling(d) =>
                             /\ Present(task[mine[d]].path) \in was[d]
                             /\ pc[d] \in {"post", "postUrl"} \/ reply'[d] = "notThere"
                                => FALSE \in was[d]
                             /\ reply'[d] = "alreadyThere" => pc[d] = "post" /\ TRUE \in was[d]
                             /\ reply'[d] = "notThere" => pc[d] \in {"put", "delete"}
                             /\ pc[d] \in Asking => reply'[d] = "pending"
      BY <1>p, <1>2, <2>e DEF Answers, Present
    <3>1. CASE d = c
      <4>1. Present(task[k].path) \in was[c]
        BY <1>0, <1>p DEF Answers
      <4>2. /\ r = "notThere" => FALSE \in was[c]
            /\ r = "alreadyThere" => TRUE \in was[c]
        BY <1>2, <4>1 DEF Present
      <4> QED
        BY <1>0, <1>p, <1>2, <2>2, <3>1, <4>1, <4>2 DEF Answers, Changing, Asking
    <3>2. CASE d # c
      BY <1>0, <2>2, <3>2 DEF Answers
    <3> QED
      BY <3>1, <3>2
  <2>6. Lists'
    BY <1>0, <1>p, <1>2, <2>2, <2>e DEF Lists, There, Present, Pathes
  <2>7. Promised
    BY <1>p, <1>2, QuietStep
  <2> QED
    BY <2>3, <2>4, <2>5, <2>6, <2>7 DEF IInv
<1>3. CASE ~Effective(k, pc[c]) /\ UNCHANGED <<store, did, foreign, was>>
             /\ Answer(c, IF pc[c] = "post" THEN "alreadyThere" ELSE "notThere")
  <2>1. CASE pc[c] = "post"
    BY <1>2, <1>3, <2>1 DEF Raised, Effective
  <2>2. CASE pc[c] # "post"
    BY <1>p, <1>2, <1>3, <2>2 DEF Raised, Effective, Changing
  <2> QED
    BY <2>1, <2>2
<1>4. CASE Answer(c, "refused") /\ UNCHANGED <<store, did, foreign, was>>
  BY <1>2, <1>4 DEF Raised
<1> QED
  BY <1>1, <1>3, <1>4 DEF ServeChange

\* A request that was given up is carried out.
LEMMA ServeLateStep == IInv /\ ServeLate => IInv' /\ Promised
<1> SUFFICES ASSUME IInv, ServeLate PROVE IInv' /\ Promised
  OBVIOUS
<1>0. TypeOK /\ Own /\ Effects /\ Answers /\ Lists
  BY DEF IInv
<1>x. PICK x \in late : /\ late' = late \ {x}
                        /\ Effective(x.call, x.request)
                        /\ Change(x.call, x.request, {})
                        /\ UNCHANGED <<pc, mine, reply, listing, cache, calls, task, outcome>>
  BY DEF ServeLate, clientVars
<1>k. /\ x.call \in 1 .. calls /\ x.request \in Changing
      /\ outcome[x.call] = "broken" /\ x.call \notin did /\ Fits(task[x.call].op, x.request)
  BY <1>0 DEF TypeOK, Effects
<1>1. /\ reply' \in [Clients -> Raised \cup {"pending", "ok"}]
      /\ \A d \in Clients : reply'[d] = IF d \in {} THEN "ok" ELSE reply[d]
  BY <1>0, <1>x DEF TypeOK
<1>2. \A d \in Clients : d \in {} <=> Calling(d) /\ mine[d] = x.call
  BY <1>0, <1>k DEF Own
<1>3. \A y \in late' : y.call # x.call
  BY <1>0, <1>x DEF Effects
<1>4. IInv'
  BY <1>x, <1>k, <1>1, <1>2, <1>3, ChangeInvariant
<1>5. Promised
  BY <1>x, <1>k, ChangeIsPromised
<1> QED
  BY <1>4, <1>5

\* A server lists the paths.
LEMMA ServeListStep ==
    ASSUME IInv, NEW c \in Clients, ServeList(c)
    PROVE  IInv' /\ Promised
<1>0. TypeOK /\ Own /\ Effects /\ Answers /\ Lists
  BY DEF IInv
<1>p. /\ pc[c] = "list" /\ ~Calling(c) /\ cache[c] = None
      /\ UNCHANGED <<pc, mine, cache, calls, task, outcome, store, late, did, was>>
      /\ reply \in [Clients -> Raised \cup {"pending", "ok"}]
      /\ listing \in [Clients -> SUBSET Paths] /\ foreign \in [Clients -> BOOLEAN]
  BY <1>0 DEF ServeList, Calling, Changing, Lists, TypeOK
<1>1. PICK r \in {"ok", "refused"} :
        /\ reply' = [reply EXCEPT ![c] = r]
        /\ \/ /\ r = "ok"
              /\ listing' = [listing EXCEPT ![c] = There]
              /\ foreign' = [foreign EXCEPT ![c] = FALSE]
           \/ r = "refused" /\ UNCHANGED <<listing, foreign>>
  BY DEF ServeList, Answer, There
<1>d. /\ \A d \in Clients \ {c} : /\ reply'[d] = reply[d] /\ listing'[d] = listing[d]
                                  /\ foreign'[d] = foreign[d]
      /\ reply'[c] = r /\ (r = "ok" => listing'[c] = There)
  BY <1>p, <1>1
<1>e. \A d \in Clients : Calling(d)' <=> Calling(d)
  BY <1>p DEF Calling
<1>2. TypeOK'
  <2>1. /\ reply' \in [Clients -> Raised \cup {"pending", "ok"}]
        /\ listing' \in [Clients -> SUBSET Paths] /\ foreign' \in [Clients -> BOOLEAN]
    BY <1>p, <1>1 DEF Raised, There
  <2> QED
    BY <1>0, <1>p, <2>1 DEF TypeOK
<1>3. Own' /\ Effects'
  BY <1>0, <1>p, <1>d, <1>e DEF Own, Effects
<1>4. Answers'
  BY <1>0, <1>p, <1>d, <1>e DEF Answers, Present
<1>5. Lists'
  <2>1. There' = There
    BY <1>p DEF There, Present
  <2> SUFFICES ASSUME NEW d \in Clients
               PROVE  /\ pc[d] \in {"list", "listUrl"} => cache[d] = None
                      /\ pc[d] = "list" /\ reply'[d] = "ok" /\ ~foreign'[d]
                         => listing'[d] = There
                      /\ /\ cache[d] # None /\ ~foreign'[d]
                         /\ ~(Calling(d) /\ reply'[d] = "ok" /\ task[mine[d]].op # "update")
                         => cache[d] = Pathes(There)
    BY <1>p, <1>e, <2>1 DEF Lists, Pathes
  <2>2. CASE d = c
    BY <1>p, <1>d, <2>2
  <2>3. CASE d # c
    BY <1>0, <1>d, <2>3 DEF Lists
  <2> QED
    BY <2>2, <2>3
<1>6. Promised
  BY <1>p, QuietStep
<1> QED
  BY <1>2, <1>3, <1>4, <1>5, <1>6 DEF IInv

LEMMA NextStep == IInv /\ [Next]_vars => IInv' /\ Promised
<1> SUFFICES ASSUME IInv, [Next]_vars PROVE IInv' /\ Promised
  OBVIOUS
<1>1. CASE UNCHANGED vars
  <2>1. UNCHANGED <<pc, mine, reply, listing, cache, calls, task, outcome,
                    store, late, did, foreign, was>>
    BY <1>1 DEF vars, clientVars
  <2>2. TypeOK' /\ Own' /\ Effects'
    BY <2>1 DEF IInv, TypeOK, Own, Effects, Calling
  <2>3. Answers' /\ Lists'
    BY <2>1 DEF IInv, Answers, Lists, Calling, There, Present, Pathes
  <2> QED
    BY <2>1, <2>2, <2>3, QuietStep DEF IInv
<1> QED
  BY <1>1, ClientStep, ServeStep, ServeLateStep, ServeListStep DEF Next, Servers

LEMMA Invariance == Spec => []IInv
<1>1. IInv /\ [Next]_vars => IInv'
  BY NextStep
<1> QED
  BY <1>1, InitInvariant, PTL DEF Spec

\* TypeOK, for any clients, any paths and any number of calls.
THEOREM TypeCorrect == Spec => []TypeOK
<1>1. IInv => TypeOK
  BY DEF IInv
<1> QED
  BY <1>1, Invariance, PTL

\* CacheShowsOwn: the list that a collection keeps is wrong only by what others did or by
\* calls whose request broke.
THEOREM ListsShowOwnCalls == Spec => []CacheShowsOwn
BY ListsAreShown, Invariance, PTL

\* RefusalIsTrue: an assignment is refused for an element that is there only when it came
\* in between, and a deletion or an update for one that is not only when it was not.
THEOREM RefusalsAreTrue == Spec => RefusalIsTrue
<1>1. IInv /\ [Next]_vars => [Refusals]_vars
  BY NextStep DEF Promised
<1>2. Spec => [][Refusals]_vars
  BY <1>1, Invariance, PTL DEF Spec
<1> QED
  BY <1>2 DEF RefusalIsTrue, Refusals

\* KeepsStore: the collections, with their requests one after the other, lost and late,
\* implement ElementStore.
THEOREM ImplementsStore == Spec => KeepsStore
<1>1. Init => Store!Init
  BY DEF Init, Store!Init, Store!Calls, Calls, Told, Raised
<1>2. IInv /\ [Next]_vars => [Store!Next]_(Store!vars)
  BY NextStep DEF Promised
<1> QED
  BY <1>1, <1>2, Invariance, PTL DEF Spec, KeepsStore, Store!Spec
=============================================================================
