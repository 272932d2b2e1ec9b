--------------------------- MODULE ElementCollection ---------------------------
(***************************************************************************)
(* SubmodelElementCollection (mdtpy/submodel.py) with the references it    *)
(* makes for its elements (mdtpy/ref/base_reference.py): clients that look *)
(* at, assign and delete the elements of one submodel, each through a      *)
(* collection of its own that keeps the list of paths it fetched.          *)
(*                                                                         *)
(* An assignment first writes through the instance manager, and adds the   *)
(* element at the instance's own server when there is none; a deletion     *)
(* goes to that server.  Both ask the manager for the element's URL first. *)
(* An update of a value is written through the manager and adds nothing.   *)
(* Requests are answered, lost, or carried out after their sender gave up. *)
(***************************************************************************)
EXTENDS Naturals

CONSTANTS
    Clients,    \* the processes, each with a collection of its own
    Paths,      \* the idShort paths that are used
    MaxCalls,   \* bound: assignments, deletions and updates, all together
    None        \* no element, no call, no list

\* The answer that lists no path is read as a list with one path of no characters.
Blank == ""

ASSUME CallsAssumption == MaxCalls \in Nat
ASSUME NamesAssumption == /\ Blank \notin Paths
                          /\ None \notin Nat
                          /\ \A P \in SUBSET (Paths \cup {Blank}) : P # None
                          /\ \A t \in [op : {"set", "del", "update"}, path : Paths] : t # None

Calls == 1 .. MaxCalls

\* What calls of __setitem__, __delitem__ and update_value are to do.
Task == [op : {"set", "del", "update"}, path : Paths]

VARIABLES
    \* the clients
    pc,       \* the request that each client waits for
    mine,     \* its last call that changes something, 0 if it made none
    reply,    \* the answer to its request, "pending" until it comes
    listing,  \* the paths that came with that answer
    cache,    \* the paths its collection keeps, None if it keeps none
    \* the calls, in the order they were made
    calls,    \* how many there were
    task,     \* what each is to do
    outcome,  \* how it ended
    \* the submodel and the network
    store,    \* the call that wrote each element, 0 for what the submodel came with
    late,     \* requests given up by their sender that may yet be carried out
    \* history
    did,      \* the calls that had their effect
    foreign,  \* whether paths came or went, by no success of the client, since its list was made
    was       \* whether the path was there, at any time of the call that the client is making

clientVars == <<pc, mine, reply, listing, cache, calls, task, outcome>>
vars == <<clientVars, store, late, did, foreign, was>>

\* Requests that change the submodel, and those that ask the manager for a URL.
Changing == {"put", "post", "delete"}
Asking == {"listUrl", "postUrl", "deleteUrl"}
Waiting == Changing \cup Asking \cup {"list"}

\* "refused" is any error that a server answers for reasons of its own.
Raised == {"notThere", "alreadyThere", "refused"}

TypeOK ==
    /\ pc \in [Clients -> Waiting \cup {"idle"}]
    /\ mine \in [Clients -> 0 .. calls]
    /\ reply \in [Clients -> Raised \cup {"pending", "ok"}]
    /\ listing \in [Clients -> SUBSET Paths]
    /\ cache \in [Clients -> {None} \cup SUBSET (Paths \cup {Blank})]
    /\ calls \in 0 .. MaxCalls
    /\ task \in [Calls -> {None} \cup Task]
    /\ outcome \in [Calls -> Raised \cup {"none", "open", "done", "broken"}]
    /\ store \in [Paths -> {None} \cup 0 .. calls]
    /\ late \subseteq [call : 1 .. calls, request : Changing]
    /\ did \subseteq 1 .. calls
    /\ foreign \in [Clients -> BOOLEAN]
    /\ was \in [Clients -> SUBSET BOOLEAN]

Init ==
    /\ pc = [c \in Clients |-> "idle"]
    /\ mine = [c \in Clients |-> 0]
    /\ reply = [c \in Clients |-> "pending"]
    /\ listing = [c \in Clients |-> {}]
    /\ cache = [c \in Clients |-> None]
    /\ calls = 0
    /\ task = [k \in Calls |-> None]
    /\ outcome = [k \in Calls |-> "none"]
    /\ store \in [Paths -> {0, None}]
    /\ late = {}
    /\ did = {}
    /\ foreign = [c \in Clients |-> FALSE]
    /\ was = [c \in Clients |-> {}]

-----------------------------------------------------------------------------
(* The clients.                                                            *)

Request(c, what) ==
    /\ pc' = [pc EXCEPT ![c] = what]
    /\ reply' = [reply EXCEPT ![c] = "pending"]

Present(p) == store[p] # None

\* Mutant: an element is added straight away, and not written first.
MutantFirst(o) == [set |-> "postUrl", del |-> "deleteUrl", update |-> "put"][o]

\* The request that a call begins with.  "put" is a write through the manager: a PUT of
\* an element or a PATCH of its value.
First(o) == IF o = "del" THEN "deleteUrl" ELSE "put"

\* collection[p] = element, del collection[p], collection.update_value(p, value)
Begin(c, t) ==
    /\ pc[c] = "idle"
    /\ calls < MaxCalls
    /\ calls' = calls + 1
    /\ task' = [task EXCEPT ![calls + 1] = t]
    /\ outcome' = [outcome EXCEPT ![calls + 1] = "open"]
    /\ mine' = [mine EXCEPT ![c] = calls + 1]
    /\ was' = [was EXCEPT ![c] = {Present(t.path)}]
    /\ Request(c, First(t.op))
    /\ UNCHANGED <<listing, cache, store, late, did, foreign>>

\* p in collection, len(collection), or an iteration, while no list is kept; with a
\* list they ask nobody and change nothing.
Look(c) ==
    /\ pc[c] = "idle"
    /\ cache[c] = None
    /\ Request(c, "listUrl")
    /\ UNCHANGED <<mine, listing, cache, calls, task, outcome, store, late, did, foreign, was>>

\* The list that the collection keeps.
DropList(c) ==
    /\ cache' = [cache EXCEPT ![c] = None]
    /\ foreign' = [foreign EXCEPT ![c] = FALSE]

KeepList == UNCHANGED <<cache, foreign>>

Refresh(c) ==
    /\ pc[c] = "idle"
    /\ cache[c] # None
    /\ DropList(c)
    /\ UNCHANGED <<pc, mine, reply, listing, calls, task, outcome, store, late, did, was>>

\* The client goes on with its next request.
Continue(c, what) ==
    /\ Request(c, what)
    /\ UNCHANGED <<outcome, was>>
    /\ KeepList

\* It is done with its requests.
Stop(c) ==
    /\ Request(c, "idle")
    /\ was' = [was EXCEPT ![c] = {}]

\* The call of c ends with o.
End(c, o) ==
    /\ Stop(c)
    /\ outcome' = [outcome EXCEPT ![mine[c]] = o]

\* A call that raises leaves the list alone.
Raise(c, o) == End(c, o) /\ KeepList

\* Mutant: only an assignment drops the list.
MutantReturn(c) ==
    /\ End(c, "done")
    /\ IF task[mine[c]].op = "set" THEN DropList(c) ELSE KeepList

\* A call that succeeds drops it, unless only a value was updated.
Return(c) ==
    /\ End(c, "done")
    /\ IF task[mine[c]].op = "update" THEN KeepList ELSE DropList(c)

\* The URL of an element, or of the submodel's list of elements, is known.  A reference
\* made for one use asks for it, so it is never an old one.
ResolveUrl(c) ==
    /\ pc[c] \in Asking
    /\ \/ Continue(c, CASE pc[c] = "listUrl" -> "list"
                        [] pc[c] = "postUrl" -> "post"
                        [] pc[c] = "deleteUrl" -> "delete")
       \/ IF pc[c] = "listUrl" THEN Stop(c) /\ KeepList /\ UNCHANGED outcome
                               ELSE Raise(c, "refused")
    /\ UNCHANGED <<mine, listing, calls, task, store, late, did>>

\* __setitem__ adds the element when the write finds none, and only then.
ReceivePut(c) ==
    /\ pc[c] = "put"
    /\ reply[c] # "pending"
    /\ CASE reply[c] = "ok" -> Return(c)
         [] reply[c] = "notThere" /\ task[mine[c]].op = "set" -> Continue(c, "postUrl")
         [] OTHER -> Raise(c, reply[c])
    /\ UNCHANGED <<mine, listing, calls, task, store, late, did>>

ReceiveChange(c) ==
    /\ pc[c] \in {"post", "delete"}
    /\ reply[c] # "pending"
    /\ IF reply[c] = "ok" THEN Return(c) ELSE Raise(c, reply[c])
    /\ UNCHANGED <<mine, listing, calls, task, store, late, did>>

\* What pathes() makes of the answer that lists P.
Pathes(P) == IF P = {} THEN {Blank} ELSE P

\* Mutant: the text of an error is read as a list of paths, too.
MutantReceiveList(c) ==
    /\ pc[c] = "list"
    /\ reply[c] # "pending"
    /\ cache' = [cache EXCEPT ![c] = IF reply[c] = "ok" THEN Pathes(listing[c]) ELSE {reply[c]}]
    /\ listing' = [listing EXCEPT ![c] = {}]
    /\ Stop(c)
    /\ UNCHANGED <<mine, calls, task, outcome, store, late, did, foreign>>

\* The list is kept; after an error the collection still has none.
ReceiveList(c) ==
    /\ pc[c] = "list"
    /\ reply[c] # "pending"
    /\ cache' = [cache EXCEPT ![c] = IF reply[c] = "ok" THEN Pathes(listing[c]) ELSE @]
    /\ listing' = [listing EXCEPT ![c] = {}]
    /\ Stop(c)
    /\ UNCHANGED <<mine, calls, task, outcome, store, late, did, foreign>>

\* What is left of the request of c when c stops waiting: it may still be carried out,
\* or it was and nobody hears of it.
Abandon(c) ==
    /\ late' = IF pc[c] \in Changing /\ reply[c] = "pending"
               THEN late \cup {[call |-> mine[c], request |-> pc[c]]} ELSE late
    /\ foreign' = [foreign EXCEPT ![c] = cache[c] # None
                                         /\ (@ \/ (pc[c] \in Changing /\ reply[c] = "ok"))]
    /\ listing' = [listing EXCEPT ![c] = {}]

\* Mutant: __setitem__ adds the element whatever became of the write.
MutantRequestFails(c) ==
    /\ pc[c] \in Waiting
    /\ CASE pc[c] \in {"list", "listUrl"} -> Stop(c) /\ UNCHANGED outcome
         [] pc[c] = "put" /\ task[mine[c]].op = "set" ->
              Request(c, "postUrl") /\ UNCHANGED <<outcome, was>>
         [] OTHER -> End(c, "broken")
    /\ Abandon(c)
    /\ UNCHANGED <<mine, cache, calls, task, store, did>>

\* The connection breaks or the time limit of the request runs out: the call raises.
RequestFails(c) ==
    /\ pc[c] \in Waiting
    /\ IF pc[c] \in {"list", "listUrl"} THEN Stop(c) /\ UNCHANGED outcome
                                        ELSE End(c, "broken")
    /\ Abandon(c)
    /\ UNCHANGED <<mine, cache, calls, task, store, did>>

Client(c) ==
    \/ \E t \in Task : Begin(c, t)
    \/ Look(c) \/ Refresh(c)
    \/ ResolveUrl(c) \/ ReceivePut(c) \/ ReceiveChange(c) \/ ReceiveList(c)
    \/ RequestFails(c)

-----------------------------------------------------------------------------
(* The manager, the server of the instance and the network.                *)

\* A write changes an element that is there, a POST adds one that is not, a DELETE takes
\* one away that is.
Effective(k, r) == Present(task[k].path) <=> r # "post"

\* c keeps a list, or one is on its way.
HasList(c) == cache[c] # None \/ (pc[c] = "list" /\ reply[c] = "ok")

\* Call k has its effect by request r; clients in `knowing' will hear of it.
Change(k, r, knowing) ==
    LET p == task[k].path
        there == r # "delete"
    IN  /\ store' = [store EXCEPT ![p] = IF there THEN k ELSE None]
        /\ did' = did \cup {k}
        /\ foreign' = [c \in Clients |->
                         \/ foreign[c]
                         \/ HasList(c) /\ c \notin knowing /\ Present(p) # there]
        /\ was' = [c \in Clients |->
                     IF was[c] # {} /\ task[mine[c]].path = p THEN was[c] \cup {there}
                                                             ELSE was[c]]

Answer(c, r) == reply' = [reply EXCEPT ![c] = r]

ServeChange(c) ==
    /\ pc[c] \in Changing
    /\ reply[c] = "pending"
    /\ \/ /\ Effective(mine[c], pc[c])
          /\ Change(mine[c], pc[c], {c})
          /\ Answer(c, "ok")
       \/ /\ \/ ~Effective(mine[c], pc[c])
                /\ Answer(c, IF pc[c] = "post" THEN "alreadyThere" ELSE "notThere")
             \/ Answer(c, "refused")
          /\ UNCHANGED <<store, did, foreign, was>>
    /\ UNCHANGED <<pc, mine, listing, cache, calls, task, outcome, late>>

ServeLate ==
    \E x \in late :
        /\ late' = late \ {x}
        /\ Effective(x.call, x.request)
        /\ Change(x.call, x.request, {})
        /\ UNCHANGED clientVars

\* GET of the paths.
ServeList(c) ==
    /\ pc[c] = "list"
    /\ reply[c] = "pending"
    /\ \/ /\ Answer(c, "ok")
          /\ listing' = [listing EXCEPT ![c] = {p \in Paths : Present(p)}]
          /\ foreign' = [foreign EXCEPT ![c] = FALSE]
       \/ Answer(c, "refused") /\ UNCHANGED <<listing, foreign>>
    /\ UNCHANGED <<pc, mine, cache, calls, task, outcome, store, late, did, was>>

Servers == ServeLate \/ \E c \in Clients : ServeChange(c) \/ ServeList(c)

-----------------------------------------------------------------------------
Next == (\E c \in Clients : Client(c)) \/ Servers

Spec == Init /\ [][Next]_vars
-----------------------------------------------------------------------------
(* Properties.                                                             *)

\* The list that a collection keeps shows every assignment and deletion that its own
\* client made with success, and is wrong only by what others did since it was fetched
\* or by calls that raised because their request broke.  (An empty submodel is listed
\* with the blank path.)
CacheShowsOwn ==
    \A c \in Clients :
        pc[c] = "idle" /\ cache[c] # None /\ ~foreign[c]
        => cache[c] = Pathes({p \in Paths : Present(p)})

\* An assignment is refused because the element exists only if the element came while
\* the assignment was going on, and a deletion or an update because it does not exist
\* only if it really was not there at some time of the call.
RefusalIsTrue ==
    [][\A c \in Clients :
          was[c] # {} /\ was'[c] = {} =>
            /\ outcome'[mine[c]] = "alreadyThere" => task[mine[c]].op = "set" /\ was[c] = BOOLEAN
            /\ outcome'[mine[c]] = "notThere" => task[mine[c]].op # "set" /\ FALSE \in was[c]]_vars

\* What callers are told, in terms of ElementStore.
Told == [k \in Calls |-> CASE outcome[k] \in Raised -> "refused"
                           [] outcome[k] = "broken" -> "unknown"
                           [] OTHER -> outcome[k]]

Store == INSTANCE ElementStore WITH result <- Told

\* Assignments, which take up to three requests, and deletions have their effect at most
\* once, before they return, and never when they are refused.
KeepsStore == Store!Spec
===============================================================================
