---------------------------- MODULE FileAttachment ----------------------------
(***************************************************************************)
(* The file that is attached to a File element, as BaseElementReference    *)
(* (mdtpy/ref/base_reference.py) handles it: clients with a reference of   *)
(* their own to the same element of an instance.                           *)
(*                                                                         *)
(* The element's value names the file; it is read and written through the  *)
(* instance manager, wherever the instance runs.  The file itself is sent  *)
(* to the instance's own server, at a URL that a reference asks for once   *)
(* and keeps.  Requests are answered, lost, or carried out after their     *)
(* sender gave up (mdtpy/fa3st.py, mdtpy/instance.py).                     *)
(***************************************************************************)
EXTENDS Naturals

CONSTANTS
    Clients,    \* the processes, each with a reference of its own
    Urls,       \* where the instance's server may run
    MaxCalls,   \* bound: calls that the clients make, all together
    None        \* no URL, no file, no name

ASSUME CallsAssumption == MaxCalls \in Nat
ASSUME NoneAssumption == None \notin Nat /\ None \notin Urls

Calls == 1 .. MaxCalls

\* The attachment methods: put_attachment, put_attachment_with_bytes,
\* delete_attachment and get_attachment.
Writing == {"put", "putBytes", "delete"}
Op == Writing \cup {"get"}

VARIABLES
    \* the clients
    pc,       \* what each client waits for
    mine,     \* the number of its last call, 0 if it made none
    reply,    \* the answer to its request, "pending" until it comes
    url,      \* the URL its reference keeps, None before it asked
    \* the calls, in the order they were made
    calls,    \* how many there were
    op,       \* the method of each
    outcome,  \* how it ended
    \* the instance and the network
    where,    \* the URL of its server, None while it does not run
    name,     \* the element's value: the call that named its file, None for null
    file,     \* the attached file: the call that sent it, None without a file
    late,     \* requests given up by their sender that may yet be carried out
    \* history
    did,      \* <<k, r>>: request r of call k was carried out
    solo      \* the writing call that no other writing request came between, 0 without one

clientVars == <<pc, mine, reply, url, calls, op, outcome>>
vars == <<clientVars, where, name, file, late, did, solo>>

\* Requests to the manager, and to the instance's server; those that change something.
ToManager == {"value", "read", "write"}
ToServer == {"upload", "unattach", "download"}
Changing == {"value", "write", "upload", "unattach"}
Waiting == ToManager \cup ToServer \cup {"url"}

\* What the element came with is 0.
Source == {None} \cup 0 .. calls

TypeOK ==
    /\ pc \in [Clients -> Waiting \cup {"idle", "open"}]
    /\ mine \in [Clients -> 0 .. calls]
    /\ reply \in [Clients -> {"pending", "ok", "refused"}]
    /\ url \in [Clients -> {None} \cup Urls]
    /\ calls \in 0 .. MaxCalls
    /\ op \in [Calls -> Op \cup {"none"}]
    /\ outcome \in [Calls -> {"none", "open", "done", "raised"}]
    /\ where \in {None} \cup Urls
    /\ name \in Source /\ file \in Source
    /\ late \subseteq [call : 1 .. calls, request : Changing, url : {None} \cup Urls]
    /\ did \subseteq (1 .. calls) \X Changing
    /\ solo \in 0 .. calls

\* A reference of resolve_reference() or from_reference_json() comes with a URL, which
\* may be out of date by now.
Init ==
    /\ pc = [c \in Clients |-> "idle"]
    /\ mine = [c \in Clients |-> 0]
    /\ reply = [c \in Clients |-> "pending"]
    /\ url \in [Clients -> {None} \cup Urls]
    /\ calls = 0
    /\ op = [k \in Calls |-> "none"]
    /\ outcome = [k \in Calls |-> "none"]
    /\ where \in {None} \cup Urls
    /\ name \in {None, 0} /\ file = name
    /\ late = {}
    /\ did = {}
    /\ solo = 0

-----------------------------------------------------------------------------
(* The clients.                                                            *)

Request(c, what) ==
    /\ pc' = [pc EXCEPT ![c] = what]
    /\ reply' = [reply EXCEPT ![c] = "pending"]

\* The call of c ends with o.
End(c, o) ==
    /\ Request(c, "idle")
    /\ outcome' = [outcome EXCEPT ![mine[c]] = o]

\* What a call does once its reference has the URL.
Direct(o) == CASE o = "put" -> "open"
               [] o = "putBytes" -> "upload"
               [] o = "delete" -> "unattach"
               [] o = "get" -> "download"

\* The part of a call that goes to the instance's server begins.
GoDirect(c, o) == Request(c, IF url[c] = None THEN "url" ELSE Direct(o))

\* Mutant: put_attachment sends the file only.
MutantStart(c, o) == IF o = "delete" THEN Request(c, "read") ELSE GoDirect(c, o)

\* put_attachment names the file first, delete_attachment reads the element first.
Start(c, o) == CASE o = "put" -> Request(c, "value")
                 [] o = "delete" -> Request(c, "read")
                 [] OTHER -> GoDirect(c, o)

Busy(c) == pc[c] # "idle" /\ op[mine[c]] \in Writing

Begin(c, o) ==
    /\ pc[c] = "idle"
    /\ calls < MaxCalls
    /\ calls' = calls + 1
    /\ op' = [op EXCEPT ![calls + 1] = o]
    /\ outcome' = [outcome EXCEPT ![calls + 1] = "open"]
    /\ mine' = [mine EXCEPT ![c] = calls + 1]
    /\ Start(c, o)
    /\ solo' = IF o \notin Writing THEN solo
               ELSE IF \E d \in Clients : Busy(d) THEN 0 ELSE calls + 1
    /\ UNCHANGED <<url, where, name, file, late, did>>

\* Mutant: put_attachment does not look at the answer to update_value().
MutantReceiveManager(c) ==
    /\ pc[c] \in ToManager
    /\ reply[c] # "pending"
    /\ IF pc[c] = "value" THEN GoDirect(c, op[mine[c]]) /\ UNCHANGED outcome
       ELSE IF reply[c] = "refused" THEN End(c, "raised")
       ELSE IF pc[c] = "write" THEN End(c, "done")
       ELSE GoDirect(c, op[mine[c]]) /\ UNCHANGED outcome
    /\ UNCHANGED <<mine, url, calls, op, where, name, file, late, did, solo>>

\* The file is named or the element is read, and the server comes next; or the element
\* is written back.
ReceiveManager(c) ==
    /\ pc[c] \in ToManager
    /\ reply[c] # "pending"
    /\ IF reply[c] = "refused" THEN End(c, "raised")
       ELSE IF pc[c] = "write" THEN End(c, "done")
       ELSE GoDirect(c, op[mine[c]]) /\ UNCHANGED outcome
    /\ UNCHANGED <<mine, url, calls, op, where, name, file, late, did, solo>>

\* Mutant: the answer is taken for the URL whatever its status.
MutantResolveUrl(c) ==
    /\ pc[c] = "url"
    /\ url' = [url EXCEPT ![c] = IF where # None THEN where ELSE "refused"]
    /\ Request(c, Direct(op[mine[c]]))
    /\ UNCHANGED <<mine, calls, op, outcome, where, name, file, late, did, solo>>

\* The manager tells where the instance runs, and the reference never asks again.
ResolveUrl(c) ==
    /\ pc[c] = "url"
    /\ \/ /\ where # None
          /\ url' = [url EXCEPT ![c] = where]
          /\ Request(c, Direct(op[mine[c]]))
          /\ UNCHANGED outcome
       \/ End(c, "raised") /\ UNCHANGED url
    /\ UNCHANGED <<mine, calls, op, where, name, file, late, did, solo>>

\* put_attachment opens the file, after it named it; there may be none.
OpenFile(c) ==
    /\ pc[c] = "open"
    /\ \/ Request(c, "upload") /\ UNCHANGED outcome
       \/ End(c, "raised")
    /\ UNCHANGED <<mine, url, calls, op, where, name, file, late, did, solo>>

\* Mutant: delete_attachment leaves the element as it is.
MutantReceiveServer(c) ==
    /\ pc[c] \in ToServer
    /\ reply[c] # "pending"
    /\ End(c, IF reply[c] = "refused" THEN "raised" ELSE "done")
    /\ UNCHANGED <<mine, url, calls, op, where, name, file, late, did, solo>>

\* After the file is deleted, delete_attachment writes the element back without value.
ReceiveServer(c) ==
    /\ pc[c] \in ToServer
    /\ reply[c] # "pending"
    /\ IF reply[c] = "refused" THEN End(c, "raised")
       ELSE IF pc[c] = "unattach" THEN Request(c, "write") /\ UNCHANGED outcome
       ELSE End(c, "done")
    /\ UNCHANGED <<mine, url, calls, op, where, name, file, late, did, solo>>

\* The connection breaks or the time limit of the request runs out; there is no other
\* end of a request to a server that is not there.
RequestFails(c) ==
    /\ pc[c] \in Waiting
    /\ End(c, "raised")
    /\ late' = IF pc[c] \in Changing /\ reply[c] = "pending"
               THEN late \cup {[call |-> mine[c], request |-> pc[c],
                                url |-> IF pc[c] \in ToServer THEN url[c] ELSE None]}
               ELSE late
    /\ UNCHANGED <<mine, url, calls, op, where, name, file, did, solo>>

Client(c) == \/ \E o \in Op : Begin(c, o)
             \/ ReceiveManager(c) \/ ResolveUrl(c) \/ OpenFile(c) \/ ReceiveServer(c)
             \/ RequestFails(c)

-----------------------------------------------------------------------------
(* The manager, the instance and the network.                              *)

\* Whether a request sent to u gets to the instance; the manager, which has no URL
\* here, knows where it runs.
Reaches(r, u) == where # None /\ (r \in ToServer => u = where)

\* Request r of call k is carried out.  With the file itself, the server may or may not
\* look after the element's value: nothing here depends on it.
Effect(k, r) ==
    /\ \/ r \in {"value", "upload"} /\ name' = k
       \/ r \in {"write", "unattach"} /\ name' = None
       \/ r \notin {"value", "write"} /\ UNCHANGED name
    /\ file' = CASE r = "upload" -> k
                 [] r = "unattach" -> None
                 [] OTHER -> file
    /\ did' = IF r \in Changing THEN did \cup {<<k, r>>} ELSE did

Answer(c, r) == reply' = [reply EXCEPT ![c] = r]

Serve(c) ==
    /\ pc[c] \in ToManager \cup ToServer
    /\ reply[c] = "pending"
    /\ \/ /\ Reaches(pc[c], url[c])
          /\ Effect(mine[c], pc[c])
          /\ Answer(c, "ok")
       \/ /\ pc[c] \in ToServer => Reaches(pc[c], url[c])
          /\ Answer(c, "refused")
          /\ UNCHANGED <<name, file, did>>
    /\ UNCHANGED <<pc, mine, url, calls, op, outcome, where, late, solo>>

ServeLate ==
    \E x \in late :
        /\ late' = late \ {x}
        /\ Reaches(x.request, x.url)
        /\ Effect(x.call, x.request)
        /\ solo' = 0
        /\ UNCHANGED <<clientVars, where>>

\* The instance stops, or starts somewhere; it keeps its elements.
Move ==
    /\ \E u \in {None} \cup Urls : u # where /\ where' = u
    /\ UNCHANGED <<clientVars, name, file, late, did, solo>>

Servers == ServeLate \/ Move \/ \E c \in Clients : Serve(c)

-----------------------------------------------------------------------------
Next == (\E c \in Clients : Client(c)) \/ Servers

Spec == Init /\ [][Next]_vars
-----------------------------------------------------------------------------
(* Properties.                                                             *)

\* A method that returns has done all of its work, in both places, wherever the instance
\* moved meanwhile, unless another writing call overlapped or a request given up earlier
\* came in between; and it stays so until the next one.
SoloTakesEffect ==
    \A k \in Calls :
        solo = k /\ outcome[k] = "done"
        => CASE op[k] = "put" -> name = k /\ file = k
             [] op[k] = "putBytes" -> file = k
             [] op[k] = "delete" -> name = None /\ file = None

\* The requests that may yet be carried out, in terms of AttachmentStore.
Behind == {<<x.call, x.request>> : x \in late}

Store == INSTANCE AttachmentStore WITH behind <- Behind

\* The requests of a method take effect at most once and in their order, however they are
\* lost, delayed or overtaken: put_attachment never attaches a file that it has not named
\* before, and delete_attachment clears no element whose file it has not deleted.
KeepsStore == Store!Spec
===============================================================================
