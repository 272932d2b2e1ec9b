---------------------------- MODULE AttachmentStore ----------------------------
(***************************************************************************)
(* What the attachment methods promise, whatever other clients, the        *)
(* network and moves of the instance do.  A method works on two places,    *)
(* the element and its file, part by part: each part takes effect at most  *)
(* once and in one moment, and never before the part ahead of it; a method *)
(* that returns had all of its effects before; one that raises leaves at   *)
(* most one part that may still take effect.                               *)
(***************************************************************************)
EXTENDS Naturals

CONSTANTS MaxCalls, None

VARIABLES name,    \* the element's value: the call that named its file, None for null
          file,    \* the attached file: the call that sent it, None without a file
          op,      \* op[k]: the method of the k-th call
          did,     \* <<k, r>>: part r of the k-th call took effect
          behind,  \* <<k, r>>: part r of the k-th call may still do so, though it raised
          outcome  \* outcome[k]: what the k-th call told its caller

vars == <<name, file, op, did, behind, outcome>>

Calls == 1 .. MaxCalls

\* The parts of a method, and the ones that come before a part.
Parts(o) == CASE o = "put" -> {"value", "upload"}
              [] o = "putBytes" -> {"upload"}
              [] o = "delete" -> {"unattach", "write"}
              [] OTHER -> {}

Ahead(o, r) == CASE o = "put" /\ r = "upload" -> {"value"}
                 [] o = "delete" /\ r = "write" -> {"unattach"}
                 [] OTHER -> {}

Init == /\ name \in {None, 0}
        /\ file = name
        /\ op = [k \in Calls |-> "none"]
        /\ did = {}
        /\ behind = {}
        /\ outcome = [k \in Calls |-> "none"]

Begin(k) == /\ outcome[k] = "none"
            /\ \E o \in {"put", "putBytes", "delete", "get"} : op' = [op EXCEPT ![k] = o]
            /\ outcome' = [outcome EXCEPT ![k] = "open"]
            /\ UNCHANGED <<name, file, did, behind>>

\* Part r of call k is next.
Due(k, r) == /\ r \in Parts(op[k])
             /\ <<k, r>> \notin did
             /\ \A q \in Ahead(op[k], r) : <<k, q>> \in did

\* With the file itself, the element's value may or may not change.
Apply(k, r) ==
    /\ Due(k, r)
    /\ outcome[k] = "open" \/ <<k, r>> \in behind
    /\ did' = did \cup {<<k, r>>}
    /\ behind' = behind \ {<<k, r>>}
    /\ CASE r = "value"    -> name' = k /\ file' = file
         [] r = "write"    -> name' = None /\ file' = file
         [] r = "upload"   -> name' \in {name, k} /\ file' = k
         [] r = "unattach" -> name' \in {name, None} /\ file' = None
    /\ UNCHANGED <<op, outcome>>

Return(k) == /\ outcome[k] = "open"
             /\ \A r \in Parts(op[k]) : <<k, r>> \in did
             /\ outcome' = [outcome EXCEPT ![k] = "done"]
             /\ UNCHANGED <<name, file, op, did, behind>>

Raise(k) == /\ outcome[k] = "open"
            /\ outcome' = [outcome EXCEPT ![k] = "raised"]
            /\ \/ UNCHANGED behind
               \/ \E r \in Parts(op[k]) : Due(k, r) /\ behind' = behind \cup {<<k, r>>}
            /\ UNCHANGED <<name, file, op, did>>

Next == \E k \in Calls : \/ Begin(k) \/ Return(k) \/ Raise(k)
                         \/ \E r \in Parts(op[k]) : Apply(k, r)

Spec == Init /\ [][Next]_vars
================================================================================
